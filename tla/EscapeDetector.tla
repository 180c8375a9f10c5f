--------------------------- MODULE EscapeDetector ---------------------------
(***************************************************************************)
(* The detector of a double Escape (internal/client/escape.go).  A byte is *)
(* known by its place among the bytes typed, NoByte is none.  Time is      *)
(* reduced to the one question the code asks of it: whether the Escape     *)
(* that is held arrived less than the timeout ago.                         *)
(***************************************************************************)
EXTENDS Naturals, Sequences

NoByte == 0

VARIABLES
    pending,  \* the Escape that is held, or NoByte
    fresh     \* it arrived less than the timeout ago

escVars == <<pending, fresh>>

NewEscapeDetector == pending' = NoByte /\ fresh' = FALSE

Held == IF pending = NoByte THEN << >> ELSE <<pending>>

BugForget == UNCHANGED escVars

Forget == pending' = NoByte /\ fresh' = FALSE

(* Feed of an Escape.  Once the timeout has passed the second one takes    *)
(* the place of the first, which is not passed on.                         *)
IsSecond == pending # NoByte /\ fresh

Hold(b) == ~IsSecond /\ pending' = b /\ fresh' = TRUE

BugAfter(b) == <<b>> \o Held
BugOnlyByte(b) == <<b>>

(* Feed of any other byte: a held Escape goes before it.                   *)
PassThrough(b) == Held \o <<b>>

(* Flush: what a held Escape becomes when its timeout has passed.          *)
Flushed == IF fresh THEN << >> ELSE Held

(* The timeout passes.                                                     *)
Age == pending # NoByte /\ fresh /\ fresh' = FALSE /\ UNCHANGED pending

=============================================================================
