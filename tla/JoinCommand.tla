---------------------------- MODULE JoinCommand ----------------------------
(***************************************************************************)
(* The command `keytun join` (cmd/join.go): it dials until it gets a       *)
(* session, forwards what is typed until the connection ends, and dials    *)
(* again.  Every input loop starts a goroutine that reads stdin into a     *)
(* channel of capacity one.  Nothing stops that goroutine: after a         *)
(* reconnection it competes for the terminal with its successor, and       *)
(* nobody receives from its channel any more.                              *)
(*                                                                         *)
(* A byte is its place among the bytes typed.  The length of a pause       *)
(* between two attempts (backoffDelay) is left out: a pause ends.          *)
(***************************************************************************)
EXTENDS EscapeDetector, Functions

CONSTANTS
    MaxBytes,  \* bound on the bytes typed
    MaxLoops   \* bound on the input loops, one for each connection

ASSUME BoundsNat == MaxBytes \in Nat /\ MaxLoops \in Nat

Loops == 1..MaxLoops

VARIABLES
    phase,         \* where the command is
    outcome,       \* why it has returned, "none" before
    firstConnect,  \* no session has been joined yet
    passwordRight, \* --password is that of the session
    session,       \* the session at the relay: "open" or "gone"
    conn,          \* the connection of the current client
    loop,          \* how many input loops have been started
    kind,          \* what was typed: "escape" or "other", in order
    tty,           \* the bytes typed that nobody has read yet
    stdinOk,       \* reading stdin does not fail
    read,          \* what the reader of each loop is about to send
    stdinCh,       \* the channel of each loop, empty or one chunk
    chunk,         \* the bytes of the received chunk not fed yet
    busy,          \* the loop is handling a chunk
    sent,          \* the bytes SendInput has written, in order
    taker,         \* for checking: the loop whose reader took each byte
    stolen,        \* for checking: reads by a reader after its loop ended
    pressed        \* for checking: the two Escapes that disconnected

command == <<phase, outcome, firstConnect>>
given == <<passwordRight, session>>
world == <<given, conn>>
input == <<kind, tty, stdinOk>>
reader == <<read, stdinCh>>
handling == <<chunk, busy, pending, fresh>>
checking == <<taker, stolen, pressed>>

vars == <<command, world, loop, input, reader, handling, sent, checking>>

Phase == {"dialing", "sleeping", "looping", "exited"}
Outcome == {"none", "wrong password", "failed", "session ended",
            "disconnected", "stdin"}
Conn == {"none", "up", "lost", "closed"}
Failed == <<NoByte>>  \* what a reader sends when stdin fails

Init ==
    /\ phase = "dialing" /\ outcome = "none" /\ firstConnect = TRUE
    /\ passwordRight \in BOOLEAN /\ session = "open" /\ conn = "none"
    /\ loop = 0
    /\ kind = << >> /\ tty = << >> /\ stdinOk = TRUE
    /\ read = [g \in Loops |-> << >>] /\ stdinCh = [g \in Loops |-> << >>]
    /\ chunk = << >> /\ busy = FALSE /\ pending = NoByte /\ fresh = FALSE
    /\ sent = << >>
    /\ taker = << >> /\ stolen = [g \in Loops |-> 0] /\ pressed = << >>

Exit(why) == phase' = "exited" /\ outcome' = why

---------------------------------------------------------------------------
(* Dialing: client.New and what the loop makes of its error.               *)

DialErrors ==
    {"network", "too many requests"}
        \cup (IF session = "gone" THEN {"session not found"} ELSE {})
        \cup (IF session = "open" /\ ~passwordRight
                THEN {"wrong session password"} ELSE {})

BugIsSessionGone(err) == err = "no such session"

IsSessionGone(err) == err \in {"session not found", "no such session"}

IsPasswordError(err) == err = "wrong session password"

BugGoesOn(err) ==
    /\ phase = "dialing"
    /\ phase' = "sleeping"
    /\ outcome' = IF IsPasswordError(err) THEN "wrong password" ELSE outcome
    /\ UNCHANGED <<firstConnect, world, loop, input, reader, handling, sent,
                   checking>>

DialFails(err) ==
    /\ phase = "dialing"
    /\ IF IsPasswordError(err) THEN Exit("wrong password")
       ELSE IF IsSessionGone(err)
              THEN Exit(IF firstConnect THEN "failed" ELSE "session ended")
              ELSE phase' = "sleeping" /\ UNCHANGED outcome
    /\ UNCHANGED <<firstConnect, world, loop, input, reader, handling, sent,
                   checking>>

Wake ==
    /\ phase = "sleeping"
    /\ phase' = "dialing"
    /\ UNCHANGED <<outcome, firstConnect, world, loop, input, reader, handling,
                   sent, checking>>

(* A new client, and with it a new input loop: detector, channel, reader.  *)
Connected ==
    /\ phase = "dialing" /\ session = "open" /\ passwordRight
    /\ loop < MaxLoops
    /\ phase' = "looping"
    /\ firstConnect' = FALSE
    /\ conn' = "up"
    /\ loop' = loop + 1
    /\ NewEscapeDetector
    /\ UNCHANGED <<outcome, given, input, reader, chunk, busy, sent, checking>>

(* runInputLoop returns at once if the terminal cannot be made raw.        *)
RawModeFails ==
    /\ phase = "dialing" /\ session = "open" /\ passwordRight
    /\ Exit("stdin")
    /\ firstConnect' = FALSE
    /\ UNCHANGED <<world, loop, input, reader, handling, sent, checking>>

---------------------------------------------------------------------------
(* The goroutine of loop g that reads stdin.                               *)

Took(g, n) ==
    /\ taker' = taker \o [i \in 1..n |-> g]
    /\ stolen' = IF g = loop /\ phase = "looping" THEN stolen
                 ELSE [stolen EXCEPT ![g] = @ + 1]
    /\ UNCHANGED pressed

ReadStdin(g) ==
    /\ g <= loop /\ phase # "exited"
    /\ read[g] = << >> /\ stdinOk
    /\ \E n \in 1..Len(tty) :
         /\ read' = [read EXCEPT ![g] = SubSeq(tty, 1, n)]
         /\ tty' = SubSeq(tty, n + 1, Len(tty))
         /\ Took(g, n)
    /\ UNCHANGED <<command, world, loop, kind, stdinOk, stdinCh, handling,
                   sent>>

(* After an error it sends the error and returns; it is sent once, as the  *)
(* reader keeps the error in hand for ever.                                *)
ReadError(g) ==
    /\ g <= loop /\ phase # "exited"
    /\ read[g] = << >> /\ ~stdinOk
    /\ read' = [read EXCEPT ![g] = Failed]
    /\ UNCHANGED <<command, world, loop, input, stdinCh, handling, sent,
                   checking>>

BugQueueGrows(g) ==
    /\ read[g] # << >> /\ phase # "exited"
    /\ Failed \in {read[g], stdinCh[g]} => stdinCh[g] = << >>
    /\ stdinCh' = [stdinCh EXCEPT ![g] = @ \o read[g]]
    /\ read' = [read EXCEPT ![g] = << >>]
    /\ UNCHANGED <<command, world, loop, input, handling, sent, checking>>

SendChunk(g) ==
    /\ read[g] # << >> /\ stdinCh[g] = << >> /\ phase # "exited"
    /\ stdinCh' = [stdinCh EXCEPT ![g] = read[g]]
    /\ read' = [read EXCEPT ![g] = << >>]
    /\ UNCHANGED <<command, world, loop, input, handling, sent, checking>>

---------------------------------------------------------------------------
(* The input loop.  Whatever it was handling is dropped when it returns.   *)

LeaveLoop ==
    /\ conn' = "none"
    /\ chunk' = << >> /\ busy' = FALSE
    /\ Forget

ConnectionLost == phase' = "sleeping" /\ UNCHANGED outcome /\ LeaveLoop

ConnectionDone ==
    /\ phase = "looping" /\ ~busy
    /\ conn = "closed"
    /\ ConnectionLost
    /\ UNCHANGED <<firstConnect, given, loop, input, reader, sent, checking>>

Receive ==
    /\ phase = "looping" /\ ~busy
    /\ stdinCh[loop] \notin {<< >>, Failed}
    /\ chunk' = stdinCh[loop] /\ busy' = TRUE
    /\ stdinCh' = [stdinCh EXCEPT ![loop] = << >>]
    /\ UNCHANGED <<command, world, loop, input, read, escVars, sent, checking>>

ReceiveError ==
    /\ phase = "looping" /\ ~busy
    /\ stdinCh[loop] = Failed
    /\ Exit("stdin") /\ LeaveLoop
    /\ UNCHANGED <<firstConnect, given, loop, input, reader, sent, checking>>

BugFirstOnly(out) ==
    /\ conn \in {"up", "lost"}
    /\ sent' = Append(sent, out[1])
    /\ UNCHANGED <<phase, outcome, conn>>
    /\ Forget

(* SendInput of each byte of out: a connection that is down may fail any   *)
(* of the writes, and swallows those before it.                            *)
Sends(out) ==
    /\ conn \in {"up", "lost"}
    /\ sent' = sent \o out
    /\ UNCHANGED <<phase, outcome, conn>>
    /\ Forget

SendFails(out) ==
    /\ conn \in {"lost", "closed"}
    /\ \E n \in 0..(Len(out) - 1) :
         /\ n > 0 => conn = "lost"
         /\ sent' = sent \o SubSeq(out, 1, n)
    /\ ConnectionLost

Feeding(k) == phase = "looping" /\ chunk # << >> /\ kind[Head(chunk)] = k

FeedOther ==
    /\ Feeding("other")
    /\ LET out == PassThrough(Head(chunk)) IN
         \/ Sends(out) /\ chunk' = Tail(chunk) /\ UNCHANGED busy
         \/ SendFails(out)
    /\ UNCHANGED <<firstConnect, given, loop, input, reader, checking>>

FeedEscape ==
    /\ Feeding("escape")
    /\ Hold(Head(chunk))
    /\ chunk' = Tail(chunk)
    /\ UNCHANGED <<command, world, loop, input, reader, busy, sent, checking>>

FeedSecondEscape ==
    /\ Feeding("escape") /\ IsSecond
    /\ pressed' = <<pending, Head(chunk)>>
    /\ Exit("disconnected") /\ LeaveLoop
    /\ UNCHANGED <<firstConnect, given, loop, input, reader, sent, taker,
                   stolen>>

(* After the last byte of a chunk: Flush.                                  *)
FlushEscape ==
    /\ phase = "looping" /\ busy /\ chunk = << >>
    /\ \/ /\ Flushed = << >>
          /\ busy' = FALSE
          /\ UNCHANGED <<phase, outcome, conn, chunk, escVars, sent>>
       \/ /\ Flushed # << >>
          /\ Sends(Flushed)
          /\ busy' = FALSE /\ UNCHANGED chunk
       \/ /\ Flushed # << >>
          /\ SendFails(Flushed)
    /\ UNCHANGED <<firstConnect, given, loop, input, reader, checking>>

---------------------------------------------------------------------------
(* The connection: it is lost, by the network or because the relay closes  *)
(* the members of a session that ends, and then the client's read loop     *)
(* notices and closes it.                                                  *)

Drop ==
    /\ conn = "up"
    /\ conn' = "lost"
    /\ UNCHANGED <<command, given, loop, input, reader, handling, sent,
                   checking>>

SessionEnds ==
    /\ session = "open"
    /\ session' = "gone"
    /\ UNCHANGED <<command, passwordRight, conn, loop, input, reader, handling,
                   sent, checking>>

CloseClient ==
    /\ conn = "lost"
    /\ conn' = "closed"
    /\ UNCHANGED <<command, given, loop, input, reader, handling, sent,
                   checking>>

(* The user, the terminal and the clock.                                   *)
Type ==
    /\ Len(kind) < MaxBytes /\ phase # "exited"
    /\ \E k \in {"escape", "other"} : kind' = Append(kind, k)
    /\ tty' = Append(tty, Len(kind) + 1)
    /\ UNCHANGED <<command, world, loop, stdinOk, reader, handling, sent,
                   checking>>

StdinFails ==
    /\ stdinOk /\ phase # "exited"
    /\ stdinOk' = FALSE
    /\ UNCHANGED <<command, world, loop, kind, tty, reader, handling, sent,
                   checking>>

TimeoutPasses ==
    /\ Age
    /\ UNCHANGED <<command, world, loop, input, reader, chunk, busy, sent,
                   checking>>

---------------------------------------------------------------------------
InputLoop ==
    \/ ConnectionDone \/ Receive \/ ReceiveError
    \/ FeedOther \/ FeedEscape \/ FeedSecondEscape \/ FlushEscape

Dial == Connected \/ RawModeFails \/ \E err \in DialErrors : DialFails(err)

Next ==
    \/ Dial \/ Wake
    \/ \E g \in Loops : ReadStdin(g) \/ ReadError(g) \/ SendChunk(g)
    \/ InputLoop
    \/ Drop \/ SessionEnds \/ CloseClient
    \/ Type \/ StdinFails \/ TimeoutPasses

Spec == Init /\ [][Next]_vars

(* The goroutines run, the client notices a lost connection, pauses end,   *)
(* and the relay closes the members of a session that has ended.  Neither  *)
(* the network nor the rate limiter stands in the way for ever.            *)
Answered ==
    \E err \in DialErrors \ {"network", "too many requests"} : DialFails(err)

Fairness ==
    /\ SF_vars(Answered)
    /\ WF_vars(Dial) /\ WF_vars(Wake)
    /\ \A g \in Loops :
         /\ WF_vars(ReadStdin(g) \/ ReadError(g))
         /\ WF_vars(SendChunk(g))
    /\ WF_vars(InputLoop)
    /\ WF_vars(session = "gone" /\ Drop) /\ WF_vars(CloseClient)

FairSpec == Spec /\ Fairness

---------------------------------------------------------------------------
Bytes == 1..MaxBytes

TypeOK ==
    /\ phase \in Phase /\ outcome \in Outcome /\ firstConnect \in BOOLEAN
    /\ outcome = "none" <=> phase # "exited"
    /\ passwordRight \in BOOLEAN
    /\ session \in {"open", "gone"} /\ conn \in Conn
    /\ loop \in 0..MaxLoops
    /\ kind \in Seq({"escape", "other"}) /\ tty \in Seq(Bytes)
    /\ stdinOk \in BOOLEAN
    /\ read \in [Loops -> Seq(Bytes) \cup {Failed}]
    /\ stdinCh \in [Loops -> Seq(Bytes) \cup {Failed}]
    /\ chunk \in Seq(Bytes) /\ busy \in BOOLEAN
    /\ pending \in Bytes \cup {NoByte} /\ fresh \in BOOLEAN
    /\ sent \in Seq(Bytes)
    /\ taker \in Seq(Loops) /\ stolen \in [Loops -> Nat]
    /\ pressed \in Seq(Bytes)

(* Over all connections the bytes are sent in the order they were typed,   *)
(* and none twice: a held Escape goes before the byte that releases it,    *)
(* and what a lost connection left over does not come back.                *)
SentInOrder ==
    \A i, j \in DOMAIN sent : i < j => sent[i] < sent[j]

(* What the current loop's reader has taken is sent, held, or on its way.  *)
(* The one exception is an Escape that was still held when the next byte   *)
(* of this loop was an Escape too (escape.go:42).                          *)
OnItsWay ==
    Range(read[loop]) \cup Range(stdinCh[loop]) \cup Range(chunk)
        \cup {pending} \cup Range(sent)

Overtaken(i) ==
    /\ kind[i] = "escape"
    /\ \E j \in DOMAIN taker :
         /\ i < j /\ taker[j] = loop /\ kind[j] = "escape"
         /\ \A m \in (i + 1)..(j - 1) : taker[m] # loop

Accounted ==
    phase = "looping" =>
        \A i \in DOMAIN taker :
            taker[i] = loop => i \in OnItsWay \/ Overtaken(i)

(* A reader that outlives its loop takes at most two chunks from the       *)
(* terminal before it blocks for ever: that many reads of the user's       *)
(* keystrokes are lost for each reconnection, beside the chunks that the   *)
(* loop itself had not sent yet when it ended.                             *)
LossBounded == \A g \in Loops : stolen[g] <= 2

(* Only two Escapes with nothing between them, among the bytes this loop   *)
(* received, disconnect: not one from before a reconnection and one from   *)
(* after it.                                                               *)
DisconnectMeant ==
    outcome = "disconnected" =>
        /\ kind[pressed[1]] = "escape" /\ kind[pressed[2]] = "escape"
        /\ \A m \in pressed[1]..pressed[2] :
             taker[m] = loop => m \in {pressed[1], pressed[2]}
        /\ taker[pressed[1]] = loop /\ taker[pressed[2]] = loop

(* When the session ends the command returns: the loop notices, and the    *)
(* next attempt is told that there is no such session.                     *)
EndsWithSession == session = "gone" ~> phase = "exited"

(* Once the readers left behind are blocked, a byte that is waiting in the *)
(* terminal is sent, unless the loop ends first.                           *)
Stuck(g) == read[g] # << >> /\ stdinCh[g] # << >>

ByteSent ==
    \A i \in Bytes :
        (/\ i \in Range(tty) /\ kind[i] = "other" /\ phase = "looping"
         /\ \A g \in Loops : g < loop => Stuck(g))
            ~> i \in Range(sent) \/ phase # "looping" \/ ~stdinOk

=============================================================================
