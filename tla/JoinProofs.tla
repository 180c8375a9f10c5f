----------------------------- MODULE JoinProofs -----------------------------
(***************************************************************************)
(* Proofs about JoinCommand: what the input loops of successive            *)
(* connections send, drop and leave behind, and what disconnects.          *)
(***************************************************************************)
EXTENDS JoinCommand, SequenceTheorems, TLAPS

---------------------------------------------------------------------------
(* Sequences of bytes: what they hold, and that they rise.                 *)

Carries(s) == Range(s) \ {NoByte}

Rising(s) == \A i, j \in 1..Len(s) : i < j => s[i] < s[j]

Below(A, B) == \A a \in A, b \in B : a < b

LEMMA Elements ==
    ASSUME NEW s \in Seq(Nat)
    PROVE  /\ Len(s) \in Nat
           /\ DOMAIN s = 1..Len(s)
           /\ \A i \in 1..Len(s) : s[i] \in Nat /\ s[i] \in Range(s)
           /\ \A b \in Range(s) : \E i \in 1..Len(s) : b = s[i]
           /\ Range(s) \subseteq Nat
  <1>1. Range(s) = {s[i] : i \in 1..Len(s)}
    BY RangeEquality
  <1>2. Len(s) \in Nat /\ DOMAIN s = 1..Len(s)
    BY LenProperties
  <1>3. \A i \in 1..Len(s) : s[i] \in Nat
    BY ElementOfSeq
  <1> QED BY <1>1, <1>2, <1>3

(* The empty sequence, one byte, and the error a reader sends.             *)
LEMMA Singles ==
    /\ << >> \in Seq(Nat) /\ Range(<< >>) = {} /\ Carries(<< >>) = {}
    /\ Rising(<< >>)
    /\ \A b \in Nat : <<b>> \in Seq(Nat) /\ Range(<<b>>) = {b} /\ Rising(<<b>>)
    /\ Failed \in Seq(Nat) /\ Carries(Failed) = {} /\ Rising(Failed)
  <1>1. << >> \in Seq(Nat) /\ Len(<< >>) = 0
    BY EmptySeq
  <1>2. Range(<< >>) = {}
    <2>1. \A b \in Range(<< >>) : \E i \in 1..0 : b = << >>[i]
      BY <1>1, Elements
    <2> QED BY <2>1
  <1>3. ASSUME NEW b \in Nat
        PROVE  <<b>> \in Seq(Nat) /\ Range(<<b>>) = {b} /\ Rising(<<b>>)
    <2>1. <<b>> \in Seq(Nat) /\ Len(<<b>>) = 1 /\ <<b>>[1] = b
      OBVIOUS
    <2>2. /\ \A i \in 1..1 : <<b>>[i] \in Range(<<b>>)
          /\ \A c \in Range(<<b>>) : \E i \in 1..1 : c = <<b>>[i]
      BY <2>1, Elements
    <2>3. \A i, j \in 1..1 : ~(i < j)
      OBVIOUS
    <2>4. Rising(<<b>>)
      BY <2>1, <2>3 DEF Rising
    <2> QED BY <2>1, <2>2, <2>4
  <1>4. Rising(<< >>)
    BY <1>1 DEF Rising
  <1> QED BY <1>1, <1>2, <1>3, <1>4 DEF Carries, Rising, Failed, NoByte

LEMMA Taking ==
    ASSUME NEW s \in Seq(Nat), NEW n \in 0..Len(s), Rising(s)
    PROVE  /\ SubSeq(s, 1, n) \in Seq(Nat)
           /\ Rising(SubSeq(s, 1, n))
           /\ Range(SubSeq(s, 1, n)) \subseteq Range(s)
  <1> DEFINE r == SubSeq(s, 1, n)
  <1>1. /\ Len(s) \in Nat /\ n \in Int /\ n <= Len(s)
        /\ \A i \in 1..n : i \in 1..Len(s) /\ s[i] \in Nat /\ s[i] \in Range(s)
        /\ n - 1 + 1 = n
    <2>1. Len(s) \in Nat
      BY Elements
    <2>2. \A i \in 1..Len(s) : s[i] \in Nat /\ s[i] \in Range(s)
      BY Elements
    <2> QED BY <2>1, <2>2
  <1>2. /\ r \in Seq(Nat)
        /\ Len(r) = n
        /\ \A i \in 1..n : r[i] = s[i]
    BY <1>1, SubSeqProperties
  <1> HIDE DEF r
  <1>3. Rising(r)
    <2>1. \A i, j \in 1..Len(s) : i < j => s[i] < s[j]
      BY DEF Rising
    <2>2. \A i, j \in 1..n : i < j => r[i] < r[j]
      BY <1>1, <1>2, <2>1
    <2> QED BY <1>2, <2>2 DEF Rising
  <1>4. Range(r) \subseteq Range(s)
    <2>1. \A b \in Range(r) : \E i \in 1..n : b = r[i]
      BY <1>2, Elements
    <2> QED BY <1>1, <1>2, <2>1
  <1> QED BY <1>2, <1>3, <1>4 DEF r

LEMMA Joining ==
    ASSUME NEW s \in Seq(Nat), NEW t \in Seq(Nat)
    PROVE  /\ s \o t \in Seq(Nat)
           /\ Range(s \o t) = Range(s) \cup Range(t)
           /\ Rising(s) /\ Rising(t) /\ Below(Range(s), Range(t)) => Rising(s \o t)
  <1>1. /\ s \o t \in Seq(Nat)
        /\ Len(s \o t) = Len(s) + Len(t)
        /\ \A i \in 1..(Len(s) + Len(t)) :
             (s \o t)[i] = IF i <= Len(s) THEN s[i] ELSE t[i - Len(s)]
    BY ConcatProperties
  <1>2. Range(s \o t) = Range(s) \cup Range(t)
    BY RangeConcatenation
  <1>3. ASSUME Rising(s), Rising(t), Below(Range(s), Range(t))
        PROVE  Rising(s \o t)
    <2> DEFINE r == s \o t
               k == Len(s)
               l == Len(t)
    <2>1. k \in Nat /\ l \in Nat /\ Len(r) = k + l
      BY <1>1, Elements
    <2>2. \A i \in 1..k : s[i] \in Range(s)
      BY Elements
    <2>3. \A i \in 1..l : t[i] \in Range(t)
      BY Elements
    <2>4. \A i \in 1..(k + l) : r[i] = IF i <= k THEN s[i] ELSE t[i - k]
      BY <1>1
    <2>5. \A i, j \in 1..k : i < j => s[i] < s[j]
      BY <1>3 DEF Rising
    <2>6. \A i, j \in 1..l : i < j => t[i] < t[j]
      BY <1>3 DEF Rising
    <2> HIDE DEF r, k, l
    <2> SUFFICES ASSUME NEW i \in 1..(k + l), NEW j \in 1..(k + l), i < j
                 PROVE  r[i] < r[j]
      BY <2>1 DEF Rising, r
    <2>7. CASE j <= k
      BY <2>1, <2>4, <2>5, <2>7
    <2>8. CASE i > k
      <3>1. i - k \in 1..l /\ j - k \in 1..l /\ i - k < j - k
        BY <2>1, <2>8
      <3> QED BY <2>1, <2>4, <2>6, <2>8, <3>1
    <2>9. CASE i <= k /\ j > k
      <3>1. i \in 1..k /\ j - k \in 1..l
        BY <2>1, <2>9
      <3>2. s[i] < t[j - k]
        BY <1>3, <2>2, <2>3, <3>1 DEF Below
      <3> QED BY <2>1, <2>4, <2>9, <3>2
    <2> QED BY <2>1, <2>7, <2>8, <2>9
  <1> QED BY <1>1, <1>2, <1>3

LEMMA First ==
    ASSUME NEW s \in Seq(Nat), s # << >>, Rising(s)
    PROVE  /\ Head(s) \in Nat
           /\ Tail(s) \in Seq(Nat)
           /\ Rising(Tail(s))
           /\ Range(s) = {Head(s)} \cup Range(Tail(s))
           /\ Below({Head(s)}, Range(Tail(s)))
  <1> DEFINE r == Tail(s)
             n == Len(s)
  <1>1. n \in Nat \ {0}
    BY EmptySeq
  <1>2. /\ r \in Seq(Nat)
        /\ Len(r) = n - 1
        /\ \A i \in 1..Len(r) : r[i] = s[i + 1]
    BY HeadTailProperties
  <1>3. Head(s) = s[1] /\ Head(s) \in Nat
    BY <1>1, Elements
  <1>4. /\ \A i \in 1..n : s[i] \in Range(s)
        /\ \A b \in Range(s) : \E i \in 1..n : b = s[i]
    BY Elements
  <1>5. /\ \A i \in 1..Len(r) : r[i] \in Range(r)
        /\ \A b \in Range(r) : \E i \in 1..Len(r) : b = r[i]
    BY <1>2, Elements
  <1>6. \A i, j \in 1..n : i < j => s[i] < s[j]
    BY DEF Rising
  <1> HIDE DEF r, n
  <1>7. Rising(r)
    BY <1>1, <1>2, <1>6 DEF Rising
  <1>8. Range(s) \subseteq {Head(s)} \cup Range(r)
    <2> SUFFICES ASSUME NEW i \in 1..n, i # 1 PROVE s[i] \in Range(r)
      BY <1>3, <1>4
    <2>1. i - 1 \in 1..Len(r) /\ r[i - 1] = s[i]
      BY <1>1, <1>2
    <2> QED BY <1>5, <2>1
  <1>9. {Head(s)} \cup Range(r) \subseteq Range(s) /\ Below({Head(s)}, Range(r))
    <2> SUFFICES ASSUME NEW i \in 1..Len(r)
                 PROVE  r[i] \in Range(s) /\ s[1] < r[i]
      BY <1>1, <1>3, <1>4, <1>5 DEF Below
    <2>1. i + 1 \in 1..n /\ 1 < i + 1 /\ r[i] = s[i + 1]
      BY <1>1, <1>2
    <2> QED BY <1>1, <1>4, <1>6, <2>1
  <1> QED BY <1>2, <1>3, <1>7, <1>8, <1>9 DEF r

---------------------------------------------------------------------------
(* Types.                                                                  *)

(* Outside a loop nothing is being handled, and no Escape is held.         *)
Resting ==
    /\ phase = "looping" => loop # 0
    /\ phase # "looping" => ~busy /\ pending = NoByte
    /\ ~busy => chunk = << >>

Typed == TypeOK /\ Resting

LEMMA OutputTyped ==
    ASSUME TypeOK
    PROVE  /\ Held \in Seq(Bytes) /\ Flushed \in Seq(Bytes)
           /\ \A b \in Bytes : PassThrough(b) \in Seq(Bytes)
  <1>1. pending # NoByte => pending \in Bytes
    BY DEF TypeOK
  <1>2. << >> \in Seq(Bytes) /\ \A b \in Bytes : <<b>> \in Seq(Bytes)
    BY EmptySeq
  <1>3. Held \in Seq(Bytes)
    BY <1>1, <1>2 DEF Held
  <1> QED BY <1>2, <1>3, ConcatProperties DEF Flushed, PassThrough

LEMMA SentTyped ==
    ASSUME TypeOK, NEW out \in Seq(Bytes), Sends(out) \/ SendFails(out)
    PROVE  sent' \in Seq(Bytes)
  <1>1. CASE Sends(out)
    BY <1>1, ConcatProperties DEF Sends, TypeOK
  <1>2. CASE SendFails(out)
    <2>1. PICK n \in 0..(Len(out) - 1) : sent' = sent \o SubSeq(out, 1, n)
      BY <1>2 DEF SendFails
    <2>2. Len(out) \in Nat /\ \A i \in 1..Len(out) : out[i] \in Bytes
      BY LenProperties, ElementOfSeq
    <2>3. \A i \in 1..n : out[i] \in Bytes
      BY <2>1, <2>2
    <2>4. SubSeq(out, 1, n) \in Seq(Bytes)
      BY <2>1, <2>2, <2>3, SubSeqProperties
    <2> QED BY <2>1, <2>4, ConcatProperties DEF TypeOK
  <1> QED BY <1>1, <1>2

LEMMA HeadTyped ==
    ASSUME NEW s \in Seq(Bytes), s # << >>
    PROVE  Head(s) \in Bytes /\ Tail(s) \in Seq(Bytes)
  BY HeadTailProperties

LEMMA TypedAlways == Spec => []Typed
  <1>1. Init => Typed
    <2>1. << >> \in Seq(Bytes) /\ << >> \in Seq(Loops)
          /\ << >> \in Seq({"escape", "other"})
      BY EmptySeq
    <2>2. /\ [g \in Loops |-> << >>] \in [Loops -> Seq(Bytes) \cup {Failed}]
          /\ [g \in Loops |-> 0] \in [Loops -> Nat]
          /\ 0 \in 0..MaxLoops
      BY <2>1, BoundsNat
    <2>3. Init => TypeOK
      BY <2>1, <2>2 DEF Init, TypeOK, Phase, Outcome, Conn
    <2>4. Init => Resting
      BY DEF Init, Resting
    <2> QED BY <2>3, <2>4 DEF Typed
  <1>2. Typed /\ [Next]_vars => Typed'
    <2> SUFFICES ASSUME Typed, [Next]_vars PROVE Typed'
      OBVIOUS
    <2> USE BoundsNat DEF Typed, TypeOK, Resting
    <2>1. ASSUME NEW err \in DialErrors, DialFails(err) PROVE Typed'
      BY <2>1 DEF DialFails, Exit, command, world, given, input, reader,
                  handling, checking, Phase, Outcome
    <2>2. CASE Wake
      BY <2>2 DEF Wake, world, given, input, reader, handling, checking, Phase
    <2>3. CASE Connected
      <3>1. loop + 1 \in 0..MaxLoops /\ loop + 1 # 0
        BY <2>3 DEF Connected
      <3> QED
        BY <2>3, <3>1 DEF Connected, NewEscapeDetector, given, input, reader,
                          checking, Phase, Conn
    <2>4. CASE RawModeFails
      BY <2>4 DEF RawModeFails, Exit, world, given, input, reader, handling,
                  checking, Phase, Outcome
    <2>5. ASSUME NEW g \in Loops, ReadStdin(g) PROVE Typed'
      <3>1. PICK n \in 1..Len(tty) :
              /\ read' = [read EXCEPT ![g] = SubSeq(tty, 1, n)]
              /\ tty' = SubSeq(tty, n + 1, Len(tty))
              /\ Took(g, n)
        BY <2>5 DEF ReadStdin
      <3>2. Len(tty) \in Nat /\ \A i \in 1..Len(tty) : tty[i] \in Bytes
        BY LenProperties, ElementOfSeq
      <3>3. /\ \A i \in 1..n : tty[i] \in Bytes
            /\ \A i \in (n + 1)..Len(tty) : tty[i] \in Bytes
        BY <3>1, <3>2
      <3>4. SubSeq(tty, 1, n) \in Seq(Bytes)
        BY <3>1, <3>2, <3>3, SubSeqProperties
      <3>5. tty' \in Seq(Bytes)
        BY <3>1, <3>2, <3>3, SubSeqProperties
      <3>6. [i \in 1..n |-> g] \in Seq(Loops)
        BY <3>1, <3>2
      <3>7. taker' \in Seq(Loops)
        BY <3>1, <3>6, ConcatProperties DEF Took
      <3>8. stolen' \in [Loops -> Nat] /\ pressed' = pressed
        <4>1. stolen \in [Loops -> Nat] /\ stolen[g] + 1 \in Nat
          OBVIOUS
        <4> HIDE DEF Typed, TypeOK, Resting
        <4> QED BY <3>1, <4>1 DEF Took
      <3>9. read' \in [Loops -> Seq(Bytes) \cup {Failed}]
        BY <3>1, <3>4
      <3> HIDE DEF Typed, TypeOK, Resting
      <3>10. UNCHANGED <<command, world, loop, kind, stdinOk, stdinCh, handling,
                         sent>>
        BY <2>5 DEF ReadStdin
      <3> QED BY <3>5, <3>7, <3>8, <3>9, <3>10
              DEF Typed, TypeOK, Resting, command, world, given, handling
    <2>6. ASSUME NEW g \in Loops, ReadError(g) PROVE Typed'
      BY <2>6 DEF ReadError, command, world, given, input, handling, checking
    <2>7. ASSUME NEW g \in Loops, SendChunk(g) PROVE Typed'
      <3>1. << >> \in Seq(Bytes)
        BY EmptySeq
      <3> QED BY <2>7, <3>1 DEF SendChunk, command, world, given, input, handling, checking
    <2>8. CASE ConnectionDone
      BY <2>8, EmptySeq DEF ConnectionDone, ConnectionLost, LeaveLoop, Forget,
                  given, input, reader, checking, Phase, Conn
    <2>9. CASE Receive
      <3>1. << >> \in Seq(Bytes) /\ loop \in Loops
        BY <2>9, EmptySeq DEF Receive, Loops
      <3> QED BY <2>9, <3>1 DEF Receive, command, world, given, input, escVars,
                                checking
    <2>10. CASE ReceiveError
      BY <2>10, EmptySeq DEF ReceiveError, Exit, LeaveLoop, Forget,
                  given, input, reader, checking, Phase, Conn, Outcome
    <2>11. CASE FeedOther
      <3>1. Head(chunk) \in Bytes /\ Tail(chunk) \in Seq(Bytes)
            /\ << >> \in Seq(Bytes)
        BY <2>11, HeadTyped, EmptySeq DEF FeedOther, Feeding
      <3>2. sent' \in Seq(Bytes)
        BY <2>11, <3>1, OutputTyped, SentTyped DEF FeedOther
      <3>3. phase = "looping" /\ busy
            /\ UNCHANGED <<firstConnect, given, loop, input, reader, checking>>
        BY <2>11 DEF FeedOther, Feeding
      <3>4. CASE /\ Sends(PassThrough(Head(chunk)))
                 /\ chunk' = Tail(chunk) /\ UNCHANGED busy
        BY <3>1, <3>2, <3>3, <3>4 DEF Sends, Forget, given, input, reader, checking
      <3>5. CASE SendFails(PassThrough(Head(chunk)))
        BY <3>1, <3>2, <3>3, <3>5 DEF SendFails, ConnectionLost, LeaveLoop, Forget,
           given, input, reader, checking, Phase, Conn
      <3> QED BY <2>11, <3>4, <3>5 DEF FeedOther
    <2>12. CASE FeedEscape
      <3>1. Head(chunk) \in Bytes /\ Tail(chunk) \in Seq(Bytes) /\ busy
        BY <2>12, HeadTyped DEF FeedEscape, Feeding
      <3> QED BY <2>12, <3>1 DEF FeedEscape, Feeding, Hold, command, world, given,
                                 input, reader, checking
    <2>13. CASE FeedSecondEscape
      <3>1. Head(chunk) \in Bytes /\ pending \in Bytes
        BY <2>13, HeadTyped DEF FeedSecondEscape, Feeding, IsSecond
      <3>2. <<pending, Head(chunk)>> \in Seq(Bytes) /\ << >> \in Seq(Bytes)
        BY <3>1, EmptySeq
      <3> QED BY <2>13, <3>2 DEF FeedSecondEscape, Exit, LeaveLoop, Forget, given,
                                 input, reader, Phase, Outcome, Conn
    <2>14. CASE FlushEscape
      <3>1. Flushed # << >> /\ (Sends(Flushed) \/ SendFails(Flushed))
              => sent' \in Seq(Bytes)
        BY OutputTyped, SentTyped
      <3> HIDE DEF Typed, TypeOK, Resting
      <3>2. CASE Flushed = << >> /\ UNCHANGED <<phase, outcome, conn, chunk,
                                              escVars, sent>>
                 /\ busy' = FALSE
        BY <2>14, <3>2 DEF FlushEscape, Typed, TypeOK, Resting, given, input,
                           reader, checking, escVars
      <3>3. CASE Flushed # << >> /\ Sends(Flushed) /\ busy' = FALSE /\ UNCHANGED chunk
        BY <2>14, <3>1, <3>3 DEF FlushEscape, Sends, Forget, Typed, TypeOK, Resting,
                           given, input, reader, checking
      <3>4. CASE Flushed # << >> /\ SendFails(Flushed)
        BY <2>14, <3>1, <3>4, EmptySeq
           DEF FlushEscape, SendFails, ConnectionLost, LeaveLoop, Forget, Typed,
               TypeOK, Resting, given, input, reader, checking, Phase, Conn
      <3> QED BY <2>14, <3>2, <3>3, <3>4 DEF FlushEscape
    <2>15. CASE Drop
      BY <2>15 DEF Drop, command, given, input, reader, handling, checking, Conn
    <2>16. CASE SessionEnds
      BY <2>16 DEF SessionEnds, command, input, reader, handling, checking
    <2>17. CASE CloseClient
      BY <2>17 DEF CloseClient, command, given, input, reader, handling, checking,
                   Conn
    <2>18. CASE Type
      <3>1. PICK k \in {"escape", "other"} : kind' = Append(kind, k)
        BY <2>18 DEF Type
      <3>2. Len(kind) + 1 \in Bytes
        BY <2>18, LenProperties DEF Type, Bytes
      <3>3. kind' \in Seq({"escape", "other"}) /\ tty' \in Seq(Bytes)
        BY <2>18, <3>1, <3>2, AppendProperties DEF Type
      <3> QED BY <2>18, <3>3 DEF Type, command, world, given, reader, handling,
                                 checking
    <2>19. CASE StdinFails
      BY <2>19 DEF StdinFails, command, world, given, reader, handling, checking
    <2>20. CASE TimeoutPasses
      BY <2>20 DEF TimeoutPasses, Age, command, world, given, input, reader, checking
    <2>21. CASE UNCHANGED vars
      BY <2>21 DEF vars, command, world, given, input, reader, handling, checking
    <2> HIDE DEF Typed, TypeOK, Resting
    <2> QED
      BY <2>1, <2>2, <2>3, <2>4, <2>5, <2>6, <2>7, <2>8, <2>9, <2>10, <2>11, <2>12,
         <2>13, <2>14, <2>15, <2>16, <2>17, <2>18, <2>19, <2>20, <2>21
         DEF Next, Dial, InputLoop
  <1> QED BY <1>1, <1>2, PTL DEF Spec

(* The state has its type, whatever is typed and whichever connections     *)
(* fail (cmd/join.go).                                                     *)
THEOREM TypeCorrect == Spec => []TypeOK
  <1>1. Typed => TypeOK
    BY DEF Typed
  <1> QED BY <1>1, TypedAlways, PTL

---------------------------------------------------------------------------
(* What the readers left behind take from the terminal.  A read by such a  *)
(* reader fills its hand, and it reads again only after it has moved the   *)
(* chunk into its channel, which nobody empties any more.                  *)

Unstarted ==
    \A g \in Loops : g > loop =>
        read[g] = << >> /\ stdinCh[g] = << >> /\ stolen[g] = 0

Current(g) == g = loop /\ phase = "looping"

One(s) == IF s = << >> THEN 0 ELSE 1

Stored(g) == One(read[g]) + One(stdinCh[g])

Losses == Unstarted /\ \A g \in Loops :
              stolen[g] <= IF Current(g) THEN 0 ELSE Stored(g)

(* A step that leaves the readers alone, and the loop too unless it ends.  *)
LEMMA LossesStay ==
    ASSUME Losses, UNCHANGED <<loop, read, stdinCh, stolen>>,
           phase' = "looping" => phase = "looping", Typed
    PROVE  Losses'
  <1>1. \A g \in Loops : Stored(g) \in {0, 1, 2} /\ Stored(g)' = Stored(g)
    BY DEF Stored, One
  <1>2. \A g \in Loops : Current(g)' => Current(g)
    BY DEF Current
  <1>3. \A g \in Loops : stolen[g] \in Nat
    BY DEF Typed, TypeOK
  <1> QED BY <1>1, <1>2, <1>3 DEF Losses, Unstarted

LEMMA LossesStep ==
    ASSUME Typed, Losses, [Next]_vars
    PROVE  Losses'
  <1> USE DEF Losses, Unstarted
  <1>1. \A g \in Loops : stolen[g] \in Nat
    BY DEF Typed, TypeOK
  <1>2. loop \in 0..MaxLoops
    BY DEF Typed, TypeOK
  <1> HIDE DEF Losses, Unstarted
  <1>3. CASE Connected
    <2>1. loop' = loop + 1 /\ phase # "looping"
          /\ UNCHANGED <<read, stdinCh, stolen>>
      BY <1>3 DEF Connected, input, reader, checking
    <2>2. \A g \in Loops : Stored(g)' = Stored(g) /\ Stored(g) \in {0, 1, 2}
      BY <2>1 DEF Stored, One
    <2> QED BY <1>1, <1>2, <2>1, <2>2 DEF Losses, Unstarted, Current, Loops
  <1>4. ASSUME NEW g \in Loops, ReadStdin(g) PROVE Losses'
    <2>1. PICK n \in 1..Len(tty) :
            /\ read' = [read EXCEPT ![g] = SubSeq(tty, 1, n)]
            /\ Took(g, n)
      BY <1>4 DEF ReadStdin
    <2>2. Len(tty) \in Nat /\ \A i \in 1..Len(tty) : tty[i] \in Bytes
      BY LenProperties, ElementOfSeq DEF Typed, TypeOK
    <2>3. \A i \in 1..n : tty[i] \in Bytes
      BY <2>1, <2>2
    <2>4. Len(SubSeq(tty, 1, n)) = n /\ n > 0
      BY <2>1, <2>2, <2>3, SubSeqProperties
    <2>5. SubSeq(tty, 1, n) # << >>
      BY <2>1, <2>2, <2>4, EmptySeq
    <2>6. g <= loop /\ read[g] = << >> /\ UNCHANGED <<loop, phase, stdinCh>>
      BY <1>4 DEF ReadStdin, command
    <2>7. \A h \in Loops : read'[h] = IF h = g THEN SubSeq(tty, 1, n) ELSE read[h]
      BY <2>1 DEF Typed, TypeOK
    <2>8. \A h \in Loops :
            stolen'[h] = IF h = g /\ ~Current(g) THEN stolen[h] + 1 ELSE stolen[h]
      BY <2>1 DEF Took, Current, Typed, TypeOK
    <2>9. \A h \in Loops : Current(h)' = Current(h)
      BY <2>6 DEF Current
    <2>10. /\ \A h \in Loops : h # g => Stored(h)' = Stored(h)
           /\ Stored(g)' = Stored(g) + 1
           /\ \A h \in Loops : Stored(h) \in {0, 1, 2}
      <3>1. One(read'[g]) = 1 /\ One(read[g]) = 0
        BY <2>5, <2>6, <2>7 DEF One
      <3>2. \A h \in Loops : One(read[h]) \in {0, 1} /\ One(stdinCh[h]) \in {0, 1}
        BY DEF One
      <3> QED BY <2>6, <2>7, <3>1, <3>2 DEF Stored
    <2> HIDE DEF Current, Stored
    <2>11. \A h \in Loops : stolen'[h] <= IF Current(h)' THEN 0 ELSE Stored(h)'
      BY <1>1, <2>8, <2>9, <2>10 DEF Losses
    <2>12. Unstarted'
      BY <1>2, <2>6, <2>7, <2>8 DEF Losses, Unstarted, Loops
    <2> QED BY <2>11, <2>12 DEF Losses
  <1>5. ASSUME NEW g \in Loops, ReadError(g) PROVE Losses'
    <2>1. /\ g <= loop /\ read[g] = << >>
          /\ UNCHANGED <<loop, phase, stdinCh, stolen>>
          /\ \A h \in Loops : read'[h] = IF h = g THEN Failed ELSE read[h]
      BY <1>5 DEF ReadError, command, checking, Typed, TypeOK
    <2>2. Failed # << >>
      BY DEF Failed
    <2>3. \A h \in Loops : Current(h)' = Current(h)
      BY <2>1 DEF Current
    <2>4. /\ \A h \in Loops : h # g => Stored(h)' = Stored(h)
          /\ Stored(g)' = Stored(g) + 1
          /\ \A h \in Loops : Stored(h) \in {0, 1, 2}
      BY <2>1, <2>2 DEF Stored, One
    <2>5. \A h \in Loops : stolen'[h] <= IF Current(h)' THEN 0 ELSE Stored(h)'
      BY <1>1, <2>1, <2>3, <2>4 DEF Losses
    <2>6. Unstarted'
      BY <1>2, <2>1 DEF Losses, Unstarted, Loops
    <2> QED BY <2>5, <2>6 DEF Losses
  <1>6. ASSUME NEW g \in Loops, SendChunk(g) PROVE Losses'
    <2>1. /\ read[g] # << >> /\ stdinCh[g] = << >>
          /\ UNCHANGED <<loop, phase, stolen>>
          /\ \A h \in Loops : read'[h] = IF h = g THEN << >> ELSE read[h]
          /\ \A h \in Loops : stdinCh'[h] = IF h = g THEN read[g] ELSE stdinCh[h]
      BY <1>6 DEF SendChunk, command, checking, Typed, TypeOK
    <2>2. \A h \in Loops : Current(h)' = Current(h)
      BY <2>1 DEF Current
    <2>3. \A h \in Loops : Stored(h)' = Stored(h)
      BY <2>1 DEF Stored, One
    <2>4. \A h \in Loops : stolen'[h] <= IF Current(h)' THEN 0 ELSE Stored(h)'
      BY <1>1, <2>1, <2>2, <2>3 DEF Losses
    <2>5. Unstarted'
      BY <1>2, <2>1 DEF Losses, Unstarted, Loops
    <2> QED BY <2>4, <2>5 DEF Losses
  <1>7. CASE Receive
    <2>1. /\ phase = "looping" /\ UNCHANGED <<loop, phase, read, stolen>>
          /\ \A h \in Loops : stdinCh'[h] = IF h = loop THEN << >> ELSE stdinCh[h]
      BY <1>7 DEF Receive, command, checking, Typed, TypeOK
    <2>2. \A h \in Loops : Current(h)' = Current(h) /\ (h = loop => Current(h))
      BY <2>1 DEF Current
    <2>3. \A h \in Loops : h # loop => Stored(h)' = Stored(h)
      BY <2>1 DEF Stored, One
    <2>4. \A h \in Loops : stolen'[h] <= IF Current(h)' THEN 0 ELSE Stored(h)'
      BY <1>1, <2>1, <2>2, <2>3 DEF Losses
    <2>5. Unstarted'
      BY <1>2, <2>1 DEF Losses, Unstarted, Loops
    <2> QED BY <2>4, <2>5 DEF Losses
  <1>8. ASSUME \/ \E err \in DialErrors : DialFails(err)
               \/ Wake \/ RawModeFails \/ ConnectionDone \/ ReceiveError
               \/ FeedOther \/ FeedEscape \/ FeedSecondEscape \/ FlushEscape
               \/ Drop \/ SessionEnds \/ CloseClient \/ Type \/ StdinFails
               \/ TimeoutPasses \/ UNCHANGED vars
        PROVE  Losses'
    <2>1. UNCHANGED <<loop, read, stdinCh, stolen>>
      BY <1>8 DEF DialFails, Wake, RawModeFails, ConnectionDone, ReceiveError,
           FeedOther, FeedEscape, FeedSecondEscape, FlushEscape, Drop, SessionEnds,
           CloseClient, Type, StdinFails, TimeoutPasses, vars, input, reader, checking
    <2>2. phase' = "looping" => phase = "looping"
      BY <1>8 DEF DialFails, Wake, RawModeFails, ConnectionDone, ReceiveError,
           FeedOther, FeedEscape, FeedSecondEscape, FlushEscape, Drop, SessionEnds,
           CloseClient, Type, StdinFails, TimeoutPasses, vars, command, Exit,
           ConnectionLost, Feeding
    <2> QED BY <2>1, <2>2, LossesStay
  <1> QED
    BY <1>3, <1>4, <1>5, <1>6, <1>7, <1>8 DEF Next, Dial, InputLoop

(* Each reader left behind takes at most two more reads of what is typed   *)
(* (join.go, the goroutine of runInputLoop that nothing stops).            *)
THEOREM LossesBounded == Spec => []LossBounded
  <1>1. Init => Losses
    BY DEF Init, Losses, Unstarted, Current, Stored, One, Loops
  <1>2. Typed /\ Losses /\ [Next]_vars => Losses'
    BY LossesStep
  <1>3. Typed /\ Losses => LossBounded
    <2> SUFFICES ASSUME Typed, Losses, NEW g \in Loops PROVE stolen[g] <= 2
      BY DEF LossBounded
    <2>1. Stored(g) \in {0, 1, 2} /\ stolen[g] \in Nat
      BY DEF Stored, One, Typed, TypeOK
    <2> QED BY <2>1 DEF Losses
  <1> QED BY <1>1, <1>2, <1>3, TypedAlways, PTL DEF Spec

---------------------------------------------------------------------------
(* The way of a byte: from the terminal into the hand of a reader, through *)
(* its channel into the chunk that is being handled, and from there, if it *)
(* is an Escape after having been held, into what has been sent.           *)

Sent == Range(sent)
Holding == {pending} \ {NoByte}
Chunk == Range(chunk)
Queued(g) == Carries(stdinCh[g])
InHand(g) == Carries(read[g])

(* The bytes that wait in the terminal are those nobody has taken.         *)
Waiting ==
    /\ Len(kind) <= MaxBytes
    /\ Len(tty) = Len(kind) - Len(taker)
    /\ \A i \in 1..Len(tty) : tty[i] = Len(taker) + i

Rows ==
    /\ Rising(chunk)
    /\ \A g \in Loops : Rising(read[g]) /\ Rising(stdinCh[g])

Chain(A, B, C, D, E) ==
    /\ Below(A, B \cup C \cup D \cup E)
    /\ Below(B, C \cup D \cup E)
    /\ Below(C, D \cup E)
    /\ Below(D, E)

InOrder ==
    /\ Rising(sent)
    /\ loop \in Loops =>
         Chain(Sent, Holding, Chunk, Queued(loop), InHand(loop))

(* Every byte on the way was taken by the reader of the loop it is with.   *)
Owned(A, g) == \A b \in A : b \in 1..Len(taker) /\ taker[b] = g

Taken ==
    /\ \A i \in 1..Len(taker) : taker[i] <= loop
    /\ \A g \in Loops : Owned(Queued(g) \cup InHand(g), g)
    /\ Owned(Holding \cup Chunk, loop)
    /\ Sent \subseteq 1..Len(taker)
    /\ \A b \in Holding : kind[b] = "escape"

Flowing == Waiting /\ Rows /\ Taken /\ InOrder

LEMMA Numbers ==
    ASSUME Typed
    PROVE  /\ sent \in Seq(Nat) /\ chunk \in Seq(Nat) /\ tty \in Seq(Nat)
           /\ \A g \in Loops : read[g] \in Seq(Nat) /\ stdinCh[g] \in Seq(Nat)
           /\ Len(taker) \in Nat /\ Len(kind) \in Nat /\ Len(tty) \in Nat
           /\ \A i \in 1..Len(taker) : taker[i] \in Loops
  <1>1. Bytes \subseteq Nat
    BY BoundsNat DEF Bytes
  <1>2. \A s \in Seq(Bytes) : s \in Seq(Nat)
    BY <1>1, SeqMonotonic
  <1>3. Failed \in Seq(Nat)
    BY Singles
  <1>4. /\ sent \in Seq(Bytes) /\ chunk \in Seq(Bytes) /\ tty \in Seq(Bytes)
        /\ taker \in Seq(Loops) /\ kind \in Seq({"escape", "other"})
        /\ \A g \in Loops : read[g] \in Seq(Bytes) \cup {Failed}
                            /\ stdinCh[g] \in Seq(Bytes) \cup {Failed}
    BY DEF Typed, TypeOK
  <1>5. Len(taker) \in Nat /\ Len(kind) \in Nat /\ Len(tty) \in Nat
    BY <1>4, LenProperties
  <1>6. \A i \in 1..Len(taker) : taker[i] \in Loops
    BY <1>4, ElementOfSeq
  <1> QED BY <1>2, <1>3, <1>4, <1>5, <1>6

(* A chunk of bytes is not the error.                                      *)
LEMMA AllCarried ==
    ASSUME NEW s \in Seq(Bytes)
    PROVE  Carries(s) = Range(s)
  <1>1. \A b \in Range(s) : b \in Bytes
    BY RangeOfSeq
  <1>2. NoByte \notin Bytes
    BY DEF NoByte, Bytes
  <1> QED BY <1>1, <1>2 DEF Carries

(* Chains, under the moves of their elements.                              *)
LEMMA ChainMoves ==
    ASSUME NEW A, NEW B, NEW C, NEW D, NEW E, NEW T
    PROVE  /\ Chain(A, B, {}, D, E) => Chain(A, B, D, {}, E)
           /\ Chain(A, B, C, {}, E) => Chain(A, B, C, E, {})
           /\ Chain(A, B, C, D, {}) /\ Below(A \cup B \cup C \cup D, T)
                => Chain(A, B, C, D, T)
           /\ Chain(A, B, C, D, E) => Chain(A \cup B, {}, C, D, E)
           /\ Chain(A, {}, {}, {}, {})
  BY DEF Chain, Below

---------------------------------------------------------------------------
(* The moves.  Every step is one of them.                                  *)

KeepsLines ==
    \A g \in Loops : Queued(g)' = Queued(g) /\ InHand(g)' = InHand(g)

Stays ==
    /\ UNCHANGED <<loop, taker, sent, Holding, Chunk>> /\ KeepsLines
    /\ phase' = "looping" => phase = "looping"
    /\ \A i \in 1..Len(taker) : kind'[i] = kind[i]

Connects ==
    /\ loop' = loop + 1 /\ phase # "looping"
    /\ Holding' = {} /\ Chunk' = {}
    /\ UNCHANGED <<taker, sent, kind>> /\ KeepsLines

Reads(g) ==
    /\ g <= loop /\ InHand(g) = {}
    /\ Len(taker') \in Nat /\ Len(taker) <= Len(taker')
    /\ \A i \in 1..Len(taker') :
         taker'[i] = IF i <= Len(taker) THEN taker[i] ELSE g
    /\ InHand(g)' = (Len(taker) + 1)..Len(taker')
    /\ UNCHANGED <<phase, loop, sent, Holding, Chunk, kind>>
    /\ \A h \in Loops : Queued(h)' = Queued(h) /\ (h # g => InHand(h)' = InHand(h))

Queues(g) ==
    /\ Queued(g) = {} /\ Queued(g)' = InHand(g) /\ InHand(g)' = {}
    /\ \A h \in Loops \ {g} : Queued(h)' = Queued(h) /\ InHand(h)' = InHand(h)
    /\ UNCHANGED <<phase, loop, taker, sent, Holding, Chunk, kind>>

Receives ==
    /\ loop \in Loops
    /\ Chunk = {} /\ Chunk' = Queued(loop) /\ Queued(loop)' = {}
    /\ \A h \in Loops : InHand(h)' = InHand(h) /\ (h # loop => Queued(h)' = Queued(h))
    /\ UNCHANGED <<phase, loop, taker, sent, Holding, kind>>

Leads(h) == Chunk = {h} \cup Chunk' /\ Below({h}, Chunk')

Passes(h) ==
    /\ Leads(h)
    /\ Sent' = Sent \cup Holding \cup {h} /\ Holding' = {}
    /\ UNCHANGED <<phase, loop, taker, kind>> /\ KeepsLines

Holds(h) ==
    /\ Leads(h) /\ kind[h] = "escape"
    /\ Holding' = {h}
    /\ UNCHANGED <<phase, loop, taker, sent, kind>> /\ KeepsLines

Flushes ==
    /\ Sent' = Sent \cup Holding /\ Holding' = {}
    /\ UNCHANGED <<phase, loop, taker, Chunk, kind>> /\ KeepsLines

Leaves ==
    /\ phase' # "looping"
    /\ Sent' \subseteq Sent \cup Holding \cup Chunk
    /\ Holding' = {} /\ Chunk' = {}
    /\ UNCHANGED <<loop, taker, kind>> /\ KeepsLines

Move ==
    \/ Stays \/ Connects \/ Receives \/ Flushes \/ Leaves
    \/ \E g \in Loops : Reads(g) \/ Queues(g)
    \/ \E h \in Chunk : Passes(h) \/ Holds(h)

LEMMA WaitingStep ==
    ASSUME Typed, Waiting, [Next]_vars
    PROVE  Waiting'
  <1>1. /\ Len(kind) \in Nat /\ Len(tty) \in Nat /\ Len(taker) \in Nat
        /\ tty \in Seq(Nat)
    BY Numbers
  <1>2. CASE Type
    <2>1. PICK k \in {"escape", "other"} : kind' = Append(kind, k)
      BY <1>2 DEF Type
    <2>2. Len(kind') = Len(kind) + 1
      BY <2>1, AppendProperties DEF Typed, TypeOK
    <2>3. tty' = Append(tty, Len(kind) + 1) /\ taker' = taker /\ Len(kind) < MaxBytes
      BY <1>2 DEF Type, checking
    <2>4. /\ Len(tty') = Len(tty) + 1
          /\ \A i \in 1..Len(tty) : tty'[i] = tty[i]
          /\ tty'[Len(tty) + 1] = Len(kind) + 1
      BY <1>1, <2>3, AppendProperties
    <2>5. taker' = taker /\ Len(kind) + 1 <= MaxBytes
      BY <1>1, <2>3, BoundsNat
    <2>6. Len(tty') = Len(kind') - Len(taker')
      BY <1>1, <2>2, <2>4, <2>5 DEF Waiting
    <2>7. ASSUME NEW i \in 1..Len(tty') PROVE tty'[i] = Len(taker) + i
      <3>1. CASE i \in 1..Len(tty)
        BY <2>4, <3>1 DEF Waiting
      <3>2. CASE i = Len(tty) + 1
        BY <1>1, <2>4, <3>2 DEF Waiting
      <3> QED BY <1>1, <2>4, <2>7, <3>1, <3>2
    <2> QED BY <2>2, <2>5, <2>6, <2>7 DEF Waiting
  <1>3. ASSUME NEW g \in Loops, ReadStdin(g) PROVE Waiting'
    <2>1. PICK n \in 1..Len(tty) :
            /\ tty' = SubSeq(tty, n + 1, Len(tty))
            /\ Took(g, n)
      BY <1>3 DEF ReadStdin
    <2>2. kind' = kind
      BY <1>3 DEF ReadStdin
    <2>3. \A i \in 1..Len(tty) : tty[i] \in Nat
      BY <1>1, ElementOfSeq
    <2>4. n + 1 \in Int /\ Len(tty) \in Int /\ \A i \in (n + 1)..Len(tty) : tty[i] \in Nat
      BY <1>1, <2>1, <2>3
    <2>5. /\ Len(tty') = Len(tty) - n
          /\ \A i \in 1..(Len(tty) - n) : tty'[i] = tty[n + i]
      <3>1. /\ Len(tty') = IF n + 1 <= Len(tty) THEN Len(tty) - (n + 1) + 1 ELSE 0
            /\ \A i \in 1..(Len(tty) - (n + 1) + 1) : tty'[i] = tty[(n + 1) + i - 1]
        BY <2>1, <2>4, SubSeqProperties
      <3>2. /\ Len(tty) - (n + 1) + 1 = Len(tty) - n
            /\ n + 1 <= Len(tty) \/ Len(tty) - n = 0
            /\ \A i \in 1..(Len(tty) - n) : (n + 1) + i - 1 = n + i
        BY <1>1
      <3> QED BY <3>1, <3>2
    <2>6. taker \in Seq(Loops) /\ [i \in 1..n |-> g] \in Seq(Loops)
          /\ Len([i \in 1..n |-> g]) = n
      BY <1>1, <2>1 DEF Typed, TypeOK
    <2>7. Len(taker') = Len(taker) + n
      BY <2>1, <2>6, ConcatProperties DEF Took
    <2> QED BY <1>1, <2>1, <2>2, <2>5, <2>7 DEF Waiting
  <1>4. ASSUME \/ \E err \in DialErrors : DialFails(err)
               \/ Wake \/ Connected \/ RawModeFails
               \/ \E g \in Loops : ReadError(g) \/ SendChunk(g)
               \/ ConnectionDone \/ Receive \/ ReceiveError
               \/ FeedOther \/ FeedEscape \/ FeedSecondEscape \/ FlushEscape
               \/ Drop \/ SessionEnds \/ CloseClient \/ StdinFails
               \/ TimeoutPasses \/ UNCHANGED vars
        PROVE  Waiting'
    <2>1. UNCHANGED <<kind, tty, taker>>
      BY <1>4 DEF DialFails, Wake, Connected, RawModeFails, ReadError, SendChunk,
           ConnectionDone, Receive, ReceiveError, FeedOther, FeedEscape,
           FeedSecondEscape, FlushEscape, Drop, SessionEnds, CloseClient,
           StdinFails, TimeoutPasses, vars, input, checking
    <2> QED BY <2>1 DEF Waiting
  <1> QED BY <1>2, <1>3, <1>4 DEF Next, Dial, InputLoop

LEMMA OutputFacts ==
    ASSUME Typed
    PROVE  /\ Held \in Seq(Nat) /\ Range(Held) = Holding /\ Rising(Held)
           /\ Flushed # << >> => Flushed = Held
           /\ \A h \in Nat : Below(Holding, {h}) =>
                /\ PassThrough(h) \in Seq(Nat) /\ Rising(PassThrough(h))
                /\ Range(PassThrough(h)) = Holding \cup {h}
  <1>1. pending \in Nat
    BY BoundsNat DEF Typed, TypeOK, Bytes, NoByte
  <1>2. Held \in Seq(Nat) /\ Range(Held) = Holding /\ Rising(Held)
    <2>1. CASE pending = NoByte
      BY <2>1, Singles DEF Held, Holding
    <2>2. CASE pending # NoByte
      BY <1>1, <2>2, Singles DEF Held, Holding
    <2> QED BY <2>1, <2>2
  <1>3. ASSUME NEW h \in Nat, Below(Holding, {h})
        PROVE  /\ PassThrough(h) \in Seq(Nat) /\ Rising(PassThrough(h))
               /\ Range(PassThrough(h)) = Holding \cup {h}
    <2>1. <<h>> \in Seq(Nat) /\ Range(<<h>>) = {h} /\ Rising(<<h>>)
      BY Singles
    <2> QED BY <1>2, <1>3, <2>1, Joining DEF PassThrough
  <1> QED BY <1>2, <1>3 DEF Flushed

LEMMA WriteFacts ==
    ASSUME Typed, Rising(sent), NEW out \in Seq(Nat), Rising(out),
           Below(Sent, Range(out))
    PROVE  /\ Sends(out) => Rising(sent') /\ Sent' = Sent \cup Range(out)
           /\ SendFails(out)
                => Rising(sent') /\ Sent' \subseteq Sent \cup Range(out)
  <1>1. sent \in Seq(Nat)
    BY Numbers
  <1>2. CASE Sends(out)
    BY <1>1, <1>2, Joining DEF Sends, Sent
  <1>3. CASE SendFails(out)
    <2>1. PICK n \in 0..(Len(out) - 1) : sent' = sent \o SubSeq(out, 1, n)
      BY <1>3 DEF SendFails
    <2>2. n \in 0..Len(out)
      BY <2>1, Elements
    <2>3. /\ SubSeq(out, 1, n) \in Seq(Nat) /\ Rising(SubSeq(out, 1, n))
          /\ Range(SubSeq(out, 1, n)) \subseteq Range(out)
      BY <2>2, Taking
    <2>4. Below(Sent, Range(SubSeq(out, 1, n)))
      BY <2>3 DEF Below
    <2>5. Rising(sent') /\ Range(sent') = Range(sent) \cup Range(SubSeq(out, 1, n))
      BY <1>1, <2>1, <2>3, <2>4, Joining DEF Sent
    <2>6. ~Sends(out) \/ (Rising(sent') /\ Sent' = Sent \cup Range(out))
      BY <1>2
    <2> QED BY <2>3, <2>5, <2>6 DEF Sent
  <1> QED BY <1>2, <1>3

(* What goes out, and what is left of the chunk, when a byte is fed.       *)
LEMMA FeedFacts ==
    ASSUME Typed, Flowing, phase = "looping", chunk # << >>
    PROVE  /\ Head(chunk) \in Nat /\ Head(chunk) \in Chunk
           /\ Rising(Tail(chunk))
           /\ Chunk = {Head(chunk)} \cup Range(Tail(chunk))
           /\ Below({Head(chunk)}, Range(Tail(chunk)))
           /\ Below(Sent, Holding \cup {Head(chunk)})
           /\ Below(Holding, {Head(chunk)})
  <1>1. chunk \in Seq(Nat) /\ Rising(chunk) /\ loop \in Loops
    BY Numbers DEF Flowing, Rows, Typed, TypeOK, Resting, Loops
  <1>2. /\ Head(chunk) \in Nat
        /\ Rising(Tail(chunk))
        /\ Chunk = {Head(chunk)} \cup Range(Tail(chunk))
        /\ Below({Head(chunk)}, Range(Tail(chunk)))
    BY <1>1, First DEF Chunk
  <1>3. Chain(Sent, Holding, Chunk, Queued(loop), InHand(loop))
    BY <1>1 DEF Flowing, InOrder
  <1> QED BY <1>2, <1>3 DEF Chain, Below

LEMMA LinesKept ==
    ASSUME UNCHANGED reader
    PROVE  KeepsLines /\ (Rows => \A g \in Loops : Rising(read[g])' /\ Rising(stdinCh[g])')
  BY DEF reader, KeepsLines, Queued, InHand, Rows

LEMMA MoveStep ==
    ASSUME Typed, Flowing, [Next]_vars
    PROVE  Move /\ Rows' /\ Rising(sent)'
  <1> DEFINE Goal == Move /\ Rows' /\ Rising(sent)'
  <1> SUFFICES Goal
    OBVIOUS
  <1>1. Rows /\ Rising(sent)
    BY DEF Flowing, InOrder
  <1>2. /\ chunk \in Seq(Bytes) /\ Rising(<< >>) /\ Range(<< >>) = {}
        /\ Carries(<< >>) = {}
    BY Singles DEF Typed, TypeOK
  <1>3. ASSUME UNCHANGED <<loop, taker, sent, pending, chunk, kind, reader>>,
               phase' = "looping" => phase = "looping"
        PROVE  Goal
    BY <1>1, <1>3, LinesKept DEF Move, Stays, Rows, Rising, Holding, Chunk
  <1>4. CASE Connected
    <2>1. /\ phase # "looping" /\ loop' = loop + 1
          /\ pending' = NoByte /\ chunk = << >> /\ chunk' = << >>
          /\ UNCHANGED <<taker, sent, kind, reader>>
      BY <1>4 DEF Connected, NewEscapeDetector, input, checking, Typed, Resting
    <2>2. Connects
      BY <1>2, <2>1, LinesKept DEF Connects, Holding, Chunk
    <2> QED BY <1>1, <1>2, <2>1, <2>2, LinesKept DEF Move, Rows, Rising
  <1>5. ASSUME NEW g \in Loops, ReadStdin(g) PROVE Goal
    <2>1. PICK n \in 1..Len(tty) :
            /\ read' = [read EXCEPT ![g] = SubSeq(tty, 1, n)]
            /\ Took(g, n)
      BY <1>5 DEF ReadStdin
    <2> DEFINE r == SubSeq(tty, 1, n)
               k == Len(taker)
    <2>2. tty \in Seq(Nat) /\ k \in Nat /\ Len(tty) \in Nat
      BY Numbers
    <2>3. \A i \in 1..Len(tty) : tty[i] = k + i
      BY DEF Flowing, Waiting
    <2>4. /\ r \in Seq(Nat) /\ Len(r) = n
          /\ \A i \in 1..n : r[i] = k + i
      <3>1. 1 \in Int /\ n \in Int /\ 1 <= n /\ n - 1 + 1 = n
            /\ \A i \in 1..n : tty[i] \in Nat /\ tty[i] = k + i /\ 1 + i - 1 = i
        BY <2>1, <2>2, <2>3
      <3> QED BY <3>1, SubSeqProperties
    <2>5. Rising(r)
      BY <2>1, <2>2, <2>4 DEF Rising
    <2> HIDE DEF r
    <2>6. Range(r) = (k + 1)..(k + n)
      <3>1. \A b \in Range(r) : \E i \in 1..n : b = k + i
        <4>1. \A b \in Range(r) : \E i \in 1..Len(r) : b = r[i]
          BY <2>4, Elements
        <4> QED BY <2>4, <4>1
      <3>2. \A i \in 1..n : k + i \in Range(r)
        BY <2>4, Elements
      <3>3. \A b \in (k + 1)..(k + n) : b - k \in 1..n /\ b = k + (b - k)
        BY <2>1, <2>2
      <3>4. \A i \in 1..n : k + i \in (k + 1)..(k + n)
        BY <2>1, <2>2
      <3> QED BY <3>1, <3>2, <3>3, <3>4
    <2>7. /\ g <= loop /\ read[g] = << >>
          /\ UNCHANGED <<phase, loop, kind, stdinCh, pending, chunk, sent>>
      BY <1>5 DEF ReadStdin, command, handling
    <2>8. \A h \in Loops : read'[h] = IF h = g THEN r ELSE read[h]
      BY <2>1 DEF Typed, TypeOK, r
    <2>9. /\ Len(taker') = k + n
          /\ \A i \in 1..(k + n) : taker'[i] = IF i <= k THEN taker[i] ELSE g
      <3>1. taker \in Seq(Loops) /\ [i \in 1..n |-> g] \in Seq(Loops)
            /\ Len([i \in 1..n |-> g]) = n
        BY <2>1, <2>2 DEF Typed, TypeOK
      <3>2. taker' = taker \o [i \in 1..n |-> g]
        BY <2>1 DEF Took
      <3>3. /\ Len(taker') = k + n
            /\ \A i \in 1..(k + n) : taker'[i] = IF i <= k THEN taker[i]
                                               ELSE [j \in 1..n |-> g][i - k]
        BY <3>1, <3>2, ConcatProperties
      <3>4. \A i \in 1..(k + n) : ~(i <= k) => [j \in 1..n |-> g][i - k] = g
        BY <2>1, <2>2
      <3> QED BY <3>3, <3>4
    <2>10. InHand(g) = {} /\ InHand(g)' = (k + 1)..(k + n)
      <3>1. NoByte \notin (k + 1)..(k + n)
        BY <2>2 DEF NoByte
      <3>2. read'[g] = r
        BY <2>8
      <3> QED BY <1>2, <2>6, <2>7, <3>1, <3>2 DEF InHand, Carries
    <2>11. Reads(g)
      <3>1. \A h \in Loops : Queued(h)' = Queued(h) /\ (h # g => InHand(h)' = InHand(h))
        BY <2>7, <2>8 DEF Queued, InHand
      <3>2. Len(taker') \in Nat /\ Len(taker) <= Len(taker')
        BY <2>1, <2>2, <2>9
      <3> QED BY <2>7, <2>9, <2>10, <3>1, <3>2 DEF Reads, Holding, Chunk
    <2>12. Rows'
      BY <1>1, <2>5, <2>7, <2>8 DEF Rows
    <2> QED BY <1>1, <2>7, <2>11, <2>12 DEF Move
  <1>6. ASSUME NEW g \in Loops, ReadError(g) PROVE Goal
    <2>1. /\ read[g] = << >>
          /\ UNCHANGED <<phase, loop, kind, stdinCh, pending, chunk, sent, taker>>
          /\ \A h \in Loops : read'[h] = IF h = g THEN Failed ELSE read[h]
      BY <1>6 DEF ReadError, command, input, handling, checking, Typed, TypeOK
    <2>2. Carries(Failed) = {} /\ Rising(Failed)
      BY Singles
    <2>3. KeepsLines
      BY <1>2, <2>1, <2>2 DEF KeepsLines, Queued, InHand
    <2>4. Rows'
      BY <1>1, <2>1, <2>2 DEF Rows
    <2> QED BY <1>1, <2>1, <2>3, <2>4 DEF Move, Stays, Holding, Chunk
  <1>7. ASSUME NEW g \in Loops, SendChunk(g) PROVE Goal
    <2>1. /\ stdinCh[g] = << >>
          /\ UNCHANGED <<phase, loop, kind, pending, chunk, sent, taker>>
          /\ \A h \in Loops : read'[h] = IF h = g THEN << >> ELSE read[h]
          /\ \A h \in Loops : stdinCh'[h] = IF h = g THEN read[g] ELSE stdinCh[h]
      BY <1>7 DEF SendChunk, command, input, handling, checking, Typed, TypeOK
    <2>2. Queues(g)
      BY <1>2, <2>1 DEF Queues, Queued, InHand, Holding, Chunk
    <2>3. Rows'
      BY <1>1, <1>2, <2>1 DEF Rows
    <2> QED BY <1>1, <2>1, <2>2, <2>3 DEF Move
  <1>8. CASE Receive
    <2>1. /\ chunk = << >> /\ loop \in Loops
          /\ stdinCh[loop] # << >> /\ stdinCh[loop] # Failed
          /\ chunk' = stdinCh[loop]
          /\ UNCHANGED <<phase, loop, kind, pending, sent, taker, read>>
          /\ \A h \in Loops : stdinCh'[h] = IF h = loop THEN << >> ELSE stdinCh[h]
      BY <1>8 DEF Receive, command, input, escVars, checking, Typed, TypeOK, Resting,
                  Loops
    <2>2. stdinCh[loop] \in Seq(Bytes)
      BY <2>1 DEF Typed, TypeOK
    <2>3. Chunk' = Queued(loop) /\ Chunk = {}
      BY <1>2, <2>1, <2>2, AllCarried DEF Chunk, Queued
    <2>4. Queued(loop)' = {}
      BY <1>2, <2>1 DEF Queued
    <2>5. \A h \in Loops : InHand(h)' = InHand(h)
                           /\ (h # loop => Queued(h)' = Queued(h))
      BY <2>1 DEF Queued, InHand
    <2>6. Receives
      BY <2>1, <2>3, <2>4, <2>5 DEF Receives, Holding
    <2>7. Rows'
      BY <1>1, <1>2, <2>1 DEF Rows
    <2> QED BY <1>1, <2>1, <2>6, <2>7 DEF Move
  <1>9. ASSUME phase' # "looping", pending' = NoByte, chunk' = << >>,
               Rising(sent)', Sent' \subseteq Sent \cup Holding \cup Chunk,
               UNCHANGED <<loop, taker, kind, reader>>
        PROVE  Goal
    <2>1. Leaves
      BY <1>2, <1>9, LinesKept DEF Leaves, Holding, Chunk
    <2> QED BY <1>1, <1>2, <1>9, <2>1, LinesKept DEF Move, Rows
  <1>10. CASE ConnectionDone \/ ReceiveError \/ FeedSecondEscape
    BY <1>1, <1>9, <1>10 DEF ConnectionDone, ReceiveError, FeedSecondEscape,
       ConnectionLost, Exit, LeaveLoop, Forget, input, checking, Sent, Rising
  <1>11. CASE FeedOther
    <2> DEFINE h == Head(chunk)
               out == PassThrough(h)
    <2>1. /\ phase = "looping" /\ chunk # << >>
          /\ UNCHANGED <<loop, taker, kind, reader>>
      BY <1>11 DEF FeedOther, Feeding, input, checking
    <2>2. /\ h \in Nat /\ h \in Chunk
          /\ Rising(Tail(chunk))
          /\ Chunk = {h} \cup Range(Tail(chunk))
          /\ Below({h}, Range(Tail(chunk)))
          /\ Below(Sent, Holding \cup {h}) /\ Below(Holding, {h})
      BY <2>1, FeedFacts
    <2>3. out \in Seq(Nat) /\ Rising(out) /\ Range(out) = Holding \cup {h}
      BY <2>2, OutputFacts
    <2> HIDE DEF h, out
    <2>4. /\ Sends(out) => Rising(sent)' /\ Sent' = Sent \cup Holding \cup {h}
          /\ SendFails(out)
               => Rising(sent)' /\ Sent' \subseteq Sent \cup Holding \cup Chunk
      <3>1. /\ Sends(out) => Rising(sent') /\ Sent' = Sent \cup Range(out)
            /\ SendFails(out)
                => Rising(sent') /\ Sent' \subseteq Sent \cup Range(out)
        BY <1>1, <2>2, <2>3, WriteFacts
      <3> QED BY <2>2, <2>3, <3>1 DEF Rising
    <2>5. CASE Sends(out) /\ chunk' = Tail(chunk)
      <3>1. pending' = NoByte /\ phase' = phase
        BY <2>5 DEF Sends, Forget
      <3>2. Passes(h)
        BY <2>1, <2>2, <2>4, <2>5, <3>1, LinesKept DEF Passes, Leads, Chunk, Holding
      <3>3. Rows'
        BY <1>1, <2>1, <2>2, <2>5, LinesKept DEF Rows
      <3> QED BY <2>2, <2>4, <2>5, <3>2, <3>3 DEF Move
    <2>6. CASE SendFails(out)
      BY <1>9, <2>1, <2>4, <2>6 DEF SendFails, ConnectionLost, LeaveLoop, Forget
    <2> QED BY <1>11, <2>5, <2>6 DEF FeedOther, out, h
  <1>12. CASE FeedEscape
    <2> DEFINE h == Head(chunk)
    <2>1. /\ phase = "looping" /\ chunk # << >> /\ kind[h] = "escape"
          /\ pending' = h /\ chunk' = Tail(chunk)
          /\ UNCHANGED <<phase, loop, taker, kind, sent, reader>>
      BY <1>12 DEF FeedEscape, Feeding, Hold, command, input, checking
    <2>2. /\ h \in Chunk
          /\ Rising(Tail(chunk))
          /\ Chunk = {h} \cup Range(Tail(chunk))
          /\ Below({h}, Range(Tail(chunk)))
      BY <2>1, FeedFacts
    <2>3. h # NoByte
      <3>1. h \in Bytes
        BY <2>1, HeadTyped DEF Typed, TypeOK
      <3> QED BY <3>1 DEF Bytes, NoByte
    <2> HIDE DEF h
    <2>4. Holds(h)
      BY <2>1, <2>2, <2>3, LinesKept DEF Holds, Leads, Chunk, Holding
    <2>5. Rows'
      BY <1>1, <2>1, <2>2, LinesKept DEF Rows
    <2>6. Rising(sent)'
      BY <1>1, <2>1 DEF Rising
    <2> QED BY <2>2, <2>4, <2>5, <2>6 DEF Move
  <1>13. CASE FlushEscape
    <2>1. phase = "looping" /\ UNCHANGED <<loop, taker, kind, reader>>
      BY <1>13 DEF FlushEscape, input, checking
    <2>2. CASE UNCHANGED <<phase, chunk, escVars, sent>>
      BY <1>3, <2>1, <2>2 DEF escVars
    <2>3. loop \in Loops
      BY <2>1 DEF Typed, TypeOK, Resting, Loops
    <2>4. Chain(Sent, Holding, Chunk, Queued(loop), InHand(loop))
      BY <2>3 DEF Flowing, InOrder
    <2>5. Below(Sent, Range(Held)) /\ Held \in Seq(Nat) /\ Range(Held) = Holding
          /\ Rising(Held)
      BY <2>4, OutputFacts DEF Chain, Below
    <2>6. /\ Sends(Held) => Rising(sent)' /\ Sent' = Sent \cup Holding
          /\ SendFails(Held) => Rising(sent)' /\ Sent' \subseteq Sent \cup Holding
      <3>1. /\ Sends(Held) => Rising(sent') /\ Sent' = Sent \cup Range(Held)
            /\ SendFails(Held)
                => Rising(sent') /\ Sent' \subseteq Sent \cup Range(Held)
        BY <1>1, <2>5, WriteFacts
      <3> QED BY <2>5, <3>1 DEF Rising
    <2>7. CASE Sends(Held) /\ UNCHANGED chunk
      <3>1. pending' = NoByte /\ phase' = phase
        BY <2>7 DEF Sends, Forget
      <3>2. Flushes
        BY <2>1, <2>6, <2>7, <3>1, LinesKept DEF Flushes, Chunk, Holding
      <3>3. Rows'
        BY <1>1, <2>1, <2>7, LinesKept DEF Rows
      <3> QED BY <2>6, <2>7, <3>2, <3>3 DEF Move
    <2>8. CASE SendFails(Held)
      BY <1>9, <2>1, <2>6, <2>8 DEF SendFails, ConnectionLost, LeaveLoop, Forget
    <2> QED BY <1>13, <2>2, <2>7, <2>8, OutputFacts DEF FlushEscape
  <1>14. ASSUME \/ \E err \in DialErrors : DialFails(err)
                \/ Wake \/ RawModeFails \/ Drop \/ SessionEnds \/ CloseClient
                \/ StdinFails \/ TimeoutPasses \/ UNCHANGED vars
         PROVE  Goal
    <2>1. /\ UNCHANGED <<loop, taker, sent, pending, chunk, kind, reader>>
          /\ phase' = "looping" => phase = "looping"
      BY <1>14 DEF DialFails, Exit, Wake, RawModeFails, Drop, SessionEnds,
           CloseClient, StdinFails, TimeoutPasses, Age, vars, command, input,
           handling, checking
    <2> QED BY <1>3, <2>1
  <1>15. CASE Type
    <2>1. PICK k \in {"escape", "other"} : kind' = Append(kind, k)
      BY <1>15 DEF Type
    <2>2. /\ UNCHANGED <<loop, taker, sent, pending, chunk, reader, phase>>
      BY <1>15 DEF Type, command, handling, checking
    <2>3. \A i \in 1..Len(kind) : kind'[i] = kind[i]
      BY <2>1, AppendProperties DEF Typed, TypeOK
    <2>4. \A i \in 1..Len(taker) : i \in 1..Len(kind)
      BY Numbers DEF Flowing, Waiting
    <2>5. Stays
      BY <2>2, <2>3, <2>4, LinesKept DEF Stays, Holding, Chunk
    <2> QED BY <1>1, <2>2, <2>5, LinesKept DEF Move, Rows, Rising
  <1> HIDE DEF Goal
  <1> QED
    BY <1>4, <1>5, <1>6, <1>7, <1>8, <1>10, <1>11, <1>12, <1>13, <1>14, <1>15
       DEF Next, Dial, InputLoop

---------------------------------------------------------------------------
(* Order.                                                                  *)

LEMMA TakenStep ==
    ASSUME Typed, Flowing, Move
    PROVE  Taken'
  <1> USE DEF Taken, Owned
  <1>1. /\ Len(taker) \in Nat
        /\ \A i \in 1..Len(taker) : taker[i] \in Loops /\ taker[i] <= loop
        /\ loop \in 0..MaxLoops
        /\ \A g \in Loops : g \in Nat
    BY Numbers DEF Flowing, Typed, TypeOK, Loops
  <1>2. Taken
    BY DEF Flowing
  <1> HIDE DEF Flowing
  <1>3. CASE Stays
    <2>1. UNCHANGED <<loop, taker, Sent, Holding, Chunk>> /\ KeepsLines
          /\ \A i \in 1..Len(taker) : kind'[i] = kind[i]
      BY <1>3 DEF Stays, Sent
    <2>2. \A b \in Holding : b \in 1..Len(taker)
      BY <1>2
    <2> QED BY <1>2, <2>1, <2>2 DEF KeepsLines
  <1>4. CASE Connects
    <2>1. \A i \in 1..Len(taker) : taker[i] <= loop + 1
      BY <1>1, BoundsNat
    <2> QED BY <1>2, <1>4, <2>1 DEF Connects, KeepsLines, Sent
  <1>5. ASSUME NEW g \in Loops, Reads(g) PROVE Taken'
    <2>1. /\ g <= loop
          /\ Len(taker') \in Nat /\ Len(taker) <= Len(taker')
          /\ \A i \in 1..Len(taker) : i \in 1..Len(taker') /\ taker'[i] = taker[i]
          /\ \A i \in (Len(taker) + 1)..Len(taker') :
               i \in 1..Len(taker') /\ taker'[i] = g
      BY <1>1, <1>5 DEF Reads
    <2>2. \A i \in 1..Len(taker') :
            i \in 1..Len(taker) \/ i \in (Len(taker) + 1)..Len(taker')
      BY <1>1, <2>1
    <2>3. /\ InHand(g)' = (Len(taker) + 1)..Len(taker')
          /\ UNCHANGED <<loop, Sent, Holding, Chunk, kind>>
          /\ \A h \in Loops : Queued(h)' = Queued(h) /\ (h # g => InHand(h)' = InHand(h))
      BY <1>5 DEF Reads, Sent
    <2>4. \A i \in 1..Len(taker') : taker'[i] <= loop'
      BY <1>2, <2>1, <2>2, <2>3
    <2>5. \A h \in Loops : \A b \in Queued(h)' \cup InHand(h)' :
            b \in 1..Len(taker') /\ taker'[b] = h
      BY <1>2, <2>1, <2>3
    <2>6. /\ \A b \in Holding' \cup Chunk' : b \in 1..Len(taker') /\ taker'[b] = loop'
          /\ Sent' \subseteq 1..Len(taker')
          /\ \A b \in Holding' : kind'[b] = "escape"
      BY <1>2, <2>1, <2>3
    <2> QED BY <2>4, <2>5, <2>6
  <1>6. ASSUME NEW g \in Loops, Queues(g) PROVE Taken'
    <2>1. /\ Queued(g)' = InHand(g) /\ InHand(g)' = {}
          /\ \A h \in Loops \ {g} : Queued(h)' = Queued(h) /\ InHand(h)' = InHand(h)
          /\ UNCHANGED <<loop, taker, Sent, Holding, Chunk, kind>>
      BY <1>6 DEF Queues, Sent
    <2> QED BY <1>2, <2>1
  <1>7. CASE Receives
    <2>1. /\ loop \in Loops /\ Chunk' = Queued(loop) /\ Queued(loop)' = {}
          /\ \A h \in Loops : InHand(h)' = InHand(h)
                              /\ (h # loop => Queued(h)' = Queued(h))
          /\ UNCHANGED <<loop, taker, Sent, Holding, kind>>
      BY <1>7 DEF Receives, Sent
    <2> QED BY <1>2, <2>1
  <1>8. ASSUME NEW h \in Chunk, Passes(h) PROVE Taken'
    <2>1. Sent' \subseteq Sent \cup Holding \cup Chunk /\ Holding' = {}
          /\ Chunk' \subseteq Chunk /\ UNCHANGED <<loop, taker>> /\ KeepsLines
      BY <1>8 DEF Passes, Leads
    <2> QED BY <1>2, <2>1 DEF KeepsLines
  <1>9. ASSUME NEW h \in Chunk, Holds(h) PROVE Taken'
    <2>1. Holding' = {h} /\ kind[h] = "escape" /\ Chunk' \subseteq Chunk
          /\ UNCHANGED <<loop, taker, Sent, kind>> /\ KeepsLines
      BY <1>9 DEF Holds, Leads, Sent
    <2> QED BY <1>2, <2>1 DEF KeepsLines
  <1>10. CASE Flushes
    BY <1>2, <1>10 DEF Flushes, KeepsLines
  <1>11. CASE Leaves
    BY <1>2, <1>11 DEF Leaves, KeepsLines
  <1> QED
    BY <1>3, <1>4, <1>5, <1>6, <1>7, <1>8, <1>9, <1>10, <1>11 DEF Move

(* The first steps of a new loop find nothing under way to it.             *)
LEMMA OrderStep ==
    ASSUME Typed, Losses, Flowing, Move, Rising(sent)'
    PROVE  InOrder'
  <1> DEFINE Q(g) == Carries(stdinCh'[g])
             R(g) == Carries(read'[g])
  <1> SUFFICES ASSUME loop' \in Loops
               PROVE  Chain(Sent', Holding', Chunk', Q(loop'), R(loop'))
    BY DEF InOrder, Queued, InHand
  <1>1. loop \in Loops
          => Chain(Sent, Holding, Chunk, Queued(loop), InHand(loop))
    BY DEF Flowing, InOrder
  <1>2. Taken /\ Len(taker) \in Nat /\ loop \in Nat /\ \A g \in Loops : g \in Nat
    BY Numbers DEF Flowing, Typed, TypeOK, Loops
  <1>3. \A g \in Loops : Queued(g)' = Q(g) /\ InHand(g)' = R(g)
    BY DEF Queued, InHand
  <1> HIDE DEF Q, R
  <1>4. CASE Stays
    <2>1. loop' = loop /\ Sent' = Sent /\ Holding' = Holding /\ Chunk' = Chunk
      BY <1>4 DEF Stays, Sent
    <2>2. \A g \in Loops : Q(g) = Queued(g) /\ R(g) = InHand(g)
      BY <1>3, <1>4 DEF Stays, KeepsLines
    <2>3. loop \in Loops /\ Q(loop) = Queued(loop) /\ R(loop) = InHand(loop)
      BY <2>1, <2>2
    <2> QED BY <1>1, <2>1, <2>3 DEF Chain
  <1>5. CASE Connects
    <2>1. loop' = loop + 1 /\ Holding' = {} /\ Chunk' = {}
          /\ \A g \in Loops : Q(g) = Queued(g) /\ R(g) = InHand(g)
      BY <1>3, <1>5 DEF Connects, KeepsLines
    <2>2. loop' > loop
      BY <1>2, <2>1
    <2>3. Queued(loop') = {} /\ InHand(loop') = {}
      BY <2>2, Singles DEF Losses, Unstarted, Queued, InHand
    <2> QED BY <2>1, <2>3, ChainMoves
  <1>6. ASSUME NEW g \in Loops, Reads(g)
        PROVE  Chain(Sent', Holding', Chunk', Q(loop'), R(loop'))
    <2>1. /\ UNCHANGED <<loop, Sent, Holding, Chunk>>
          /\ InHand(g) = {} /\ R(g) = (Len(taker) + 1)..Len(taker')
          /\ Len(taker') \in Nat
          /\ \A h \in Loops : Q(h) = Queued(h) /\ (h # g => R(h) = InHand(h))
      BY <1>3, <1>6 DEF Reads, Sent
    <2>2. CASE g # loop
      BY <1>1, <2>1, <2>2
    <2>3. CASE g = loop
      <3>1. Sent \cup Holding \cup Chunk \cup Queued(loop) \subseteq 1..Len(taker)
        BY <1>2, <2>3 DEF Taken, Owned
      <3>2. \A a \in 1..Len(taker), b \in (Len(taker) + 1)..Len(taker') : a < b
        BY <1>2, <2>1
      <3>3. Below(Sent \cup Holding \cup Chunk \cup Queued(loop), R(loop))
        BY <2>1, <2>3, <3>1, <3>2 DEF Below
      <3> QED BY <1>1, <2>1, <2>3, <3>3, ChainMoves
    <2> QED BY <2>2, <2>3
  <1>7. ASSUME NEW g \in Loops, Queues(g)
        PROVE  Chain(Sent', Holding', Chunk', Q(loop'), R(loop'))
    <2>1. /\ UNCHANGED <<loop, Sent, Holding, Chunk>>
          /\ Queued(g) = {} /\ Q(g) = InHand(g) /\ R(g) = {}
          /\ \A h \in Loops \ {g} : Q(h) = Queued(h) /\ R(h) = InHand(h)
      BY <1>3, <1>7 DEF Queues, Sent
    <2>2. CASE g # loop
      BY <1>1, <2>1, <2>2
    <2>3. CASE g = loop
      BY <1>1, <2>1, <2>3, ChainMoves
    <2> QED BY <2>2, <2>3
  <1>8. CASE Receives
    <2>1. /\ UNCHANGED <<loop, Sent, Holding>> /\ loop \in Loops
          /\ Chunk = {} /\ Chunk' = Queued(loop) /\ Q(loop) = {}
          /\ R(loop) = InHand(loop)
      BY <1>3, <1>8 DEF Receives, Sent
    <2> QED BY <1>1, <2>1, ChainMoves
  <1>9. ASSUME NEW h \in Chunk, Passes(h) \/ Holds(h)
        PROVE  Chain(Sent', Holding', Chunk', Q(loop'), R(loop'))
    <2>1. /\ loop' = loop /\ Leads(h)
          /\ \A g \in Loops : Q(g) = Queued(g) /\ R(g) = InHand(g)
          /\ \/ Sent' = Sent \cup Holding \cup {h} /\ Holding' = {}
             \/ Sent' = Sent /\ Holding' = {h}
      BY <1>3, <1>9 DEF Passes, Holds, KeepsLines, Sent
    <2>2. Chain(Sent, {h}, Chunk', Queued(loop), InHand(loop))
          /\ Chain(Sent \cup Holding \cup {h}, {}, Chunk', Queued(loop), InHand(loop))
      BY <1>1, <2>1 DEF Leads, Chain, Below
    <2>3. Q(loop') = Queued(loop) /\ R(loop') = InHand(loop)
      BY <2>1
    <2> QED BY <2>1, <2>2, <2>3 DEF Chain
  <1>10. CASE Flushes
    <2>1. /\ loop' = loop /\ Chunk' = Chunk
          /\ \A g \in Loops : Q(g) = Queued(g) /\ R(g) = InHand(g)
          /\ Sent' = Sent \cup Holding /\ Holding' = {}
      BY <1>3, <1>10 DEF Flushes, KeepsLines
    <2> QED BY <1>1, <2>1, ChainMoves
  <1>11. CASE Leaves
    <2>1. /\ loop' = loop /\ Chunk' = {} /\ Holding' = {}
          /\ \A g \in Loops : Q(g) = Queued(g) /\ R(g) = InHand(g)
          /\ Sent' \subseteq Sent \cup Holding \cup Chunk
      BY <1>3, <1>11 DEF Leaves, KeepsLines
    <2>2. Chain(Sent', {}, {}, Queued(loop), InHand(loop))
      BY <1>1, <2>1 DEF Chain, Below
    <2> QED BY <2>1, <2>2
  <1> QED
    BY <1>4, <1>5, <1>6, <1>7, <1>8, <1>9, <1>10, <1>11 DEF Move

LEMMA FlowingAlways == Spec => []Flowing
  <1>1. Init => Losses
    BY DEF Init, Losses, Unstarted, Current, Stored, One, Loops
  <1>2. Typed /\ Losses /\ [Next]_vars => Losses'
    BY LossesStep
  <1>3. Init => Flowing
    <2> SUFFICES ASSUME Init PROVE Flowing
      OBVIOUS
    <2>1. /\ Len(<< >>) = 0 /\ Range(<< >>) = {} /\ Carries(<< >>) = {}
          /\ Rising(<< >>)
      BY Singles, EmptySeq
    <2>2. /\ kind = << >> /\ tty = << >> /\ taker = << >> /\ sent = << >>
          /\ chunk = << >> /\ pending = NoByte /\ loop = 0
          /\ \A g \in Loops : read[g] = << >> /\ stdinCh[g] = << >>
      BY DEF Init
    <2>3. Sent = {} /\ Holding = {} /\ Chunk = {}
          /\ \A g \in Loops : Queued(g) = {} /\ InHand(g) = {}
      BY <2>1, <2>2 DEF Sent, Holding, Chunk, Queued, InHand
    <2>4. Waiting
      BY <2>1, <2>2, BoundsNat DEF Waiting
    <2>5. Rows
      BY <2>1, <2>2 DEF Rows
    <2>6. Taken
      BY <2>1, <2>2, <2>3 DEF Taken, Owned
    <2>7. InOrder
      BY <2>1, <2>2 DEF InOrder, Loops
    <2> QED BY <2>4, <2>5, <2>6, <2>7 DEF Flowing
  <1>4. Typed /\ Losses /\ Flowing /\ [Next]_vars => Flowing'
    <2> SUFFICES ASSUME Typed, Losses, Flowing, [Next]_vars PROVE Flowing'
      OBVIOUS
    <2>1. Waiting'
      BY WaitingStep DEF Flowing
    <2>2. Move /\ Rows' /\ Rising(sent)'
      BY MoveStep
    <2> QED BY <2>1, <2>2, TakenStep, OrderStep DEF Flowing
  <1> QED BY <1>1, <1>2, <1>3, <1>4, TypedAlways, PTL DEF Spec

(* Over all connections the bytes go out in the order they were typed and  *)
(* none twice (the input loop of cmd/join.go).                             *)
THEOREM SendsInOrder == Spec => []SentInOrder
  <1>1. Typed /\ Flowing => SentInOrder
    <2> SUFFICES ASSUME Typed, Flowing PROVE SentInOrder
      OBVIOUS
    <2>1. DOMAIN sent = 1..Len(sent) /\ Rising(sent)
      BY Numbers, Elements DEF Flowing, InOrder
    <2> QED BY <2>1 DEF SentInOrder, Rising
  <1> QED BY <1>1, FlowingAlways, TypedAlways, PTL

---------------------------------------------------------------------------
(* Nothing the current loop has taken is forgotten, but an Escape that     *)
(* another one has overtaken.                                              *)

Kept == Holding \cup Chunk \cup Queued(loop) \cup InHand(loop)

(* What was dropped came before everything that is still kept, so that     *)
(* nothing lies between a held Escape and the byte fed next.               *)
Dropped(i) == Overtaken(i) /\ Below({i}, Kept)

AllAccounted ==
    phase = "looping" =>
        \A i \in 1..Len(taker) :
            taker[i] = loop => i \in Kept \/ i \in Sent \/ Dropped(i)

(* Between a held Escape and the next byte of the chunk the loop has taken *)
(* nothing.                                                                *)
LEMMA NothingBetween ==
    ASSUME Typed, Flowing, AllAccounted, phase = "looping",
           NEW p \in Holding, NEW h \in Chunk,
           \A b \in Chunk : b = h \/ h < b
    PROVE  /\ p \in 1..Len(taker) /\ h \in 1..Len(taker) /\ p < h
           /\ taker[p] = loop /\ taker[h] = loop
           /\ kind[p] = "escape"
           /\ \A m \in p..h : taker[m] = loop => m \in {p, h}
  <1>1. loop \in Loops /\ Len(taker) \in Nat
    BY Numbers DEF Typed, TypeOK, Resting, Loops
  <1>2. Chain(Sent, Holding, Chunk, Queued(loop), InHand(loop))
    BY <1>1 DEF Flowing, InOrder
  <1>3. /\ p \in 1..Len(taker) /\ h \in 1..Len(taker)
        /\ taker[p] = loop /\ taker[h] = loop /\ kind[p] = "escape"
    BY DEF Flowing, Taken, Owned
  <1>4. p < h /\ \A b \in Sent : b < p
    BY <1>2 DEF Chain, Below
  <1>5. ASSUME NEW b \in Kept PROVE b = p \/ b = h \/ h < b
    <2>1. Holding = {p}
      BY DEF Holding
    <2>2. \A c \in Queued(loop) \cup InHand(loop) : h < c
      BY <1>2 DEF Chain, Below
    <2> QED BY <2>1, <2>2 DEF Kept
  <1>6. ASSUME NEW m \in p..h, taker[m] = loop PROVE m \in {p, h}
    <2>1. m \in 1..Len(taker) /\ p <= m /\ m <= h
      BY <1>1, <1>3
    <2>2. m \in Kept \/ m \in Sent \/ Dropped(m)
      BY <1>6, <2>1 DEF AllAccounted
    <2>3. m \notin Sent
      BY <1>3, <1>4, <2>1
    <2>4. ~Dropped(m)
      <3>1. p \in Kept
        BY DEF Kept
      <3>2. ~(m < p)
        BY <1>3, <2>1
      <3> QED BY <3>1, <3>2 DEF Dropped, Below
    <2>5. m \in Kept
      BY <2>2, <2>3, <2>4
    <2>6. m = p \/ m = h \/ h < m
      BY <1>5, <2>5
    <2> QED BY <1>3, <2>1, <2>6
  <1> QED BY <1>3, <1>4, <1>6

(* An Escape that has been overtaken remains so.                           *)
LEMMA OvertakenStays ==
    ASSUME Typed, loop' = loop,
           Len(taker') \in Nat, Len(taker) <= Len(taker'),
           DOMAIN taker' = 1..Len(taker'),
           \A i \in 1..Len(taker) : taker'[i] = taker[i] /\ kind'[i] = kind[i],
           NEW i \in 1..Len(taker), Overtaken(i)
    PROVE  Overtaken(i)'
  <1>1. Len(taker) \in Nat /\ DOMAIN taker = 1..Len(taker)
    BY LenProperties DEF Typed, TypeOK
  <1>2. PICK j \in 1..Len(taker) :
          /\ i < j /\ taker[j] = loop /\ kind[j] = "escape"
          /\ \A m \in (i + 1)..(j - 1) : taker[m] # loop
    BY <1>1 DEF Overtaken
  <1>3. \A m \in (i + 1)..(j - 1) : m \in 1..Len(taker)
    BY <1>1, <1>2
  <1>4. j \in 1..Len(taker') /\ taker'[j] = loop' /\ kind'[j] = "escape"
        /\ \A m \in (i + 1)..(j - 1) : taker'[m] # loop'
    BY <1>1, <1>2, <1>3
  <1>5. kind'[i] = "escape"
    BY DEF Overtaken
  <1> QED BY <1>2, <1>4, <1>5 DEF Overtaken

(* A step that forgets nothing: what the loop keeps is what it kept, but   *)
(* for what it has sent and what it has newly taken.                       *)
LEMMA AccountedMoves ==
    ASSUME Typed, Typed', AllAccounted, phase = "looping", loop' = loop,
           Len(taker) <= Len(taker'),
           \A i \in 1..Len(taker) : taker'[i] = taker[i] /\ kind'[i] = kind[i],
           \A i \in 1..Len(taker') :
               taker'[i] = loop => i \in 1..Len(taker) \/ i \in Kept',
           \A b \in Kept' : b \in Kept \/ \A i \in 1..Len(taker) : i < b,
           \A b \in Kept : b \in Kept' \/ b \in Sent' \/ Dropped(b)',
           Sent \subseteq Sent'
    PROVE  AllAccounted'
  <1> SUFFICES ASSUME NEW i \in 1..Len(taker'), taker'[i] = loop
               PROVE  i \in Kept' \/ i \in Sent' \/ Dropped(i)'
    BY DEF AllAccounted
  <1>1. Len(taker') \in Nat /\ DOMAIN taker' = 1..Len(taker')
    BY LenProperties DEF Typed, TypeOK
  <1>2. CASE i \notin 1..Len(taker)
    BY <1>2
  <1>3. CASE i \in 1..Len(taker)
    <2>1. i \in Kept \/ i \in Sent \/ Dropped(i)
      BY <1>3 DEF AllAccounted
    <2>2. CASE Dropped(i)
      <3>1. Overtaken(i)'
        BY <1>1, <1>3, <2>2, OvertakenStays DEF Dropped
      <3>2. Below({i}, Kept')
        BY <1>3, <2>2 DEF Dropped, Below
      <3> QED BY <3>1, <3>2 DEF Dropped
    <2> QED BY <2>1, <2>2
  <1> QED BY <1>2, <1>3

LEMMA AccountedStep ==
    ASSUME Typed, Typed', Flowing, AllAccounted, Move
    PROVE  AllAccounted'
  <1> SUFFICES ASSUME phase' = "looping" PROVE AllAccounted'
    BY DEF AllAccounted
  <1>1. /\ Len(taker) \in Nat /\ loop \in 0..MaxLoops
        /\ \A i \in 1..Len(taker) : taker[i] \in Loops /\ taker[i] <= loop
        /\ phase = "looping" => loop \in Loops
    <2>1. loop \in 0..MaxLoops /\ (phase = "looping" => loop \in Loops)
      BY BoundsNat DEF Typed, TypeOK, Resting, Loops
    <2>2. Len(taker) \in Nat /\ \A i \in 1..Len(taker) : taker[i] \in Loops
      BY Numbers
    <2>3. \A i \in 1..Len(taker) : taker[i] <= loop
      BY DEF Flowing, Taken
    <2> QED BY <2>1, <2>2, <2>3
  <1>2. CASE Connects
    <2>1. loop' = loop + 1 /\ taker' = taker
      BY <1>2 DEF Connects
    <2>2. \A i \in 1..Len(taker) : taker[i] # loop'
      BY <1>1, <2>1 DEF Loops
    <2> QED BY <2>1, <2>2 DEF AllAccounted
  <1>3. ASSUME phase = "looping", loop' = loop, taker' = taker,
               \A i \in 1..Len(taker) : kind'[i] = kind[i],
               Kept' \subseteq Kept, Sent \subseteq Sent',
               \A b \in Kept : b \in Kept' \/ b \in Sent' \/ Dropped(b)'
        PROVE  AllAccounted'
    BY <1>1, <1>3, AccountedMoves
  <1>4. CASE Stays
    <2>1. /\ phase = "looping" /\ loop' = loop /\ taker' = taker
          /\ \A i \in 1..Len(taker) : kind'[i] = kind[i]
          /\ Sent' = Sent /\ Holding' = Holding /\ Chunk' = Chunk
          /\ KeepsLines
      BY <1>4 DEF Stays, Sent
    <2>2. Queued(loop)' = Queued(loop) /\ InHand(loop)' = InHand(loop)
      BY <1>1, <2>1 DEF KeepsLines, Queued, InHand
    <2>3. Kept' = Kept
      BY <2>1, <2>2 DEF Kept
    <2> QED BY <1>3, <2>1, <2>3
  <1>5. ASSUME NEW g \in Loops, Reads(g) PROVE AllAccounted'
    <2>1. /\ phase = "looping" /\ loop' = loop /\ Sent' = Sent
          /\ Len(taker) <= Len(taker') /\ Len(taker') \in Nat
          /\ \A i \in 1..Len(taker) : taker'[i] = taker[i] /\ kind'[i] = kind[i]
          /\ Holding' = Holding /\ Chunk' = Chunk
          /\ InHand(g) = {} /\ InHand(g)' = (Len(taker) + 1)..Len(taker')
          /\ \A h \in Loops : Queued(h)' = Queued(h)
                              /\ (h # g => InHand(h)' = InHand(h))
      BY <1>1, <1>5 DEF Reads, Sent
    <2>2. \A i \in 1..Len(taker') :
            i \in 1..Len(taker) \/ (taker'[i] = g /\ i \in InHand(g)')
      BY <1>1, <1>5, <2>1 DEF Reads
    <2>3. Queued(loop)' = Queued(loop)
          /\ InHand(loop)' = IF g = loop THEN InHand(g)' ELSE InHand(loop)
      BY <1>1, <2>1 DEF Queued, InHand
    <2>4. Kept' = IF g = loop THEN Kept \cup InHand(g)' ELSE Kept
      BY <2>1, <2>3 DEF Kept
    <2>5. \A b \in InHand(g)', i \in 1..Len(taker) : i < b
      BY <1>1, <2>1
    <2>6. \A i \in 1..Len(taker') : taker'[i] = loop => i \in 1..Len(taker) \/ i \in Kept'
      BY <2>2, <2>4
    <2>7. \A b \in Kept' : b \in Kept \/ \A i \in 1..Len(taker) : i < b
      BY <2>4, <2>5
    <2>8. \A b \in Kept : b \in Kept'
      BY <2>4
    <2> QED BY <2>1, <2>6, <2>7, <2>8, AccountedMoves
  <1>6. ASSUME NEW g \in Loops, Queues(g) PROVE AllAccounted'
    <2>1. /\ phase = "looping" /\ loop' = loop /\ taker' = taker /\ kind' = kind
          /\ Sent' = Sent /\ Holding' = Holding /\ Chunk' = Chunk
          /\ Queued(g) = {} /\ Queued(g)' = InHand(g) /\ InHand(g)' = {}
          /\ \A h \in Loops \ {g} : Queued(h)' = Queued(h) /\ InHand(h)' = InHand(h)
      BY <1>6 DEF Queues, Sent
    <2>2. Queued(loop)' \cup InHand(loop)' = Queued(loop) \cup InHand(loop)
      <3>1. CASE g = loop
        BY <2>1, <3>1 DEF Queued, InHand
      <3>2. CASE g # loop
        BY <1>1, <2>1, <3>2 DEF Queued, InHand
      <3> QED BY <3>1, <3>2
    <2>3. Kept' = Kept
      BY <2>1, <2>2 DEF Kept
    <2> QED BY <1>3, <2>1, <2>3
  <1>7. CASE Receives
    <2>1. /\ phase = "looping" /\ loop' = loop /\ taker' = taker /\ kind' = kind
          /\ Sent' = Sent /\ Holding' = Holding
          /\ Chunk = {} /\ Chunk' = Queued(loop) /\ Queued(loop)' = {}
          /\ InHand(loop)' = InHand(loop)
      BY <1>7 DEF Receives, Sent, InHand
    <2>2. Kept' = Kept
      BY <2>1 DEF Kept
    <2> QED BY <1>3, <2>1, <2>2
  <1>8. ASSUME phase = "looping", loop' = loop, KeepsLines
        PROVE  Queued(loop)' = Queued(loop) /\ InHand(loop)' = InHand(loop)
    BY <1>1, <1>8 DEF KeepsLines, Queued, InHand
  <1>9. ASSUME NEW h \in Chunk, Passes(h) PROVE AllAccounted'
    <2>1. /\ phase = "looping" /\ loop' = loop /\ taker' = taker /\ kind' = kind
          /\ Sent' = Sent \cup Holding \cup {h} /\ Holding' = {}
          /\ Chunk = {h} \cup Chunk' /\ KeepsLines
      BY <1>9 DEF Passes, Leads
    <2>2. Kept' \subseteq Kept /\ \A b \in Kept : b \in Kept' \/ b \in Sent'
      BY <1>8, <2>1 DEF Kept
    <2> QED BY <1>3, <2>1, <2>2
  <1>10. CASE Flushes
    <2>1. /\ phase = "looping" /\ loop' = loop /\ taker' = taker /\ kind' = kind
          /\ Sent' = Sent \cup Holding /\ Holding' = {}
          /\ Chunk' = Chunk /\ KeepsLines
      BY <1>10 DEF Flushes
    <2>2. Kept' \subseteq Kept /\ \A b \in Kept : b \in Kept' \/ b \in Sent'
      BY <1>8, <2>1 DEF Kept
    <2> QED BY <1>3, <2>1, <2>2
  <1>11. ASSUME NEW h \in Chunk, Holds(h) PROVE AllAccounted'
    <2>1. /\ phase = "looping" /\ loop' = loop /\ taker' = taker /\ kind' = kind
          /\ Sent' = Sent /\ Holding' = {h} /\ kind[h] = "escape"
          /\ Chunk = {h} \cup Chunk' /\ Below({h}, Chunk') /\ KeepsLines
      BY <1>11 DEF Holds, Leads, Sent
    <2>2. Kept' = {h} \cup Chunk' \cup Queued(loop) \cup InHand(loop)
      BY <1>8, <2>1 DEF Kept
    <2>3. Kept' \subseteq Kept /\ \A b \in Kept : b \in Kept' \/ b \in Holding
      BY <2>1, <2>2 DEF Kept
    <2>4. ASSUME NEW p \in Holding PROVE Dropped(p)'
      <3>1. \A b \in Chunk : b = h \/ h < b
        BY <2>1 DEF Below
      <3>2. /\ p \in 1..Len(taker) /\ h \in 1..Len(taker) /\ p < h
            /\ taker[p] = loop /\ taker[h] = loop
            /\ kind[p] = "escape"
            /\ \A m \in p..h : taker[m] = loop => m \in {p, h}
        BY <2>1, <3>1, NothingBetween
      <3>3. \A m \in (p + 1)..(h - 1) : m \in p..h /\ m # p /\ m # h
        BY <1>1, <3>2
      <3>4. \A m \in (p + 1)..(h - 1) : taker[m] # loop
        BY <3>2, <3>3
      <3>5. Overtaken(p)
        <4>1. h \in DOMAIN taker
          BY <3>2, LenProperties DEF Typed, TypeOK
        <4> QED BY <2>1, <3>2, <3>4, <4>1 DEF Overtaken
      <3>6. Overtaken(p)'
        BY <2>1, <3>5 DEF Overtaken
      <3>7. Chain(Sent, Holding, Chunk, Queued(loop), InHand(loop))
        BY <1>1, <2>1 DEF Flowing, InOrder
      <3>8. Below({p}, Kept')
        BY <2>1, <2>2, <3>7 DEF Chain, Below
      <3> QED BY <3>6, <3>8 DEF Dropped
    <2> QED BY <1>3, <2>1, <2>3, <2>4
  <1>12. ~Leaves
    BY DEF Leaves
  <1> QED
    BY <1>2, <1>4, <1>5, <1>6, <1>7, <1>9, <1>10, <1>11, <1>12 DEF Move

LEMMA AccountedAlways == Spec => []AllAccounted
  <1>1. Init => AllAccounted
    BY DEF Init, AllAccounted
  <1>2. Typed /\ Typed' /\ Flowing /\ AllAccounted /\ [Next]_vars => AllAccounted'
    BY MoveStep, AccountedStep
  <1> QED BY <1>1, <1>2, TypedAlways, FlowingAlways, PTL DEF Spec

(* Every byte the current loop's reader has taken is sent, held or on its  *)
(* way, but for an overtaken Escape (cmd/join.go, client/escape.go).       *)
THEOREM BytesAccounted == Spec => []Accounted
  <1>1. Typed /\ AllAccounted => Accounted
    <2> SUFFICES ASSUME Typed, AllAccounted, phase = "looping",
                        NEW i \in DOMAIN taker, taker[i] = loop
                 PROVE  i \in OnItsWay \/ Overtaken(i)
      BY DEF Accounted
    <2>1. i \in 1..Len(taker)
      BY LenProperties DEF Typed, TypeOK
    <2>2. i \in Kept \/ i \in Sent \/ Dropped(i)
      BY <2>1 DEF AllAccounted
    <2> QED BY <2>2 DEF Kept, Sent, Dropped, OnItsWay, Holding, Chunk, Queued, InHand,
                        Carries
  <1> QED BY <1>1, AccountedAlways, TypedAlways, PTL

(* Only two Escapes with nothing between them disconnect: what was pressed *)
(* is fixed when the command returns, and nothing is taken afterwards.     *)
THEOREM DisconnectsMeant == Spec => []DisconnectMeant
  <1>1. Init => DisconnectMeant
    BY DEF Init, DisconnectMeant
  <1>2. Typed /\ Flowing /\ AllAccounted /\ DisconnectMeant /\ [Next]_vars
          => DisconnectMeant'
    <2> SUFFICES ASSUME Typed, Flowing, AllAccounted, DisconnectMeant, [Next]_vars,
                        outcome' = "disconnected"
                 PROVE  DisconnectMeant'
      BY DEF DisconnectMeant
    <2>1. CASE FeedSecondEscape
      <3> DEFINE p == pending
                 h == Head(chunk)
      <3>1. /\ phase = "looping" /\ chunk # << >> /\ kind[h] = "escape"
            /\ p # NoByte /\ pressed' = <<p, h>>
            /\ UNCHANGED <<loop, kind, taker>>
        BY <2>1 DEF FeedSecondEscape, Feeding, IsSecond, input
      <3>2. h \in Chunk /\ p \in Holding /\ \A b \in Chunk : b = h \/ h < b
        BY <3>1, FeedFacts DEF Holding, Below
      <3>3. /\ taker[p] = loop /\ taker[h] = loop /\ kind[p] = "escape"
            /\ \A m \in p..h : taker[m] = loop => m \in {p, h}
        BY <3>1, <3>2, NothingBetween
      <3>4. pressed'[1] = p /\ pressed'[2] = h
        BY <3>1
      <3> QED BY <3>1, <3>3, <3>4 DEF DisconnectMeant
    <2>2. CASE ~FeedSecondEscape
      <3>1. UNCHANGED <<outcome, pressed, kind, taker, loop>>
        <4>1. CASE phase = "exited"
          BY <2>2, <4>1
             DEF Next, Dial, InputLoop, DialFails, Wake, Connected, RawModeFails,
                 ReadStdin, ReadError, SendChunk, ConnectionDone, Receive,
                 ReceiveError, FeedOther, FeedEscape, FlushEscape, Feeding, Drop,
                 SessionEnds, CloseClient, Type, StdinFails, TimeoutPasses, vars,
                 command, input, checking, Typed, Resting
        <4>2. CASE phase # "exited"
          <5>1. outcome = "none"
            BY <4>2 DEF Typed, TypeOK
          <5>2. outcome' # "disconnected"
            BY <2>2, <4>2, <5>1
               DEF Next, Dial, InputLoop, DialFails, Exit, Wake, Connected,
                   RawModeFails, ReadStdin, ReadError, SendChunk, ConnectionDone,
                   ConnectionLost, Receive, ReceiveError, FeedOther, FeedEscape,
                   FlushEscape, Sends, SendFails, Drop, SessionEnds, CloseClient,
                   Type, StdinFails, TimeoutPasses, vars, command
          <5> QED BY <5>2
        <4> QED BY <4>1, <4>2
      <3> QED BY <3>1 DEF DisconnectMeant
    <2> QED BY <2>1, <2>2
  <1> QED BY <1>1, <1>2, AccountedAlways, TypedAlways, FlowingAlways, PTL DEF Spec

=============================================================================
