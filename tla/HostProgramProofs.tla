------------------------- MODULE HostProgramProofs -------------------------
(***************************************************************************)
(* Proofs about HostProgram: what a goroutine has still to do, the locks   *)
(* it holds meanwhile, and the terminal after it has been restored.        *)
(***************************************************************************)
EXTENDS HostProgram, SequenceTheorems, TLAPS

---------------------------------------------------------------------------
(* Sequences of steps.                                                     *)

Writes == {"write", "control"}

(* A step during which the goroutine may be given other work, or return.   *)
Last == {"read", "receive", "pause", "control", "stdin.Read", "pty.Write"}

(* From step i on, all that is left to do before cryptoMu is given back is *)
(* to write frames.                                                        *)
GivesBack(q, i) ==
    \E j \in i..Len(q) :
        /\ q[j] = "runlock"
        /\ \A k \in i..(j - 1) : q[k] \in {"connLock", "write"}

(* A lock is asked for before it is used and given back afterwards, and a  *)
(* goroutine that may return or be given other work has nothing left.      *)
Shaped(q) ==
    /\ \A i \in 1..Len(q) : q[i] \in Last => i = Len(q)
    /\ \A i \in 2..Len(q) : q[i] \in Writes => q[i - 1] = "connLock"
    /\ \A i \in 1..Len(q) : q[i] = "connLock" => i < Len(q) /\ q[i + 1] \in Writes
    /\ \A i \in 1..Len(q) : q[i] = "rlock" => GivesBack(q, i + 1)
    /\ \A i \in 1..Len(q) : q[i] = "add" =>
         \A j \in (i + 1)..Len(q) : q[j] # "add"

Has(q, step) == \E i \in 1..Len(q) : q[i] = step

(* Work that is begun: the lock is still to be asked for.                  *)
Fresh(q) == Shaped(q) /\ (q # << >> => Head(q) \notin Writes)

Sharing == {"peek", "rlock", "runlock", "connLock", "write"}

StepsOf(t) ==
    IF t = "main"
      THEN Sharing \cup {"stdin.Read", "pty.Write", "close(done)", "conn.Close",
                         "kill", "<-p.done", "wg.Wait", "print", "restore"}
    ELSE IF t = "pingLoop" THEN {"connLock", "control"}
    ELSE IF t = "activityPulse" THEN {"title", "pause"}
    ELSE IF t = "latencyPingLoop" THEN Sharing
    ELSE IF t = "readOutput" THEN Sharing \cup {"read", "print"}
    ELSE IF t = "readRelayMessages"
      THEN Sharing \cup {"receive", "inject", "lock", "complete", "delete", "add",
                         "print", "title", "keyReady", "clientJoined"}
    ELSE {}

Work(q, t) == q \in Seq(StepsOf(t)) /\ Fresh(q) /\ ~Has(q, "restore")

LEMMA Steps ==
    ASSUME NEW S, NEW q \in Seq(S)
    PROVE  /\ Len(q) \in Nat
           /\ q = << >> <=> Len(q) = 0
           /\ q # << >> => Head(q) = q[1] /\ Len(q) >= 1
           /\ \A i \in 1..Len(q) : q[i] \in S
           /\ q # << >> =>
                /\ Tail(q) \in Seq(S) /\ Len(Tail(q)) = Len(q) - 1
                /\ \A i \in 1..Len(Tail(q)) : Tail(q)[i] = q[i + 1]
  <1>1. Len(q) \in Nat /\ \A i \in 1..Len(q) : q[i] \in S
    BY LenProperties, ElementOfSeq
  <1>2. q = << >> <=> Len(q) = 0
    BY EmptySeq
  <1>3. q # << >> => Head(q) = q[1] /\ Len(q) >= 1
    BY EmptySeq
  <1> QED BY <1>1, <1>2, <1>3, HeadTailProperties

LEMMA TailShaped ==
    ASSUME NEW S, NEW q \in Seq(S), q # << >>, Shaped(q)
    PROVE  /\ Shaped(Tail(q))
           /\ Head(q) = "connLock" => Tail(q) # << >> /\ Head(Tail(q)) \in Writes
           /\ Tail(q) # << >> /\ Head(Tail(q)) \in Writes => Head(q) = "connLock"
           /\ Head(q) = "rlock" => GivesBack(Tail(q), 1)
           /\ GivesBack(q, 1) =>
                \/ Head(q) = "runlock"
                \/ Head(q) \in {"connLock", "write"} /\ GivesBack(Tail(q), 1)
           /\ Head(q) = "add" => ~Has(Tail(q), "add")
           /\ Head(q) \in Last => Tail(q) = << >>
           /\ \A step : Has(Tail(q), step) => Has(q, step)
           /\ \A step : Has(q, step) => Has(Tail(q), step) \/ Head(q) = step
  <1> DEFINE r == Tail(q)
             n == Len(q)
  <1>1. /\ n \in Nat /\ n >= 1 /\ Head(q) = q[1]
        /\ r \in Seq(S) /\ Len(r) = n - 1
        /\ \A i \in 1..Len(r) : r[i] = q[i + 1]
    BY Steps
  <1>2. r = << >> <=> n = 1
    <2>1. Len(r) = n - 1 /\ (r = << >> <=> Len(r) = 0)
      BY <1>1, Steps
    <2> HIDE DEF r, n
    <2> QED BY <1>1, <2>1
  <1>3. r # << >> => Head(r) = q[2] /\ n >= 2
    <2>1. r # << >> => Head(r) = r[1] /\ Len(r) >= 1
      BY <1>1, Steps
    <2>2. Len(r) >= 1 => r[1] = q[1 + 1]
      BY <1>1
    <2> HIDE DEF r, n
    <2> QED BY <1>1, <2>1, <2>2
  <1> HIDE DEF r
  <1>4. \A i \in 1..Len(r) : i + 1 \in 1..n /\ r[i] = q[i + 1]
    BY <1>1
  <1>5. \A i \in 2..n : i - 1 \in 1..Len(r) /\ q[i] = r[i - 1]
    BY <1>1
  <1>6. \A step : Has(r, step) => Has(q, step)
    BY <1>4 DEF Has
  <1>7. ASSUME NEW step, Has(q, step) PROVE Has(r, step) \/ Head(q) = step
    <2>1. PICK i \in 1..n : q[i] = step
      BY <1>7 DEF Has
    <2>2. i = 1 \/ i \in 2..n
      BY <1>1
    <2> QED BY <1>1, <1>5, <2>1, <2>2 DEF Has
  <1>8. /\ \A i \in 1..n : q[i] \in Last => i = n
        /\ \A i \in 2..n : q[i] \in Writes => q[i - 1] = "connLock"
        /\ \A i \in 1..n : q[i] = "connLock" => i < n /\ q[i + 1] \in Writes
        /\ \A i \in 1..n : q[i] = "rlock" => GivesBack(q, i + 1)
        /\ \A i \in 1..n : q[i] = "add" => \A j \in (i + 1)..n : q[j] # "add"
    BY DEF Shaped
  <1> HIDE DEF n
  <1>9. /\ \A i \in 1..Len(r) : r[i] \in Last => i = Len(r)
        /\ \A i \in 2..Len(r) : r[i] \in Writes => r[i - 1] = "connLock"
        /\ \A i \in 1..Len(r) : r[i] = "connLock" => i < Len(r) /\ r[i + 1] \in Writes
    <2>1. \A i \in 1..Len(r) : r[i] \in Last => i = Len(r)
      BY <1>1, <1>4, <1>8
    <2>2. \A i \in 2..Len(r) : r[i] \in Writes => r[i - 1] = "connLock"
      <3> SUFFICES ASSUME NEW i \in 2..Len(r), r[i] \in Writes
                   PROVE  r[i - 1] = "connLock"
        OBVIOUS
      <3>1. i + 1 \in 2..n /\ r[i] = q[i + 1] /\ r[i - 1] = q[i] /\ (i + 1) - 1 = i
        BY <1>1
      <3> QED BY <1>8, <3>1
    <2>3. \A i \in 1..Len(r) : r[i] = "connLock" => i < Len(r) /\ r[i + 1] \in Writes
      <3> SUFFICES ASSUME NEW i \in 1..Len(r), r[i] = "connLock"
                   PROVE  i < Len(r) /\ r[i + 1] \in Writes
        OBVIOUS
      <3>1. i + 1 < n /\ q[(i + 1) + 1] \in Writes
        BY <1>4, <1>8
      <3>2. i + 1 \in 1..Len(r) /\ r[i + 1] = q[(i + 1) + 1]
        BY <1>1, <3>1
      <3> QED BY <1>1, <3>1, <3>2
    <2> QED BY <2>1, <2>2, <2>3
  <1>10. ASSUME NEW i \in Nat \ {0}, GivesBack(q, i + 1)
         PROVE  GivesBack(r, i)
    <2>1. PICK j \in (i + 1)..n :
            /\ q[j] = "runlock"
            /\ \A k \in (i + 1)..(j - 1) : q[k] \in {"connLock", "write"}
      BY <1>10 DEF GivesBack, n
    <2>2. /\ j - 1 \in i..Len(r) /\ r[j - 1] = "runlock"
          /\ \A k \in i..((j - 1) - 1) : r[k] \in {"connLock", "write"}
      <3>1. j - 1 \in i..Len(r) /\ j - 1 \in 1..Len(r) /\ (j - 1) + 1 = j
        BY <1>1, <2>1
      <3>2. ASSUME NEW k \in i..((j - 1) - 1) PROVE r[k] \in {"connLock", "write"}
        <4>1. k \in 1..Len(r) /\ k + 1 \in (i + 1)..(j - 1)
          BY <3>1
        <4> QED BY <1>4, <2>1, <4>1
      <3> QED BY <1>4, <2>1, <3>1, <3>2
    <2> QED BY <2>2 DEF GivesBack
  <1>11. \A i \in 1..Len(r) : r[i] = "add" =>
           \A j \in (i + 1)..Len(r) : r[j] # "add"
    <2> SUFFICES ASSUME NEW i \in 1..Len(r), r[i] = "add", NEW j \in (i + 1)..Len(r)
                 PROVE  r[j] # "add"
      OBVIOUS
    <2>1. j + 1 \in ((i + 1) + 1)..n /\ r[j] = q[j + 1]
      BY <1>1
    <2> QED BY <1>4, <1>8, <2>1
  <1>12. Shaped(r)
    <2>1. ASSUME NEW i \in 1..Len(r), r[i] = "rlock" PROVE GivesBack(r, i + 1)
      <3>1. i + 1 \in 1..n /\ q[i + 1] = "rlock"
        BY <1>4, <2>1
      <3> QED BY <1>8, <1>10, <3>1
    <2> QED BY <1>9, <1>11, <2>1 DEF Shaped
  <1>13. /\ Head(q) = "connLock" => r # << >> /\ Head(r) \in Writes
         /\ r # << >> /\ Head(r) \in Writes => Head(q) = "connLock"
         /\ Head(q) \in Last => r = << >>
    BY <1>1, <1>2, <1>3, <1>8
  <1>14. Head(q) = "rlock" => GivesBack(r, 1)
    BY <1>1, <1>8, <1>10
  <1>15. Head(q) = "add" => ~Has(r, "add")
    <2> SUFFICES ASSUME q[1] = "add", NEW i \in 1..Len(r) PROVE r[i] # "add"
      BY <1>1 DEF Has
    <2>1. i + 1 \in (1 + 1)..n /\ 1 \in 1..n /\ r[i] = q[i + 1]
      BY <1>1
    <2>2. \A j \in (1 + 1)..n : q[j] # "add"
      BY <1>8, <2>1
    <2> QED BY <2>1, <2>2
  <1>16. GivesBack(q, 1) => \/ Head(q) = "runlock"
                            \/ Head(q) \in {"connLock", "write"} /\ GivesBack(r, 1)
    <2> SUFFICES ASSUME GivesBack(q, 1)
                 PROVE  \/ Head(q) = "runlock"
                        \/ Head(q) \in {"connLock", "write"} /\ GivesBack(r, 1)
      OBVIOUS
    <2>1. PICK j \in 1..n :
            /\ q[j] = "runlock"
            /\ \A k \in 1..(j - 1) : q[k] \in {"connLock", "write"}
      BY DEF GivesBack, n
    <2>2. CASE j = 1
      BY <1>1, <2>1, <2>2
    <2>3. CASE j # 1
      <3>1. 1 \in 1..(j - 1) /\ j \in 2..n
        BY <1>1, <2>3
      <3>2. GivesBack(q, 1 + 1)
        BY <2>1, <3>1 DEF GivesBack, n
      <3> QED BY <1>1, <1>10, <2>1, <3>1, <3>2
    <2> QED BY <2>2, <2>3
  <1> QED BY <1>6, <1>7, <1>12, <1>13, <1>14, <1>15, <1>16 DEF r

---------------------------------------------------------------------------
(* The work a goroutine takes up.                                          *)

LEMMA Frame ==
    ASSUME NEW n \in Nat \ {0}
    PROVE  LET q == <<"rlock">> \o Frames(n) \o <<"runlock">>
           IN  q \in Seq(Sharing) /\ Fresh(q)
  <1> DEFINE f == Frames(n)
             q == <<"rlock">> \o f \o <<"runlock">>
             l == 2 * n
  <1>1. l \in Nat /\ l >= 2 /\ l % 2 = 0
    OBVIOUS
  <1>2. f = [i \in 1..l |-> IF i % 2 = 1 THEN "connLock" ELSE "write"]
    BY DEF Frames
  <1>3. f \in Seq(Sharing) /\ Len(f) = l
    BY <1>1, <1>2 DEF Sharing
  <1>4. /\ <<"rlock">> \in Seq(Sharing) /\ Len(<<"rlock">>) = 1
        /\ <<"runlock">> \in Seq(Sharing) /\ Len(<<"runlock">>) = 1
    BY DEF Sharing
  <1>5. /\ <<"rlock">> \o f \in Seq(Sharing) /\ Len(<<"rlock">> \o f) = l + 1
        /\ \A i \in 1..(l + 1) : (<<"rlock">> \o f)[i] =
              IF i <= 1 THEN "rlock" ELSE f[i - 1]
    <2> DEFINE a == <<"rlock">>
    <2>1. a \in Seq(Sharing) /\ Len(a) = 1 /\ a[1] = "rlock"
      BY <1>4
    <2> HIDE DEF a, f
    <2>2. /\ a \o f \in Seq(Sharing) /\ Len(a \o f) = Len(a) + Len(f)
          /\ \A i \in 1..(Len(a) + Len(f)) :
               (a \o f)[i] = IF i <= Len(a) THEN a[i] ELSE f[i - Len(a)]
      BY <1>3, <2>1, ConcatProperties
    <2>3. /\ a \o f \in Seq(Sharing) /\ Len(a \o f) = l + 1
          /\ \A i \in 1..(l + 1) :
               (a \o f)[i] = IF i <= 1 THEN "rlock" ELSE f[i - 1]
      <3>1. Len(a) + Len(f) = l + 1 /\ \A i \in 1..(l + 1) : i <= 1 => i = 1
        BY <1>1, <1>3, <2>1
      <3> QED BY <2>1, <2>2, <3>1
    <2> QED BY <2>3 DEF a
  <1>6. /\ q \in Seq(Sharing) /\ Len(q) = l + 2
        /\ \A i \in 1..(l + 2) : q[i] =
              IF i <= l + 1 THEN (<<"rlock">> \o f)[i] ELSE "runlock"
    <2>1. /\ q \in Seq(Sharing) /\ Len(q) = (l + 1) + 1
          /\ \A i \in 1..((l + 1) + 1) : q[i] =
               IF i <= l + 1 THEN (<<"rlock">> \o f)[i]
                             ELSE <<"runlock">>[i - (l + 1)]
      <3> DEFINE a == <<"rlock">> \o f
                 b == <<"runlock">>
      <3>1. /\ a \in Seq(Sharing) /\ b \in Seq(Sharing)
            /\ Len(a) = l + 1 /\ Len(b) = 1
        BY <1>4, <1>5
      <3>2. q = a \o b
        OBVIOUS
      <3> HIDE DEF a, b, q
      <3>3. /\ a \o b \in Seq(Sharing) /\ Len(a \o b) = Len(a) + Len(b)
            /\ \A i \in 1..(Len(a) + Len(b)) :
                 (a \o b)[i] = IF i <= Len(a) THEN a[i] ELSE b[i - Len(a)]
        BY <3>1, ConcatProperties
      <3>4. /\ q \in Seq(Sharing) /\ Len(q) = (l + 1) + 1
            /\ \A i \in 1..((l + 1) + 1) : q[i] =
                 IF i <= l + 1 THEN a[i] ELSE b[i - (l + 1)]
        BY <3>1, <3>2, <3>3
      <3> QED BY <3>4 DEF a, b
    <2>2. \A i \in 1..((l + 1) + 1) : ~(i <= l + 1) => i - (l + 1) = 1
      BY <1>1
    <2>3. (l + 1) + 1 = l + 2
      BY <1>1
    <2> QED BY <2>1, <2>2, <2>3
  <1> HIDE DEF q, l
  <1>7. \A i \in 1..(l + 2) :
          q[i] = IF i = 1 THEN "rlock" ELSE IF i = l + 2 THEN "runlock"
                 ELSE IF i % 2 = 0 THEN "connLock" ELSE "write"
    <2> SUFFICES ASSUME NEW i \in 1..(l + 2)
                 PROVE  q[i] = IF i = 1 THEN "rlock" ELSE IF i = l + 2 THEN "runlock"
                               ELSE IF i % 2 = 0 THEN "connLock" ELSE "write"
      OBVIOUS
    <2>1. CASE i = 1
      BY <1>1, <1>5, <1>6, <2>1
    <2>2. CASE i = l + 2
      BY <1>1, <1>6, <2>2
    <2>3. CASE i # 1 /\ i # l + 2
      <3>1. i \in 1..(l + 1) /\ i - 1 \in 1..l /\ ((i - 1) % 2 = 1 <=> i % 2 = 0)
        BY <1>1, <2>3
      <3>2. q[i] = f[i - 1]
        BY <1>5, <1>6, <2>3, <3>1
      <3> QED BY <1>2, <2>3, <3>1, <3>2
    <2> QED BY <2>1, <2>2, <2>3
  <1>8. \A i \in 1..Len(q) : q[i] \notin Last /\ q[i] # "add"
    BY <1>6, <1>7 DEF Last
  <1>9. \A i \in 2..Len(q) : q[i] \in Writes => q[i - 1] = "connLock"
    <2> SUFFICES ASSUME NEW i \in 2..(l + 2), q[i] \in Writes
                 PROVE  q[i - 1] = "connLock"
      BY <1>6
    <2>1. i \in 1..(l + 2) /\ i # 1 /\ i # l + 2 /\ i % 2 = 1
      BY <1>1, <1>7 DEF Writes
    <2>2. i - 1 \in 1..(l + 2) /\ i - 1 # 1 /\ i - 1 # l + 2 /\ (i - 1) % 2 = 0
      BY <1>1, <2>1
    <2> QED BY <1>7, <2>2
  <1>10. \A i \in 1..Len(q) : q[i] = "connLock" => i < Len(q) /\ q[i + 1] \in Writes
    <2> SUFFICES ASSUME NEW i \in 1..(l + 2), q[i] = "connLock"
                 PROVE  i < l + 2 /\ q[i + 1] \in Writes
      BY <1>6
    <2>1. i # 1 /\ i # l + 2 /\ i % 2 = 0
      BY <1>7
    <2>2. i + 1 \in 1..(l + 2) /\ i + 1 # 1 /\ (i + 1) % 2 = 1
          /\ (l + 2) % 2 = 0 /\ i < l + 2
      BY <1>1, <2>1
    <2> QED BY <1>7, <2>2 DEF Writes
  <1>11. /\ \A i \in 1..Len(q) : q[i] = "rlock" => GivesBack(q, i + 1)
         /\ \A i \in 1..Len(q) : q[i] = "add" =>
              \A j \in (i + 1)..Len(q) : q[j] # "add"
    <2>1. \A i \in 1..(l + 2) : q[i] = "rlock" => i = 1
      BY <1>7
    <2>2. l + 2 \in (1 + 1)..(l + 2) /\ q[l + 2] = "runlock"
      BY <1>1, <1>7
    <2>3. ASSUME NEW k \in (1 + 1)..((l + 2) - 1)
          PROVE  q[k] \in {"connLock", "write"}
      <3>1. k \in 1..(l + 2) /\ k # 1 /\ k # l + 2
        BY <1>1
      <3> QED BY <1>7, <3>1
    <2>4. GivesBack(q, 1 + 1)
      BY <1>6, <2>2, <2>3 DEF GivesBack
    <2> QED BY <1>6, <1>8, <2>1, <2>4
  <1>12. Shaped(q)
    BY <1>8, <1>9, <1>10, <1>11 DEF Shaped
  <1>13. Head(q) = "rlock"
    <2>1. q # << >> => Head(q) = q[1]
      BY <1>6, Steps
    <2>2. Len(q) # 0
      BY <1>1, <1>6
    <2>3. q # << >>
      BY <2>2, EmptySeq
    <2> QED BY <1>1, <1>7, <2>1, <2>3
  <1>14. Fresh(q)
    BY <1>12, <1>13 DEF Fresh, Writes
  <1> QED BY <1>6, <1>14 DEF q

LEMMA Concatenation ==
    ASSUME NEW S, NEW a \in Seq(S), NEW b \in Seq(S), Fresh(a), Fresh(b),
           \A step \in Last : ~Has(a, step),
           ~(Has(a, "add") /\ Has(b, "add"))
    PROVE  /\ a \o b \in Seq(S) /\ Fresh(a \o b)
           /\ \A step : Has(a \o b, step) <=> Has(a, step) \/ Has(b, step)
  <1> DEFINE q == a \o b
             m == Len(a)
             n == Len(b)
  <1>1. /\ m \in Nat /\ n \in Nat /\ q \in Seq(S) /\ Len(q) = m + n
        /\ a = << >> <=> m = 0
        /\ a # << >> => Head(a) = a[1]
        /\ b # << >> => Head(b) = b[1]
        /\ b = << >> <=> n = 0
    BY Steps, ConcatProperties
  <1>2. \A i \in 1..(m + n) : q[i] = IF i <= m THEN a[i] ELSE b[i - m]
    BY ConcatProperties
  <1>3. q # << >> => Head(q) = q[1] /\ Len(q) >= 1
    BY <1>1, Steps
  <1> HIDE DEF q
  <1>4. \A i \in 1..m : i \in 1..(m + n) /\ q[i] = a[i]
    BY <1>1, <1>2
  <1>5. \A i \in 1..n : m + i \in 1..(m + n) /\ q[m + i] = b[i]
    <2> SUFFICES ASSUME NEW i \in 1..n
                 PROVE  m + i \in 1..(m + n) /\ q[m + i] = b[i]
      OBVIOUS
    <2>1. m + i \in 1..(m + n) /\ ~(m + i <= m) /\ (m + i) - m = i
      BY <1>1
    <2> QED BY <1>2, <2>1
  <1>6. \A i \in 1..(m + n) : i \in 1..m \/ (i - m \in 1..n /\ i = m + (i - m))
    BY <1>1
  <1>7. ASSUME NEW step PROVE Has(q, step) <=> Has(a, step) \/ Has(b, step)
    <2>1. Has(q, step) => Has(a, step) \/ Has(b, step)
      <3> SUFFICES ASSUME NEW i \in 1..(m + n), q[i] = step
                   PROVE  Has(a, step) \/ Has(b, step)
        BY <1>1 DEF Has
      <3>1. i \in 1..m => a[i] = step
        BY <1>4
      <3>2. i - m \in 1..n /\ i = m + (i - m) => b[i - m] = step
        BY <1>5
      <3> QED BY <1>6, <3>1, <3>2 DEF Has
    <2>2. Has(a, step) => Has(q, step)
      BY <1>1, <1>4 DEF Has
    <2>3. Has(b, step) => Has(q, step)
      <3> SUFFICES ASSUME NEW i \in 1..n, b[i] = step PROVE Has(q, step)
        BY DEF Has
      <3>1. m + i \in 1..Len(q) /\ q[m + i] = step
        BY <1>1, <1>5
      <3> QED BY <3>1 DEF Has
    <2> QED BY <2>1, <2>2, <2>3
  <1>8. /\ \A i \in 1..m : a[i] \notin Last
        /\ \A i \in 1..n : b[i] \in Last => i = n
        /\ \A i \in 2..m : a[i] \in Writes => a[i - 1] = "connLock"
        /\ \A i \in 2..n : b[i] \in Writes => b[i - 1] = "connLock"
        /\ m >= 1 => a[1] \notin Writes
        /\ n >= 1 => b[1] \notin Writes
    BY <1>1 DEF Fresh, Shaped, GivesBack, Has
  <1>9. /\ \A i \in 1..m : a[i] = "connLock" => i < m /\ a[i + 1] \in Writes
        /\ \A i \in 1..n : b[i] = "connLock" => i < n /\ b[i + 1] \in Writes
        /\ \A i \in 1..m : a[i] = "rlock" => GivesBack(a, i + 1)
        /\ \A i \in 1..n : b[i] = "rlock" => GivesBack(b, i + 1)
        /\ \A i \in 1..m : a[i] = "add" => \A j \in (i + 1)..m : a[j] # "add"
        /\ \A i \in 1..n : b[i] = "add" => \A j \in (i + 1)..n : b[j] # "add"
        /\ (\A i \in 1..m : a[i] # "add") \/ (\A i \in 1..n : b[i] # "add")
    BY DEF Fresh, Shaped, GivesBack, Has
  <1> HIDE DEF m, n
  <1>10. ASSUME NEW i \in 1..(m + n), q[i] \in Last PROVE i = m + n
    <2>1. i - m \in 1..n /\ q[m + (i - m)] = b[i - m] /\ i = m + (i - m)
      BY <1>4, <1>5, <1>6, <1>8, <1>10
    <2> QED BY <1>1, <1>8, <1>10, <2>1
  <1>11. ASSUME NEW i \in 2..(m + n), q[i] \in Writes PROVE q[i - 1] = "connLock"
    <2>1. CASE i \in 1..m
      <3>1. i \in 2..m /\ i - 1 \in 1..m
        BY <1>1, <2>1
      <3> QED BY <1>4, <1>8, <1>11, <3>1
    <2>2. CASE i \notin 1..m
      <3>1. i - m \in 1..n /\ i = m + (i - m)
        BY <1>1, <2>2
      <3>2. q[i] = b[i - m]
        BY <1>5, <3>1
      <3>3. i - m # 1
        BY <1>1, <1>8, <1>11, <3>1, <3>2
      <3>4. i - m \in 2..n /\ (i - m) - 1 \in 1..n /\ i - 1 = m + ((i - m) - 1)
        BY <1>1, <3>1, <3>3
      <3>5. b[(i - m) - 1] = "connLock"
        BY <1>8, <1>11, <3>2, <3>4
      <3> QED BY <1>5, <3>4, <3>5
    <2> QED BY <2>1, <2>2
  <1>12. ASSUME NEW i \in 1..(m + n), q[i] = "connLock"
         PROVE  i < m + n /\ q[i + 1] \in Writes
    <2>1. CASE i \in 1..m
      <3>1. i < m /\ a[i + 1] \in Writes
        BY <1>4, <1>9, <1>12, <2>1
      <3>2. i + 1 \in 1..m /\ i < m + n
        BY <1>1, <2>1, <3>1
      <3> QED BY <1>4, <3>1, <3>2
    <2>2. CASE i \notin 1..m
      <3>1. i - m \in 1..n /\ i = m + (i - m)
        BY <1>1, <2>2
      <3>2. b[i - m] = "connLock"
        BY <1>5, <1>12, <3>1
      <3>3. i - m < n /\ b[(i - m) + 1] \in Writes
        BY <1>9, <3>1, <3>2
      <3>4. (i - m) + 1 \in 1..n /\ i + 1 = m + ((i - m) + 1) /\ i < m + n
        BY <1>1, <3>1, <3>3
      <3> QED BY <1>5, <3>3, <3>4
    <2> QED BY <2>1, <2>2
  <1>13. ASSUME NEW i \in 1..(m + n), q[i] = "rlock" PROVE GivesBack(q, i + 1)
    <2>1. CASE i \in 1..m
      <3>1. PICK j \in (i + 1)..m :
              /\ a[j] = "runlock"
              /\ \A k \in (i + 1)..(j - 1) : a[k] \in {"connLock", "write"}
        BY <1>4, <1>9, <1>13, <2>1 DEF GivesBack, m
      <3>2. j \in 1..m /\ j \in (i + 1)..(m + n) /\ \A k \in (i + 1)..(j - 1) : k \in 1..m
        BY <1>1, <2>1
      <3> QED BY <1>1, <1>4, <3>1, <3>2 DEF GivesBack
    <2>2. CASE i \notin 1..m
      <3>1. i - m \in 1..n /\ i = m + (i - m)
        BY <1>1, <2>2
      <3>2. b[i - m] = "rlock"
        BY <1>5, <1>13, <3>1
      <3>3. PICK j \in ((i - m) + 1)..n :
              /\ b[j] = "runlock"
              /\ \A k \in ((i - m) + 1)..(j - 1) : b[k] \in {"connLock", "write"}
        BY <1>9, <3>1, <3>2 DEF GivesBack, n
      <3>4. j \in 1..n /\ m + j \in (i + 1)..(m + n)
        BY <1>1, <3>1
      <3>5. ASSUME NEW k \in (i + 1)..((m + j) - 1)
            PROVE  q[k] \in {"connLock", "write"}
        <4>1. k - m \in ((i - m) + 1)..(j - 1) /\ k - m \in 1..n /\ k = m + (k - m)
          BY <1>1, <3>1, <3>4
        <4> QED BY <1>5, <3>3, <4>1
      <3> QED BY <1>1, <1>5, <3>3, <3>4, <3>5 DEF GivesBack
    <2> QED BY <2>1, <2>2
  <1>14. ASSUME NEW i \in 1..(m + n), q[i] = "add", NEW j \in (i + 1)..(m + n)
         PROVE  q[j] # "add"
    <2>1. i < j /\ j \in 1..(m + n)
      BY <1>1
    <2>2. CASE i \in 1..m /\ j \in 1..m
      BY <1>4, <1>9, <1>14, <2>1, <2>2
    <2>3. CASE i \in 1..m /\ j \notin 1..m
      BY <1>4, <1>5, <1>6, <1>9, <1>14, <2>1, <2>3
    <2>4. CASE i \notin 1..m
      <3>1. /\ i - m \in 1..n /\ i = m + (i - m)
            /\ j - m \in 1..n /\ j = m + (j - m) /\ j - m \in ((i - m) + 1)..n
        BY <1>1, <2>1, <2>4
      <3>2. b[i - m] = "add" /\ q[j] = b[j - m]
        BY <1>5, <1>14, <3>1
      <3> QED BY <1>9, <3>1, <3>2
    <2> QED BY <2>2, <2>3, <2>4
  <1>15. Shaped(q)
    BY <1>1, <1>10, <1>11, <1>12, <1>13, <1>14 DEF Shaped
  <1>16. q # << >> => Head(q) \notin Writes
    <2> SUFFICES ASSUME q # << >> PROVE q[1] \notin Writes
      BY <1>3
    <2>1. CASE m >= 1
      BY <1>1, <1>4, <1>8, <2>1
    <2>2. CASE m = 0
      <3>1. n >= 1 /\ 1 \in 1..n /\ m + 1 = 1
        BY <1>1, <1>3, <2>2
      <3> QED BY <1>5, <1>8, <3>1
    <2> QED BY <1>1, <2>1, <2>2
  <1> QED BY <1>1, <1>7, <1>15, <1>16 DEF Fresh, q

LEMMA Unnamed ==
    ASSUME NEW S, NEW q \in Seq(S), NEW step, step \notin S
    PROVE  ~Has(q, step)
  BY Steps DEF Has

LEMMA StepsMore ==
    ASSUME NEW S, NEW T, S \subseteq T, NEW q \in Seq(S)
    PROVE  q \in Seq(T)
  BY SeqMonotonic

LEMMA BroadcastWork ==
    ASSUME sessions \in Nat, NEW q \in Broadcasts
    PROVE  q \in Seq(Sharing) /\ Fresh(q)
  <1>1. CASE q = <<"peek">>
    <2>1. <<"peek">> \in Seq(Sharing)
      BY DEF Sharing
    <2>2. Fresh(<<"peek">>)
      BY DEF Fresh, Shaped, GivesBack, Writes, Last
    <2> QED BY <1>1, <2>1, <2>2
  <1>2. CASE q # <<"peek">>
    <2>1. PICK n \in 1..sessions : q = <<"rlock">> \o Frames(n) \o <<"runlock">>
      BY <1>2 DEF Broadcasts
    <2>2. n \in Nat \ {0}
      BY <2>1
    <2> QED BY <2>1, <2>2, Frame
  <1> QED BY <1>1, <1>2

(* Work that goes on with frames for others.                               *)
LEMMA ThenShares ==
    ASSUME NEW S, Sharing \subseteq S, NEW a \in Seq(S), Fresh(a),
           \A step \in Last : ~Has(a, step),
           NEW q \in Seq(Sharing), Fresh(q)
    PROVE  /\ a \o q \in Seq(S) /\ Fresh(a \o q)
           /\ \A step : step \notin Sharing => (Has(a \o q, step) => Has(a, step))
  <1>1. q \in Seq(S)
    BY StepsMore
  <1>2. \A step : step \notin Sharing => ~Has(q, step)
    BY Unnamed
  <1>3. ~Has(q, "add")
    BY <1>2 DEF Sharing
  <1> QED BY <1>1, <1>2, <1>3, Concatenation

LEMMA NoWork ==
    ASSUME NEW S
    PROVE  << >> \in Seq(S) /\ Fresh(<< >>) /\ \A step : ~Has(<< >>, step)
  BY EmptySeq DEF Fresh, Shaped, GivesBack, Has

LEMMA WriteWork ==
    /\ WriteMessage \in Seq(Sharing) /\ Fresh(WriteMessage)
    /\ \A step \in Last : ~Has(WriteMessage, step)
    /\ ~Has(WriteMessage, "add") /\ ~Has(WriteMessage, "restore")
  <1>1. WriteMessage \in Seq(Sharing)
    BY DEF WriteMessage, Sharing
  <1>2. Fresh(WriteMessage)
    BY DEF WriteMessage, Fresh, Shaped, GivesBack, Writes, Last
  <1>3. \A step \in Last : step \notin Sharing
    BY DEF Last, Sharing
  <1>4. "add" \notin Sharing /\ "restore" \notin Sharing
    BY DEF Sharing
  <1> QED BY <1>1, <1>2, <1>3, <1>4, Unnamed

Answers ==
    OnInput \cup OnKeyExchange \cup OnVerify \cup OnPing \cup OnPong \cup OnPeerEvent

LEMMA AnswerWork ==
    ASSUME sessions \in 0..MaxClients, NEW q \in Answers
    PROVE  /\ Work(q, "readRelayMessages")
           /\ Has(q, "add") => sessions < MaxClients
  <1> DEFINE S == StepsOf("readRelayMessages")
             Fit(w) == w \in Seq(S) /\ Fresh(w) /\ ~Has(w, "add") /\ ~Has(w, "restore")
             Free(w) == \A step \in Last : ~Has(w, step)
  <1>1. sessions \in Nat
    BY BoundsNat
  <1>2. /\ Sharing \subseteq S
        /\ {"receive", "inject", "lock", "complete", "delete", "add", "print", "title",
            "keyReady", "clientJoined"} \subseteq S
        /\ "restore" \notin S
    BY DEF StepsOf, Sharing
  <1>3. "add" \notin Sharing /\ "restore" \notin Sharing /\ "peek" \in Sharing
    BY DEF Sharing
  <1> HIDE DEF S
  <1>4. ASSUME NEW a \in Seq(S), Fit(a), Free(a), NEW b \in Seq(Sharing), Fresh(b)
        PROVE  Fit(a \o b)
    BY <1>2, <1>3, <1>4, ThenShares
  <1>5. Fit(<<"peek">>) /\ Fit(<<"peek", "inject">>) /\ Fit(<<"lock", "complete">>)
        /\ Fit(<<"peek", "lock", "delete", "print">>)
        /\ Fit(<<"peek", "keyReady", "print">>)
        /\ Fit(<<"title">>) /\ Fit(<<"lock", "delete", "print">>)
    <2>1. /\ <<"peek">> \in Seq(S) /\ <<"peek", "inject">> \in Seq(S)
          /\ <<"lock", "complete">> \in Seq(S)
          /\ <<"peek", "lock", "delete", "print">> \in Seq(S)
          /\ <<"peek", "keyReady", "print">> \in Seq(S)
          /\ <<"title">> \in Seq(S) /\ <<"lock", "delete", "print">> \in Seq(S)
      BY <1>2, <1>3
    <2> QED BY <2>1 DEF Fresh, Shaped, GivesBack, Has, Writes, Last
  <1>6. Free(<<"peek", "inject">>) /\ Free(<<"lock", "complete">>)
        /\ Free(<<"peek", "keyReady", "print">>)
    BY DEF Has, Last
  <1>7. ASSUME q \in OnInput PROVE Fit(q)
    <2>1. CASE q = <<"peek">>
      BY <1>5, <2>1
    <2>2. CASE q # <<"peek">>
      <3>1. PICK echo \in Broadcasts \cup {<< >>} : q = <<"peek", "inject">> \o echo
        BY <1>7, <2>2 DEF OnInput
      <3>2. echo \in Seq(Sharing) /\ Fresh(echo)
        BY <1>1, BroadcastWork, NoWork
      <3> QED BY <1>4, <1>5, <1>6, <3>1, <3>2
    <2> QED BY <2>1, <2>2
  <1>8. ASSUME q \in OnKeyExchange PROVE Fit(q)
    <2>1. PICK reply \in {<< >>, WriteMessage} : q = <<"lock", "complete">> \o reply
      BY <1>8 DEF OnKeyExchange
    <2>2. reply \in Seq(Sharing) /\ Fresh(reply)
      BY WriteWork, NoWork
    <2> QED BY <1>4, <1>5, <1>6, <2>1, <2>2
  <1>9. ASSUME q \in OnVerify PROVE Fit(q)
    <2>1. CASE q = <<"peek">> \/ q = <<"peek", "lock", "delete", "print">>
      BY <1>5, <2>1
    <2>2. CASE ~(q = <<"peek">> \/ q = <<"peek", "lock", "delete", "print">>)
      <3>1. PICK x \in {<<"peek">> \o WriteMessage, << >>} :
              q = <<"peek", "keyReady", "print">> \o x
        BY <1>9, <2>2 DEF OnVerify
      <3>2. <<"peek">> \in Seq(Sharing) /\ Fresh(<<"peek">>)
            /\ \A step \in Last : ~Has(<<"peek">>, step)
        BY <1>3 DEF Fresh, Shaped, GivesBack, Has, Writes, Last
      <3>3. <<"peek">> \o WriteMessage \in Seq(Sharing)
            /\ Fresh(<<"peek">> \o WriteMessage)
        BY <3>2, WriteWork, ThenShares
      <3>4. x \in Seq(Sharing) /\ Fresh(x)
        BY <3>3, NoWork
      <3> QED BY <1>4, <1>5, <1>6, <3>1, <3>4
    <2> QED BY <2>1, <2>2
  <1>10. ASSUME q \in OnPing PROVE Fit(q)
    <2>1. WriteMessage \in Seq(S)
      BY <1>2, WriteWork, StepsMore
    <2> QED BY <1>10, <2>1, WriteWork DEF OnPing
  <1>11. ASSUME q \in OnPong PROVE Fit(q)
    BY <1>5, <1>11 DEF OnPong
  <1>12. ASSUME q \in OnPeerEvent
         PROVE  /\ q \in Seq(S) /\ Fresh(q) /\ ~Has(q, "restore")
                /\ Has(q, "add") => sessions < MaxClients
    <2>1. CASE q = <<"lock", "delete", "print">>
      BY <1>5, <2>1
    <2>2. CASE q # <<"lock", "delete", "print">>
      <3> DEFINE a == <<"clientJoined", "lock", "add">>
                 b == a \o WriteMessage
                 c == <<"print">>
      <3>1. PICK s \in (sessions + 1)..MaxClients : q = b \o c
        BY <1>12, <2>2 DEF OnPeerEvent
      <3>2. sessions < MaxClients
        BY <3>1, <1>1, BoundsNat
      <3>3. a \in Seq(S) /\ Fresh(a) /\ (\A step \in Last : ~Has(a, step))
            /\ ~Has(a, "restore")
        <4>1. a \in Seq(S)
          BY <1>2
        <4> QED BY <4>1 DEF Fresh, Shaped, GivesBack, Has, Writes, Last
      <3>4. c \in Seq(S) /\ Fresh(c) /\ ~Has(c, "add") /\ ~Has(c, "restore")
        <4>1. c \in Seq(S)
          BY <1>2
        <4> QED BY <4>1 DEF Fresh, Shaped, GivesBack, Has, Writes, Last
      <3> HIDE DEF a, c
      <3>5. WriteMessage \in Seq(S)
        BY <1>2, WriteWork, StepsMore
      <3>6. /\ b \in Seq(S) /\ Fresh(b)
            /\ \A step : Has(b, step) <=> Has(a, step) \/ Has(WriteMessage, step)
        BY <3>3, <3>5, WriteWork, Concatenation
      <3>7. (\A step \in Last : ~Has(b, step)) /\ ~Has(b, "restore")
        BY <3>3, <3>6, WriteWork
      <3> HIDE DEF b
      <3>8. /\ b \o c \in Seq(S) /\ Fresh(b \o c)
            /\ \A step : Has(b \o c, step) <=> Has(b, step) \/ Has(c, step)
        BY <3>4, <3>6, <3>7, Concatenation
      <3> QED BY <3>1, <3>2, <3>4, <3>7, <3>8
    <2> QED BY <2>1, <2>2
  <1> QED
    BY <1>7, <1>8, <1>9, <1>10, <1>11, <1>12 DEF Answers, Work, S

(* The terminal is restored after the wait for the goroutines.             *)
Waits(q) ==
    \A i \in 1..Len(q) :
        q[i] = "restore" => \E j \in 1..(i - 1) : q[j] = "wg.Wait"

LEMMA WaitsFirst ==
    ASSUME NEW S, NEW a \in Seq(S), NEW b \in Seq(S), Has(a, "wg.Wait"),
           ~Has(a, "restore")
    PROVE  Waits(a \o b)
  <1> DEFINE q == a \o b
  <1>1. /\ Len(a) \in Nat /\ Len(b) \in Nat /\ Len(q) = Len(a) + Len(b)
        /\ \A i \in 1..(Len(a) + Len(b)) :
             q[i] = IF i <= Len(a) THEN a[i] ELSE b[i - Len(a)]
    BY Steps, ConcatProperties
  <1> HIDE DEF q
  <1>2. PICK j \in 1..Len(a) : a[j] = "wg.Wait"
    BY DEF Has
  <1>3. j \in 1..(Len(a) + Len(b)) /\ q[j] = "wg.Wait"
    BY <1>1, <1>2
  <1>4. ASSUME NEW i \in 1..Len(q), q[i] = "restore"
        PROVE  j \in 1..(i - 1)
    <2>1. i \in 1..Len(a) => q[i] = a[i] /\ a[i] # "restore"
      BY <1>1 DEF Has
    <2>2. i > Len(a)
      BY <1>1, <1>4, <2>1
    <2> QED BY <1>1, <2>2
  <1>5. Waits(q)
    BY <1>3, <1>4 DEF Waits
  <1> QED BY <1>5 DEF q

LEMMA WaitsTail ==
    ASSUME NEW S, NEW q \in Seq(S), q # << >>, Waits(q)
    PROVE  /\ Head(q) # "wg.Wait" => Waits(Tail(q))
           /\ Head(q) # "restore"
  <1> DEFINE r == Tail(q)
  <1>1. /\ Len(q) \in Nat /\ Len(q) >= 1 /\ Head(q) = q[1]
        /\ Len(r) = Len(q) - 1
        /\ \A i \in 1..Len(r) : r[i] = q[i + 1]
    BY Steps
  <1> HIDE DEF r
  <1>2. Head(q) # "restore"
    BY <1>1 DEF Waits
  <1>3. ASSUME Head(q) # "wg.Wait", NEW i \in 1..Len(r), r[i] = "restore"
        PROVE  \E j \in 1..(i - 1) : r[j] = "wg.Wait"
    <2>1. i + 1 \in 1..Len(q) /\ q[i + 1] = "restore"
      BY <1>1, <1>3
    <2>2. PICK j \in 1..((i + 1) - 1) : q[j] = "wg.Wait"
      BY <2>1 DEF Waits
    <2>3. j # 1
      BY <1>1, <1>3, <2>2
    <2>4. j - 1 \in 1..(i - 1) /\ j - 1 \in 1..Len(r) /\ (j - 1) + 1 = j
      BY <1>1, <2>2, <2>3
    <2> QED BY <1>1, <2>2, <2>4
  <1> QED BY <1>2, <1>3 DEF Waits, r

Closing == {<< >>, CloseInjector, CloseHost, EndTerminal, EndSystem}

LEMMA ClosingWork ==
    ASSUME NEW q \in Closing
    PROVE  /\ q \in Seq(StepsOf("main")) /\ Fresh(q) /\ Waits(q)
           /\ \A step \in Last : ~Has(q, step)
  <1> DEFINE S == StepsOf("main")
             Fit(w) == w \in Seq(S) /\ Fresh(w) /\ \A step \in Last : ~Has(w, step)
             a == <<"close(done)", "conn.Close">>
             b == <<"wg.Wait">>
             c == <<"print", "restore", "print">>
             d == <<"print">>
  <1>1. /\ "close(done)" \in S /\ "conn.Close" \in S /\ "kill" \in S
        /\ "<-p.done" \in S /\ "wg.Wait" \in S /\ "print" \in S
        /\ "restore" \in S /\ "add" \notin S
    BY DEF StepsOf, Sharing
  <1> HIDE DEF S
  <1>2. ASSUME NEW v, Fit(v), NEW w, Fit(w)
        PROVE  Fit(v \o w) /\ \A step : Has(v \o w, step)
                                         <=> Has(v, step) \/ Has(w, step)
    <2>1. ~Has(v, "add")
      BY <1>1, <1>2, Unnamed
    <2> QED BY <1>2, <2>1, Concatenation
  <1>3. /\ Fit(a) /\ ~Has(a, "restore")
        /\ Fit(b) /\ ~Has(b, "restore") /\ Has(b, "wg.Wait")
        /\ Fit(c)
        /\ Fit(d) /\ ~Has(d, "restore")
    <2>1. Fit(a) /\ ~Has(a, "restore")
      <3>1. <<"close(done)", "conn.Close">> \in Seq(S)
        BY <1>1
      <3> QED BY <3>1 DEF a, Fresh, Shaped, GivesBack, Has, Writes, Last
    <2>2. Fit(b) /\ ~Has(b, "restore") /\ Has(b, "wg.Wait")
      <3>1. <<"wg.Wait">> \in Seq(S)
        BY <1>1
      <3>2. Has(<<"wg.Wait">>, "wg.Wait")
        <4>1. 1 \in 1..Len(<<"wg.Wait">>) /\ <<"wg.Wait">>[1] = "wg.Wait"
          OBVIOUS
        <4> QED BY <4>1 DEF Has
      <3>3. Fresh(b) /\ ~Has(b, "restore") /\ \A step \in Last : ~Has(b, step)
        BY DEF Fresh, Shaped, GivesBack, Has, Writes, Last
      <3> QED BY <3>1, <3>2, <3>3
    <2>3. Fit(c)
      <3>1. <<"print", "restore", "print">> \in Seq(S)
        BY <1>1
      <3> QED BY <3>1 DEF c, Fresh, Shaped, GivesBack, Has, Writes, Last
    <2>4. Fit(d) /\ ~Has(d, "restore")
      <3>1. <<"print">> \in Seq(S)
        BY <1>1
      <3> QED BY <3>1 DEF d, Fresh, Shaped, GivesBack, Has, Writes, Last
    <2> QED BY <2>1, <2>2, <2>3, <2>4
  <1> HIDE DEF a, b, c, d
  <1>4. Fit(CloseInjector) /\ ~Has(CloseInjector, "restore")
    <2>1. CASE mode = "terminal"
      <3>1. <<"kill", "<-p.done">> \in Seq(S)
        BY <1>1
      <3>2. Fresh(<<"kill", "<-p.done">>) /\ ~Has(<<"kill", "<-p.done">>, "restore")
            /\ \A step \in Last : ~Has(<<"kill", "<-p.done">>, step)
        BY DEF Fresh, Shaped, GivesBack, Has, Writes, Last
      <3> QED BY <2>1, <3>1, <3>2 DEF CloseInjector
    <2>2. CASE mode # "terminal"
      BY <2>2, NoWork DEF CloseInjector
    <2> QED BY <2>1, <2>2
  <1>5. Fit(a \o CloseInjector) /\ ~Has(a \o CloseInjector, "restore")
    BY <1>2, <1>3, <1>4
  <1>6. Fit(CloseHost) /\ ~Has(CloseHost, "restore") /\ Has(CloseHost, "wg.Wait")
    <2>1. CloseHost = (a \o CloseInjector) \o b
      BY DEF CloseHost, a, b
    <2> QED BY <1>2, <1>3, <1>5, <2>1
  <1>7. Fit(EndTerminal) /\ Waits(EndTerminal)
    <2>1. EndTerminal = CloseHost \o c
      BY DEF EndTerminal, c
    <2> QED BY <1>2, <1>3, <1>6, <2>1, WaitsFirst
  <1>8. Fit(EndSystem) /\ ~Has(EndSystem, "restore")
    <2>1. EndSystem = d \o CloseHost
      BY DEF EndSystem, d
    <2> QED BY <1>2, <1>3, <1>6, <2>1
  <1>9. Fit(<< >>) /\ ~Has(<< >>, "restore")
    BY NoWork
  <1>10. \A w : ~Has(w, "restore") => Waits(w)
    BY DEF Has, Waits
  <1> QED BY <1>4, <1>6, <1>7, <1>8, <1>9, <1>10 DEF Closing, S

---------------------------------------------------------------------------
(* The inductive invariant.                                                *)

Early == {"start", "injector", "host", "waiting"}
Ended == {"leaving", "exited"}

(* What a goroutine has still to do is made of its own steps, in order.    *)
Orderly ==
    \A t \in Goroutines :
        /\ todo[t] \in Seq(StepsOf(t)) /\ Shaped(todo[t])
        /\ t \notin running => todo[t] = << >>

(* A session is about to be added only if there is room for it.            *)
Adding == Has(todo["readRelayMessages"], "add") => sessions < MaxClients

(* The terminal is restored by a command that is leaving, after the wait   *)
(* for the host's goroutines.                                              *)
Ending ==
    /\ at \in Early => todo["main"] = << >>
    /\ at \notin Ended => ~Has(todo["main"], "restore") /\ screen # "restored"
    /\ at \in Ended => \A step \in Last : ~Has(todo["main"], step)
    /\ IF at = "exited" THEN running = {} ELSE "main" \in running
    /\ screen = "restored" => running \cap HostLoops = {}
    /\ at = "leaving" /\ running \cap HostLoops # {} => Waits(todo["main"])

AtWrite(q) == q # << >> /\ Head(q) \in Writes

(* connMu is held by the goroutine that is at a write, and cryptoMu for    *)
(* reading by goroutines that will give it back after some writes.         *)
Locked ==
    at # "exited" =>
      /\ connMu # Nobody => AtWrite(todo[connMu])
      /\ \A t \in Goroutines : AtWrite(todo[t]) => connMu = t
      /\ \A t \in readers : GivesBack(todo[t], 1)

Threads ==
    /\ running \subseteq Goroutines /\ todo \in [Goroutines -> Seq(AllSteps)]
    /\ readers \subseteq Goroutines /\ connMu \in Goroutines \cup {Nobody}
    /\ sessions \in 0..MaxClients
    /\ Orderly /\ Adding /\ Ending /\ Locked

Inv == TypeOK /\ Threads /\ QuietAfterRestore

---------------------------------------------------------------------------
(* What a step of the program is to its goroutines.                        *)

(* t makes the first step it has to make.                                  *)
Makes(t, step) ==
    /\ At(t, step) /\ Proceeds(t) /\ UNCHANGED at
    /\ readers' = IF step = "rlock" THEN readers \cup {t}
                  ELSE IF step = "runlock" THEN readers \ {t} ELSE readers
    /\ step = "connLock" => connMu = Nobody
    /\ connMu' = IF step = "connLock" THEN t
                 ELSE IF step \in Writes THEN Nobody ELSE connMu
    /\ IF step = "add" THEN sessions' = sessions + 1 ELSE sessions' \in 0..sessions
    /\ step = "wg.Wait" => running \cap HostLoops = {}
    /\ screen' = IF step = "restore" THEN "restored" ELSE screen

(* t is at a point where it may be given work or return.                   *)
Free(t, steps) ==
    t \in running /\ (todo[t] = << >> \/ Head(todo[t]) \in steps)

Begins(t, q) ==
    /\ Free(t, Last \ {"control"})
    /\ Work(q, t) /\ Does(t, q)
    /\ Has(q, "add") => sessions < MaxClients
    /\ at \in Ended => at' = at /\ t # "main"
    /\ at' \in Early => at' = at /\ t # "main"
    /\ at' \in Ended => at' = at
    /\ UNCHANGED <<locks, sessions, screen>>

Ends(t) ==
    /\ Free(t, Last) /\ t # "main"
    /\ Returns(t)
    /\ connMu' = IF At(t, "control") THEN Nobody ELSE connMu
    /\ UNCHANGED <<at, readers, sessions, screen>>

(* The command goes on to its next phase.                                  *)
Advances ==
    /\ at \notin Ended /\ at' \notin Ended
    /\ todo["main"] = << >>
    /\ running \subseteq running' /\ running' \subseteq Goroutines
    /\ screen' # "restored"
    /\ UNCHANGED <<todo, locks, sessions>>

Leaves(q) ==
    /\ at \notin Ended /\ Free("main", Last \ {"control"})
    /\ q \in Closing /\ Leave(q)
    /\ UNCHANGED <<locks, sessions, screen>>

Exits ==
    /\ at' = "exited" /\ running' = {}
    /\ todo' = [t \in Goroutines |-> << >>]
    /\ UNCHANGED <<locks, sessions, screen>>

Elsewhere == UNCHANGED <<at, threads, locks, sessions, screen>>

Moves ==
    \/ \E t \in Goroutines :
          (\E step : Makes(t, step)) \/ (\E q : Begins(t, q)) \/ Ends(t)
    \/ \E q \in Closing : Leaves(q)
    \/ Advances \/ Exits \/ Elsewhere

(* Who writes to the terminal is running.                                  *)
Prints ==
    \/ UNCHANGED late
    \/ screen = "restored" /\ \E t \in running : late' = late \cup {t}

LEMMA Change ==
    ASSUME Threads, NEW t \in Goroutines, NEW q \in Seq(StepsOf(t)), Shaped(q),
           todo' = [todo EXCEPT ![t] = q],
           t \notin running' => q = << >>, running \ {t} \subseteq running'
    PROVE  /\ todo' \in [Goroutines -> Seq(AllSteps)] /\ Orderly'
           /\ todo'[t] = q /\ \A u \in Goroutines \ {t} : todo'[u] = todo[u]
  <1>1. StepsOf(t) \subseteq AllSteps
    BY DEF StepsOf, Sharing, AllSteps, Exclusive
  <1>2. q \in Seq(AllSteps)
    BY <1>1, StepsMore
  <1>3. todo' \in [Goroutines -> Seq(AllSteps)]
    BY <1>2 DEF Threads
  <1>4. todo'[t] = q /\ \A u \in Goroutines \ {t} : todo'[u] = todo[u]
    BY DEF Threads
  <1>5. ASSUME NEW u \in Goroutines
        PROVE  /\ todo'[u] \in Seq(StepsOf(u)) /\ Shaped(todo'[u])
               /\ u \notin running' => todo'[u] = << >>
    <2>1. CASE u = t
      BY <1>4, <2>1
    <2>2. CASE u # t
      <3>1. todo'[u] = todo[u] /\ (u \notin running' => u \notin running)
        BY <1>4, <2>2
      <3> QED BY <3>1 DEF Threads, Orderly
    <2> QED BY <2>1, <2>2
  <1> QED BY <1>3, <1>4, <1>5 DEF Orderly

LEMMA MakesKeeps ==
    ASSUME Threads, NEW t \in Goroutines, NEW step, Makes(t, step)
    PROVE  Threads'
  <1> DEFINE q == Tail(todo[t])
             S == StepsOf(t)
  <1>1. /\ t \in running /\ todo[t] # << >> /\ Head(todo[t]) = step
        /\ todo' = [todo EXCEPT ![t] = q] /\ running' = running /\ at' = at
    BY DEF Makes, At, Proceeds, Does
  <1>2. /\ readers' = IF step = "rlock" THEN readers \cup {t}
                      ELSE IF step = "runlock" THEN readers \ {t} ELSE readers
        /\ step = "connLock" => connMu = Nobody
        /\ connMu' = IF step = "connLock" THEN t
                     ELSE IF step \in Writes THEN Nobody ELSE connMu
        /\ IF step = "add" THEN sessions' = sessions + 1 ELSE sessions' \in 0..sessions
        /\ step = "wg.Wait" => running \cap HostLoops = {}
        /\ screen' = IF step = "restore" THEN "restored" ELSE screen
    BY DEF Makes
  <1>3. todo[t] \in Seq(S) /\ Shaped(todo[t])
    BY DEF Threads, Orderly
  <1>4. /\ q \in Seq(S) /\ Shaped(q) /\ step \in S
        /\ step = "connLock" => q # << >> /\ Head(q) \in Writes
        /\ q # << >> /\ Head(q) \in Writes => step = "connLock"
        /\ step = "rlock" => GivesBack(q, 1)
        /\ GivesBack(todo[t], 1) =>
             \/ step = "runlock"
             \/ step \in {"connLock", "write"} /\ GivesBack(q, 1)
        /\ step = "add" => ~Has(q, "add")
        /\ \A s : Has(q, s) => Has(todo[t], s)
        /\ Has(todo[t], step)
    <2>1. q \in Seq(S) /\ step \in S /\ Has(todo[t], step)
      <3>1. /\ q \in Seq(S) /\ Len(todo[t]) \in Nat /\ Len(todo[t]) >= 1
            /\ step = todo[t][1] /\ \A i \in 1..Len(todo[t]) : todo[t][i] \in S
        BY <1>1, <1>3, Steps
      <3> QED BY <3>1 DEF Has
    <2> QED BY <1>1, <1>3, <2>1, TailShaped
  <1> HIDE DEF q, S
  <1>5. /\ todo' \in [Goroutines -> Seq(AllSteps)] /\ Orderly'
        /\ todo'[t] = q /\ \A u \in Goroutines \ {t} : todo'[u] = todo[u]
    BY <1>1, <1>4, Change DEF S
  <1>6. readers' \subseteq Goroutines /\ connMu' \in Goroutines \cup {Nobody}
    BY <1>2 DEF Threads
  <1>7. Adding' /\ sessions' \in 0..MaxClients
    <2>1. step = "add" => t = "readRelayMessages"
      BY <1>4 DEF S, StepsOf, Sharing
    <2>2. \A s : Has(todo'["readRelayMessages"], s) => Has(todo["readRelayMessages"], s)
      BY <1>4, <1>5 DEF Goroutines, HostLoops
    <2>3. CASE step = "add"
      <3>1. sessions < MaxClients /\ sessions' = sessions + 1 /\ ~Has(q, "add")
        BY <1>2, <1>4, <2>1, <2>3 DEF Threads, Adding
      <3>2. sessions' \in 0..MaxClients
        BY <3>1, BoundsNat DEF Threads
      <3> QED BY <1>5, <2>1, <2>3, <3>1, <3>2 DEF Adding
    <2>4. CASE step # "add"
      <3>1. sessions' \in 0..sessions
        BY <1>2, <2>4
      <3>2. sessions' \in 0..MaxClients /\ (sessions < MaxClients => sessions' < MaxClients)
        BY <3>1, BoundsNat DEF Threads
      <3> QED BY <2>2, <3>2 DEF Threads, Adding
    <2> QED BY <2>3, <2>4
  <1>8. Ending'
    <2>1. "main" \in Goroutines /\ "main" \notin HostLoops
      BY DEF Goroutines, HostLoops
    <2>2. \A s : Has(todo'["main"], s) => Has(todo["main"], s)
      BY <1>4, <1>5, <2>1
    <2>3. step = "restore" => t = "main" /\ at \in Ended
      <3>1. "restore" \in StepsOf(t) => t = "main"
        BY DEF StepsOf, Sharing
      <3> QED BY <1>4, <3>1 DEF S, Threads, Ending
    <2>4. at \in Early => todo'["main"] = << >>
      BY <1>1, <1>5, <2>1 DEF Threads, Ending
    <2>5. at = "leaving" /\ running \cap HostLoops # {} =>
            Waits(todo'["main"]) /\ step # "restore"
      <3> SUFFICES ASSUME at = "leaving", running \cap HostLoops # {}
                   PROVE  Waits(todo'["main"]) /\ step # "restore"
        OBVIOUS
      <3>1. Waits(todo["main"])
        BY DEF Threads, Ending
      <3>2. CASE t = "main"
        <4>1. (Head(todo[t]) # "wg.Wait" => Waits(q)) /\ Head(todo[t]) # "restore"
          BY <1>1, <1>3, <3>1, <3>2, WaitsTail DEF q
        <4> QED BY <1>1, <1>2, <1>5, <3>2, <4>1
      <3>3. CASE t # "main"
        BY <1>5, <2>1, <2>3, <3>1, <3>3
      <3> QED BY <3>2, <3>3
    <2>6. screen' = "restored" => running \cap HostLoops = {}
      <3>1. at = "exited" => running = {}
        BY DEF Threads, Ending
      <3> QED BY <1>1, <1>2, <2>3, <2>5, <3>1 DEF Threads, Ending, Ended
    <2>7. at \notin Ended => ~Has(todo'["main"], "restore") /\ screen' # "restored"
      BY <1>2, <2>2, <2>3 DEF Threads, Ending
    <2>8. at \in Ended => \A s \in Last : ~Has(todo'["main"], s)
      BY <2>2 DEF Threads, Ending
    <2> QED BY <1>1, <2>4, <2>5, <2>6, <2>7, <2>8 DEF Threads, Ending
  <1>9. Locked'
    <2> SUFFICES ASSUME at # "exited"
                 PROVE  /\ connMu' # Nobody => AtWrite(todo'[connMu'])
                        /\ \A u \in Goroutines : AtWrite(todo'[u]) => connMu' = u
                        /\ \A u \in readers' : GivesBack(todo'[u], 1)
      BY <1>1 DEF Locked
    <2>1. /\ connMu # Nobody => AtWrite(todo[connMu])
          /\ \A u \in Goroutines : AtWrite(todo[u]) => connMu = u
          /\ \A u \in readers : GivesBack(todo[u], 1)
      BY DEF Threads, Locked
    <2>2. Nobody \notin Goroutines /\ connMu \in Goroutines \cup {Nobody}
      BY DEF Nobody, Goroutines, HostLoops, Threads
    <2>3. AtWrite(todo[t]) <=> step \in Writes
      BY <1>1 DEF AtWrite
    <2>4. AtWrite(todo'[t]) <=> step = "connLock"
      BY <1>4, <1>5 DEF AtWrite
    <2>5. \A u \in Goroutines \ {t} : AtWrite(todo'[u]) <=> AtWrite(todo[u])
      BY <1>5 DEF AtWrite
    <2>6. "connLock" \notin Writes
      BY DEF Writes
    <2>7. \A u \in Goroutines : AtWrite(todo'[u]) => connMu' = u
      BY <1>2, <2>1, <2>2, <2>3, <2>4, <2>5, <2>6
    <2>8. connMu' # Nobody => AtWrite(todo'[connMu'])
      <3>1. CASE step = "connLock"
        BY <1>2, <2>4, <3>1
      <3>2. CASE step \in Writes
        BY <1>2, <2>6, <3>2
      <3>3. CASE step # "connLock" /\ step \notin Writes
        <4>1. connMu' = connMu
          BY <1>2, <3>3
        <4>2. connMu # Nobody => connMu # t /\ connMu \in Goroutines /\ AtWrite(todo[connMu])
          BY <2>1, <2>2, <2>3, <3>3
        <4> QED BY <2>5, <4>1, <4>2
      <3> QED BY <3>1, <3>2, <3>3
    <2>9. \A u \in readers' : GivesBack(todo'[u], 1)
      <3> SUFFICES ASSUME NEW u \in readers' PROVE GivesBack(todo'[u], 1)
        OBVIOUS
      <3>1. CASE u = t
        <4>1. step # "runlock"
          BY <1>2, <3>1
        <4>2. step # "rlock" => t \in readers
          BY <1>2, <3>1, <4>1
        <4> QED BY <1>4, <1>5, <2>1, <3>1, <4>1, <4>2
      <3>2. CASE u # t
        <4>1. u \in readers /\ u \in Goroutines
          BY <1>2, <1>6, <3>2
        <4> QED BY <1>5, <2>1, <3>2, <4>1
      <3> QED BY <3>1, <3>2
    <2> QED BY <2>7, <2>8, <2>9
  <1> QED
    BY <1>1, <1>5, <1>6, <1>7, <1>8, <1>9 DEF Threads

(* A goroutine that may be given work holds no lock but what its step,     *)
(* "control", gives back.                                                  *)
LEMMA FreeHolds ==
    ASSUME Threads, at # "exited", NEW t \in Goroutines, NEW steps,
           steps \subseteq Last, Free(t, steps)
    PROVE  /\ t \notin readers
           /\ AtWrite(todo[t]) => Head(todo[t]) = "control" /\ "control" \in steps
           /\ "control" \notin steps => connMu # t
  <1>1. todo[t] = << >> \/ Head(todo[t]) \in steps
    BY DEF Free
  <1>2. todo[t] \in Seq(StepsOf(t)) /\ Shaped(todo[t])
    BY DEF Threads, Orderly
  <1>3. AtWrite(todo[t]) => Head(todo[t]) = "control" /\ "control" \in steps
    BY <1>1 DEF AtWrite, Writes, Last
  <1>4. t \notin readers
    <2> SUFFICES ASSUME t \in readers PROVE FALSE
      OBVIOUS
    <2>1. GivesBack(todo[t], 1)
      BY DEF Threads, Locked
    <2>2. todo[t] # << >>
      <3>1. PICK j \in 1..Len(todo[t]) : todo[t][j] = "runlock"
        BY <2>1 DEF GivesBack
      <3>2. Len(todo[t]) \in Nat /\ (todo[t] = << >> <=> Len(todo[t]) = 0)
        BY <1>2, Steps
      <3> QED BY <3>1, <3>2
    <2>3. Head(todo[t]) \in {"runlock", "connLock", "write"}
      BY <1>2, <2>1, <2>2, TailShaped
    <2> QED BY <1>1, <2>2, <2>3 DEF Last
  <1>5. "control" \notin steps => connMu # t
    <2>1. Nobody \notin Goroutines
      BY DEF Nobody, Goroutines, HostLoops
    <2> QED BY <1>3, <2>1 DEF Threads, Locked
  <1> QED BY <1>3, <1>4, <1>5

LEMMA FreshStart ==
    ASSUME NEW q, Fresh(q)
    PROVE  Shaped(q) /\ ~AtWrite(q)
  BY DEF Fresh, AtWrite

(* Work that is given to t leaves the locks as they were.                  *)
LEMMA StaysLocked ==
    ASSUME Threads, at # "exited", NEW t \in Goroutines,
           NEW q \in Seq(StepsOf(t)), Fresh(q), Free(t, Last \ {"control"}),
           todo' = [todo EXCEPT ![t] = q], running' = running, UNCHANGED locks
    PROVE  todo' \in [Goroutines -> Seq(AllSteps)] /\ Orderly' /\ Locked'
           /\ todo'[t] = q /\ \A u \in Goroutines \ {t} : todo'[u] = todo[u]
  <1>1. t \notin readers /\ connMu # t
    BY FreeHolds DEF Last
  <1>2. Shaped(q) /\ ~AtWrite(q)
    BY FreshStart
  <1>3. t \in running
    BY DEF Free
  <1>4. /\ todo' \in [Goroutines -> Seq(AllSteps)] /\ Orderly'
        /\ todo'[t] = q /\ \A u \in Goroutines \ {t} : todo'[u] = todo[u]
    BY <1>2, <1>3, Change
  <1>5. /\ connMu # Nobody => AtWrite(todo[connMu])
        /\ \A u \in Goroutines : AtWrite(todo[u]) => connMu = u
        /\ \A u \in readers : GivesBack(todo[u], 1)
        /\ connMu \in Goroutines \cup {Nobody} /\ readers \subseteq Goroutines
    BY DEF Threads, Locked
  <1>6. /\ connMu # Nobody => AtWrite(todo'[connMu])
        /\ \A u \in Goroutines : AtWrite(todo'[u]) => connMu = u
        /\ \A u \in readers : GivesBack(todo'[u], 1)
    BY <1>1, <1>2, <1>4, <1>5
  <1>7. connMu' = connMu /\ readers' = readers
    BY DEF locks
  <1> QED BY <1>4, <1>6, <1>7 DEF Locked

LEMMA BeginsKeeps ==
    ASSUME Threads, NEW t \in Goroutines, NEW q, Begins(t, q)
    PROVE  Threads'
  <1>1. /\ Free(t, Last \ {"control"}) /\ t \in running
        /\ q \in Seq(StepsOf(t)) /\ Fresh(q) /\ ~Has(q, "restore")
        /\ todo' = [todo EXCEPT ![t] = q] /\ running' = running
        /\ Has(q, "add") => sessions < MaxClients
        /\ at \in Ended => at' = at /\ t # "main"
        /\ at' \in Early => at' = at /\ t # "main"
        /\ at' \in Ended => at' = at
        /\ UNCHANGED locks /\ sessions' = sessions /\ screen' = screen
    BY DEF Begins, Work, Does, Free
  <1>2. at # "exited"
    BY <1>1 DEF Threads, Ending
  <1>3. /\ todo' \in [Goroutines -> Seq(AllSteps)] /\ Orderly' /\ Locked'
        /\ todo'[t] = q /\ \A u \in Goroutines \ {t} : todo'[u] = todo[u]
    BY <1>1, <1>2, StaysLocked
  <1>4. "main" \in Goroutines /\ "readRelayMessages" \in Goroutines
    BY DEF Goroutines, HostLoops
  <1>5. Adding'
    <2>1. Has(todo'["readRelayMessages"], "add") => sessions < MaxClients
      BY <1>1, <1>3, <1>4 DEF Threads, Adding
    <2> QED BY <1>1, <2>1 DEF Adding
  <1>6. Ending'
    <2>1. /\ at \in Early => todo["main"] = << >>
          /\ at \notin Ended => ~Has(todo["main"], "restore") /\ screen # "restored"
          /\ at \in Ended => \A step \in Last : ~Has(todo["main"], step)
          /\ "main" \in running
          /\ screen = "restored" => running \cap HostLoops = {}
          /\ at = "leaving" /\ running \cap HostLoops # {} => Waits(todo["main"])
      BY <1>2 DEF Threads, Ending
    <2>2. CASE t = "main"
      <3>1. at \notin Ended /\ at' \notin Ended /\ at' \notin Early
        BY <1>1, <2>2
      <3>2. at' # "leaving" /\ at' # "exited"
        BY <3>1 DEF Ended
      <3> QED BY <1>1, <1>3, <2>1, <2>2, <3>1, <3>2 DEF Ending
    <2>3. CASE t # "main"
      <3>1. todo'["main"] = todo["main"]
        BY <1>3, <1>4, <2>3
      <3>2. (at' \in Ended <=> at \in Ended) /\ (at' \in Early => at' = at)
            /\ at' # "exited" /\ (at' = "leaving" => at = "leaving")
        BY <1>1, <1>2 DEF Ended
      <3> QED BY <1>1, <2>1, <3>1, <3>2 DEF Ending
    <2> QED BY <2>2, <2>3
  <1> QED BY <1>1, <1>3, <1>5, <1>6 DEF Threads, locks

LEMMA LeavesKeeps ==
    ASSUME Threads, NEW q \in Closing, Leaves(q)
    PROVE  Threads'
  <1>1. /\ Free("main", Last \ {"control"}) /\ at \notin Ended
        /\ todo' = [todo EXCEPT !["main"] = q] /\ running' = running
        /\ at' = "leaving"
        /\ UNCHANGED locks /\ sessions' = sessions /\ screen' = screen
    BY DEF Leaves, Leave, Does
  <1>2. /\ q \in Seq(StepsOf("main")) /\ Fresh(q) /\ Waits(q)
        /\ \A step \in Last : ~Has(q, step)
    BY ClosingWork
  <1>3. at # "exited"
    BY <1>1 DEF Ended
  <1>4. "main" \in Goroutines /\ "readRelayMessages" \in Goroutines \ {"main"}
    BY DEF Goroutines, HostLoops
  <1>5. /\ todo' \in [Goroutines -> Seq(AllSteps)] /\ Orderly' /\ Locked'
        /\ todo'["main"] = q /\ \A u \in Goroutines \ {"main"} : todo'[u] = todo[u]
    BY <1>1, <1>2, <1>3, <1>4, StaysLocked
  <1>6. Adding'
    BY <1>1, <1>4, <1>5 DEF Threads, Adding
  <1>7. Ending'
    <2>1. "main" \in running /\ screen # "restored"
      BY <1>1, <1>3 DEF Threads, Ending
    <2> QED BY <1>1, <1>2, <1>5, <2>1 DEF Ending, Ended, Early
  <1> QED BY <1>1, <1>5, <1>6, <1>7 DEF Threads, locks

LEMMA EndsKeeps ==
    ASSUME Threads, NEW t \in Goroutines, Ends(t)
    PROVE  Threads'
  <1>1. /\ Free(t, Last) /\ t # "main" /\ t \in running
        /\ todo' = [todo EXCEPT ![t] = << >>] /\ running' = running \ {t}
        /\ connMu' = IF At(t, "control") THEN Nobody ELSE connMu
        /\ at' = at /\ readers' = readers /\ sessions' = sessions /\ screen' = screen
    BY DEF Ends, Returns, Free
  <1>2. at # "exited"
    BY <1>1 DEF Threads, Ending
  <1>3. << >> \in Seq(StepsOf(t)) /\ Fresh(<< >>) /\ \A step : ~Has(<< >>, step)
    BY NoWork
  <1>4. /\ todo' \in [Goroutines -> Seq(AllSteps)] /\ Orderly'
        /\ todo'[t] = << >> /\ \A u \in Goroutines \ {t} : todo'[u] = todo[u]
    BY <1>1, <1>3, Change DEF Fresh
  <1>5. "main" \in Goroutines /\ "readRelayMessages" \in Goroutines
    BY DEF Goroutines, HostLoops
  <1>6. Locked'
    <2>1. t \notin readers /\ (AtWrite(todo[t]) <=> At(t, "control"))
      <3>1. t \notin readers /\ (AtWrite(todo[t]) => Head(todo[t]) = "control")
        BY <1>1, <1>2, FreeHolds
      <3> QED BY <1>1, <3>1 DEF AtWrite, At, Writes
    <2>2. /\ connMu # Nobody => AtWrite(todo[connMu])
          /\ \A u \in Goroutines : AtWrite(todo[u]) => connMu = u
          /\ \A u \in readers : GivesBack(todo[u], 1)
          /\ connMu \in Goroutines \cup {Nobody} /\ readers \subseteq Goroutines
      BY <1>2 DEF Threads, Locked
    <2>3. ~AtWrite(todo'[t])
      BY <1>4 DEF AtWrite
    <2>4. connMu' # Nobody => connMu' = connMu /\ connMu # t
      BY <1>1, <2>1, <2>2
    <2>5. connMu' # Nobody => AtWrite(todo'[connMu'])
      BY <1>4, <2>2, <2>4
    <2>6. \A u \in Goroutines : AtWrite(todo'[u]) => connMu' = u
      <3> SUFFICES ASSUME NEW u \in Goroutines, AtWrite(todo'[u]) PROVE connMu' = u
        OBVIOUS
      <3>1. u # t /\ connMu = u
        BY <1>4, <2>2, <2>3
      <3>2. ~At(t, "control")
        BY <2>1, <2>2, <3>1
      <3> QED BY <1>1, <3>1, <3>2
    <2>7. \A u \in readers' : GivesBack(todo'[u], 1)
      BY <1>1, <1>4, <2>1, <2>2
    <2> QED BY <2>5, <2>6, <2>7 DEF Locked
  <1>7. Adding'
    BY <1>1, <1>3, <1>4, <1>5 DEF Threads, Adding
  <1>8. Ending'
    <2>1. todo'["main"] = todo["main"]
      BY <1>1, <1>4, <1>5
    <2> QED BY <1>1, <1>2, <2>1 DEF Threads, Ending
  <1> QED BY <1>1, <1>4, <1>6, <1>7, <1>8 DEF Threads

LEMMA AdvancesKeeps ==
    ASSUME Threads, Advances
    PROVE  Threads'
  <1>1. /\ at \notin Ended /\ at' \notin Ended /\ todo["main"] = << >>
        /\ running \subseteq running' /\ running' \subseteq Goroutines
        /\ screen' # "restored" /\ todo' = todo
        /\ readers' = readers /\ connMu' = connMu /\ sessions' = sessions
    BY DEF Advances, locks
  <1>2. at # "exited" /\ at' # "exited" /\ at' # "leaving"
    BY <1>1 DEF Ended
  <1>3. Orderly'
    BY <1>1 DEF Threads, Orderly
  <1>4. Adding'
    BY <1>1 DEF Threads, Adding
  <1>5. Ending'
    BY <1>1, <1>2 DEF Threads, Ending
  <1>6. Locked'
    BY <1>1, <1>2 DEF Threads, Locked
  <1> QED BY <1>1, <1>3, <1>4, <1>5, <1>6 DEF Threads

LEMMA ExitsKeeps ==
    ASSUME Threads, Exits
    PROVE  Threads'
  <1>1. /\ at' = "exited" /\ running' = {}
        /\ todo' = [t \in Goroutines |-> << >>]
        /\ readers' = readers /\ connMu' = connMu /\ sessions' = sessions
    BY DEF Exits, locks
  <1>2. \A t \in Goroutines : todo'[t] = << >>
    BY <1>1
  <1>3. /\ \A t : << >> \in Seq(StepsOf(t))
        /\ << >> \in Seq(AllSteps) /\ Shaped(<< >>)
        /\ \A step : ~Has(<< >>, step)
    BY NoWork DEF Fresh
  <1>4. todo' \in [Goroutines -> Seq(AllSteps)]
    BY <1>1, <1>3
  <1>5. Orderly'
    BY <1>2, <1>3 DEF Orderly
  <1>6. "main" \in Goroutines /\ "readRelayMessages" \in Goroutines
    BY DEF Goroutines, HostLoops
  <1>7. Adding'
    BY <1>2, <1>3, <1>6 DEF Adding
  <1>8. Ending'
    BY <1>1, <1>2, <1>3, <1>6 DEF Ending, Ended, Early
  <1>9. Locked'
    BY <1>1 DEF Locked
  <1> QED BY <1>1, <1>4, <1>5, <1>7, <1>8, <1>9 DEF Threads

LEMMA ElsewhereKeeps ==
    ASSUME Threads, Elsewhere
    PROVE  Threads'
  BY DEF Elsewhere, threads, locks, Threads, Orderly, Adding, Ending, Locked

---------------------------------------------------------------------------
(* Every step of the program is one of these moves.                        *)

LEMMA LoopWork ==
    /\ Work(<<"connLock", "control">>, "pingLoop")
    /\ Work(<<"title", "pause">>, "activityPulse")
    /\ Work(<<"title">>, "activityPulse")
    /\ Work(<<"read">>, "readOutput")
    /\ Work(<<"receive">>, "readRelayMessages")
    /\ Work(<<"stdin.Read">>, "main")
    /\ Work(<<"pty.Write">>, "main")
  <1>1. /\ <<"connLock", "control">> \in Seq(StepsOf("pingLoop"))
        /\ <<"title", "pause">> \in Seq(StepsOf("activityPulse"))
        /\ <<"title">> \in Seq(StepsOf("activityPulse"))
        /\ <<"read">> \in Seq(StepsOf("readOutput"))
        /\ <<"receive">> \in Seq(StepsOf("readRelayMessages"))
        /\ <<"stdin.Read">> \in Seq(StepsOf("main"))
        /\ <<"pty.Write">> \in Seq(StepsOf("main"))
    BY DEF StepsOf
  <1>2. /\ Fresh(<<"connLock", "control">>) /\ ~Has(<<"connLock", "control">>, "restore")
        /\ Fresh(<<"title", "pause">>) /\ ~Has(<<"title", "pause">>, "restore")
        /\ Fresh(<<"title">>) /\ ~Has(<<"title">>, "restore")
        /\ Fresh(<<"read">>) /\ ~Has(<<"read">>, "restore")
        /\ Fresh(<<"receive">>) /\ ~Has(<<"receive">>, "restore")
        /\ Fresh(<<"stdin.Read">>) /\ ~Has(<<"stdin.Read">>, "restore")
        /\ Fresh(<<"pty.Write">>) /\ ~Has(<<"pty.Write">>, "restore")
    BY DEF Fresh, Shaped, GivesBack, Has, Writes, Last
  <1> QED BY <1>1, <1>2 DEF Work

LEMMA SharingWork ==
    ASSUME sessions \in Nat, NEW q \in Broadcasts \cup {<< >>},
           NEW t \in {"latencyPingLoop", "readOutput", "main"}
    PROVE  /\ Work(q, t) /\ ~Has(q, "add")
           /\ t = "readOutput" => Work(<<"print">> \o q, t) /\ ~Has(<<"print">> \o q, "add")
  <1>1. q \in Seq(Sharing) /\ Fresh(q)
    BY BroadcastWork, NoWork
  <1>2. Sharing \subseteq StepsOf(t) /\ "add" \notin StepsOf(t)
        /\ "restore" \notin Sharing /\ "add" \notin Sharing
    BY DEF StepsOf, Sharing
  <1>3. Work(q, t) /\ ~Has(q, "add")
    BY <1>1, <1>2, StepsMore, Unnamed DEF Work
  <1>4. ASSUME t = "readOutput"
        PROVE  Work(<<"print">> \o q, t) /\ ~Has(<<"print">> \o q, "add")
    <2> DEFINE a == <<"print">>
    <2>1. a \in Seq(StepsOf(t))
      BY <1>4 DEF StepsOf
    <2>2. Fresh(a) /\ (\A step \in Last : ~Has(a, step))
          /\ ~Has(a, "restore") /\ ~Has(a, "add")
      BY DEF Fresh, Shaped, GivesBack, Has, Writes, Last
    <2> HIDE DEF a
    <2>3. /\ a \o q \in Seq(StepsOf(t)) /\ Fresh(a \o q)
          /\ \A step : step \notin Sharing => (Has(a \o q, step) => Has(a, step))
      BY <1>1, <1>2, <2>1, <2>2, ThenShares
    <2> QED BY <1>2, <2>2, <2>3 DEF Work, a
  <1> QED BY <1>3, <1>4

LEMMA GoroutineMoves ==
    ASSUME Threads, NEW t \in Goroutines, Continue(t) \/ Written(t) \/ Injected(t)
    PROVE  (\E step : Makes(t, step)) \/ Ends(t)
  <1>1. sessions \in Nat /\ sessions \in 0..sessions
    BY BoundsNat DEF Threads
  <1>2. CASE RLock(t)
    <2>1. PICK step \in {"rlock", "peek", "title"} :
            At(t, step) /\ readers' = IF step = "rlock" THEN readers \cup {t} ELSE readers
      BY <1>2 DEF RLock
    <2> QED BY <1>1, <1>2, <2>1 DEF RLock, Makes, Writes, command, host
  <1>3. CASE RUnlock(t)
    BY <1>1, <1>3 DEF RUnlock, Makes, Writes, command, host, tty
  <1>4. CASE Lock(t)
    BY <1>1, <1>4 DEF Lock, Makes, Writes, command, locks, host, tty
  <1>5. CASE Update(t)
    <2>1. PICK step \in {"add", "delete", "complete"} :
            At(t, step) /\ IF step = "add" THEN sessions' = sessions + 1
                                          ELSE sessions' \in 0..sessions
      <3>1. \A n \in {sessions - 1, sessions} \cap Nat : n \in 0..sessions
        BY <1>1
      <3> QED BY <1>1, <1>5, <3>1 DEF Update
    <2> QED BY <1>5, <2>1 DEF Update, Makes, Writes, command, locks, tty
  <1>6. CASE ConnLock(t)
    BY <1>1, <1>6 DEF ConnLock, Makes, Writes, command, host, tty
  <1>7. CASE Written(t)
    BY <1>1, <1>7 DEF Written, Makes, Writes, command, host, tty
  <1>8. CASE WriteScreen(t)
    BY <1>1, <1>8 DEF WriteScreen, Makes, Writes, command, locks, host
  <1>9. CASE Injected(t)
    BY <1>1, <1>9 DEF Injected, Makes, Writes, command, locks, host, tty
  <1>10. CASE SeesDone(t)
    <2>1. Free(t, Last) /\ t # "main" /\ ~At(t, "control")
      BY <1>10 DEF SeesDone, Free, At, Idle, Last, HostLoops
    <2> QED BY <1>10, <2>1 DEF SeesDone, Ends, command, locks, host, tty
  <1> QED
    BY <1>2, <1>3, <1>4, <1>5, <1>6, <1>7, <1>8, <1>9, <1>10
    DEF Continue, WriteFails, InjectReturns

LEMMA LoopMoves ==
    ASSUME Threads,
           \/ StartRead \/ ReadFails \/ StartReceive \/ ReceiveFails \/ CloseChannel
           \/ ControlReturns \/ PulseFades \/ CloseStdin
           \/ PingTick \/ Pulse \/ LatencyTick \/ ShellPrints \/ Receive
    PROVE  \E t \in Goroutines :
              (\E step : Makes(t, step)) \/ (\E q : Begins(t, q)) \/ Ends(t)
  <1>1. sessions \in Nat /\ sessions \in 0..sessions /\ sessions \in 0..MaxClients
    BY BoundsNat DEF Threads
  <1>2. {"pingLoop", "activityPulse", "latencyPingLoop", "readOutput",
         "readRelayMessages", "exitWatcher"} \subseteq Goroutines
    BY DEF Goroutines, HostLoops
  <1>3. {"read", "receive", "pause"} \subseteq Last \ {"control"} /\ "control" \in Last
    BY DEF Last
  <1>4. ASSUME NEW t \in Goroutines \ {"main"}, NEW q, Does(t, q), Work(q, t),
               Has(q, "add") => sessions < MaxClients,
               \/ Idle(t) \/ At(t, "read") \/ At(t, "receive") \/ At(t, "pause"),
               UNCHANGED <<command, locks, host, pty, tty>>
        PROVE  Begins(t, q)
    <2>1. Free(t, Last \ {"control"})
      BY <1>3, <1>4 DEF Free, Idle, At
    <2> QED BY <1>4, <2>1 DEF Begins, command, locks, host, tty
  <1>5. ASSUME NEW t \in Goroutines \ {"main"}, Returns(t),
               \/ Idle(t) \/ At(t, "read") \/ At(t, "receive"),
               UNCHANGED <<mode, at, locks, sessions, screen>>
        PROVE  Ends(t)
    <2>1. Free(t, Last) /\ ~At(t, "control")
      BY <1>3, <1>5 DEF Free, Idle, At
    <2> QED BY <1>5, <2>1 DEF Ends, locks
  <1>6. ASSUME NEW q, ~Has(q, "add")
        PROVE  Has(q, "add") => sessions < MaxClients
    BY <1>6
  <1>7. ASSUME NEW q, NEW t, "add" \notin StepsOf(t), Work(q, t)
        PROVE  ~Has(q, "add")
    BY <1>7, Unnamed DEF Work
  <1>8. /\ "add" \notin StepsOf("pingLoop") /\ "add" \notin StepsOf("activityPulse")
        /\ "add" \notin StepsOf("readOutput")
    BY DEF StepsOf, Sharing
  <1>9. CASE StartRead
    <2>1. Begins("readOutput", <<"read">>)
      BY <1>2, <1>4, <1>7, <1>8, <1>9, LoopWork DEF StartRead
    <2> QED BY <1>2, <2>1
  <1>10. CASE ReadFails
    <2>1. Ends("readOutput")
      BY <1>2, <1>5, <1>10 DEF ReadFails, command, host, tty
    <2> QED BY <1>2, <2>1
  <1>11. CASE StartReceive
    <2>1. ~Has(<<"receive">>, "add")
      BY DEF Has
    <2>2. Begins("readRelayMessages", <<"receive">>)
      BY <1>2, <1>4, <1>11, <2>1, LoopWork DEF StartReceive
    <2> QED BY <1>2, <2>2
  <1>12. CASE ReceiveFails
    <2>1. Ends("readRelayMessages")
      BY <1>2, <1>5, <1>12 DEF ReceiveFails, command, host, tty
    <2> QED BY <1>2, <2>1
  <1>13. CASE CloseChannel
    <2>1. PICK step \in {"keyReady", "clientJoined"} : At("readRelayMessages", step)
      BY <1>13 DEF CloseChannel
    <2>2. Makes("readRelayMessages", step)
      BY <1>1, <1>13, <2>1 DEF CloseChannel, Makes, Writes, command, locks, tty
    <2> QED BY <1>2, <2>2
  <1>14. CASE ControlReturns
    <2>1. CASE Proceeds("pingLoop")
      <3>1. Makes("pingLoop", "control")
        BY <1>1, <1>14, <2>1 DEF ControlReturns, Makes, Writes, command, host, tty
      <3> QED BY <1>2, <3>1
    <2>2. CASE ~Proceeds("pingLoop")
      <3>1. Returns("pingLoop") /\ Free("pingLoop", Last)
        BY <1>3, <1>14, <2>2 DEF ControlReturns, Free, At
      <3>2. Ends("pingLoop")
        BY <1>14, <3>1 DEF ControlReturns, Ends, command, host, tty
      <3> QED BY <1>2, <3>2
    <2> QED BY <2>1, <2>2
  <1>15. CASE PulseFades
    <2>1. Begins("activityPulse", <<"title">>)
      BY <1>2, <1>4, <1>7, <1>8, <1>15, LoopWork DEF PulseFades
    <2> QED BY <1>2, <2>1
  <1>16. CASE CloseStdin
    <2>1. Ends("exitWatcher")
      BY <1>2, <1>5, <1>16 DEF CloseStdin, command, locks, host
    <2> QED BY <1>2, <2>1
  <1>17. CASE PingTick
    <2>1. Begins("pingLoop", <<"connLock", "control">>)
      BY <1>2, <1>4, <1>7, <1>8, <1>17, LoopWork DEF PingTick, TakesUp
    <2> QED BY <1>2, <2>1
  <1>18. CASE Pulse
    <2>1. Begins("activityPulse", <<"title", "pause">>)
      BY <1>2, <1>4, <1>7, <1>8, <1>18, LoopWork DEF Pulse, TakesUp
    <2> QED BY <1>2, <2>1
  <1>19. CASE LatencyTick
    <2>1. PICK q \in Broadcasts : Does("latencyPingLoop", q)
      BY <1>19 DEF LatencyTick, TakesUp
    <2>2. Work(q, "latencyPingLoop") /\ ~Has(q, "add")
      BY <1>1, SharingWork
    <2>3. Begins("latencyPingLoop", q)
      BY <1>2, <1>4, <1>19, <2>1, <2>2 DEF LatencyTick
    <2> QED BY <1>2, <2>3
  <1>20. CASE ShellPrints
    <2>1. PICK q \in Broadcasts : Does("readOutput", <<"print">> \o q)
      BY <1>20 DEF ShellPrints, TakesUp
    <2>2. Work(<<"print">> \o q, "readOutput") /\ ~Has(<<"print">> \o q, "add")
      BY <1>1, SharingWork
    <2>3. Begins("readOutput", <<"print">> \o q)
      BY <1>2, <1>4, <1>20, <2>1, <2>2 DEF ShellPrints
    <2> QED BY <1>2, <2>3
  <1>21. CASE Receive
    <2>1. PICK q \in Answers : Does("readRelayMessages", q)
      BY <1>21 DEF Receive, TakesUp, Answers
    <2>2. Work(q, "readRelayMessages") /\ (Has(q, "add") => sessions < MaxClients)
      BY <1>1, AnswerWork
    <2>3. Begins("readRelayMessages", q)
      BY <1>2, <1>4, <1>21, <2>1, <2>2 DEF Receive
    <2> QED BY <1>2, <2>3
  <1> QED
    BY <1>9, <1>10, <1>11, <1>12, <1>13, <1>14, <1>15, <1>16, <1>17, <1>18, <1>19,
       <1>20, <1>21

LEMMA CommandMoves ==
    ASSUME Threads,
           \/ StartInjector \/ StartHost \/ Share \/ RawMode \/ ReadStdin
           \/ PtyWriteReturns \/ CloseStep \/ Restore \/ Exit
           \/ Typed \/ StdinEnds \/ Interrupted
           \/ ShellReads \/ ShellExits \/ ConnLost
    PROVE  \/ \E t \in Goroutines :
                 (\E step : Makes(t, step)) \/ (\E q : Begins(t, q))
           \/ \E q \in Closing : Leaves(q)
           \/ Advances \/ Exits \/ Elsewhere
  <1>1. sessions \in Nat /\ sessions \in 0..sessions
    BY BoundsNat DEF Threads
  <1>2. "main" \in Goroutines /\ "readRelayMessages" \in Goroutines
        /\ running \subseteq Goroutines
    BY DEF Threads, Goroutines, HostLoops
  <1>3. {"stdin.Read", "pty.Write"} \subseteq Last \ {"control"}
    BY DEF Last
  <1>4. ASSUME At("main", "stdin.Read") \/ At("main", "pty.Write")
        PROVE  at \notin Ended /\ at \notin Early
    <2>1. todo["main"] # << >> /\ todo["main"] \in Seq(StepsOf("main"))
          /\ Head(todo["main"]) \in Last
      BY <1>2, <1>3, <1>4 DEF At, Threads, Orderly
    <2>2. \E s \in Last : Has(todo["main"], s)
      <3>1. Head(todo["main"]) = todo["main"][1] /\ 1 \in 1..Len(todo["main"])
        BY <2>1, Steps
      <3> QED BY <2>1, <3>1 DEF Has
    <2> QED BY <2>1, <2>2 DEF Threads, Ending
  <1>5. at \notin Ended => "main" \in running /\ screen # "restored"
    BY DEF Threads, Ending, Ended
  <1>6. ASSUME NEW q \in Closing, Leave(q), UNCHANGED <<locks, sessions, screen>>,
               \/ at \in Early
               \/ at \notin Ended /\ Idle("main")
               \/ At("main", "stdin.Read") \/ At("main", "pty.Write")
        PROVE  Leaves(q)
    <2>1. at \notin Ended
      BY <1>4, <1>6 DEF Early, Ended
    <2>2. Free("main", Last \ {"control"})
      BY <1>3, <1>5, <1>6, <2>1 DEF Free, Idle, At, Threads, Ending
    <2> QED BY <1>6, <2>1, <2>2 DEF Leaves
  <1>7. << >> \in Closing /\ CloseInjector \in Closing /\ CloseHost \in Closing
        /\ EndTerminal \in Closing /\ EndSystem \in Closing
    BY DEF Closing
  <1>8. ASSUME NEW q, Does("main", q), Work(q, "main"), ~Has(q, "add"),
               UNCHANGED <<locks, sessions, screen>>,
               \/ at' = at /\ At("main", "stdin.Read")
               \/ at' = at /\ at = "stdin" /\ Idle("main")
               \/ at = "host" /\ at' = "sizing"
        PROVE  Begins("main", q)
    <2>1. at \notin Ended /\ at' \notin Ended /\ at' \notin Early
      BY <1>4, <1>8 DEF Early, Ended
    <2>2. at = "host" => todo["main"] = << >>
      BY DEF Threads, Ending, Early
    <2>3. Free("main", Last \ {"control"})
      BY <1>3, <1>5, <1>8, <2>1, <2>2 DEF Free, Idle, At
    <2> QED BY <1>8, <2>1, <2>3 DEF Begins
  <1>9. at \in Early => todo["main"] = << >> /\ at \notin Ended
    BY DEF Threads, Ending, Early, Ended
  <1>10. CASE StartInjector
    <2>1. CASE at' = "injector"
      <3>1. Advances
        BY <1>2, <1>5, <1>9, <1>10, <2>1
        DEF StartInjector, Leave, Advances, Early, Ended, threads, locks, host, tty
      <3> QED BY <3>1
    <2>2. CASE at' # "injector"
      <3>1. Leave(<< >>) /\ at \in Early
        BY <1>10, <2>2 DEF StartInjector, Early
      <3>2. Leaves(<< >>)
        BY <1>6, <1>7, <1>10, <3>1 DEF StartInjector, host, tty
      <3> QED BY <1>7, <3>2
    <2> QED BY <2>1, <2>2
  <1>11. CASE StartHost
    <2>1. CASE at' = "host"
      <3>1. running \subseteq running' /\ running' \subseteq Goroutines
        BY <1>2, <1>11, <2>1 DEF StartHost, Leave, Goroutines
      <3>2. Advances
        BY <1>5, <1>9, <1>11, <2>1, <3>1
        DEF StartHost, Leave, Advances, Early, Ended, locks, tty
      <3> QED BY <3>2
    <2>2. CASE at' # "host"
      <3>1. Leave(CloseInjector) /\ at \in Early
        BY <1>11, <2>2 DEF StartHost, Early
      <3>2. Leaves(CloseInjector)
        BY <1>6, <1>7, <1>11, <3>1 DEF StartHost, tty
      <3> QED BY <1>7, <3>2
    <2> QED BY <2>1, <2>2
  <1>12. CASE Share
    <2>1. CASE mode = "terminal"
      <3>1. PICK q \in Broadcasts \cup {<< >>} : Does("main", q)
        BY <1>12, <2>1 DEF Share, Does
      <3>2. Work(q, "main") /\ ~Has(q, "add")
        BY <1>1, SharingWork
      <3>3. Begins("main", q)
        BY <1>8, <1>12, <2>1, <3>1, <3>2 DEF Share, host, tty
      <3> QED BY <1>2, <3>3
    <2>2. CASE mode # "terminal"
      <3>1. Advances
        BY <1>2, <1>5, <1>9, <1>12, <2>2
        DEF Share, Advances, Early, Ended, threads, locks, host, tty
      <3> QED BY <3>1
    <2> QED BY <2>1, <2>2
  <1>13. CASE RawMode
    <2>1. CASE at' = "stdin"
      <3>1. running \subseteq running' /\ running' \subseteq Goroutines
        BY <1>2, <1>13, <2>1 DEF RawMode, Leave, Goroutines
      <3>2. Advances
        BY <1>13, <2>1, <3>1 DEF RawMode, Leave, Idle, Advances, Ended, locks, host
      <3> QED BY <3>2
    <2>2. CASE at' # "stdin"
      <3>1. Leave(CloseHost) /\ screen' = screen /\ at \notin Ended /\ Idle("main")
        BY <1>13, <2>2 DEF RawMode, Ended
      <3>2. Leaves(CloseHost)
        BY <1>6, <1>7, <1>13, <3>1 DEF RawMode, host
      <3> QED BY <1>7, <3>2
    <2> QED BY <2>1, <2>2
  <1>14. CASE ReadStdin
    <2>1. CASE stdin = "closed"
      <3>1. Leaves(EndTerminal)
        BY <1>6, <1>7, <1>14, <2>1 DEF ReadStdin, Ended, host, tty
      <3> QED BY <1>7, <3>1
    <2>2. CASE stdin # "closed"
      <3>1. ~Has(<<"stdin.Read">>, "add")
        BY DEF Has
      <3>2. Begins("main", <<"stdin.Read">>)
        BY <1>8, <1>14, <2>2, <3>1, LoopWork DEF ReadStdin, command, host, tty
      <3> QED BY <1>2, <3>2
    <2> QED BY <2>1, <2>2
  <1>15. CASE PtyWriteReturns
    <2>1. CASE Leave(EndTerminal)
      <3>1. Leaves(EndTerminal)
        BY <1>6, <1>7, <1>15, <2>1 DEF PtyWriteReturns, host, tty
      <3> QED BY <1>7, <3>1
    <2>2. CASE Proceeds("main") /\ UNCHANGED command
      <3>1. Makes("main", "pty.Write")
        BY <1>1, <1>15, <2>2 DEF PtyWriteReturns, Makes, Writes, command, locks, host, tty
      <3> QED BY <1>2, <3>1
    <2> QED BY <1>15, <2>1, <2>2 DEF PtyWriteReturns
  <1>16. CASE CloseStep
    <2>1. PICK step \in {"close(done)", "conn.Close", "kill", "<-p.done", "wg.Wait"} :
            At("main", step) /\ (step = "wg.Wait" => running \cap HostLoops = {})
      BY <1>16 DEF CloseStep
    <2>2. Makes("main", step)
      BY <1>1, <1>16, <2>1 DEF CloseStep, Makes, Writes, command, locks, tty
    <2> QED BY <1>2, <2>2
  <1>17. CASE Restore
    <2>1. Makes("main", "restore")
      BY <1>1, <1>17 DEF Restore, Makes, Writes, command, locks, host
    <2> QED BY <1>2, <2>1
  <1>18. CASE Exit
    BY <1>18 DEF Exit, Exits, locks, host, tty
  <1>19. CASE Typed
    <2>1. CASE Leave(EndTerminal)
      <3>1. Leaves(EndTerminal)
        BY <1>6, <1>7, <1>19, <2>1 DEF Typed, host, tty
      <3> QED BY <1>7, <3>1
    <2>2. CASE Does("main", <<"pty.Write">>) /\ UNCHANGED command
      <3>1. ~Has(<<"pty.Write">>, "add")
        BY DEF Has
      <3>2. Begins("main", <<"pty.Write">>)
        BY <1>8, <1>19, <2>2, <3>1, LoopWork DEF Typed, command, host, tty
      <3> QED BY <1>2, <3>2
    <2> QED BY <1>19, <2>1, <2>2 DEF Typed
  <1>20. CASE StdinEnds
    <2>1. Leaves(EndTerminal)
      BY <1>6, <1>7, <1>20 DEF StdinEnds, host, tty
    <2> QED BY <1>7, <2>1
  <1>21. CASE Interrupted
    <2>1. Leaves(EndSystem)
      BY <1>6, <1>7, <1>21 DEF Interrupted, Early, host, tty
    <2> QED BY <1>7, <2>1
  <1>22. CASE ShellReads
    <2>1. CASE Injected("readRelayMessages")
      <3>1. Makes("readRelayMessages", "inject")
        BY <1>1, <2>1 DEF Injected, Makes, Writes, command, locks, host, tty
      <3> QED BY <1>2, <3>1
    <2>2. CASE ~Injected("readRelayMessages")
      <3>1. Makes("main", "pty.Write")
        BY <1>1, <1>22, <2>2 DEF ShellReads, Makes, Writes, command, locks, host, tty
      <3> QED BY <1>2, <3>1
    <2> QED BY <2>1, <2>2
  <1>23. CASE ShellExits \/ ConnLost
    BY <1>23 DEF ShellExits, ConnLost, Elsewhere, command, threads, locks, host, tty
  <1> QED
    BY <1>10, <1>11, <1>12, <1>13, <1>14, <1>15, <1>16, <1>17, <1>18, <1>19, <1>20,
       <1>21, <1>22, <1>23

LEMMA EveryMove ==
    ASSUME Threads, [Next]_vars
    PROVE  Moves
  <1>1. CASE UNCHANGED vars
    BY <1>1 DEF vars, command, host, tty, Moves, Elsewhere
  <1>2. CASE GoroutineStep
    <2>1. CASE \E t \in Goroutines \ {"main"} : Continue(t)
      BY <2>1, GoroutineMoves DEF Moves
    <2>2. CASE ~ \E t \in Goroutines \ {"main"} : Continue(t)
      BY <1>2, <2>2, LoopMoves DEF GoroutineStep, Moves
    <2> QED BY <2>1, <2>2
  <1>3. CASE MainStep
    <2>1. CASE Continue("main")
      <3>1. "main" \in Goroutines
        BY DEF Goroutines
      <3> QED BY <2>1, <3>1, GoroutineMoves DEF Moves
    <2>2. CASE ~Continue("main")
      BY <1>3, <2>2, CommandMoves DEF MainStep, Moves
    <2> QED BY <2>1, <2>2
  <1>4. CASE Environment
    <2>1. CASE RelayTakes
      BY <2>1, GoroutineMoves DEF RelayTakes, Moves
    <2>2. CASE PingTick \/ Pulse \/ LatencyTick \/ ShellPrints \/ Receive
      BY <2>2, LoopMoves DEF Moves
    <2>3. CASE Typed \/ StdinEnds \/ Interrupted \/ ShellReads \/ ShellExits \/ ConnLost
      BY <2>3, CommandMoves DEF Moves
    <2> QED BY <1>4, <2>1, <2>2, <2>3 DEF Environment
  <1> QED BY <1>1, <1>2, <1>3, <1>4 DEF Next

LEMMA ThreadsStep ==
    ASSUME Threads, [Next]_vars
    PROVE  Threads'
  <1>1. Moves
    BY EveryMove
  <1> QED
    BY <1>1, MakesKeeps, BeginsKeeps, EndsKeeps, LeavesKeeps, AdvancesKeeps,
       ExitsKeeps, ElsewhereKeeps DEF Moves

---------------------------------------------------------------------------
(* The terminal, and what else the types are made of.                      *)

LEMMA PrintsStep ==
    ASSUME Threads, [Next]_vars
    PROVE  Prints
  <1>1. CASE UNCHANGED vars
    BY <1>1 DEF vars, tty, Prints
  <1>2. ASSUME NEW t \in Goroutines, Continue(t) \/ Written(t) \/ Injected(t)
        PROVE  Prints
    <2>1. ASSUME ToScreen(t), t \in running PROVE Prints
      BY <2>1 DEF ToScreen, Prints
    <2>2. CASE RLock(t)
      BY <2>1, <2>2 DEF RLock, At, Prints
    <2>3. CASE WriteScreen(t)
      BY <2>1, <2>3 DEF WriteScreen, At
    <2>4. CASE \/ RUnlock(t) \/ Lock(t) \/ Update(t) \/ ConnLock(t) \/ Written(t)
               \/ Injected(t) \/ SeesDone(t)
      BY <2>4
      DEF RUnlock, Lock, Update, ConnLock, Written, Injected, SeesDone, tty, Prints
    <2> QED BY <1>2, <2>2, <2>3, <2>4 DEF Continue, WriteFails, InjectReturns
  <1>3. CASE GoroutineStep
    <2>1. CASE \E t \in Goroutines \ {"main"} : Continue(t)
      BY <1>2, <2>1
    <2>2. CASE ~ \E t \in Goroutines \ {"main"} : Continue(t)
      BY <1>3, <2>2
      DEF GoroutineStep, StartRead, ReadFails, StartReceive, ReceiveFails, CloseChannel,
          ControlReturns, PulseFades, CloseStdin, tty, Prints
    <2> QED BY <2>1, <2>2
  <1>4. CASE MainStep
    <2>1. CASE Continue("main")
      <3>1. "main" \in Goroutines
        BY DEF Goroutines
      <3> QED BY <1>2, <2>1, <3>1
    <2>2. CASE ~Continue("main")
      BY <1>4, <2>2
      DEF MainStep, StartInjector, StartHost, Share, RawMode, ReadStdin,
          PtyWriteReturns, CloseStep, Restore, Exit, tty, Prints
    <2> QED BY <2>1, <2>2
  <1>5. CASE Environment
    <2>1. CASE RelayTakes
      BY <1>2, <2>1 DEF RelayTakes
    <2>2. CASE ~RelayTakes
      BY <1>5, <2>2
      DEF Environment, PingTick, Pulse, LatencyTick, ShellPrints, ShellReads, Injected,
          ShellExits, Receive, ConnLost, Typed, StdinEnds, Interrupted, tty, Prints
    <2> QED BY <2>1, <2>2
  <1> QED BY <1>1, <1>3, <1>4, <1>5 DEF Next

Places ==
    /\ mode \in {"terminal", "system"}
    /\ at \in {"start", "injector", "host", "sizing", "stdin", "waiting", "leaving",
               "exited"}
    /\ conn \in {"none", "open", "lost", "closed"}
    /\ done \in BOOLEAN /\ keyReady \in BOOLEAN /\ joined \in BOOLEAN
    /\ shell \in {"none", "running", "exited"} /\ ptyOpen \in BOOLEAN
    /\ stdin \in {"open", "closed"}
    /\ screen \in {"cooked", "raw", "restored"}

LEMMA PlacesStep ==
    ASSUME Places, [Next]_vars
    PROVE  Places'
  <1>1. CASE UNCHANGED vars
    BY <1>1 DEF vars, command, host, pty, tty, Places
  <1>2. ASSUME NEW t, Continue(t) \/ Written(t) \/ Injected(t)
        PROVE  Places'
    BY <1>2
    DEF Continue, WriteFails, InjectReturns, RLock, RUnlock, Lock, Update, ConnLock,
        Written, WriteScreen, Injected, SeesDone, command, host, pty, tty, Places
  <1>3. CASE GoroutineStep
    <2>1. CASE \E t \in Goroutines \ {"main"} : Continue(t)
      BY <1>2, <2>1
    <2>2. CASE ~ \E t \in Goroutines \ {"main"} : Continue(t)
      BY <1>3, <2>2
      DEF GoroutineStep, StartRead, ReadFails, StartReceive, ReceiveFails, CloseChannel,
          ControlReturns, PulseFades, CloseStdin, command, host, pty, tty, Places
    <2> QED BY <2>1, <2>2
  <1>4. CASE MainStep
    <2>1. CASE Continue("main")
      BY <1>2, <2>1
    <2>2. CASE ~Continue("main")
      BY <1>4, <2>2
      DEF MainStep, StartInjector, StartHost, Share, RawMode, ReadStdin, Leave,
          PtyWriteReturns, CloseStep, Restore, Exit, command, host, pty, tty, Places
    <2> QED BY <2>1, <2>2
  <1>5. CASE Environment
    <2>1. CASE RelayTakes
      BY <1>2, <2>1 DEF RelayTakes
    <2>2. CASE ~RelayTakes
      BY <1>5, <2>2
      DEF Environment, PingTick, Pulse, LatencyTick, ShellPrints, ShellReads, Injected,
          ShellExits, Receive, ConnLost, Typed, StdinEnds, Interrupted, Leave,
          command, host, pty, tty, Places
    <2> QED BY <2>1, <2>2
  <1> QED BY <1>1, <1>3, <1>4, <1>5 DEF Next

LEMMA InvInit == Init => Inv
  <1> SUFFICES ASSUME Init PROVE Inv
    OBVIOUS
  <1>1. /\ \A t \in Goroutines : todo[t] = << >>
        /\ running = {"main"} /\ {"main", "readRelayMessages"} \subseteq Goroutines
        /\ readers = {} /\ connMu = Nobody /\ screen = "cooked" /\ at = "start"
        /\ late = {}
    BY DEF Init, Goroutines, HostLoops
  <1>2. /\ \A t : << >> \in Seq(StepsOf(t))
        /\ << >> \in Seq(AllSteps) /\ Shaped(<< >>)
        /\ \A step : ~Has(<< >>, step)
    BY NoWork DEF Fresh
  <1>3. todo \in [Goroutines -> Seq(AllSteps)]
    BY <1>2 DEF Init
  <1>4. sessions \in 0..MaxClients
    BY BoundsNat DEF Init
  <1>5. TypeOK
    BY <1>1, <1>3, <1>4 DEF Init, TypeOK
  <1>6. Orderly /\ Adding
    BY <1>1, <1>2 DEF Orderly, Adding
  <1>7. Ending
    BY <1>1, <1>2 DEF Ending, Early, Ended
  <1>8. Locked
    BY <1>1 DEF Locked, AtWrite
  <1>9. Threads
    BY <1>1, <1>3, <1>4, <1>6, <1>7, <1>8 DEF Threads
  <1> QED BY <1>1, <1>5, <1>9 DEF Inv, QuietAfterRestore

LEMMA InvStep == Inv /\ [Next]_vars => Inv'
  <1> SUFFICES ASSUME Inv, [Next]_vars PROVE Inv'
    OBVIOUS
  <1>1. Threads' /\ Prints
    BY ThreadsStep, PrintsStep DEF Inv
  <1>2. Places'
    BY PlacesStep DEF Inv, TypeOK, Places
  <1>3. late' \subseteq Goroutines
    BY <1>1 DEF Inv, TypeOK, Prints
  <1>4. TypeOK'
    BY <1>1, <1>2, <1>3 DEF TypeOK, Threads, Places
  <1>5. screen = "restored" => running \cap HostLoops = {}
    BY DEF Inv, Threads, Ending
  <1>6. QuietAfterRestore'
    BY <1>1, <1>5 DEF Inv, Prints, QuietAfterRestore
  <1> QED BY <1>1, <1>4, <1>6 DEF Inv

THEOREM InvAlways == Spec => []Inv
  BY InvInit, InvStep, PTL DEF Spec

(* Every variable of the program keeps its type; in particular what a      *)
(* goroutine has still to do is a sequence of steps it may make, and the   *)
(* sessions never exceed their bound.                                      *)
THEOREM TypeCorrect == Spec => []TypeOK
  BY InvAlways, PTL DEF Inv

(* cmd/host.go:197: whatever the goroutines of the host were doing when    *)
(* the command began to leave, none of them writes to the terminal after   *)
(* the command has restored it, for any number of clients.                 *)
THEOREM QuietAlways == Spec => []QuietAfterRestore
  BY InvAlways, PTL DEF Inv

(* The connection to the relay has one writer at a time, as gorilla's      *)
(* Conn requires: of the goroutines that are at a write, pingLoop with its *)
(* control frames among them, there is never a second.                     *)
OneWriter ==
    \A t, u \in Goroutines : AtWrite(todo[t]) /\ AtWrite(todo[u]) => t = u

THEOREM WritesExclude == Spec => []OneWriter
  <1>1. Inv => OneWriter
    <2> SUFFICES ASSUME Inv, NEW t \in Goroutines, NEW u \in Goroutines,
                        AtWrite(todo[t]), AtWrite(todo[u])
                 PROVE  t = u
      BY DEF OneWriter
    <2>1. at # "exited"
      BY DEF Inv, Threads, Ending, Orderly, AtWrite
    <2> QED BY <2>1 DEF Inv, Threads, Locked
  <1> QED BY <1>1, InvAlways, PTL

(* No goroutine waits for a lock while it holds the one that another waits *)
(* for: who holds connMu is in a write and asks for nothing, who holds     *)
(* cryptoMu for reading asks at most for connMu and never for cryptoMu     *)
(* again, whose lock would be refused it behind a writer that waits; and a *)
(* goroutine that has nothing left to do, or has returned, holds neither.  *)
LocksInOrder ==
    at # "exited" =>
      /\ connMu # Nobody => Head(todo[connMu]) \in Writes
      /\ \A t \in readers : Head(todo[t]) \in {"connLock", "write", "runlock"}
      /\ \A t \in Goroutines : todo[t] = << >> => t \notin readers /\ connMu # t

THEOREM LocksOrdered == Spec => []LocksInOrder
  <1>1. Inv => LocksInOrder
    <2> SUFFICES ASSUME Inv, at # "exited"
                 PROVE  /\ connMu # Nobody => Head(todo[connMu]) \in Writes
                        /\ \A t \in readers :
                             /\ Head(todo[t]) \in {"connLock", "write", "runlock"}
                             /\ todo[t] # << >>
                        /\ \A t \in Goroutines : todo[t] = << >> => connMu # t
      BY DEF LocksInOrder
    <2>1. connMu # Nobody => AtWrite(todo[connMu])
      BY DEF Inv, Threads, Locked
    <2>2. Nobody \notin Goroutines
      BY DEF Nobody, Goroutines, HostLoops
    <2>3. ASSUME NEW t \in readers
          PROVE  /\ Head(todo[t]) \in {"connLock", "write", "runlock"}
                 /\ todo[t] # << >>
      <3>1. GivesBack(todo[t], 1) /\ todo[t] \in Seq(StepsOf(t)) /\ Shaped(todo[t])
        BY DEF Inv, Threads, Locked, Orderly
      <3>2. todo[t] # << >>
        <4>1. PICK j \in 1..Len(todo[t]) : todo[t][j] = "runlock"
          BY <3>1 DEF GivesBack
        <4>2. Len(todo[t]) \in Nat /\ (todo[t] = << >> <=> Len(todo[t]) = 0)
          BY <3>1, Steps
        <4> QED BY <4>1, <4>2
      <3> QED BY <3>1, <3>2, TailShaped
    <2> QED BY <2>1, <2>2, <2>3 DEF AtWrite
  <1> QED BY <1>1, InvAlways, PTL

=============================================================================
