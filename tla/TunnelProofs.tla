---------------------------- MODULE TunnelProofs ----------------------------
(***************************************************************************)
(* Keytun implements Tunnel in terminal mode: for any number of            *)
(* command-line clients, beside any number of browsers and whatever is     *)
(* lost, their keystrokes reach the terminal once and in order and what a  *)
(* client is shown is a run of consecutive pieces of output.               *)
(***************************************************************************)
EXTENDS KeytunOrderProofs

---------------------------------------------------------------------------
(* The frames of type t for c in a queue, and their numbers: those in q    *)
(* carry exactly the pieces a + 1, ..., b, in this order.                  *)
Is(m, t, c) == m.type = t /\ m.client = c
Num(m, t) == m.data.plain[t]
Piece(t, n) == IF t = "input" THEN [input |-> n] ELSE [output |-> n]

Run(q, t, c, a, b) ==
    /\ \A i \in 1..Len(q) : Is(q[i], t, c) =>
         /\ Num(q[i], t) \in (a + 1)..b
         /\ q[i].data.plain = Piece(t, Num(q[i], t))
    /\ \A n \in (a + 1)..b : \E i \in 1..Len(q) : Is(q[i], t, c) /\ Num(q[i], t) = n
    /\ \A i, j \in 1..Len(q) :
         i < j /\ Is(q[i], t, c) /\ Is(q[j], t, c) => Num(q[i], t) < Num(q[j], t)

(* There is none.                                                          *)
Free(q, t, c) == \A i \in 1..Len(q) : ~Is(q[i], t, c)

LEMMA RunFree ==
    ASSUME NEW q, NEW t, NEW c, NEW a \in Nat, Free(q, t, c)
    PROVE  Run(q, t, c, a, a)
  BY DEF Run, Free

(* The first frame is taken.                                               *)
LEMMA RunSkips ==
    ASSUME NEW q, NEW q2, NEW t, NEW c, NEW a \in Nat, NEW b \in Nat, Len(q) \in Nat,
           Takes(q, q2), Run(q, t, c, a, b), ~Is(q[1], t, c)
    PROVE  Run(q2, t, c, a, b)
  <1>1. Len(q2) \in Nat /\ \A j \in 1..Len(q2) : j + 1 \in 1..Len(q) /\ q2[j] = q[j + 1]
    BY DEF Takes
  <1>2. \A i \in 1..Len(q) : Is(q[i], t, c) => i - 1 \in 1..Len(q2) /\ q2[i - 1] = q[i]
    <2>1. SUFFICES ASSUME NEW i \in 1..Len(q), Is(q[i], t, c)
                   PROVE  i - 1 \in 1..Len(q2) /\ q2[i - 1] = q[i]
      OBVIOUS
    <2>2. i # 1
      BY <2>1
    <2>3. i - 1 \in 1..Len(q2) /\ (i - 1) + 1 = i
      BY <2>1, <2>2 DEF Takes
    <2> QED BY <1>1, <2>3
  <1>3. ASSUME NEW i \in 1..Len(q2), Is(q2[i], t, c)
        PROVE  Num(q2[i], t) \in (a + 1)..b /\ q2[i].data.plain = Piece(t, Num(q2[i], t))
    BY <1>1, <1>3 DEF Run
  <1>4. ASSUME NEW n \in (a + 1)..b
        PROVE  \E i \in 1..Len(q2) : Is(q2[i], t, c) /\ Num(q2[i], t) = n
    <2>1. PICK i \in 1..Len(q) : Is(q[i], t, c) /\ Num(q[i], t) = n
      BY DEF Run
    <2> QED BY <1>2, <2>1
  <1>5. ASSUME NEW i \in 1..Len(q2), NEW j \in 1..Len(q2), i < j,
               Is(q2[i], t, c), Is(q2[j], t, c)
        PROVE  Num(q2[i], t) < Num(q2[j], t)
    <2>1. i + 1 \in 1..Len(q) /\ j + 1 \in 1..Len(q) /\ i + 1 < j + 1
          /\ q2[i] = q[i + 1] /\ q2[j] = q[j + 1]
      BY <1>1, <1>5
    <2> QED BY <1>5, <2>1 DEF Run
  <1> QED BY <1>3, <1>4, <1>5 DEF Run

LEMMA RunTakes ==
    ASSUME NEW q, NEW q2, NEW t, NEW c, NEW a \in Nat, NEW b \in Nat, Len(q) \in Nat,
           Takes(q, q2), Run(q, t, c, a, b), Is(q[1], t, c)
    PROVE  /\ q[1].data.plain = Piece(t, a + 1) /\ a + 1 <= b
           /\ Run(q2, t, c, a + 1, b)
  <1>1. /\ Len(q2) \in Nat /\ 1 \in 1..Len(q)
        /\ \A j \in 1..Len(q2) : j + 1 \in 1..Len(q) /\ q2[j] = q[j + 1] /\ 1 < j + 1
    BY DEF Takes
  <1>2. Num(q[1], t) \in (a + 1)..b /\ q[1].data.plain = Piece(t, Num(q[1], t))
    BY <1>1 DEF Run
  <1>3. a + 1 <= b /\ a + 1 \in (a + 1)..b
    BY <1>2
  <1>4. PICK k \in 1..Len(q) : Is(q[k], t, c) /\ Num(q[k], t) = a + 1
    BY <1>3 DEF Run
  <1>5. ASSUME 1 < k PROVE FALSE
    <2>1. Num(q[1], t) < Num(q[k], t)
      BY <1>1, <1>4, <1>5 DEF Run
    <2> QED BY <1>2, <1>4, <2>1
  <1>6. Num(q[1], t) = a + 1
    BY <1>4, <1>5
  <1>7. ASSUME NEW i \in 1..Len(q2), Is(q2[i], t, c)
        PROVE  /\ Num(q2[i], t) \in (a + 1 + 1)..b
               /\ q2[i].data.plain = Piece(t, Num(q2[i], t))
    <2>1. Num(q[1], t) < Num(q[i + 1], t) /\ Num(q[i + 1], t) \in (a + 1)..b
          /\ q2[i].data.plain = Piece(t, Num(q2[i], t))
      BY <1>1, <1>7 DEF Run
    <2> QED BY <1>1, <1>6, <2>1
  <1>8. ASSUME NEW n \in (a + 1 + 1)..b
        PROVE  \E i \in 1..Len(q2) : Is(q2[i], t, c) /\ Num(q2[i], t) = n
    <2>1. n \in (a + 1)..b /\ n # a + 1
      BY <1>8
    <2>2. PICK i \in 1..Len(q) : Is(q[i], t, c) /\ Num(q[i], t) = n
      BY <2>1 DEF Run
    <2>3. i # 1
      BY <1>6, <2>1, <2>2
    <2>4. i - 1 \in 1..Len(q2) /\ (i - 1) + 1 = i
      BY <2>3 DEF Takes
    <2>5. q2[i - 1] = q[i]
      BY <1>1, <2>4
    <2> QED BY <2>2, <2>4, <2>5
  <1>9. ASSUME NEW i \in 1..Len(q2), NEW j \in 1..Len(q2), i < j,
               Is(q2[i], t, c), Is(q2[j], t, c)
        PROVE  Num(q2[i], t) < Num(q2[j], t)
    <2>1. i + 1 \in 1..Len(q) /\ j + 1 \in 1..Len(q) /\ i + 1 < j + 1
          /\ q2[i] = q[i + 1] /\ q2[j] = q[j + 1]
      BY <1>1, <1>9
    <2> QED BY <1>9, <2>1 DEF Run
  <1>10. Run(q2, t, c, a + 1, b)
    BY <1>7, <1>8, <1>9 DEF Run
  <1> QED BY <1>2, <1>3, <1>6, <1>10
(* Frames are added: none that counts, or one that has the next number.    *)
Longer(q, q2) == Len(q2) >= Len(q) /\ \A i \in 1..Len(q) : q2[i] = q[i]
New(q, q2) == {i \in 1..Len(q2) : i \notin 1..Len(q)}

LEMMA RunStays ==
    ASSUME NEW q, NEW q2, NEW t, NEW c, NEW a \in Nat, NEW b \in Nat,
           Len(q) \in Nat, Len(q2) \in Nat, Longer(q, q2), Run(q, t, c, a, b),
           \A i \in New(q, q2) : ~Is(q2[i], t, c)
    PROVE  Run(q2, t, c, a, b)
  <1>1. \A i \in 1..Len(q2) : Is(q2[i], t, c) => i \in 1..Len(q) /\ q2[i] = q[i]
    BY DEF New, Longer
  <1>2. \A i \in 1..Len(q) : i \in 1..Len(q2) /\ q2[i] = q[i]
    BY DEF Longer
  <1>3. ASSUME NEW i \in 1..Len(q2), Is(q2[i], t, c)
        PROVE  Num(q2[i], t) \in (a + 1)..b /\ q2[i].data.plain = Piece(t, Num(q2[i], t))
    BY <1>1, <1>3 DEF Run
  <1>4. ASSUME NEW n \in (a + 1)..b
        PROVE  \E i \in 1..Len(q2) : Is(q2[i], t, c) /\ Num(q2[i], t) = n
    <2>1. PICK i \in 1..Len(q) : Is(q[i], t, c) /\ Num(q[i], t) = n
      BY DEF Run
    <2> QED BY <1>2, <2>1
  <1>5. ASSUME NEW i \in 1..Len(q2), NEW j \in 1..Len(q2), i < j,
               Is(q2[i], t, c), Is(q2[j], t, c)
        PROVE  Num(q2[i], t) < Num(q2[j], t)
    BY <1>1, <1>5 DEF Run
  <1> QED BY <1>3, <1>4, <1>5 DEF Run

LEMMA PieceNum ==
    ASSUME NEW m, NEW t \in {"input", "output"}, NEW n, m.data.plain = Piece(t, n)
    PROVE  Num(m, t) = n
  <1>1. t = "input" \/ t = "output"
    OBVIOUS
  <1>2. CASE t = "input"
    <2>1. Piece(t, n) = [input |-> n] /\ "input" = "input"
      BY <1>2 DEF Piece
    <2> QED BY <1>2, <2>1 DEF Num
  <1>3. CASE t = "output"
    <2>1. Piece(t, n) = [output |-> n]
      BY <1>3 DEF Piece
    <2> QED BY <1>3, <2>1 DEF Num
  <1> QED BY <1>1, <1>2, <1>3

LEMMA RunGrows ==
    ASSUME NEW q, NEW q2, NEW t \in {"input", "output"}, NEW c,
           NEW a \in Nat, NEW b \in Nat, a <= b,
           Len(q) \in Nat, Len(q2) \in Nat, Longer(q, q2), Run(q, t, c, a, b),
           NEW p \in New(q, q2), Is(q2[p], t, c), q2[p].data.plain = Piece(t, b + 1),
           \A i \in New(q, q2) : i = p \/ ~Is(q2[i], t, c)
    PROVE  Run(q2, t, c, a, b + 1)
  <1>1. \A i \in 1..Len(q2) : Is(q2[i], t, c) =>
            i = p \/ (i \in 1..Len(q) /\ q2[i] = q[i] /\ i < p)
    BY DEF New, Longer
  <1>2. /\ p \in 1..Len(q2)
        /\ \A i \in 1..Len(q) : i \in 1..Len(q2) /\ q2[i] = q[i]
    BY DEF New, Longer
  <1>3. Num(q2[p], t) = b + 1
    BY PieceNum
  <1>4. ASSUME NEW i \in 1..Len(q2), Is(q2[i], t, c)
        PROVE  /\ Num(q2[i], t) \in (a + 1)..(b + 1)
               /\ q2[i].data.plain = Piece(t, Num(q2[i], t))
    <2>1. CASE i = p
      BY <1>3, <2>1
    <2>2. CASE i \in 1..Len(q) /\ q2[i] = q[i]
      <3>1. Num(q2[i], t) \in (a + 1)..b /\ q2[i].data.plain = Piece(t, Num(q2[i], t))
        BY <1>4, <2>2 DEF Run
      <3> QED BY <3>1
    <2> QED BY <1>1, <1>4, <2>1, <2>2
  <1>5. ASSUME NEW n \in (a + 1)..(b + 1)
        PROVE  \E i \in 1..Len(q2) : Is(q2[i], t, c) /\ Num(q2[i], t) = n
    <2>1. CASE n = b + 1
      BY <1>2, <1>3, <2>1
    <2>2. CASE n # b + 1
      <3>1. n \in (a + 1)..b
        BY <2>2
      <3>2. PICK i \in 1..Len(q) : Is(q[i], t, c) /\ Num(q[i], t) = n
        BY <3>1 DEF Run
      <3> QED BY <1>2, <3>2
    <2> QED BY <2>1, <2>2
  <1>6. ASSUME NEW i \in 1..Len(q2), NEW j \in 1..Len(q2), i < j,
               Is(q2[i], t, c), Is(q2[j], t, c)
        PROVE  Num(q2[i], t) < Num(q2[j], t)
    <2>1. i \in 1..Len(q) /\ q2[i] = q[i]
      <3>1. i # p
        BY <1>1, <1>2, <1>6
      <3> QED BY <1>1, <1>6, <3>1
    <2>2. Num(q2[i], t) \in (a + 1)..b
      BY <1>6, <2>1 DEF Run
    <2>3. CASE j = p
      BY <1>3, <2>2, <2>3
    <2>4. CASE j \in 1..Len(q) /\ q2[j] = q[j]
      BY <1>6, <2>1, <2>4 DEF Run
    <2> QED BY <1>1, <1>6, <2>3, <2>4
  <1> QED BY <1>4, <1>5, <1>6 DEF Run

LEMMA AddsLonger ==
    ASSUME NEW q, NEW q2, NEW m, Len(q) \in Nat, Adds(q, q2, m)
    PROVE  /\ Longer(q, q2) /\ New(q, q2) = {Len(q) + 1} /\ q2[Len(q) + 1] = m
           /\ Len(q2) \in Nat
  BY DEF Adds, Longer, New

LEMMA ConcatLonger ==
    ASSUME NEW S, NEW q \in Seq(S), NEW s \in Seq(S)
    PROVE  /\ Longer(q, q \o s)
           /\ \A i \in New(q, q \o s) :
                i - Len(q) \in 1..Len(s) /\ (q \o s)[i] = s[i - Len(q)]
           /\ \A j \in 1..Len(s) :
                j + Len(q) \in New(q, q \o s) /\ (j + Len(q)) - Len(q) = j
  <1>1. /\ Len(q \o s) = Len(q) + Len(s) /\ Len(q) \in Nat /\ Len(s) \in Nat
        /\ \A i \in 1..(Len(q) + Len(s)) :
             (q \o s)[i] = IF i <= Len(q) THEN q[i] ELSE s[i - Len(q)]
    BY ConcatProperties
  <1> QED BY <1>1 DEF Longer, New
---------------------------------------------------------------------------
(* A stream of pieces that passes two queues, r and then q: those after a  *)
(* and up to w, or, while a part of the way is closed, the first of them.  *)
(* The pieces of c have its name d in r.                                   *)
Flow(q, r, t, c, d, a, w, on, up) ==
    \E b \in Nat :
      /\ a <= b /\ b <= w /\ Run(q, t, c, a, b)
      /\ on => \E e \in Nat : b <= e /\ e <= w /\ Run(r, t, d, b, e) /\ (up => e = w)

Alike(q, q2, t, c) == \A a, b \in Nat : Run(q, t, c, a, b) => Run(q2, t, c, a, b)

LEMMA AlikeQueues ==
    ASSUME NEW q, NEW q2, NEW t, NEW c, Len(q) \in Nat
    PROVE  /\ q2 = q => Alike(q, q2, t, c)
           /\ Takes(q, q2) /\ ~Is(q[1], t, c) => Alike(q, q2, t, c)
           /\ \A m : Adds(q, q2, m) /\ ~Is(m, t, c) => Alike(q, q2, t, c)
  <1>1. q2 = q => Alike(q, q2, t, c)
    BY DEF Alike
  <1>2. Takes(q, q2) /\ ~Is(q[1], t, c) => Alike(q, q2, t, c)
    BY RunSkips DEF Alike
  <1>3. ASSUME NEW m, Adds(q, q2, m), ~Is(m, t, c) PROVE Alike(q, q2, t, c)
    BY <1>3, AddsLonger, RunStays DEF Alike
  <1> QED BY <1>1, <1>2, <1>3

LEMMA FlowKept ==
    ASSUME NEW q, NEW r, NEW q2, NEW r2, NEW t, NEW c, NEW d, NEW a \in Nat,
           NEW w \in Nat, NEW on, NEW up, NEW w2 \in Nat, NEW on2, NEW up2,
           Flow(q, r, t, c, d, a, w, on, up), w <= w2,
           Alike(q, q2, t, c), on2 => on /\ Alike(r, r2, t, d) /\ (up2 => up /\ w2 = w)
    PROVE  Flow(q2, r2, t, c, d, a, w2, on2, up2)
  <1>1. PICK b \in Nat :
      /\ a <= b /\ b <= w /\ Run(q, t, c, a, b)
      /\ on => \E e \in Nat : b <= e /\ e <= w /\ Run(r, t, d, b, e) /\ (up => e = w)
    BY DEF Flow
  <1>2. b <= w2 /\ Run(q2, t, c, a, b)
    BY <1>1 DEF Alike
  <1>3. ASSUME on2
        PROVE  \E e \in Nat : b <= e /\ e <= w2 /\ Run(r2, t, d, b, e) /\ (up2 => e = w2)
    <2>1. PICK e \in Nat : b <= e /\ e <= w /\ Run(r, t, d, b, e) /\ (up => e = w)
      BY <1>1, <1>3
    <2>2. e <= w2 /\ Run(r2, t, d, b, e) /\ (up2 => e = w2)
      BY <1>3, <2>1 DEF Alike
    <2> QED BY <2>1, <2>2
  <1> QED BY <1>1, <1>2, <1>3 DEF Flow

(* The next piece is sent.                                                 *)
Gains(q, q2, t, c, n) ==
    /\ Longer(q, q2) /\ Len(q2) \in Nat
    /\ \E p \in New(q, q2) :
         /\ Is(q2[p], t, c) /\ q2[p].data.plain = Piece(t, n)
         /\ \A i \in New(q, q2) : i = p \/ ~Is(q2[i], t, c)

LEMMA RunGains ==
    ASSUME NEW q, NEW q2, NEW t \in {"input", "output"}, NEW c,
           NEW a \in Nat, NEW b \in Nat, a <= b, Len(q) \in Nat,
           Run(q, t, c, a, b), Gains(q, q2, t, c, b + 1)
    PROVE  Run(q2, t, c, a, b + 1)
  <1>1. PICK p \in New(q, q2) :
         /\ Is(q2[p], t, c) /\ q2[p].data.plain = Piece(t, b + 1)
         /\ \A i \in New(q, q2) : i = p \/ ~Is(q2[i], t, c)
    BY DEF Gains
  <1> QED BY <1>1, RunGrows DEF Gains

LEMMA AddsGains ==
    ASSUME NEW q, NEW q2, NEW t, NEW c, NEW n, NEW m, Len(q) \in Nat, Adds(q, q2, m),
           Is(m, t, c), m.data.plain = Piece(t, n)
    PROVE  Gains(q, q2, t, c, n)
  BY AddsLonger DEF Gains

LEMMA FlowSent ==
    ASSUME NEW q, NEW r, NEW r2, NEW t \in {"input", "output"}, NEW c, NEW d,
           NEW a \in Nat, NEW w \in Nat, NEW on, NEW up, Len(r) \in Nat,
           Flow(q, r, t, c, d, a, w, on, up),
           IF up THEN Gains(r, r2, t, d, w + 1) ELSE Alike(r, r2, t, d)
    PROVE  Flow(q, r2, t, c, d, a, w + 1, on, up)
  <1>1. PICK b \in Nat :
      /\ a <= b /\ b <= w /\ Run(q, t, c, a, b)
      /\ on => \E e \in Nat : b <= e /\ e <= w /\ Run(r, t, d, b, e) /\ (up => e = w)
    BY DEF Flow
  <1>2. w + 1 \in Nat /\ b <= w + 1
    BY <1>1
  <1>3. ASSUME on
        PROVE  \E e \in Nat : /\ b <= e /\ e <= w + 1 /\ Run(r2, t, d, b, e)
                              /\ up => e = w + 1
    <2>1. PICK e \in Nat : b <= e /\ e <= w /\ Run(r, t, d, b, e) /\ (up => e = w)
      BY <1>1, <1>3
    <2>2. CASE up
      <3>1. b <= w /\ Run(r, t, d, b, w) /\ Gains(r, r2, t, d, w + 1)
        BY <2>1, <2>2
      <3>2. Run(r2, t, d, b, w + 1)
        BY <3>1, RunGains
      <3> QED BY <1>2, <3>2
    <2>3. CASE ~up
      <3>1. Run(r2, t, d, b, e) /\ e <= w + 1
        BY <2>1, <2>3 DEF Alike
      <3> QED BY <2>1, <2>3, <3>1
    <2> QED BY <2>2, <2>3
  <1> QED BY <1>1, <1>2, <1>3 DEF Flow

(* A piece passes from one queue to the other.                             *)
LEMMA FlowPassed ==
    ASSUME NEW q, NEW r, NEW q2, NEW r2, NEW t \in {"input", "output"}, NEW c, NEW d,
           NEW a \in Nat, NEW w \in Nat, NEW on, NEW up, NEW m, NEW on2, NEW up2,
           Len(q) \in Nat, Len(r) \in Nat, on, on2 => on, up2 => up,
           Flow(q, r, t, c, d, a, w, on, up), Takes(r, r2), Is(r[1], t, d),
           Adds(q, q2, m), Is(m, t, c), m.data = r[1].data
    PROVE  Flow(q2, r2, t, c, d, a, w, on2, up2)
  <1>1. PICK b \in Nat :
      /\ a <= b /\ b <= w /\ Run(q, t, c, a, b)
      /\ \E e \in Nat : b <= e /\ e <= w /\ Run(r, t, d, b, e) /\ (up => e = w)
    BY DEF Flow
  <1>2. PICK e \in Nat : b <= e /\ e <= w /\ Run(r, t, d, b, e) /\ (up => e = w)
    BY <1>1
  <1>3. r[1].data.plain = Piece(t, b + 1) /\ b + 1 <= e /\ Run(r2, t, d, b + 1, e)
    BY <1>2, RunTakes
  <1>4. Gains(q, q2, t, c, b + 1)
    BY <1>3, AddsGains
  <1>5. Run(q2, t, c, a, b + 1)
    BY <1>1, <1>4, RunGains
  <1>6. b + 1 \in Nat /\ a <= b + 1 /\ b + 1 <= w
    BY <1>1, <1>2, <1>3
  <1> QED BY <1>2, <1>3, <1>5, <1>6 DEF Flow

(* A piece arrives.                                                        *)
LEMMA FlowRead ==
    ASSUME NEW q, NEW r, NEW q2, NEW t, NEW c, NEW d, NEW a \in Nat, NEW w \in Nat,
           NEW on, NEW up, Len(q) \in Nat,
           Flow(q, r, t, c, d, a, w, on, up), Takes(q, q2), Is(q[1], t, c)
    PROVE  /\ q[1].data.plain = Piece(t, a + 1) /\ a + 1 <= w
           /\ Flow(q2, r, t, c, d, a + 1, w, on, up)
  <1>1. PICK b \in Nat :
      /\ a <= b /\ b <= w /\ Run(q, t, c, a, b)
      /\ on => \E e \in Nat : b <= e /\ e <= w /\ Run(r, t, d, b, e) /\ (up => e = w)
    BY DEF Flow
  <1>2. q[1].data.plain = Piece(t, a + 1) /\ a + 1 <= b /\ Run(q2, t, c, a + 1, b)
    BY <1>1, RunTakes
  <1>3. a + 1 <= w /\ a + 1 \in Nat
    BY <1>1, <1>2
  <1> QED BY <1>1, <1>2, <1>3 DEF Flow

(* Nothing is under way, or all that was is lost.                          *)
LEMMA FlowEmpty ==
    ASSUME NEW q, NEW r, NEW t, NEW c, NEW d, NEW a \in Nat, NEW w \in Nat, NEW on,
           NEW up, a <= w, Free(q, t, c), on => a = w /\ Free(r, t, d)
    PROVE  Flow(q, r, t, c, d, a, w, on, up)
  <1>1. Run(q, t, c, a, a) /\ (on => Run(r, t, d, a, a))
    BY RunFree
  <1> QED BY <1>1 DEF Flow

LEMMA FlowBounds ==
    ASSUME NEW q, NEW r, NEW t, NEW c, NEW d, NEW a \in Nat, NEW w \in Nat, NEW on,
           NEW up, Flow(q, r, t, c, d, a, w, on, up)
    PROVE  a <= w
  BY DEF Flow
---------------------------------------------------------------------------
(* What a step may do to the connections.                                  *)
Gone == {"cut", "closed"}

Relinked ==
    \/ link' = link
    \/ \E S : Close(S)
    \/ \E x \in Conns : Hangup(x) \/ Accept(x) \/ Lost(x)

LEMMA NextRelinks == ASSUME [Next]_vars PROVE Relinked
  <1>1. Me \in Conns /\ \A c \in Clients : c \in Conns
    BY OneHostFacts
  <1>2. CASE UNCHANGED vars
    BY <1>2 DEF vars, wireVars, Relinked
  <1>3. ASSUME NEW x \in Conns, Accept(x) \/ Lost(x) PROVE Relinked
    BY <1>3 DEF Relinked
  <1>4. CASE HostHandler(Me)
    BY <1>4 DEF HostHandler, FirstReadFails, RejectFirst, Refuse, RegisterHost, RejectHost,
                ForwardFromHost, Unregister, CloseHostConn, CloseMembers, wireVars, Relinked
  <1>5. ASSUME NEW c \in Clients, ClientHandler(c) PROVE Relinked
    BY <1>5 DEF ClientHandler, FirstReadFails, RejectFirst, Refuse, RateLimited,
                SessionNotFound, LookupSession, AckJoin, AddClient, NotifyJoined,
                ForwardFromClient, ForwardFails, ClientReadFails, Disconnect, RemoveClient,
                NotifyLeft, wireVars, Relinked
  <1>6. CASE HostStep
    <2>1. CASE HostRegister \/ HostRegistered \/ HostRefused \/ SetPassword \/ CloseHost
      BY <1>1, <2>1 DEF HostRegister, HostRegistered, HostRefused, SetPassword, CloseHost,
                        wireVars, Relinked
    <2>2. CASE HostReadLoop
      BY <2>2 DEF HostReadLoop, OnJoined, OnLeft, OnKeyExchange, WriteVerify, OnVerify,
                  OnInput, OnPing, OnPong, HostReadFails, wireVars, Relinked
    <2>3. CASE ReadOutput \/ LatencyPing \/ UpdateTermSize
      BY <2>3 DEF ReadOutput, LatencyPing, UpdateTermSize, Relinked
    <2> QED BY <1>6, <2>1, <2>2, <2>3 DEF HostStep
  <1>7. ASSUME NEW c \in Clients, ClientStep(c) PROVE Relinked
    <2>1. Hangup(c) => Relinked
      BY <1>1 DEF Relinked
    <2>2. CASE Join(c) \/ SetOnOutput(c) \/ SendInput(c) \/ LatencyPings(c) \/ CloseClient(c)
      BY <2>1, <2>2 DEF Join, SetOnOutput, SendInput, LatencyPings, CloseClient, Fail,
                        wireVars, Relinked
    <2>3. CASE ClientReadLoop(c)
      BY <2>1, <2>3 DEF ClientReadLoop, OnOutput, BrowserOutput, OnHostPing, OnOther,
                        ReadLoopFails, Fail, Relinked
    <2>4. CASE ClientHandshake(c)
      BY <2>1, <2>4 DEF ClientHandshake, OnSessionJoined, OnHostKey, OnHostVerify,
                        HandshakeFails, BrowserJoined, KeyPairGenerated, BrowserKey,
                        KeyDerived, BrowserUnawaited, BrowserTimeout, Fail, wireVars,
                        Relinked
    <2>5. CASE BrowserInput(c) \/ BrowserSettles(c)
      BY <2>5 DEF BrowserInput, BrowserSettles, InputEncrypted, OutputDecrypted, wireVars,
                  Relinked
    <2> QED BY <1>7, <2>2, <2>3, <2>4, <2>5 DEF ClientStep
  <1> QED BY <1>2, <1>3, <1>4, <1>5, <1>6, <1>7 DEF Next, ProgramStep, RelayStep

LEMMA LinkMoves ==
    ASSUME Inv, [Next]_vars, NEW x \in Conns
    PROVE  /\ link'[x] = "none" => link[x] = "none"
           /\ link[x] \in Gone => link'[x] \in Gone
           /\ link[x] = "closed" => link'[x] = "closed"
           /\ link'[x] \in Up /\ link[x] \notin Up => link[x] = "none" /\ Accept(x)
  <1>1. link = [y \in Conns |-> link[y]]
    BY DEF Inv, Framed, LinkTypes
  <1>2. CASE link' = link
    BY <1>2
  <1>3. ASSUME NEW S, Close(S)
        PROVE  link'[x] = link[x] \/ link'[x] = "closed"
    BY <1>3 DEF Close
  <1>4. ASSUME NEW y \in Conns, Hangup(y)
        PROVE  link'[x] = link[x] \/ (link[x] \in Up /\ link'[x] = "cut")
    BY <1>1, <1>4 DEF Hangup
  <1>5. ASSUME NEW y \in Conns, Accept(y)
        PROVE  link'[x] = link[x] \/ (link[x] = "none" /\ link'[x] = "open" /\ Accept(x))
    BY <1>1, <1>5 DEF Accept
  <1>6. ASSUME NEW y \in Conns, Lost(y)
        PROVE  link'[x] = link[x] \/ (link[x] \in Up /\ link'[x] \in {"cut", "expired"})
    BY <1>1, <1>6, <1>4 DEF Lost, Up
  <1>7. Relinked
    BY NextRelinks
  <1> QED BY <1>2, <1>3, <1>4, <1>5, <1>6, <1>7 DEF Relinked, Gone, Up

(* Where the handlers and the programs are when a connection is not up,    *)
(* and when a client is in the relay's map, types, and is shown output.    *)
Member == {"added", "serving", "leaving", "removing"}

HostPlaced ==
    /\ link[Me] = "none" => hostPc = "start"
    /\ pc[Me] = "closing" => link[Me] = "closed"

Placed(c) ==
    /\ clientPc[c] # "start" => link[c] # "none"
    /\ c \in clients[Me] <=> pc[c] \in Member
    /\ pc[c] = "removing" => link[c] \notin Up
    /\ shown[c] # << >> \/ typed[c] # 0 => clientPc[c] \in {"running", "closed"}
    /\ c \in DOMAIN callback

LEMMA InitPlaced == ASSUME Init PROVE HostPlaced /\ \A c \in Clients : Placed(c)
  BY OneHostFacts
     DEF Init, WireInit, RelayInit, HostInit, ClientInit, HostPlaced, Placed, Member

LEMMA HandlersApart ==
    ASSUME Inv, [Next]_vars, NEW x \in Conns
    PROVE  \/ pc'[x] = pc[x]
           \/ Accept(x)
           \/ x = Me /\ HostHandler(Me)
           \/ x \in Clients /\ ClientHandler(x)
  <1>1. pc = [y \in Conns |-> pc[y]] /\ Me \in Conns /\ \A c \in Clients : c \in Conns
    BY OneHostFacts DEF Inv, Relaying, RelayTypeOK
  <1>2. \A y, from, to : Goto(y, from, to) /\ y # x => pc'[x] = pc[x]
    BY <1>1 DEF Goto
  <1>3. CASE UNCHANGED vars
    BY <1>3 DEF vars, relayVars
  <1>4. ASSUME NEW y \in Conns, Accept(y), y # x PROVE pc'[x] = pc[x]
    BY <1>2, <1>4 DEF Accept
  <1>5. ASSUME HostHandler(Me), x # Me PROVE pc'[x] = pc[x]
    BY <1>2, <1>5 DEF HostHandler, FirstReadFails, RejectFirst, Refuse, RegisterHost,
                      RejectHost, ForwardFromHost, Unregister, CloseHostConn, CloseMembers,
                      relayVars
  <1>6. ASSUME NEW c \in Clients, ClientHandler(c), x # c PROVE pc'[x] = pc[x]
    BY <1>2, <1>6 DEF ClientHandler, FirstReadFails, RejectFirst, Refuse, RateLimited,
                SessionNotFound, LookupSession, AckJoin, AddClient, NotifyJoined,
                ForwardFromClient, ForwardFails, ClientReadFails, Disconnect, RemoveClient,
                NotifyLeft, relayVars
  <1>7. ASSUME UNCHANGED relayVars PROVE pc'[x] = pc[x]
    BY <1>7 DEF relayVars
  <1>8. CASE RelayStep
    BY <1>4, <1>5, <1>6, <1>8 DEF RelayStep
  <1>9. CASE \E y \in Conns : Lost(y)
    BY <1>7, <1>9 DEF Lost
  <1> QED BY <1>3, <1>7, <1>8, <1>9 DEF Next, ProgramStep

(* The relay's map.                                                        *)
LEMMA MembersApart ==
    ASSUME Inv, [Next]_vars, NEW c \in Clients
    PROVE  \/ c \in clients'[Me] <=> c \in clients[Me]
           \/ AddClient(c) /\ c \in clients'[Me]
           \/ RemoveClient(c) /\ c \notin clients'[Me]
  <1>1. clients = [h \in Hosts |-> clients[h]] /\ Me \in Hosts /\ Located
    BY OneHostFacts DEF Inv, Relaying, RelayTypeOK
  <1>2. CASE clients' = clients
    BY <1>2
  <1>3. ASSUME NEW d \in Clients, AddClient(d)
        PROVE  c \in clients'[Me] <=> c \in clients[Me] \/ c = d
    <2>1. sess[d] = Me
      BY <1>1, <1>3 DEF AddClient, Goto, Located, Attached
    <2> QED BY <1>1, <1>3, <2>1 DEF AddClient
  <1>4. ASSUME NEW d \in Clients, RemoveClient(d)
        PROVE  c \in clients'[Me] <=> c \in clients[Me] /\ c # d
    <2>1. sess[d] = Me
      BY <1>1, <1>4 DEF RemoveClient, Goto, Located, Attached
    <2> QED BY <1>1, <1>4, <2>1 DEF RemoveClient
  <1>5. CASE UNCHANGED vars \/ UNCHANGED relayVars
    BY <1>2, <1>5 DEF vars, relayVars
  <1>6. ASSUME NEW x, Accept(x) PROVE clients' = clients
    BY <1>6 DEF Accept
  <1>7. ASSUME HostHandler(Me) PROVE clients' = clients
    BY <1>7 DEF HostHandler, FirstReadFails, RejectFirst, Refuse, RegisterHost, RejectHost,
                ForwardFromHost, Unregister, CloseHostConn, CloseMembers, relayVars
  <1>8. ASSUME NEW d \in Clients, ClientHandler(d)
        PROVE  clients' = clients \/ AddClient(d) \/ RemoveClient(d)
    BY <1>8 DEF ClientHandler, FirstReadFails, RejectFirst, Refuse, RateLimited,
                SessionNotFound, LookupSession, AckJoin, NotifyJoined, ForwardFromClient,
                ForwardFails, ClientReadFails, Disconnect, NotifyLeft, relayVars
  <1>9. CASE RelayStep
    BY <1>2, <1>3, <1>4, <1>6, <1>7, <1>8, <1>9 DEF RelayStep
  <1>10. CASE \E y \in Conns : Lost(y)
    BY <1>5, <1>10 DEF Lost
  <1> QED BY <1>5, <1>9, <1>10 DEF Next, ProgramStep

(* The programs.                                                           *)
LEMMA ProgramMoves ==
    ASSUME Inv, [Next]_vars, NEW c \in Clients, c \in DOMAIN callback
    PROVE  \/ /\ clientPc'[c] = clientPc[c] /\ clientKey'[c] = clientKey[c]
              /\ typed'[c] = typed[c] /\ shown'[c] = shown[c]
              /\ DOMAIN callback' = DOMAIN callback /\ callback'[c] = callback[c]
           \/ ClientStep(c) /\ UNCHANGED <<relayVars, hostVars>>
  <1>1. CASE UNCHANGED clientVars
    BY <1>1 DEF clientVars
  <1>2. CASE UNCHANGED vars
    BY <1>1, <1>2 DEF vars
  <1>3. ASSUME NEW d \in Clients, ClientStep(d), d # c
        PROVE  DOMAIN callback' = DOMAIN callback /\ callback'[c] = callback[c]
    <2>1. CASE SetOnOutput(d) \/ KeyDerived(d)
      BY <1>3, <2>1 DEF SetOnOutput, KeyDerived
    <2>2. CASE UNCHANGED callback
      BY <2>2
    <2>3. UNCHANGED callback \/ SetOnOutput(d) \/ KeyDerived(d)
      <3>1. CASE Join(d) \/ SendInput(d) \/ LatencyPings(d) \/ CloseClient(d)
        BY <3>1 DEF Join, SendInput, LatencyPings, CloseClient, Fail
      <3>2. CASE ClientReadLoop(d)
        BY <3>2 DEF ClientReadLoop, OnOutput, BrowserOutput, OnHostPing, OnOther,
                    ReadLoopFails, Fail, clientVars
      <3>3. CASE ClientHandshake(d)
        BY <3>3 DEF ClientHandshake, OnSessionJoined, OnHostKey, OnHostVerify,
                    HandshakeFails, BrowserJoined, KeyPairGenerated, BrowserKey,
                    BrowserUnawaited, BrowserTimeout, Fail
      <3>4. CASE BrowserInput(d) \/ BrowserSettles(d)
        BY <3>4 DEF BrowserInput, BrowserSettles, InputEncrypted, OutputDecrypted
      <3> QED BY <1>3, <3>1, <3>2, <3>3, <3>4 DEF ClientStep
    <2> QED BY <2>1, <2>2, <2>3
  <1>4. ASSUME NEW d \in Clients, ClientStep(d), d # c
        PROVE  /\ clientPc'[c] = clientPc[c] /\ clientKey'[c] = clientKey[c]
               /\ typed'[c] = typed[c] /\ shown'[c] = shown[c]
    BY <1>4, OneHostFacts, OthersUntouched
  <1>5. CASE RelayStep
    BY <1>1, <1>5 DEF RelayStep
  <1>6. CASE \E y \in Conns : Lost(y)
    BY <1>1, <1>6 DEF Lost
  <1> QED BY <1>1, <1>2, <1>3, <1>4, <1>5, <1>6 DEF Next, ProgramStep

LEMMA BrowserOnly ==
    ASSUME NEW c \in Clients, c \notin Browsers
    PROVE  /\ ~BrowserJoined(c) /\ ~BrowserKey(c) /\ ~BrowserUnawaited(c)
           /\ ~BrowserTimeout(c) /\ ~BrowserInput(c) /\ ~BrowserOutput(c)
           /\ ~BrowserSettles(c)
  BY DEF BrowserJoined, BrowserKey, BrowserUnawaited, BrowserTimeout, BrowserInput,
         BrowserOutput, BrowserSettles, InputEncrypted, OutputDecrypted

LEMMA OwnProgram ==
    ASSUME Inv, NEW c \in Clients, c \notin Browsers, ClientStep(c),
           c \in DOMAIN callback
    PROVE  /\ clientPc[c] \in {"running", "closed"} =>
                /\ clientPc'[c] \in {"running", "closed"} /\ clientKey'[c] = clientKey[c]
                /\ callback[c] => callback'[c]
           /\ typed'[c] = typed[c] \/ (SendInput(c) /\ clientPc[c] = "running")
           /\ shown'[c] = shown[c] \/ (OnOutput(c) /\ clientPc[c] = "running")
           /\ clientPc[c] = "start" => link[c] = "open"
           /\ clientPc'[c] # "start"
           /\ c \in DOMAIN callback'
  <1>1. /\ DOMAIN clientPc = Clients /\ DOMAIN clientKey = Clients
        /\ \A from, to : Move(c, from, to) => clientPc[c] = from /\ clientPc'[c] = to
    BY DEF Inv, ClientTypes, Move
  <1>2. ASSUME NEW why \in Failures \cup {"closed"}, Fail(c, why)
        PROVE  /\ UNCHANGED <<clientKey, typed, shown, callback>>
               /\ clientPc'[c] = why /\ why # "start"
    BY <1>1, <1>2 DEF Fail, Failures
  <1>3. CASE Join(c)
    BY <1>1, <1>3 DEF Join
  <1>4. CASE OnSessionJoined(c) \/ OnHostKey(c) \/ OnHostVerify(c)
    BY <1>1, <1>4 DEF OnSessionJoined, OnHostKey, OnHostVerify, ClientReads
  <1>5. CASE KeyPairGenerated(c) \/ KeyDerived(c)
    BY <1>1, <1>5 DEF KeyPairGenerated, KeyDerived
  <1>6. CASE HandshakeFails(c)
    BY <1>2, <1>6 DEF HandshakeFails, Failures
  <1>7. CASE ReadLoopFails(c) \/ CloseClient(c)
    BY <1>2, <1>7 DEF ReadLoopFails, CloseClient
  <1>8. CASE OnOutput(c) \/ SendInput(c)
    BY <1>8 DEF OnOutput, SendInput
  <1>9. CASE OnHostPing(c) \/ OnOther(c) \/ LatencyPings(c)
    BY <1>9 DEF OnHostPing, OnOther, LatencyPings, clientVars
  <1>10. CASE SetOnOutput(c)
    BY <1>10 DEF SetOnOutput
  <1>11. /\ ~BrowserJoined(c) /\ ~BrowserKey(c) /\ ~BrowserUnawaited(c)
         /\ ~BrowserTimeout(c) /\ ~BrowserInput(c) /\ ~BrowserOutput(c)
         /\ ~BrowserSettles(c)
    BY BrowserOnly
  <1> QED BY <1>3, <1>4, <1>5, <1>6, <1>7, <1>8, <1>9, <1>10, <1>11
          DEF ClientStep, ClientHandshake, ClientReadLoop

LEMMA NextHostPlaced ==
    ASSUME Inv, HostPlaced, [Next]_vars
    PROVE  HostPlaced'
  <1>1. Me \in Conns /\ (link'[Me] = "none" => link[Me] = "none")
        /\ (link[Me] = "closed" => link'[Me] = "closed")
        /\ Me \notin Clients
    BY OneHostFacts, LinkMoves
  <1>2. ASSUME link[Me] = "none" PROVE hostPc' = "start"
    <2>1. hostPc = "start"
      BY <1>2 DEF HostPlaced
    <2>2. CASE HostStep
      BY <1>2, <2>1, <2>2
         DEF HostStep, HostReadLoop, HostRegister, HostRegistered, HostRefused, SetPassword,
             OnJoined, OnLeft, OnKeyExchange, WriteVerify, OnVerify, OnInput, OnPing, OnPong,
             HostReadFails, HostReads, Reading, ReadOutput, LatencyPing, UpdateTermSize,
             CloseHost, Working
    <2>3. hostPc' = hostPc \/ HostStep
      BY DEF Next, ProgramStep, RelayStep, Lost, vars, hostVars
    <2> QED BY <2>1, <2>2, <2>3
  <1>3. ASSUME pc'[Me] = "closing", pc[Me] # "closing" PROVE link'[Me] = "closed"
    <2>1. DOMAIN pc = Conns
      BY DEF Inv, Relaying, RelayTypeOK
    <2>2. \A from, to : Goto(Me, from, to) => pc'[Me] = to
      BY <1>1, <2>1 DEF Goto
    <2>3. ~Accept(Me)
      BY <1>3, <2>2 DEF Accept
    <2>4. HostHandler(Me)
      BY <1>1, <1>3, <2>3, HandlersApart
    <2>5. CloseHostConn(Me)
      BY <1>3, <2>2, <2>4
         DEF HostHandler, FirstReadFails, RejectFirst, Refuse, RegisterHost, RejectHost,
             ForwardFromHost, Unregister, CloseMembers, relayVars
    <2> QED BY <1>1, <2>5 DEF CloseHostConn, Close
  <1> QED BY <1>1, <1>2, <1>3 DEF HostPlaced

LEMMA NextPlaced ==
    ASSUME Inv, [Next]_vars, NEW c \in Clients, c \notin Browsers, Placed(c)
    PROVE  Placed(c)'
  <1>1. /\ c \in Conns /\ c # Me /\ DOMAIN pc = Conns
        /\ link'[c] = "none" => link[c] = "none"
        /\ link'[c] \in Up /\ link[c] \notin Up => link[c] = "none" /\ Accept(c)
    BY OneHostFacts, LinkMoves DEF Inv, Relaying, RelayTypeOK
  <1>2. \A from, to : Goto(c, from, to) => pc[c] = from /\ pc'[c] = to
    BY <1>1 DEF Goto
  <1>3. /\ clientPc'[c] # "start" => link'[c] # "none"
        /\ (shown'[c] # << >> \/ typed'[c] # 0) => clientPc'[c] \in {"running", "closed"}
        /\ c \in DOMAIN callback'
    <2>1. CASE /\ clientPc'[c] = clientPc[c] /\ typed'[c] = typed[c]
               /\ shown'[c] = shown[c] /\ DOMAIN callback' = DOMAIN callback
      BY <1>1, <2>1 DEF Placed
    <2>2. CASE ClientStep(c)
      <3>1. link[c] # "none"
        BY <2>2, OwnProgram DEF Placed
      <3>2. shown'[c] # << >> \/ typed'[c] # 0 => clientPc[c] \in {"running", "closed"}
        BY <2>2, OwnProgram DEF Placed
      <3> QED BY <1>1, <2>2, <3>1, <3>2, OwnProgram DEF Placed
    <2> QED BY <2>1, <2>2, ProgramMoves DEF Placed
  <1>4. CASE pc'[c] = pc[c]
    <2>1. ~AddClient(c) /\ ~RemoveClient(c)
      BY <1>2, <1>4 DEF AddClient, RemoveClient
    <2>2. c \in clients'[Me] <=> c \in clients[Me]
      BY <2>1, MembersApart
    <2>3. ~Accept(c)
      BY <1>2, <1>4 DEF Accept
    <2> QED BY <1>1, <1>3, <1>4, <2>2, <2>3 DEF Placed
  <1>5. CASE Accept(c)
    <2>1. pc[c] = "idle" /\ pc'[c] = "first"
      BY <1>2, <1>5 DEF Accept
    <2>2. c \in clients'[Me] <=> c \in clients[Me]
      <3>1. clients' = clients
        BY <1>5 DEF Accept
      <3> QED BY <3>1
    <2> QED BY <1>3, <2>1, <2>2 DEF Placed, Member
  <1>6. CASE ClientHandler(c)
    <2>1. CASE AddClient(c)
      <3>1. pc'[c] = "added"
        BY <1>2, <2>1 DEF AddClient
      <3>2. pc[c] # "removing" /\ pc[c] \notin Member /\ ~RemoveClient(c)
        BY <1>2, <2>1 DEF AddClient, RemoveClient, Member
      <3>3. c \in clients'[Me]
        <4>1. sess[c] = Me /\ clients = [h \in Hosts |-> clients[h]] /\ Me \in Hosts
          BY <2>1, OneHostFacts
             DEF AddClient, Goto, Inv, Relaying, RelayTypeOK, Located, Attached
        <4> QED BY <2>1, <4>1 DEF AddClient
      <3> QED BY <1>3, <3>1, <3>3 DEF Placed, Member
    <2>2. CASE RemoveClient(c)
      <3>1. pc'[c] = "notifying"
        BY <1>2, <2>2 DEF RemoveClient
      <3>2. c \notin clients'[Me]
        <4>1. sess[c] = Me /\ clients = [h \in Hosts |-> clients[h]] /\ Me \in Hosts
          BY <2>2, OneHostFacts
             DEF RemoveClient, Goto, Inv, Relaying, RelayTypeOK, Located, Attached
        <4> QED BY <2>2, <4>1 DEF RemoveClient
      <3> QED BY <1>3, <3>1, <3>2 DEF Placed, Member
    <2>3. CASE ~AddClient(c) /\ ~RemoveClient(c)
      <3>1. c \in clients'[Me] <=> c \in clients[Me]
        BY <2>3, MembersApart
      <3>2. CASE Disconnect(c)
        <4>1. pc[c] = "leaving" /\ pc'[c] = "removing"
          BY <1>2, <3>2 DEF Disconnect
        <4>2. link'[c] = "closed"
          BY <1>1, <3>2 DEF Disconnect, Close
        <4> QED BY <1>3, <3>1, <4>1, <4>2 DEF Placed, Member, Up
      <3>3. CASE ~Disconnect(c)
        <4>1. pc'[c] # "removing" /\ (pc'[c] \in Member <=> pc[c] \in Member)
          BY <1>2, <1>4, <1>6, <2>3, <3>3
             DEF ClientHandler, FirstReadFails, RejectFirst, Refuse, RateLimited,
                 SessionNotFound, LookupSession, AckJoin, NotifyJoined, ForwardFromClient,
                 ForwardFails, ClientReadFails, NotifyLeft, relayVars, Member
        <4> QED BY <1>3, <3>1, <4>1 DEF Placed
      <3> QED BY <3>2, <3>3
    <2> QED BY <2>1, <2>2, <2>3
  <1> QED BY <1>1, <1>4, <1>5, <1>6, HandlersApart
---------------------------------------------------------------------------
(* All that is sealed for a client is sealed with one key; once output has *)
(* been shown it is the client's, and the callback is there for good.      *)
Agreed(c) ==
    /\ \A m, n \in Sealing(c) : m.data.key = n.data.key
    /\ shown[c] # << >> =>
         /\ callback[c] /\ Taken(c) /\ crypto[c] \subseteq {clientKey[c]}
         /\ \A m \in Sealing(c) : m.data.key = clientKey[c]

LEMMA InitAgreed == ASSUME Init, NEW c \in Clients PROVE Agreed(c)
  <1>1. toRelay[Me] = << >> /\ toPeer[c] = << >> /\ shown[c] = << >>
    BY OneHostFacts DEF Init, WireInit, ClientInit
  <1>2. Len(<< >>) = 0
    OBVIOUS
  <1>3. Sealing(c) = {}
    BY <1>1, <1>2 DEF Sealing, Carried
  <1> QED BY <1>1, <1>3 DEF Agreed

(* What a client is shown it has just opened.                              *)
LEMMA OutputSealed ==
    ASSUME Inv, NEW c \in Clients, OnOutput(c)
    PROVE  /\ Got(c) \in Sealing(c) /\ Got(c).client = c /\ Got(c).type = "output"
           /\ toPeer[c] # << >> /\ Got(c) \in RelaySays(c)
  <1>1. /\ Framed /\ c \in Conns /\ c # Me
        /\ Arrived(c) /\ Got(c).type = "output"
    BY OneHostFacts DEF Inv, OnOutput, ClientReads
  <1>2. toPeer[c] \in Seq(RelaySays(c)) /\ toPeer[c] # << >>
    BY <1>1 DEF Arrived, Framed, ToPeerFramed
  <1>3. Got(c) \in RelaySays(c)
    BY <1>2, HeadIn DEF Got
  <1>4. Got(c).client = c
    BY <1>1, <1>3 DEF RelaySays, RelayFrame
  <1>5. Got(c) \in Carried(toPeer[c], c)
    BY <1>1, <1>2, <1>4, HeadCarried DEF Got, SealedTypes
  <1> QED BY <1>1, <1>2, <1>3, <1>4, <1>5 DEF Sealing

LEMMA AgreedKept ==
    ASSUME SessionKeys, NEW c \in Clients, Keyed(c), Agreed(c), Serves(c),
           Taken(c) => Taken(c)',
           shown[c] # << >> => clientKey'[c] = clientKey[c] /\ (callback[c] => callback'[c]),
           shown'[c] = shown[c] \/
             /\ Taken(c) /\ crypto'[c] \subseteq {clientKey'[c]} /\ callback'[c]
             /\ \A m \in Sealing(c)' : m.data.key = clientKey'[c]
    PROVE  Agreed(c)'
  <1>1. c \in ReadyClients => crypto[c] = {KeyOf(c)}
    BY KeyHeld
  <1>2. ASSUME NEW m \in Sealing(c)', NEW n \in Sealing(c) PROVE m.data.key = n.data.key
    <2>1. CASE m \in Sealing(c)
      BY <2>1 DEF Agreed
    <2>2. CASE c \in ReadyClients /\ m.data.key = KeyOf(c)
      BY <1>1, <2>2 DEF Keyed
    <2> QED BY <2>1, <2>2 DEF Serves
  <1>3. ASSUME NEW m \in Sealing(c)', NEW n \in Sealing(c)' PROVE m.data.key = n.data.key
    <2>1. CASE m \in Sealing(c) \/ n \in Sealing(c)
      BY <1>2, <2>1
    <2>2. CASE m \notin Sealing(c) /\ n \notin Sealing(c)
      BY <2>2 DEF Serves
    <2> QED BY <2>1, <2>2
  <1>4. ASSUME shown'[c] # << >>
        PROVE  /\ callback'[c] /\ Taken(c)' /\ crypto'[c] \subseteq {clientKey'[c]}
               /\ \A m \in Sealing(c)' : m.data.key = clientKey'[c]
    <2>1. CASE shown[c] # << >>
      <3>1. /\ callback[c] /\ Taken(c) /\ crypto[c] \subseteq {clientKey[c]}
            /\ \A m \in Sealing(c) : m.data.key = clientKey[c]
            /\ clientKey'[c] = clientKey[c] /\ callback'[c]
        BY <2>1 DEF Agreed
      <3>2. crypto'[c] \subseteq {clientKey'[c]}
        BY <3>1 DEF Serves
      <3>3. ASSUME NEW m \in Sealing(c)' PROVE m.data.key = clientKey'[c]
        <4>1. CASE m \in Sealing(c)
          BY <3>1, <4>1
        <4>2. CASE c \in ReadyClients /\ m.data.key = KeyOf(c)
          BY <1>1, <3>1, <4>2
        <4> QED BY <4>1, <4>2 DEF Serves
      <3> QED BY <3>1, <3>2, <3>3
    <2>2. CASE shown[c] = << >>
      BY <1>4, <2>2
    <2> QED BY <2>1, <2>2
  <1> QED BY <1>3, <1>4 DEF Agreed

(* A client that is shown output has the key of its session.               *)
LEMMA ShownAgrees ==
    ASSUME Inv, NEW c \in Clients, OnOutput(c), Keyed(c), Agreed(c), crypto' = crypto,
           shown'[c] # shown[c]
    PROVE  /\ Taken(c) /\ crypto'[c] \subseteq {clientKey'[c]} /\ callback'[c]
           /\ \A m \in Sealing(c)' : m.data.key = clientKey'[c]
  <1>1. /\ callback[c] /\ callback' = callback /\ clientKey' = clientKey
        /\ Got(c).data.key = clientKey[c] /\ UNCHANGED toRelay
    BY DEF OnOutput, Opens
  <1>2. Got(c) \in Sealing(c)
    BY OutputSealed
  <1>3. /\ Taken(c) /\ crypto[c] \subseteq {clientKey[c]}
        /\ \A m \in Sealing(c) : m.data.key = clientKey[c]
    BY <1>1, <1>2 DEF Keyed, Agreed
  <1>4. ASSUME NEW m \in Sealing(c)' PROVE m \in Sealing(c)
    <2>1. Framed /\ c \in Conns /\ Me \in Conns
      BY OneHostFacts DEF Inv
    <2>2. Fewer(toPeer[c], toPeer'[c]) /\ Fewer(toRelay[Me], toRelay'[Me])
      BY <1>1, <2>1, AnyTakeFewer DEF OnOutput, ClientReads
    <2> QED BY <1>4, <2>1, <2>2, FewerSealing
  <1> QED BY <1>1, <1>3, <1>4

(* A frame that opens or completes a session finds nothing sealed for it.  *)
LEMMA OpeningAgreed ==
    ASSUME Inv, NEW c \in Clients, Keyed(c), Agreed(c), UNCHANGED clientVars,
           OnJoined \/ OnKeyExchange, Got(Me).client = c
    PROVE  Sealing(c)' = {} /\ shown'[c] = << >> /\ ~Taken(c)
  <1>1. /\ Framed /\ Me \in Conns /\ c \in Conns /\ c # Me /\ Arrived(Me) /\ Get(Me)
        /\ Got(Me).type \in {"joined", "key_exchange"} /\ joinPw' = joinPw
    BY OneHostFacts DEF Inv, OnJoined, OnKeyExchange, HostReads, clientVars
  <1>2. ~Taken(c)
    BY <1>1, HeadOpen DEF Rank
  <1>3. Sealing(c) = {} /\ shown[c] = << >>
    BY <1>2 DEF Keyed, Agreed
  <1>4. toPeer'[c] = toPeer[c]
    BY <1>1 DEF Get, Framed, ToPeerFramed
  <1>5. ASSUME NEW m \in Sealing(c)' PROVE FALSE
    <2>1. CASE OnKeyExchange
      <3>1. m \in Sealing(c)
        BY <1>4, <1>5, <2>1 DEF Sealing, OnKeyExchange
      <3> QED BY <1>3, <3>1
    <2>2. CASE OnJoined
      <3> DEFINE n == Msg("key_exchange", c, HostPub(c))
      <3>1. n.type \notin SealedTypes
        BY Msgs DEF SealedTypes
      <3>2. Extends(toRelay[Me], toRelay'[Me], {n})
        BY <1>1, <2>2, SendExtends DEF OnJoined
      <3> HIDE DEF n
      <3>3. m \in Sealing(c)
        BY <1>4, <1>5, <3>1, <3>2, ExtendsCarried DEF Sealing
      <3> QED BY <1>3, <3>3
    <2> QED BY <2>1, <2>2
  <1>6. shown'[c] = << >>
    BY <1>3 DEF clientVars
  <1> QED BY <1>2, <1>5, <1>6

LEMMA NextServes ==
    ASSUME Inv, [Next]_vars, NEW c \in Clients
    PROVE  \/ Serves(c)
           \/ (OnJoined \/ OnKeyExchange) /\ Got(Me).client = c /\ UNCHANGED clientVars
  <1>1. CASE UNCHANGED vars
    <2>1. Sealing(c)' = Sealing(c)
      BY <1>1 DEF Sealing, vars, wireVars
    <2> QED BY <1>1, <2>1 DEF Serves, vars, hostVars, clientVars
  <1>2. CASE RelayStep
    BY <1>2, RelayServes
  <1>3. ASSUME NEW x \in Conns, Lost(x) PROVE Serves(c)
    BY <1>3, LostServes
  <1>4. CASE HostStep /\ UNCHANGED <<relayVars, clientVars>>
    <2>1. CASE (OnJoined \/ OnKeyExchange) /\ Got(Me).client = c
      BY <1>4, <2>1
    <2>2. CASE ~((OnJoined \/ OnKeyExchange) /\ Got(Me).client = c)
      <3>1. OnKeyExchange => crypto'[c] = crypto[c]
        <4>1. DOMAIN crypto = Clients
          BY DEF Inv, HostTypes, SessionKeys
        <4> QED BY <2>2, <4>1 DEF OnKeyExchange, Completed
      <3> QED BY <1>4, <2>2, <3>1, HostServes
    <2> QED BY <2>1, <2>2
  <1>5. ASSUME NEW d \in Clients, ClientStep(d), UNCHANGED <<relayVars, hostVars>>
        PROVE  Serves(c)
    <2>1. crypto' = crypto
      BY <1>5 DEF hostVars
    <2> QED BY <1>5, <2>1, ClientServes, OtherClientServes
  <1> QED BY <1>1, <1>2, <1>3, <1>4, <1>5 DEF Next, ProgramStep

LEMMA NextAgreed ==
    ASSUME Inv, [Next]_vars, NEW c \in Clients, c \notin Browsers,
           Pipeline(c), Keyed(c), Placed(c), Agreed(c)
    PROVE  Agreed(c)'
  <1>1. SessionKeys /\ (Taken(c) => Taken(c)')
    BY NextPipeline DEF Inv, HostTypes
  <1>2. shown[c] # << >> =>
          clientKey'[c] = clientKey[c] /\ (callback[c] => callback'[c])
    BY ProgramMoves, OwnProgram DEF Placed
  <1>3. CASE Serves(c)
    <2>1. CASE shown'[c] = shown[c]
      BY <1>1, <1>2, <1>3, <2>1, AgreedKept
    <2>2. CASE shown'[c] # shown[c]
      <3>1. OnOutput(c) /\ crypto' = crypto
        BY <2>2, ProgramMoves, OwnProgram DEF Placed, hostVars
      <3> QED BY <1>1, <1>2, <1>3, <2>2, <3>1, ShownAgrees, AgreedKept
    <2> QED BY <2>1, <2>2
  <1>4. CASE (OnJoined \/ OnKeyExchange) /\ Got(Me).client = c /\ UNCHANGED clientVars
    BY <1>4, OpeningAgreed DEF Agreed
  <1> QED BY <1>3, <1>4, NextServes

(* While the exchange is not past, nothing is sealed for a client.         *)
LEMMA NothingSealed ==
    ASSUME Inv, [Next]_vars, NEW c \in Clients, c \notin Browsers,
           Keyed(c), Placed(c), Agreed(c), ~Taken(c)
    PROVE  Sealing(c)' = {} /\ shown'[c] = << >>
  <1>1. Sealing(c) = {} /\ c \notin ReadyClients /\ shown[c] = << >>
    BY DEF Keyed, Agreed
  <1>2. CASE Serves(c)
    <2>1. Sealing(c)' = {}
      BY <1>1, <1>2 DEF Serves
    <2>2. ~OnOutput(c)
      BY <1>1, OutputSealed
    <2>3. shown'[c] = shown[c]
      BY <2>2, ProgramMoves, OwnProgram DEF Placed
    <2> QED BY <1>1, <2>1, <2>3
  <1>3. CASE (OnJoined \/ OnKeyExchange) /\ Got(Me).client = c /\ UNCHANGED clientVars
    BY <1>3, OpeningAgreed
  <1> QED BY <1>2, <1>3, NextServes

---------------------------------------------------------------------------
(* The keystrokes of c on their way to the terminal.  The way is closed    *)
(* once the client's handler has left its loop or the host is gone, and    *)
(* nothing is sent any more once the client's connection is gone.          *)
InOn(c) == pc[c] \in Before \cup {"serving"} /\ link[Me] \notin Gone
InUp(c) == link[c] \notin Gone

Keystrokes(c) ==
    Flow(toPeer[Me], toRelay[c], "input", c, NoClient, Len(injected[c]), typed[c],
         InOn(c), InUp(c))

(* The host is past the exchange and has no session, or one with another   *)
(* key: it injects nothing of c from then on.                              *)
Refused(c) == Taken(c) /\ OwnKey(c) \notin crypto[c]

InFlow(c) == Refused(c) \/ Keystrokes(c)

LEMMA InputCounts ==
    ASSUME Inv, NEW c \in Clients
    PROVE  typed[c] \in Nat /\ Len(injected[c]) \in Nat
  <1>1. injected[c] \in Seq(Inputs) /\ typed[c] \in 0..MaxInput
    BY DEF Inv, HostTypes, Heard, ClientTypes
  <1> QED BY <1>1, ClientBoundsNat, LenProperties

LEMMA KeystrokesKept ==
    ASSUME Inv, NEW c \in Clients, Keystrokes(c),
           typed'[c] = typed[c], injected'[c] = injected[c],
           Alike(toPeer[Me], toPeer'[Me], "input", c),
           InOn(c)' => /\ InOn(c) /\ (InUp(c)' => InUp(c))
                       /\ Alike(toRelay[c], toRelay'[c], "input", NoClient)
    PROVE  Keystrokes(c)'
  <1>1. typed[c] \in Nat /\ Len(injected[c]) \in Nat
    BY InputCounts
  <1>2. typed[c] <= typed[c]
    BY <1>1
  <1>3. Flow(toPeer'[Me], toRelay'[c], "input", c, NoClient, Len(injected[c]), typed[c],
             InOn(c)', InUp(c)')
    BY <1>1, <1>2, FlowKept DEF Keystrokes
  <1> QED BY <1>3 DEF Keystrokes

(* Neither end of the way is opened again.                                 *)
LEMMA InputShuts ==
    ASSUME Inv, [Next]_vars, NEW c \in Clients
    PROVE  (InOn(c)' => InOn(c)) /\ (InUp(c)' => InUp(c))
  <1>1. /\ c \in Conns /\ c # Me /\ DOMAIN pc = Conns /\ Me \in Conns
        /\ link[c] \in Gone => link'[c] \in Gone
        /\ link[Me] \in Gone => link'[Me] \in Gone
    BY OneHostFacts, LinkMoves DEF Inv, Relaying, RelayTypeOK
  <1>2. \A from, to : Goto(c, from, to) => pc[c] = from /\ pc'[c] = to
    BY <1>1 DEF Goto
  <1>3. pc'[c] \in Before \cup {"serving"} => pc[c] \in Before \cup {"serving"}
    <2>1. CASE pc'[c] = pc[c]
      BY <2>1
    <2>2. CASE Accept(c)
      BY <1>2, <2>2 DEF Accept, Before
    <2>3. CASE ClientHandler(c)
      BY <1>2, <2>3
         DEF ClientHandler, FirstReadFails, RejectFirst, Refuse, RateLimited,
             SessionNotFound, LookupSession, AckJoin, AddClient, NotifyJoined,
             ForwardFromClient, ForwardFails, ClientReadFails, Disconnect, RemoveClient,
             NotifyLeft, relayVars, Before
    <2> QED BY <1>1, <2>1, <2>2, <2>3, HandlersApart
  <1> QED BY <1>1, <1>3 DEF InOn, InUp

(* What reads and writes are to frames that are not counted.               *)
LEMMA WriteAlike ==
    ASSUME Framed, NEW S, NEW m, Write(S, m), NEW x \in Conns, NEW t, NEW c,
           x \in S => ~Is(m, t, c)
    PROVE  Alike(toPeer[x], toPeer'[x], t, c)
  <1>1. toPeer[x] \in Seq(RelaySays(x)) /\ Len(toPeer[x]) \in Nat
    BY Lengths DEF Framed, ToPeerFramed
  <1>2. CASE x \in S /\ link[x] \in Up
    <2>1. toPeer'[x] = Append(toPeer[x], m)
      BY <1>2 DEF Write
    <2>2. Adds(toPeer[x], toPeer'[x], m)
      BY <1>1, <2>1, AppendAdds
    <2> QED BY <1>1, <1>2, <2>2, AlikeQueues
  <1>3. CASE ~(x \in S /\ link[x] \in Up)
    <2>1. toPeer'[x] = toPeer[x]
      BY <1>3 DEF Write
    <2> QED BY <1>1, <2>1, AlikeQueues
  <1> QED BY <1>2, <1>3

LEMMA GetAlike ==
    ASSUME Framed, NEW x \in Conns, Arrived(x), Get(x), NEW y \in Conns, NEW t, NEW c,
           x = y => ~Is(Got(x), t, c)
    PROVE  Alike(toPeer[y], toPeer'[y], t, c)
  <1>1. /\ toPeer[y] \in Seq(RelaySays(y)) /\ Len(toPeer[y]) \in Nat
        /\ toPeer = [z \in Conns |-> toPeer[z]]
    BY Lengths DEF Framed, ToPeerFramed
  <1>2. CASE x = y
    <2>1. toPeer'[y] = Tail(toPeer[y]) /\ toPeer[y] # << >>
      BY <1>1, <1>2 DEF Get, Arrived
    <2>2. Takes(toPeer[y], toPeer'[y]) /\ toPeer[y][1] = Got(x)
      BY <1>1, <1>2, <2>1, TailTakes DEF Got
    <2> QED BY <1>1, <1>2, <2>2, AlikeQueues
  <1>3. CASE x # y
    <2>1. toPeer'[y] = toPeer[y]
      BY <1>1, <1>3 DEF Get
    <2> QED BY <1>1, <2>1, AlikeQueues
  <1> QED BY <1>2, <1>3

LEMMA TakeAlike ==
    ASSUME Framed, NEW x \in Conns, Incoming(x), Take(x), NEW y \in Conns, NEW t, NEW c,
           x = y => ~Is(Next1(x), t, c)
    PROVE  Alike(toRelay[y], toRelay'[y], t, c)
  <1>1. /\ toRelay[y] \in Seq(PeerSays(y)) /\ Len(toRelay[y]) \in Nat
        /\ toRelay = [z \in Conns |-> toRelay[z]]
    BY Lengths DEF Framed, ToRelayFramed
  <1>2. CASE x = y
    <2>1. toRelay'[y] = Tail(toRelay[y]) /\ toRelay[y] # << >>
      BY <1>1, <1>2 DEF Take, Incoming
    <2>2. Takes(toRelay[y], toRelay'[y]) /\ toRelay[y][1] = Next1(x)
      BY <1>1, <1>2, <2>1, TailTakes DEF Next1
    <2> QED BY <1>1, <1>2, <2>2, AlikeQueues
  <1>3. CASE x # y
    <2>1. toRelay'[y] = toRelay[y]
      BY <1>1, <1>3 DEF Take
    <2> QED BY <1>1, <2>1, AlikeQueues
  <1> QED BY <1>2, <1>3

LEMMA SendAlike ==
    ASSUME Framed, NEW x \in Conns, NEW m, Send(x, m), NEW y \in Conns, NEW t, NEW c,
           x = y => ~Is(m, t, c)
    PROVE  Alike(toRelay[y], toRelay'[y], t, c)
  <1>1. /\ toRelay[y] \in Seq(PeerSays(y)) /\ Len(toRelay[y]) \in Nat
        /\ toRelay = [z \in Conns |-> toRelay[z]]
    BY Lengths DEF Framed, ToRelayFramed
  <1>2. CASE x = y /\ link[x] \in Up
    <2>1. toRelay'[y] = Append(toRelay[y], m)
      BY <1>1, <1>2 DEF Send
    <2>2. Adds(toRelay[y], toRelay'[y], m)
      BY <1>1, <2>1, AppendAdds
    <2> QED BY <1>1, <1>2, <2>2, AlikeQueues
  <1>3. CASE ~(x = y /\ link[x] \in Up)
    <2>1. toRelay'[y] = toRelay[y]
      BY <1>1, <1>3 DEF Send
    <2> QED BY <1>1, <2>1, AlikeQueues
  <1> QED BY <1>2, <1>3

LEMMA SameAlike ==
    ASSUME Framed, NEW x \in Conns, NEW t, NEW c
    PROVE  /\ toPeer'[x] = toPeer[x] => Alike(toPeer[x], toPeer'[x], t, c)
           /\ toRelay'[x] = toRelay[x] => Alike(toRelay[x], toRelay'[x], t, c)
  BY AlikeQueues, Lengths

LEMMA KeystrokesLost ==
    ASSUME Inv, NEW c \in Clients, Keystrokes(c), toPeer'[Me] = << >>, ~InOn(c)',
           typed'[c] = typed[c], injected'[c] = injected[c]
    PROVE  Keystrokes(c)'
  <1>1. typed[c] \in Nat /\ Len(injected[c]) \in Nat
    BY InputCounts
  <1>2. Len(injected[c]) <= typed[c]
    BY <1>1, FlowBounds DEF Keystrokes
  <1>3. Len(<< >>) = 0
    OBVIOUS
  <1>4. Free(toPeer'[Me], "input", c)
    BY <1>3 DEF Free
  <1>5. Flow(toPeer'[Me], toRelay'[c], "input", c, NoClient, Len(injected[c]), typed[c],
             InOn(c)', InUp(c)')
    BY <1>1, <1>2, <1>4, FlowEmpty
  <1> QED BY <1>5 DEF Keystrokes

(* The steps of the relay.                                                 *)
LEMMA OwnRelayInput ==
    ASSUME Inv, Opened, [Next]_vars, NEW c \in Clients, ClientHandler(c), Keystrokes(c),
           typed'[c] = typed[c], injected'[c] = injected[c]
    PROVE  Keystrokes(c)'
  <1>1. /\ Framed /\ c \in Conns /\ c # Me /\ Me \in Conns /\ DOMAIN pc = Conns
        /\ c # NoClient
        /\ (InOn(c)' => InOn(c)) /\ (InUp(c)' => InUp(c))
    BY OneHostFacts, InputShuts DEF Inv, Relaying, RelayTypeOK
  <1>2. \A from, to : Goto(c, from, to) => pc[c] = from /\ pc'[c] = to
    BY <1>1 DEF Goto
  <1>3. ASSUME pc'[c] \notin Before \cup {"serving"},
               Alike(toPeer[Me], toPeer'[Me], "input", c)
        PROVE  Keystrokes(c)'
    <2>1. ~InOn(c)'
      BY <1>3 DEF InOn
    <2> QED BY <1>3, <2>1, KeystrokesKept
  <1>4. ASSUME Alike(toPeer[Me], toPeer'[Me], "input", c),
               Alike(toRelay[c], toRelay'[c], "input", NoClient)
        PROVE  Keystrokes(c)'
    BY <1>1, <1>4, KeystrokesKept
  <1>5. /\ UNCHANGED toPeer => Alike(toPeer[Me], toPeer'[Me], "input", c)
        /\ UNCHANGED toRelay => Alike(toRelay[c], toRelay'[c], "input", NoClient)
    BY <1>1, SameAlike
  <1>6. ASSUME NEW S, NEW m, Write(S, m), Me \notin S \/ m.type # "input"
        PROVE  Alike(toPeer[Me], toPeer'[Me], "input", c)
    BY <1>1, <1>6, WriteAlike DEF Is
  <1>7. CASE FirstReadFails(c) \/ Refuse(c)
    <2>1. pc'[c] \notin Before \cup {"serving"}
      BY <1>2, <1>7 DEF FirstReadFails, Refuse, Before
    <2>2. UNCHANGED toPeer \/ Write({c}, Msg("error", NoClient, NoData))
      BY <1>7 DEF FirstReadFails, Refuse
    <2> QED BY <1>1, <1>3, <1>5, <1>6, <2>1, <2>2
  <1>8. CASE RejectFirst(c) \/ RateLimited(c) \/ SessionNotFound(c)
    BY <1>7, <1>8 DEF RejectFirst, RateLimited, SessionNotFound
  <1>9. CASE LookupSession(c)
    <2>1. Incoming(c) /\ Next1(c).type = "client_join" /\ Take(c) /\ UNCHANGED toPeer
      BY <1>9 DEF LookupSession, First
    <2>2. ~Is(Next1(c), "input", NoClient)
      BY <2>1 DEF Is
    <2> QED BY <1>1, <1>4, <1>5, <2>1, <2>2, TakeAlike
  <1>10. CASE AckJoin(c)
    BY <1>1, <1>4, <1>5, <1>6, <1>10 DEF AckJoin
  <1>11. CASE AddClient(c)
    BY <1>4, <1>5, <1>11 DEF AddClient, wireVars
  <1>12. CASE NotifyJoined(c)
    <2>1. Msg("joined", c, NoData).type # "input"
      BY Msgs
    <2> QED BY <1>4, <1>5, <1>6, <1>12, <2>1 DEF NotifyJoined
  <1>13. CASE ForwardFails(c) \/ ClientReadFails(c) \/ Disconnect(c) \/ RemoveClient(c)
    <2>1. pc'[c] \notin Before \cup {"serving"} /\ UNCHANGED toPeer
      BY <1>2, <1>13
         DEF ForwardFails, ClientReadFails, Disconnect, RemoveClient, Before, wireVars
    <2> QED BY <1>3, <1>5, <2>1
  <1>14. CASE NotifyLeft(c)
    <2>1. Msg("left", c, NoData).type # "input"
      BY Msgs
    <2>2. pc'[c] \notin Before \cup {"serving"}
      BY <1>2, <1>14 DEF NotifyLeft, Before
    <2> QED BY <1>3, <1>6, <1>14, <2>1, <2>2 DEF NotifyLeft
  <1>15. CASE ForwardFromClient(c)
    <2> DEFINE m == Next1(c)
               n == Msg(m.type, c, m.data)
    <2>1. /\ Incoming(c) /\ Take(c) /\ pc[c] = "serving" /\ sess[c] = Me
          /\ Takes(toRelay[c], toRelay'[c]) /\ toRelay[c][1] = m
      BY <1>1, <1>15, OwnTake
         DEF ForwardFromClient, Inv, Relaying, Located, Attached
    <2>2. n.type = m.type /\ n.client = c /\ n.data = m.data
      BY Msgs
    <2>3. m \in PeerSays(c)
      <3>1. toRelay[c] \in Seq(PeerSays(c)) /\ toRelay[c] # << >>
        BY <1>1, <2>1 DEF Incoming, Framed, ToRelayFramed
      <3> QED BY <3>1, HeadIn DEF Next1
    <2>4. UNCHANGED toPeer \/ Write({Me}, n)
      BY <1>15, <2>1 DEF ForwardFromClient
    <2>5. CASE m.type # "input"
      <3>1. Alike(toRelay[c], toRelay'[c], "input", NoClient)
        BY <1>1, <2>1, <2>5, TakeAlike DEF Is
      <3> HIDE DEF n, m
      <3> QED BY <1>4, <1>5, <1>6, <2>2, <2>4, <2>5, <3>1
    <2>6. CASE m.type = "input"
      <3>1. Write({Me}, n) /\ link[Me] # "closed"
        BY <1>15, <2>1, <2>6 DEF ForwardFromClient, ClientForwards
      <3>2. m.client = NoClient
        BY <1>1, <2>3 DEF PeerSays, PeerFrame
      <3> HIDE DEF n, m
      <3>3. Is(toRelay[c][1], "input", NoClient) /\ Is(n, "input", c)
            /\ n.data = toRelay[c][1].data
        BY <2>1, <2>2, <2>6, <3>2 DEF Is
      <3>4. link[Me] # "none"
        BY <2>1 DEF Opened, Attached
      <3>5. CASE link[Me] \in Up
        <4>1. Adds(toPeer[Me], toPeer'[Me], n)
          <5>1. toPeer[Me] \in Seq(RelaySays(Me)) /\ toPeer'[Me] = Append(toPeer[Me], n)
            BY <1>1, <3>1, <3>5 DEF Write, Framed, ToPeerFramed
          <5> QED BY <5>1, AppendAdds
        <4>2. typed[c] \in Nat /\ Len(injected[c]) \in Nat
              /\ Len(toPeer[Me]) \in Nat /\ Len(toRelay[c]) \in Nat
          BY <1>1, InputCounts, Lengths
        <4>3. InOn(c)
          BY <2>1, <3>5 DEF InOn, Gone, Up
        <4>4. Flow(toPeer'[Me], toRelay'[c], "input", c, NoClient, Len(injected[c]),
                   typed[c], InOn(c)', InUp(c)')
          BY <1>1, <2>1, <3>3, <4>1, <4>2, <4>3, FlowPassed DEF Keystrokes
        <4> QED BY <4>4 DEF Keystrokes
      <3>6. CASE link[Me] \notin Up
        <4>1. ~InOn(c)
          BY <1>1, <3>1, <3>4, <3>6 DEF InOn, Gone, Up, Inv, Framed, LinkTypes, LinkState
        <4>2. toPeer'[Me] = toPeer[Me]
          BY <1>1, <3>1, <3>6 DEF Write
        <4> QED BY <1>1, <4>1, <4>2, SameAlike, KeystrokesKept
      <3> QED BY <3>5, <3>6
    <2> QED BY <2>5, <2>6
  <1> QED BY <1>7, <1>8, <1>9, <1>10, <1>11, <1>12, <1>13, <1>14, <1>15 DEF ClientHandler

(* A handler of the relay leaves the outboxes of the others alone, and     *)
(* what it writes to the host is of its own client.                        *)
LEMMA OtherRelayInput ==
    ASSUME Inv, HostPlaced, [Next]_vars, NEW c \in Clients, Keystrokes(c),
           typed'[c] = typed[c], injected'[c] = injected[c],
           \/ \E x \in Conns : Accept(x)
           \/ HostHandler(Me)
           \/ \E d \in Clients : ClientHandler(d) /\ d # c
    PROVE  Keystrokes(c)'
  <1>1. /\ Framed /\ c \in Conns /\ c # Me /\ Me \in Conns /\ c # NoClient
        /\ toRelay = [x \in Conns |-> toRelay[x]]
        /\ (InOn(c)' => InOn(c)) /\ (InUp(c)' => InUp(c))
    BY OneHostFacts, InputShuts DEF Inv, Framed, ToRelayFramed
  <1>2. ASSUME Alike(toPeer[Me], toPeer'[Me], "input", c),
               Alike(toRelay[c], toRelay'[c], "input", NoClient)
        PROVE  Keystrokes(c)'
    BY <1>1, <1>2, KeystrokesKept
  <1>3. /\ UNCHANGED toPeer => Alike(toPeer[Me], toPeer'[Me], "input", c)
        /\ UNCHANGED toRelay => Alike(toRelay[c], toRelay'[c], "input", NoClient)
    BY <1>1, SameAlike
  <1>4. ASSUME NEW S, NEW m, Write(S, m), Me \notin S \/ m.type # "input" \/ m.client # c
        PROVE  Alike(toPeer[Me], toPeer'[Me], "input", c)
    BY <1>1, <1>4, WriteAlike DEF Is
  <1>5. ASSUME NEW x \in Conns, x # c, Take(x) \/ Close({x})
        PROVE  Alike(toRelay[c], toRelay'[c], "input", NoClient)
    <2>1. toRelay'[c] = toRelay[c]
      BY <1>1, <1>5 DEF Take, Close
    <2> QED BY <1>1, <2>1, SameAlike
  <1>6. ASSUME NEW x \in Conns, Accept(x) PROVE Keystrokes(c)'
    BY <1>2, <1>3, <1>6 DEF Accept
  <1>7. /\ Msg("error", NoClient, NoData).type # "input"
        /\ \A k : Msg("host_registered", NoClient, k).type # "input"
        /\ \A d : /\ Msg("session_joined", d, NoData).type # "input"
                  /\ Msg("joined", d, NoData).type # "input"
                  /\ Msg("left", d, NoData).type # "input"
    BY Msgs
  <1>8. ASSUME NEW x \in Conns, x # c, FirstReadFails(x) \/ Refuse(x)
        PROVE  Keystrokes(c)'
    BY <1>2, <1>3, <1>4, <1>5, <1>7, <1>8 DEF FirstReadFails, Refuse
  <1>9. CASE HostHandler(Me)
    <2>1. CASE FirstReadFails(Me) \/ RejectFirst(Me)
      BY <1>1, <1>8, <2>1 DEF RejectFirst
    <2>2. CASE RegisterHost(Me) \/ RejectHost(Me)
      BY <1>1, <1>2, <1>4, <1>5, <1>7, <2>2 DEF RegisterHost, RejectHost
    <2>3. CASE ForwardFromHost(Me)
      <3>1. Take(Me)
        BY <2>3 DEF ForwardFromHost
      <3>2. UNCHANGED toPeer \/ Write(Targets(Me, Next1(Me)), Next1(Me))
        BY <2>3 DEF ForwardFromHost
      <3>3. Me \notin Targets(Me, Next1(Me))
        BY OneHostFacts DEF Targets, Inv, Relaying, RelayTypeOK
      <3> QED BY <1>1, <1>2, <1>3, <1>4, <1>5, <3>1, <3>2, <3>3
    <2>4. CASE Unregister(Me)
      BY <1>2, <1>3, <2>4 DEF Unregister, wireVars
    <2>5. CASE CloseHostConn(Me)
      BY <1>1, <1>2, <1>3, <1>5, <2>5 DEF CloseHostConn
    <2>6. CASE CloseMembers(Me)
      <3>1. link[Me] = "closed" /\ UNCHANGED toPeer
        BY <2>6 DEF CloseMembers, Goto, HostPlaced
      <3>2. ~InOn(c)
        BY <3>1 DEF InOn, Gone
      <3> QED BY <1>1, <1>3, <3>1, <3>2, KeystrokesKept
    <2> QED BY <1>9, <2>1, <2>2, <2>3, <2>4, <2>5, <2>6 DEF HostHandler
  <1>10. ASSUME NEW d \in Clients, ClientHandler(d), d # c PROVE Keystrokes(c)'
    <2>1. d \in Conns /\ d # Me
      BY OneHostFacts
    <2>2. CASE FirstReadFails(d) \/ RejectFirst(d) \/ RateLimited(d) \/ SessionNotFound(d)
      BY <1>8, <1>10, <2>1, <2>2 DEF RejectFirst, RateLimited, SessionNotFound
    <2>3. CASE LookupSession(d) \/ ForwardFails(d)
      BY <1>2, <1>3, <1>5, <1>10, <2>1, <2>3 DEF LookupSession, ForwardFails
    <2>4. CASE AckJoin(d) \/ NotifyJoined(d) \/ NotifyLeft(d)
      BY <1>2, <1>3, <1>4, <1>7, <2>4 DEF AckJoin, NotifyJoined, NotifyLeft
    <2>5. CASE AddClient(d) \/ ClientReadFails(d) \/ RemoveClient(d)
      BY <1>2, <1>3, <2>5 DEF AddClient, ClientReadFails, RemoveClient, wireVars
    <2>6. CASE Disconnect(d)
      BY <1>2, <1>3, <1>5, <1>10, <2>1, <2>6 DEF Disconnect
    <2>7. CASE ForwardFromClient(d)
      <3> DEFINE n == Msg(Next1(d).type, d, Next1(d).data)
      <3>1. n.client # c
        BY <1>10, Msgs
      <3>2. Take(d) /\ (UNCHANGED toPeer \/ Write({sess[d]}, n))
        BY <2>7 DEF ForwardFromClient
      <3> HIDE DEF n
      <3> QED BY <1>2, <1>3, <1>4, <1>5, <1>10, <2>1, <3>1, <3>2
    <2> QED BY <1>10, <2>2, <2>3, <2>4, <2>5, <2>6, <2>7 DEF ClientHandler
  <1> QED BY <1>6, <1>9, <1>10

(* The steps of the clients.                                               *)
LEMMA OtherClientInput ==
    ASSUME Inv, [Next]_vars, NEW c \in Clients, NEW d \in Clients, ClientStep(d), d # c,
           Keystrokes(c), injected' = injected
    PROVE  Keystrokes(c)'
  <1>1. /\ Framed /\ c \in Conns /\ c # Me /\ Me \in Conns /\ Me # d
        /\ (InOn(c)' => InOn(c)) /\ (InUp(c)' => InUp(c))
    BY OneHostFacts, InputShuts DEF Inv
  <1>2. toPeer'[Me] = toPeer[Me] /\ toRelay'[c] = toRelay[c] /\ typed'[c] = typed[c]
    BY <1>1, OthersUntouched
  <1> QED BY <1>1, <1>2, SameAlike, KeystrokesKept

LEMMA OwnClientInput ==
    ASSUME Inv, [Next]_vars, NEW c \in Clients, c \notin Browsers, ClientStep(c),
           Placed(c), Keystrokes(c), UNCHANGED <<relayVars, hostVars>>
    PROVE  Keystrokes(c)'
  <1>1. /\ Framed /\ c \in Conns /\ c # Me /\ Me \in Conns /\ injected'[c] = injected[c]
        /\ (InOn(c)' => InOn(c)) /\ (InUp(c)' => InUp(c))
        /\ toPeer'[Me] = toPeer[Me] /\ link'[Me] = link[Me] /\ pc' = pc
    BY OneHostFacts, InputShuts, OthersUntouched DEF Inv, relayVars, hostVars
  <1>2. Alike(toPeer[Me], toPeer'[Me], "input", c)
    BY <1>1, SameAlike
  <1>3. CASE SendInput(c)
    <2> DEFINE m == Msg("input", NoClient, Seal(clientKey[c], [input |-> typed[c] + 1]))
    <2>1. /\ Send(c, m) /\ link' = link /\ clientPc[c] = "running"
          /\ typed'[c] = typed[c] + 1
      <3>1. DOMAIN typed = Clients
        BY DEF Inv, ClientTypes
      <3> QED BY <1>3, <3>1 DEF SendInput
    <2>2. Is(m, "input", NoClient) /\ m.data.plain = Piece("input", typed[c] + 1)
      BY Msgs DEF Is, Piece, Seal
    <2> HIDE DEF m
    <2>3. typed[c] \in Nat /\ Len(injected[c]) \in Nat /\ Len(toRelay[c]) \in Nat
          /\ toRelay[c] \in Seq(PeerSays(c)) /\ toRelay = [x \in Conns |-> toRelay[x]]
      BY <1>1, InputCounts, Lengths DEF Framed, ToRelayFramed
    <2>4. InUp(c) <=> link[c] \in Up
      <3>1. link[c] # "none"
        BY <2>1 DEF Placed
      <3> QED BY <1>1, <3>1 DEF InUp, Gone, Up, Framed, LinkTypes, LinkState
    <2>5. ASSUME InUp(c)
          PROVE  Gains(toRelay[c], toRelay'[c], "input", NoClient, typed[c] + 1)
      <3>1. toRelay'[c] = Append(toRelay[c], m)
        BY <1>1, <2>1, <2>3, <2>4, <2>5 DEF Send
      <3>2. Adds(toRelay[c], toRelay'[c], m)
        BY <2>3, <3>1, AppendAdds
      <3> QED BY <2>2, <2>3, <3>2, AddsGains
    <2>6. ASSUME ~InUp(c) PROVE Alike(toRelay[c], toRelay'[c], "input", NoClient)
      <3>1. toRelay'[c] = toRelay[c]
        BY <1>1, <2>1, <2>3, <2>4, <2>6 DEF Send
      <3> QED BY <1>1, <3>1, SameAlike
    <2>7. Flow(toPeer[Me], toRelay'[c], "input", c, NoClient, Len(injected[c]),
               typed[c] + 1, InOn(c), InUp(c))
      BY <2>3, <2>5, <2>6, FlowSent DEF Keystrokes
    <2>8. InOn(c)' = InOn(c) /\ InUp(c)' = InUp(c)
      BY <1>1, <2>1 DEF InOn, InUp
    <2> QED BY <1>1, <2>1, <2>7, <2>8 DEF Keystrokes
  <1>4. CASE ~SendInput(c)
    <2>1. typed'[c] = typed[c]
      BY <1>4, OwnProgram DEF Placed
    <2>2. Alike(toRelay[c], toRelay'[c], "input", NoClient)
      <3>1. UNCHANGED toRelay => Alike(toRelay[c], toRelay'[c], "input", NoClient)
        BY <1>1, SameAlike
      <3>2. ASSUME NEW t, NEW d, Send(c, Msg(t, NoClient, d)), t # "input"
            PROVE  Alike(toRelay[c], toRelay'[c], "input", NoClient)
        <4> DEFINE m == Msg(t, NoClient, d)
        <4>1. ~Is(m, "input", NoClient)
          BY <3>2, Msgs DEF Is
        <4>2. Send(c, m)
          BY <3>2
        <4> HIDE DEF m
        <4> QED BY <1>1, <4>1, <4>2, SendAlike
      <3>3. CASE Join(c) \/ LatencyPings(c)
        <4>1. \E t, d : Send(c, Msg(t, NoClient, d)) /\ t # "input"
          BY <3>3 DEF Join, LatencyPings
        <4> QED BY <3>2, <4>1
      <3>4. CASE SetOnOutput(c) \/ CloseClient(c)
        BY <3>1, <3>4 DEF SetOnOutput, CloseClient, Fail, wireVars
      <3>5. CASE ClientReadLoop(c)
        BY <3>1, <3>2, <3>5, BrowserOnly
           DEF ClientReadLoop, OnOutput, OnHostPing, OnOther, ReadLoopFails, Fail
      <3>6. CASE ClientHandshake(c)
        BY <3>1, <3>2, <3>6, BrowserOnly
           DEF ClientHandshake, OnSessionJoined, OnHostKey, OnHostVerify, HandshakeFails,
               KeyPairGenerated, KeyDerived, Fail, SendKeyExchange, wireVars
      <3> QED BY <1>4, <3>3, <3>4, <3>5, <3>6, BrowserOnly DEF ClientStep
    <2> QED BY <1>1, <1>2, <2>1, <2>2, KeystrokesKept
  <1> QED BY <1>3, <1>4

(* The steps of the host.                                                  *)
LEMMA InputPasses ==
    ASSUME NEW q, NEW r, NEW h, NEW l \in 0..5, NEW c, Len(q) \in Nat, Len(r) \in Nat,
           1 \in 1..Len(q), q[1].client = c, Rank(q[1]) \in {4, 5}, Pipe(q, r, h, l, c)
    PROVE  Past(q, r, h, l, c)
  <1>1. h \notin Before /\ Rank(q[1]) <= l
    BY DEF Pipe, InboxBounded
  <1>2. ASSUME NEW i \in 1..Len(q), q[i].client = c PROVE Rank(q[i]) >= 4
    <2>1. CASE i = 1
      BY <2>1
    <2>2. CASE i # 1
      <3>1. 1 < i
        BY <2>2
      <3>2. Precedes(q[1], q[i])
        BY <1>2, <3>1 DEF Pipe, InboxOrdered
      <3> QED BY <3>2, RankRange DEF Precedes
    <2> QED BY <2>1, <2>2
  <1>3. ASSUME h = "serving", NEW j \in 1..Len(r) PROVE Rank(r[j]) >= 4
    <2>1. Precedes(q[1], r[j])
      BY <1>3 DEF Pipe, Across
    <2> QED BY <2>1, RankRange DEF Precedes
  <1>4. l >= 3
    BY <1>1
  <1> QED BY <1>1, <1>2, <1>3, <1>4 DEF Past

(* An input frame that the host reads is sealed with the client's own key; *)
(* it is injected if the session has that key.                             *)
LEMMA InputRead ==
    ASSUME Inv, Pipeline(Got(Me).client), HostReads("input")
    PROVE  /\ Got(Me).client \in Clients /\ Got(Me).data.key = OwnKey(Got(Me).client)
           /\ Taken(Got(Me).client)
           /\ Takes(toPeer[Me], toPeer'[Me]) /\ toPeer[Me][1] = Got(Me)
           /\ OwnKey(Got(Me).client) \in crypto[Got(Me).client]
                <=> /\ Got(Me).client \in ReadyClients
                    /\ Opens(KeyOf(Got(Me).client), Got(Me).data)
  <1> DEFINE c == Got(Me).client
  <1>1. /\ Framed /\ Me \in Conns /\ Arrived(Me) /\ Got(Me).type = "input" /\ Get(Me)
        /\ SessionKeys /\ ClientTypes
    BY OneHostFacts DEF Inv, HostTypes, HostReads
  <1>2. toPeer[Me] \in Seq(RelaySays(Me)) /\ toPeer[Me] # << >>
    BY <1>1 DEF Arrived, Framed, ToPeerFramed
  <1>3. Got(Me) \in RelaySays(Me)
    BY <1>2, HeadIn DEF Got
  <1>4. c \in Clients /\ ClientFrame(c, Got(Me))
    BY <1>1, <1>3 DEF RelaySays, RelayFrame
  <1>5. Got(Me).data \in Sealed({OwnKey(c)}, Inputs)
    BY <1>1, <1>4 DEF ClientFrame
  <1>6. Got(Me).data.key = OwnKey(c)
    BY <1>5, SealedPayload
  <1>7. Takes(toPeer[Me], toPeer'[Me]) /\ toPeer[Me][1] = Got(Me) /\ 1 \in 1..Len(toPeer[Me])
    <2>1. toPeer'[Me] = Tail(toPeer[Me])
      BY <1>1 DEF Get, Framed, ToPeerFramed
    <2> QED BY <1>2, <2>1, TailTakes DEF Got
  <1>8. Taken(c)
    <2>1. Len(toPeer[Me]) \in Nat /\ Len(toRelay[c]) \in Nat
      BY <1>1, <1>4, OneHostFacts, Lengths
    <2>2. Rank(Got(Me)) = 5
      BY <1>1 DEF Rank
    <2> QED BY <1>7, <2>1, <2>2, LimitRange, InputPasses DEF Pipeline, Taken
  <1>9. IsReady(OwnKey(c))
    BY <1>1, <1>4, SharedKeyInKeys DEF OwnKey, ClientTypes
  <1>10. /\ HasSession(c) => crypto[c] = {KeyOf(c)}
         /\ c \in ReadyClients => HasSession(c)
    BY <1>1, <1>4, KeyHeld
  <1>11. ASSUME OwnKey(c) \in crypto[c]
         PROVE  c \in ReadyClients /\ Opens(KeyOf(c), Got(Me).data)
    <2>1. HasSession(c)
      BY <1>11 DEF HasSession
    <2>2. KeyOf(c) = OwnKey(c)
      BY <1>10, <1>11, <2>1
    <2> QED BY <1>4, <1>6, <1>9, <2>1, <2>2 DEF ReadyClients, Opens
  <1>12. ASSUME c \in ReadyClients, Opens(KeyOf(c), Got(Me).data)
         PROVE  OwnKey(c) \in crypto[c]
    BY <1>6, <1>10, <1>12 DEF Opens
  <1> QED BY <1>4, <1>6, <1>7, <1>8, <1>11, <1>12

(* Once past the exchange, a session is only ended.                        *)
LEMMA TakenKeys ==
    ASSUME Inv, [Next]_vars, NEW c \in Clients, Taken(c)
    PROVE  crypto'[c] = crypto[c] \/ crypto'[c] = {}
  <1>1. DOMAIN crypto = Clients /\ Framed
    BY DEF Inv, HostTypes, SessionKeys
  <1>2. CASE UNCHANGED crypto
    BY <1>2
  <1>3. CASE OnJoined
    <2>1. Got(Me).client # c
      BY <1>1, <1>3, HeadOpen DEF OnJoined, HostReads, Rank
    <2> QED BY <1>1, <1>3, <2>1 DEF OnJoined
  <1>4. CASE OnKeyExchange
    <2>1. Got(Me).client # c
      BY <1>1, <1>4, HeadOpen DEF OnKeyExchange, HostReads, Rank
    <2> QED BY <1>1, <1>4, <2>1 DEF OnKeyExchange, Completed
  <1>5. CASE OnLeft \/ OnVerify
    BY <1>1, <1>5 DEF OnLeft, OnVerify
  <1>6. UNCHANGED crypto \/ OnJoined \/ OnKeyExchange \/ OnLeft \/ OnVerify
    <2>1. ASSUME HostStep
          PROVE  UNCHANGED crypto \/ OnJoined \/ OnKeyExchange \/ OnLeft \/ OnVerify
      BY <2>1 DEF HostStep, HostReadLoop, HostRegister, HostRegistered, HostRefused,
                  SetPassword, WriteVerify, OnInput, OnPing, OnPong, HostReadFails,
                  ReadOutput, LatencyPing, UpdateTermSize, CloseHost, hostVars
    <2> QED BY <2>1 DEF Next, ProgramStep, RelayStep, Lost, vars, hostVars
  <1> QED BY <1>2, <1>3, <1>4, <1>5, <1>6

LEMMA RefusedKept ==
    ASSUME Inv, [Next]_vars, NEW c \in Clients, Pipeline(c), Refused(c)
    PROVE  Refused(c)'
  <1>1. Taken(c)' /\ (crypto'[c] = crypto[c] \/ crypto'[c] = {})
    BY NextPipeline, TakenKeys DEF Refused
  <1>2. joinPw' = joinPw
    <2>1. \A d \in Clients : ClientStep(d) => joinPw' = joinPw
      BY ClientStepKeeps DEF Inv
    <2> QED BY <2>1 DEF Next, ProgramStep, RelayStep, Lost, vars, clientVars
  <1> QED BY <1>1, <1>2 DEF Refused, OwnKey

(* Which frames the host reads, and what else becomes of its inbox.        *)
LEMMA HostInbox ==
    ASSUME HostStep
    PROVE  \/ UNCHANGED <<toPeer, injected, link>>
           \/ /\ Arrived(Me) /\ Get(Me) /\ Got(Me).type # "input"
              /\ UNCHANGED <<injected, link>>
           \/ OnInput
           \/ Hangup(Me) /\ hostPc # "start" /\ UNCHANGED injected
  <1>1. CASE HostRegister \/ HostRegistered \/ SetPassword
    BY <1>1 DEF HostRegister, HostRegistered, SetPassword, wireVars
  <1>2. CASE HostRefused \/ CloseHost
    BY <1>2 DEF HostRefused, CloseHost, Working
  <1>3. CASE OnJoined \/ OnLeft \/ OnKeyExchange \/ WriteVerify \/ OnVerify
    BY <1>3 DEF OnJoined, OnLeft, OnKeyExchange, WriteVerify, OnVerify, HostReads
  <1>4. CASE OnPing \/ OnPong \/ HostReadFails
    BY <1>4 DEF OnPing, OnPong, HostReadFails, HostReads, hostVars, wireVars
  <1>5. CASE ReadOutput \/ LatencyPing \/ UpdateTermSize
    BY <1>5 DEF ReadOutput, LatencyPing, UpdateTermSize
  <1> QED BY <1>1, <1>2, <1>3, <1>4, <1>5 DEF HostStep, HostReadLoop

LEMMA HostInput ==
    ASSUME Inv, HostPlaced, [Next]_vars, HostStep, UNCHANGED <<relayVars, clientVars>>,
           NEW c \in Clients, Pipeline(c), Keystrokes(c)
    PROVE  InFlow(c)'
  <1>1. /\ Framed /\ c \in Conns /\ c # Me /\ Me \in Conns /\ typed'[c] = typed[c]
        /\ toRelay = [x \in Conns |-> toRelay[x]]
        /\ (InOn(c)' => InOn(c)) /\ (InUp(c)' => InUp(c))
    BY OneHostFacts, InputShuts DEF Inv, Framed, ToRelayFramed, clientVars
  <1>2. toRelay'[c] = toRelay[c]
    BY <1>1, HostOutbox
  <1>3. Alike(toRelay[c], toRelay'[c], "input", NoClient)
    BY <1>1, <1>2, SameAlike
  <1>4. ASSUME Alike(toPeer[Me], toPeer'[Me], "input", c), injected'[c] = injected[c]
        PROVE  InFlow(c)'
    BY <1>1, <1>3, <1>4, KeystrokesKept DEF InFlow
  <1>5. CASE UNCHANGED <<toPeer, injected, link>>
    BY <1>1, <1>4, <1>5, SameAlike
  <1>6. CASE Arrived(Me) /\ Get(Me) /\ Got(Me).type # "input" /\ UNCHANGED <<injected, link>>
    <2>1. Alike(toPeer[Me], toPeer'[Me], "input", c)
      BY <1>1, <1>6, GetAlike DEF Is
    <2> QED BY <1>4, <1>6, <2>1
  <1>7. CASE Hangup(Me) /\ hostPc # "start" /\ UNCHANGED injected
    <2>1. toPeer'[Me] = << >> /\ link'[Me] \in Gone
      <3>1. link[Me] # "none"
        BY <1>7 DEF HostPlaced
      <3> QED BY <1>1, <1>7, <3>1
              DEF Hangup, Framed, ToPeerFramed, LinkTypes, LinkState, Gone, Up
    <2>2. ~InOn(c)'
      BY <2>1 DEF InOn
    <2> QED BY <1>1, <1>7, <2>1, <2>2, KeystrokesLost DEF InFlow
  <1>8. CASE OnInput
    <2> DEFINE d == Got(Me).client
    <2>1. HostReads("input") /\ Arrived(Me) /\ Get(Me) /\ Got(Me).type = "input"
          /\ injected = [x \in Clients |-> injected[x]]
      BY <1>8 DEF OnInput, HostReads, Inv, HostTypes, Heard
    <2>2. CASE d # c
      <3>1. Alike(toPeer[Me], toPeer'[Me], "input", c)
        BY <1>1, <2>1, <2>2, GetAlike DEF Is
      <3>2. injected'[c] = injected[c]
        BY <1>8, <2>1, <2>2 DEF OnInput
      <3> QED BY <1>4, <3>1, <3>2
    <2>3. CASE d = c
      <3>1. /\ Taken(c) /\ Takes(toPeer[Me], toPeer'[Me]) /\ toPeer[Me][1] = Got(Me)
            /\ OwnKey(c) \in crypto[c] <=> c \in ReadyClients /\ Opens(KeyOf(c), Got(Me).data)
        BY <2>1, <2>3, InputRead
      <3>2. CASE OwnKey(c) \notin crypto[c]
        BY <3>1, <3>2, RefusedKept DEF Refused, InFlow
      <3>3. CASE OwnKey(c) \in crypto[c]
        <4>1. injected'[c] = Append(injected[c], Got(Me).data.plain)
          BY <1>8, <2>1, <2>3, <3>1, <3>3 DEF OnInput
        <4>2. typed[c] \in Nat /\ Len(injected[c]) \in Nat /\ Len(toPeer[Me]) \in Nat
              /\ injected[c] \in Seq(Inputs)
          BY <1>1, InputCounts, Lengths DEF Inv, HostTypes, Heard
        <4>3. Len(injected'[c]) = Len(injected[c]) + 1
          BY <4>1, <4>2, AppendProperties
        <4>4. Is(toPeer[Me][1], "input", c)
          BY <2>1, <2>3, <3>1 DEF Is
        <4>5. Flow(toPeer'[Me], toRelay[c], "input", c, NoClient, Len(injected[c]) + 1,
                   typed[c], InOn(c), InUp(c))
          BY <3>1, <4>2, <4>4, FlowRead DEF Keystrokes
        <4>6. InOn(c)' = InOn(c) /\ InUp(c)' = InUp(c)
          BY <1>8 DEF InOn, InUp, OnInput, relayVars
        <4>7. Keystrokes(c)'
          BY <1>1, <1>2, <4>3, <4>5, <4>6 DEF Keystrokes
        <4> QED BY <4>7 DEF InFlow
      <3> QED BY <3>2, <3>3
    <2> QED BY <2>2, <2>3
  <1> QED BY <1>5, <1>6, <1>7, <1>8, HostInbox

LEMMA LostInput ==
    ASSUME Inv, [Next]_vars, NEW x \in Conns, Lost(x), NEW c \in Clients, Keystrokes(c)
    PROVE  Keystrokes(c)'
  <1>1. /\ Framed /\ c \in Conns /\ c # Me /\ Me \in Conns
        /\ typed'[c] = typed[c] /\ injected'[c] = injected[c] /\ toRelay'[c] = toRelay[c]
        /\ (InOn(c)' => InOn(c)) /\ (InUp(c)' => InUp(c))
    BY OneHostFacts, InputShuts DEF Inv, Lost, clientVars, hostVars
  <1>2. CASE toPeer'[Me] = toPeer[Me]
    BY <1>1, <1>2, SameAlike, KeystrokesKept
  <1>3. CASE toPeer'[Me] # toPeer[Me]
    <2>1. x = Me /\ Hangup(Me) /\ link[Me] = "open"
      BY <1>1, <1>3 DEF Lost, Hangup, Framed, ToPeerFramed
    <2>2. toPeer'[Me] = << >> /\ link'[Me] \in Gone
      BY <1>1, <2>1 DEF Hangup, Framed, ToPeerFramed, LinkTypes, Gone, Up
    <2>3. ~InOn(c)'
      BY <2>2 DEF InOn
    <2> QED BY <1>1, <2>2, <2>3, KeystrokesLost
  <1> QED BY <1>2, <1>3

LEMMA InitInFlow == ASSUME Init, NEW c \in Clients PROVE InFlow(c)
  <1>1. /\ toPeer[Me] = << >> /\ toRelay[c] = << >> /\ injected[c] = << >> /\ typed[c] = 0
    BY OneHostFacts DEF Init, WireInit, HostInit, ClientInit
  <1>2. Len(<< >>) = 0 /\ 0 <= 0
    OBVIOUS
  <1>3. Free(toPeer[Me], "input", c) /\ Free(toRelay[c], "input", NoClient)
    BY <1>1, <1>2 DEF Free
  <1>4. Flow(toPeer[Me], toRelay[c], "input", c, NoClient, 0, 0, InOn(c), InUp(c))
    BY <1>2, <1>3, FlowEmpty
  <1> QED BY <1>1, <1>2, <1>4 DEF Keystrokes, InFlow

LEMMA NextInFlow ==
    ASSUME Inv, Opened, HostPlaced, [Next]_vars, NEW c \in Clients, c \notin Browsers,
           Pipeline(c), Placed(c), InFlow(c)
    PROVE  InFlow(c)'
  <1>1. CASE Refused(c)
    BY <1>1, RefusedKept DEF InFlow
  <1>2. CASE Keystrokes(c)
    <2>1. CASE UNCHANGED vars
      <3>1. Keystrokes(c)' = Keystrokes(c)
        BY <2>1 DEF vars, wireVars, relayVars, hostVars, clientVars, Keystrokes, InOn, InUp
      <3> QED BY <1>2, <3>1 DEF InFlow
    <2>2. CASE RelayStep
      <3>1. typed'[c] = typed[c] /\ injected'[c] = injected[c]
        BY <2>2 DEF RelayStep, hostVars, clientVars
      <3> QED BY <1>2, <2>2, <3>1, OwnRelayInput, OtherRelayInput DEF RelayStep, InFlow
    <2>3. CASE HostStep /\ UNCHANGED <<relayVars, clientVars>>
      BY <1>2, <2>3, HostInput
    <2>4. ASSUME NEW d \in Clients, ClientStep(d), UNCHANGED <<relayVars, hostVars>>
          PROVE  InFlow(c)'
      BY <1>2, <2>4, OtherClientInput, OwnClientInput DEF InFlow, hostVars
    <2>5. ASSUME NEW x \in Conns, Lost(x) PROVE InFlow(c)'
      BY <1>2, <2>5, LostInput DEF InFlow
    <2> QED BY <2>1, <2>2, <2>3, <2>4, <2>5 DEF Next, ProgramStep
  <1> QED BY <1>1, <1>2 DEF InFlow

---------------------------------------------------------------------------
(* The output for c on its way from the terminal.  The way is closed once  *)
(* the client is out of the relay's map or its connection is gone, and     *)
(* nothing is sent any more without a session or a connection of the host. *)
OutOn(c) == link[c] \in Up /\ pc[c] \in {"serving", "leaving"}
OutUp(c) == c \in ReadyClients /\ link[Me] \in Up

Output(c, a) ==
    Flow(toPeer[c], toRelay[Me], "output", c, c, a, budget.output, OutOn(c), OutUp(c))

(* The client has been shown the piece a last, or none yet.                *)
LastShown(c, a) ==
    shown[c] # << >> => shown[c][Len(shown[c])] = Piece("output", a)

OutFlow(c) == \E a \in Nat : Output(c, a) /\ LastShown(c, a)

LEMMA OutputCounts == ASSUME Inv PROVE budget.output \in Nat
  <1>1. budget \in [output : 0..MaxOutput, resize : 0..MaxResizes, ping : 0..MaxHostPings]
    BY DEF Inv, HostTypes, Flags
  <1>2. budget.output \in 0..MaxOutput
    BY <1>1
  <1> QED BY <1>2, HostBoundsNat

LEMMA OutputKept ==
    ASSUME Inv, NEW c \in Clients, NEW a \in Nat, Output(c, a),
           budget'.output = budget.output,
           Alike(toPeer[c], toPeer'[c], "output", c),
           OutOn(c)' => /\ OutOn(c) /\ (OutUp(c)' => OutUp(c))
                        /\ Alike(toRelay[Me], toRelay'[Me], "output", c)
    PROVE  Output(c, a)'
  <1>1. budget.output \in Nat /\ budget.output <= budget.output
    BY OutputCounts
  <1>2. Flow(toPeer'[c], toRelay'[Me], "output", c, c, a, budget.output,
             OutOn(c)', OutUp(c)')
    BY <1>1, FlowKept DEF Output
  <1> QED BY <1>2 DEF Output

(* Neither end of the way is opened again.                                 *)
LEMMA OutputShuts ==
    ASSUME Inv, Opened, [Next]_vars, NEW c \in Clients, Taken(c)
    PROVE  OutOn(c)' => OutOn(c) /\ (OutUp(c)' => OutUp(c))
  <1>1. /\ c \in Conns /\ c # Me /\ DOMAIN pc = Conns /\ Me \in Conns
        /\ pc[c] \notin Before
        /\ link'[c] \in Up /\ link[c] \notin Up => Accept(c)
        /\ link'[Me] \in Up /\ link[Me] \notin Up => link[Me] = "none"
    BY OneHostFacts, LinkMoves DEF Inv, Relaying, RelayTypeOK, Taken, Past
  <1>2. \A from, to : Goto(c, from, to) => pc[c] = from /\ pc'[c] = to
    BY <1>1 DEF Goto
  <1>3. ~Accept(c)
    BY <1>1, <1>2 DEF Accept, Before
  <1>4. pc'[c] \in {"serving", "leaving"} => pc[c] \in {"serving", "leaving"}
    <2>1. CASE ClientHandler(c)
      BY <1>1, <1>2, <2>1
         DEF ClientHandler, FirstReadFails, RejectFirst, Refuse, RateLimited,
             SessionNotFound, LookupSession, AckJoin, AddClient, NotifyJoined,
             ForwardFromClient, ForwardFails, ClientReadFails, Disconnect, RemoveClient,
             NotifyLeft, relayVars, Before
    <2> QED BY <1>1, <1>3, <2>1, HandlersApart
  <1>5. pc[c] \in {"serving", "leaving"} => link[Me] # "none"
    BY DEF Opened, Attached
  <1>6. c \in ReadyClients' => c \in ReadyClients
    <2>1. c \in ReadyClients' => crypto'[c] # {}
      BY DEF ReadyClients, HasSession
    <2> QED BY <2>1, TakenKeys, ReadyKept
  <1> QED BY <1>1, <1>3, <1>4, <1>5, <1>6 DEF OutOn, OutUp

(* What is at the end of the host is lost with it.                         *)
LEMMA FlowDiscarded ==
    ASSUME NEW q, NEW r, NEW q2, NEW r2, NEW t, NEW c, NEW d, NEW a \in Nat,
           NEW w \in Nat, NEW on, NEW up, NEW on2, NEW up2,
           Flow(q, r, t, c, d, a, w, on, up), Alike(q, q2, t, c), Free(r2, t, d), ~up2
    PROVE  Flow(q2, r2, t, c, d, a, w, on2, up2)
  <1>1. PICK b \in Nat : a <= b /\ b <= w /\ Run(q, t, c, a, b)
    BY DEF Flow
  <1>2. Run(q2, t, c, a, b) /\ Run(r2, t, d, b, b) /\ b <= b
    BY <1>1, RunFree DEF Alike
  <1> QED BY <1>1, <1>2 DEF Flow

LEMMA OutputDiscarded ==
    ASSUME Inv, NEW c \in Clients, NEW a \in Nat, Output(c, a), NEW S, Close(S), Me \in S,
           budget'.output = budget.output, Alike(toPeer[c], toPeer'[c], "output", c)
    PROVE  Output(c, a)'
  <1>1. toRelay'[Me] = << >> /\ link'[Me] = "closed"
    BY OneHostFacts DEF Close
  <1>2. Len(<< >>) = 0
    OBVIOUS
  <1>3. Free(toRelay'[Me], "output", c) /\ ~OutUp(c)'
    BY <1>1, <1>2 DEF Free, OutUp, Up
  <1>4. Flow(toPeer'[c], toRelay'[Me], "output", c, c, a, budget.output,
             OutOn(c)', OutUp(c)')
    BY <1>3, OutputCounts, FlowDiscarded DEF Output
  <1> QED BY <1>4 DEF Output

LEMMA OutputLost ==
    ASSUME Inv, NEW c \in Clients, NEW a \in Nat, Output(c, a), toPeer'[c] = << >>,
           ~OutOn(c)', budget'.output = budget.output
    PROVE  Output(c, a)'
  <1>1. budget.output \in Nat /\ a <= budget.output
    BY OutputCounts, FlowBounds DEF Output
  <1>2. Len(<< >>) = 0
    OBVIOUS
  <1>3. Free(toPeer'[c], "output", c)
    BY <1>2 DEF Free
  <1>4. Flow(toPeer'[c], toRelay'[Me], "output", c, c, a, budget.output,
             OutOn(c)', OutUp(c)')
    BY <1>1, <1>3, FlowEmpty
  <1> QED BY <1>4 DEF Output

(* The steps of the relay.                                                 *)
LEMMA ForwardOutput ==
    ASSUME Inv, Opened, [Next]_vars, ForwardFromHost(Me), NEW c \in Clients,
           Placed(c), Taken(c), NEW a \in Nat, Output(c, a), UNCHANGED hostVars
    PROVE  Output(c, a)'
  <1> DEFINE m == Next1(Me)
  <1>1. /\ Framed /\ c \in Conns /\ c # Me /\ Me \in Conns /\ c # NoClient
        /\ Incoming(Me) /\ Take(Me) /\ budget'.output = budget.output
        /\ (OutOn(c)' <=> OutOn(c)) /\ (OutUp(c)' <=> OutUp(c))
    BY OneHostFacts
       DEF Inv, ForwardFromHost, hostVars, relayVars, OutOn, OutUp, ReadyClients, HasSession,
           KeyOf
  <1>2. /\ Takes(toRelay[Me], toRelay'[Me]) /\ toRelay[Me][1] = m
        /\ Len(toPeer[c]) \in Nat /\ Len(toRelay[Me]) \in Nat
    <2>1. toRelay[Me] \in Seq(PeerSays(Me)) /\ toRelay'[Me] = Tail(toRelay[Me])
          /\ toRelay[Me] # << >>
      BY <1>1 DEF Take, Incoming, Framed, ToRelayFramed
    <2> QED BY <1>1, <2>1, TailTakes, Lengths DEF Next1
  <1>3. UNCHANGED toPeer \/ Write(Targets(Me, m), m)
    BY DEF ForwardFromHost
  <1>4. CASE ~Is(m, "output", c)
    <2>1. Alike(toRelay[Me], toRelay'[Me], "output", c)
      BY <1>1, <1>4, TakeAlike
    <2> HIDE DEF m
    <2>2. Alike(toPeer[c], toPeer'[c], "output", c)
      BY <1>1, <1>3, <1>4, WriteAlike, SameAlike
    <2> QED BY <1>1, <2>1, <2>2, OutputKept
  <1>5. CASE Is(m, "output", c)
    <2>1. Write(Targets(Me, m), m) /\ (c \in Targets(Me, m) <=> c \in clients[Me])
      BY <1>1, <1>5 DEF ForwardFromHost, HostForwards, Targets, Is
    <2> HIDE DEF m
    <2>2. CASE OutOn(c)
      <3>1. toPeer'[c] = Append(toPeer[c], m)
        BY <1>1, <2>1, <2>2 DEF OutOn, Placed, Member, Write
      <3>2. Adds(toPeer[c], toPeer'[c], m)
        <4>1. toPeer[c] \in Seq(RelaySays(c))
          BY <1>1 DEF Framed, ToPeerFramed
        <4> QED BY <3>1, <4>1, AppendAdds
      <3>3. Is(toRelay[Me][1], "output", c) /\ m.data = toRelay[Me][1].data
        BY <1>2, <1>5
      <3>4. /\ Flow(toPeer[c], toRelay[Me], "output", c, c, a, budget.output,
                     OutOn(c), OutUp(c))
            /\ (OutOn(c)' => OutOn(c)) /\ (OutUp(c)' => OutUp(c))
            /\ budget.output \in Nat /\ "output" \in {"input", "output"}
        BY <1>1, OutputCounts DEF Output
      <3>5. Flow(toPeer'[c], toRelay'[Me], "output", c, c, a, budget.output,
                 OutOn(c)', OutUp(c)')
        BY <1>2, <1>5, <2>2, <3>2, <3>3, <3>4, FlowPassed
      <3> QED BY <1>1, <3>5 DEF Output
    <2>3. CASE ~OutOn(c)
      <3>1. ~(c \in Targets(Me, m) /\ link[c] \in Up)
        <4>1. pc[c] # "added"
          BY DEF Taken, Past, Before
        <4>2. c \in clients[Me] /\ link[c] \in Up => pc[c] \in {"serving", "leaving"}
          BY <4>1 DEF Placed, Member
        <4> QED BY <2>1, <2>3, <4>2 DEF OutOn
      <3>2. toPeer'[c] = toPeer[c]
        BY <1>1, <2>1, <3>1 DEF Write
      <3> QED BY <1>1, <2>3, <3>2, SameAlike, OutputKept
    <2> QED BY <2>2, <2>3
  <1> QED BY <1>4, <1>5

LEMMA HostHandlerOutput ==
    ASSUME Inv, Opened, [Next]_vars, HostHandler(Me), NEW c \in Clients,
           Placed(c), Taken(c), NEW a \in Nat, Output(c, a), UNCHANGED hostVars
    PROVE  Output(c, a)'
  <1>1. /\ Framed /\ c \in Conns /\ c # Me /\ Me \in Conns
        /\ budget'.output = budget.output /\ DOMAIN pc = Conns
        /\ OutOn(c)' => OutOn(c) /\ (OutUp(c)' => OutUp(c))
    BY OneHostFacts, OutputShuts DEF Inv, Relaying, RelayTypeOK, hostVars
  <1>2. UNCHANGED toPeer => Alike(toPeer[c], toPeer'[c], "output", c)
    BY <1>1, SameAlike
  <1>3. ASSUME NEW m, Write({Me}, m) PROVE Alike(toPeer[c], toPeer'[c], "output", c)
    BY <1>1, <1>3, WriteAlike
  <1>4. CASE FirstReadFails(Me) \/ RejectFirst(Me) \/ CloseHostConn(Me)
    <2>1. Close({Me})
      BY <1>4 DEF FirstReadFails, RejectFirst, Refuse, CloseHostConn
    <2>2. UNCHANGED toPeer \/ Write({Me}, Msg("error", NoClient, NoData))
      BY <1>4 DEF FirstReadFails, RejectFirst, Refuse, CloseHostConn
    <2> QED BY <1>1, <1>2, <1>3, <2>1, <2>2, OutputDiscarded
  <1>5. CASE RegisterHost(Me) \/ RejectHost(Me)
    <2>1. Incoming(Me) /\ Next1(Me).type = "host_register" /\ Take(Me)
      BY <1>5 DEF RegisterHost, RejectHost, First
    <2>2. Alike(toRelay[Me], toRelay'[Me], "output", c)
      BY <1>1, <2>1, TakeAlike DEF Is
    <2>3. \E m : Write({Me}, m)
      BY <1>5 DEF RegisterHost, RejectHost
    <2> QED BY <1>1, <1>3, <2>2, <2>3, OutputKept
  <1>6. CASE ForwardFromHost(Me)
    BY <1>6, ForwardOutput
  <1>7. CASE Unregister(Me)
    <2>1. UNCHANGED <<toPeer, toRelay>>
      BY <1>7 DEF Unregister, wireVars
    <2> QED BY <1>1, <1>2, <2>1, SameAlike, OutputKept
  <1>8. CASE CloseMembers(Me)
    <2>1. Close(clients[Me]) /\ UNCHANGED toPeer /\ pc'[c] = pc[c]
      BY <1>1, <1>8 DEF CloseMembers, Goto
    <2>2. ~OutOn(c)'
      <3>1. CASE c \in clients[Me]
        <4>1. link'[c] = "closed"
          BY <1>1, <2>1, <3>1 DEF Close
        <4> QED BY <4>1 DEF OutOn, Up
      <3>2. CASE c \notin clients[Me]
        BY <2>1, <3>2 DEF Placed, Member, OutOn
      <3> QED BY <3>1, <3>2
    <2> QED BY <1>1, <1>2, <2>1, <2>2, OutputKept
  <1> QED BY <1>4, <1>5, <1>6, <1>7, <1>8 DEF HostHandler

LEMMA ClientHandlerOutput ==
    ASSUME Inv, Opened, [Next]_vars, NEW d \in Clients, ClientHandler(d),
           NEW c \in Clients, Taken(c), NEW a \in Nat, Output(c, a), UNCHANGED hostVars
    PROVE  Output(c, a)'
  <1>1. /\ Framed /\ c \in Conns /\ c # Me /\ Me \in Conns /\ d # Me
        /\ budget'.output = budget.output /\ Located
        /\ toRelay = [x \in Conns |-> toRelay[x]]
        /\ OutOn(c)' => OutOn(c) /\ (OutUp(c)' => OutUp(c))
    BY OneHostFacts, OutputShuts DEF Inv, Relaying, Framed, ToRelayFramed, hostVars
  <1>2. UNCHANGED toRelay \/ Take(d) \/ Close({d}) => toRelay'[Me] = toRelay[Me]
    BY <1>1 DEF Take, Close
  <1>3. UNCHANGED toPeer => Alike(toPeer[c], toPeer'[c], "output", c)
    BY <1>1, SameAlike
  <1>4. ASSUME NEW S, NEW m, Write(S, m), c \notin S \/ m.type # "output"
        PROVE  Alike(toPeer[c], toPeer'[c], "output", c)
    BY <1>1, <1>4, WriteAlike DEF Is
  <1>5. Msg("error", NoClient, NoData).type # "output"
        /\ Msg("session_joined", d, NoData).type # "output"
        /\ Msg("joined", d, NoData).type # "output"
        /\ Msg("left", d, NoData).type # "output"
    BY Msgs
  <1>6. UNCHANGED toRelay \/ Take(d) \/ Close({d})
    BY DEF ClientHandler, FirstReadFails, RejectFirst, Refuse, RateLimited,
           SessionNotFound, LookupSession, AckJoin, AddClient, NotifyJoined,
           ForwardFromClient, ForwardFails, ClientReadFails, Disconnect, RemoveClient,
           NotifyLeft, wireVars
  <1>7. Alike(toPeer[c], toPeer'[c], "output", c)
    <2>1. CASE FirstReadFails(d) \/ LookupSession(d) \/ AddClient(d) \/ ForwardFails(d)
                 \/ ClientReadFails(d) \/ Disconnect(d) \/ RemoveClient(d)
      BY <1>3, <2>1 DEF FirstReadFails, LookupSession, AddClient, ForwardFails,
                        ClientReadFails, Disconnect, RemoveClient, wireVars
    <2>2. CASE RejectFirst(d) \/ RateLimited(d) \/ SessionNotFound(d)
      BY <1>4, <1>5, <2>2 DEF RejectFirst, RateLimited, SessionNotFound, Refuse
    <2>3. CASE AckJoin(d) \/ NotifyJoined(d) \/ NotifyLeft(d)
      BY <1>4, <1>5, <2>3 DEF AckJoin, NotifyJoined, NotifyLeft
    <2>4. CASE ForwardFromClient(d)
      <3>1. sess[d] = Me
        BY <1>1, <2>4 DEF ForwardFromClient, Located, Attached
      <3>2. UNCHANGED toPeer \/ \E m : Write({Me}, m)
        BY <2>4, <3>1 DEF ForwardFromClient
      <3> QED BY <1>1, <1>3, <1>4, <3>2
    <2> QED BY <2>1, <2>2, <2>3, <2>4 DEF ClientHandler
  <1>8. Alike(toRelay[Me], toRelay'[Me], "output", c)
    BY <1>1, <1>2, <1>6, SameAlike
  <1> QED BY <1>1, <1>7, <1>8, OutputKept

(* The steps of the clients.                                               *)
LEMMA ClientInbox ==
    ASSUME NEW c \in Clients, c \notin Browsers, ClientStep(c)
    PROVE  \/ UNCHANGED <<toPeer, shown>>
           \/ Arrived(c) /\ Get(c) /\ Got(c).type # "output" /\ UNCHANGED <<link, shown>>
           \/ OnOutput(c)
           \/ Hangup(c) /\ clientPc[c] # "start" /\ UNCHANGED shown
  <1>1. CASE Join(c) \/ SetOnOutput(c) \/ SendInput(c) \/ LatencyPings(c)
               \/ KeyPairGenerated(c) \/ KeyDerived(c)
    BY <1>1 DEF Join, SetOnOutput, SendInput, LatencyPings, KeyPairGenerated, KeyDerived,
                wireVars
  <1>2. CASE OnSessionJoined(c) \/ OnHostKey(c) \/ OnHostVerify(c)
    BY <1>2 DEF OnSessionJoined, OnHostKey, OnHostVerify, ClientReads
  <1>3. CASE OnHostPing(c) \/ OnOther(c)
    BY <1>3 DEF OnHostPing, OnOther, ClientReads, clientVars
  <1>4. CASE HandshakeFails(c) \/ ReadLoopFails(c) \/ CloseClient(c)
    BY <1>4 DEF HandshakeFails, ReadLoopFails, CloseClient, Fail
  <1> QED BY <1>1, <1>2, <1>3, <1>4, BrowserOnly
          DEF ClientStep, ClientHandshake, ClientReadLoop

LEMMA OtherClientOutput ==
    ASSUME Inv, Opened, [Next]_vars, NEW d \in Clients, ClientStep(d), NEW c \in Clients,
           d # c, UNCHANGED <<relayVars, hostVars>>, Taken(c), OutFlow(c)
    PROVE  OutFlow(c)'
  <1>1. PICK a \in Nat : Output(c, a) /\ LastShown(c, a)
    BY DEF OutFlow
  <1>2. /\ Framed /\ c \in Conns /\ Me \in Conns /\ d # Me
        /\ budget'.output = budget.output
        /\ OutOn(c)' => OutOn(c) /\ (OutUp(c)' => OutUp(c))
    BY OneHostFacts, OutputShuts DEF Inv, hostVars
  <1>3. toPeer'[c] = toPeer[c] /\ toRelay'[Me] = toRelay[Me] /\ shown'[c] = shown[c]
    BY <1>2, OthersUntouched
  <1>4. Output(c, a)'
    BY <1>1, <1>2, <1>3, SameAlike, OutputKept
  <1>5. LastShown(c, a)'
    BY <1>1, <1>3 DEF LastShown
  <1> QED BY <1>4, <1>5 DEF OutFlow

(* A client reads a piece of output.                                       *)
LEMMA OutputTaken ==
    ASSUME Inv, NEW c \in Clients, NEW a \in Nat, Output(c, a), Arrived(c), Get(c),
           Is(Got(c), "output", c), toRelay'[Me] = toRelay[Me], link' = link,
           UNCHANGED <<relayVars, hostVars>>
    PROVE  /\ Got(c).data.plain = Piece("output", a + 1)
           /\ a + 1 <= budget.output /\ Output(c, a + 1)'
  <1>1. /\ toPeer[c] \in Seq(RelaySays(c)) /\ toPeer[c] # << >>
        /\ toPeer'[c] = Tail(toPeer[c])
    BY OneHostFacts DEF Inv, Framed, ToPeerFramed, Arrived, Get
  <1>2. /\ Takes(toPeer[c], toPeer'[c]) /\ toPeer[c][1] = Got(c)
        /\ Len(toPeer[c]) \in Nat
    BY <1>1, TailTakes, LenProperties DEF Got
  <1>3. /\ OutOn(c)' = OutOn(c) /\ OutUp(c)' = OutUp(c)
        /\ budget' = budget
    <2>1. pc' = pc /\ crypto' = crypto /\ budget' = budget
      BY DEF relayVars, hostVars
    <2>2. OutOn(c)' = OutOn(c)
      BY <2>1 DEF OutOn
    <2>3. ReadyClients' = ReadyClients
      BY <2>1 DEF ReadyClients, HasSession, KeyOf
    <2>4. OutUp(c)' = OutUp(c)
      BY <2>3 DEF OutUp
    <2> QED BY <2>1, <2>2, <2>4
  <1>4. /\ Got(c).data.plain = Piece("output", a + 1) /\ a + 1 <= budget.output
        /\ Flow(toPeer'[c], toRelay[Me], "output", c, c, a + 1, budget.output,
                OutOn(c), OutUp(c))
    <2>1. /\ Flow(toPeer[c], toRelay[Me], "output", c, c, a, budget.output,
                  OutOn(c), OutUp(c))
          /\ Is(toPeer[c][1], "output", c) /\ budget.output \in Nat
      BY <1>2, OutputCounts DEF Output
    <2> DEFINE q == toPeer[c]
               q2 == toPeer'[c]
               r == toRelay[Me]
               w == budget.output
               on == OutOn(c)
               up == OutUp(c)
    <2>2. /\ Flow(q, r, "output", c, c, a, w, on, up)
          /\ Takes(q, q2) /\ Is(q[1], "output", c) /\ Len(q) \in Nat
          /\ w \in Nat /\ q[1] = Got(c)
      BY <1>2, <2>1
    <2> HIDE DEF q, q2, r, w, on, up
    <2>3. /\ q[1].data.plain = Piece("output", a + 1) /\ a + 1 <= w
          /\ Flow(q2, r, "output", c, c, a + 1, w, on, up)
      BY <2>2, FlowRead
    <2> QED BY <2>2, <2>3 DEF q, q2, r, w, on, up
  <1> QED BY <1>3, <1>4 DEF Output

LEMMA OwnClientOutput ==
    ASSUME Inv, Opened, [Next]_vars, NEW c \in Clients, c \notin Browsers,
           ClientStep(c), UNCHANGED <<relayVars, hostVars>>, Taken(c), Placed(c),
           Agreed(c), OutFlow(c)
    PROVE  OutFlow(c)'
  <1>1. PICK a \in Nat : Output(c, a) /\ LastShown(c, a)
    BY DEF OutFlow
  <1>2. /\ Framed /\ c \in Conns /\ Me \in Conns /\ c # Me
        /\ budget'.output = budget.output
        /\ OutOn(c)' => OutOn(c) /\ (OutUp(c)' => OutUp(c))
    BY OneHostFacts, OutputShuts DEF Inv, hostVars
  <1>3. toRelay'[Me] = toRelay[Me] /\ Alike(toRelay[Me], toRelay'[Me], "output", c)
    BY <1>2, OthersUntouched, SameAlike
  <1>4. ASSUME Alike(toPeer[c], toPeer'[c], "output", c), shown' = shown
        PROVE  OutFlow(c)'
    <2>1. Output(c, a)'
      BY <1>1, <1>2, <1>3, <1>4, OutputKept
    <2>2. LastShown(c, a)'
      BY <1>1, <1>4 DEF LastShown
    <2> QED BY <2>1, <2>2 DEF OutFlow
  <1>5. CASE UNCHANGED <<toPeer, shown>>
    BY <1>2, <1>4, <1>5, SameAlike
  <1>6. CASE Arrived(c) /\ Get(c) /\ Got(c).type # "output" /\ UNCHANGED <<link, shown>>
    <2>1. Alike(toPeer[c], toPeer'[c], "output", c)
      BY <1>2, <1>6, GetAlike DEF Is
    <2> QED BY <1>4, <1>6, <2>1
  <1>7. CASE Hangup(c) /\ clientPc[c] # "start" /\ UNCHANGED shown
    <2>1. toPeer'[c] = << >> /\ link'[c] \notin Up
      BY <1>2, <1>7 DEF Hangup, Framed, ToPeerFramed, LinkTypes, Up
    <2>2. Output(c, a)'
      BY <1>1, <1>2, <2>1, OutputLost DEF OutOn
    <2>3. LastShown(c, a)'
      BY <1>1, <1>7 DEF LastShown
    <2> QED BY <2>2, <2>3 DEF OutFlow
  <1>8. CASE OnOutput(c)
    <2>1. Arrived(c) /\ Get(c) /\ link' = link /\ Is(Got(c), "output", c)
      BY <1>8, OutputSealed DEF OnOutput, ClientReads, Is
    <2>2. /\ Got(c).data.plain = Piece("output", a + 1) /\ Output(c, a + 1)'
          /\ a + 1 \in Nat
      BY <1>1, <1>3, <2>1, OutputTaken
    <2>3. LastShown(c, a + 1)'
      <3>1. shown[c] \in Seq(Screen \cup Ciphers) /\ shown = [d \in Clients |-> shown[d]]
        BY DEF Inv, ClientTypes
      <3>2. CASE callback[c] /\ Opens(clientKey[c], Got(c).data)
        <4>1. shown'[c] = Append(shown[c], Piece("output", a + 1))
          BY <1>8, <2>2, <3>1, <3>2 DEF OnOutput
        <4>2. shown'[c][Len(shown'[c])] = Piece("output", a + 1)
          BY <3>1, <4>1
        <4> QED BY <4>2 DEF LastShown
      <3>3. CASE ~(callback[c] /\ Opens(clientKey[c], Got(c).data))
        <4>1. shown[c] = << >>
          BY <1>8, <3>3, OutputSealed DEF Agreed, Opens
        <4>2. shown'[c] = << >>
          BY <1>8, <3>3, <4>1 DEF OnOutput
        <4> QED BY <4>2 DEF LastShown
      <3> QED BY <3>2, <3>3
    <2> QED BY <2>2, <2>3 DEF OutFlow
  <1> QED BY <1>5, <1>6, <1>7, <1>8, ClientInbox

(* The steps of the host: those that send no output, and readOutput.       *)
LEMMA ConcatAlike ==
    ASSUME NEW S, NEW q \in Seq(S), NEW s \in Seq(S), NEW t, NEW c,
           \A j \in 1..Len(s) : ~Is(s[j], t, c)
    PROVE  Alike(q, q \o s, t, c)
  <1> DEFINE u == q \o s
  <1>1. /\ Longer(q, u)
        /\ \A i \in New(q, u) : ~Is(u[i], t, c)
    <2>1. /\ Longer(q, u)
          /\ \A i \in New(q, u) : i - Len(q) \in 1..Len(s) /\ u[i] = s[i - Len(q)]
      BY ConcatLonger
    <2> HIDE DEF u
    <2> QED BY <2>1
  <1>2. Len(q) \in Nat /\ Len(q \o s) \in Nat
    BY LenProperties, ConcatProperties
  <1> QED BY <1>1, <1>2, RunStays DEF Alike

(* A frame of which every client gets its own.                             *)
Order(order, S, n) ==
    /\ n \in Nat /\ order \in [1..n -> S]
    /\ \A i, j \in 1..n : i # j => order[i] # order[j]
    /\ \A c \in S : \E i \in 1..n : order[i] = c

LEMMA OrderOf ==
    ASSUME NEW S, IsFiniteSet(S), NEW order \in SetToSeqs(S)
    PROVE  Order(order, S, Cardinality(S)) /\ DOMAIN order = 1..Cardinality(S)
  <1> DEFINE n == Cardinality(S)
  <1>1. n \in Nat
    BY FS_CardinalityType
  <1>2. /\ order \in [1..n -> S]
        /\ \A i, j \in 1..n : i # j => order[i] # order[j]
    BY DEF SetToSeqs
  <1>3. Cardinality(1..n) = n
    BY <1>1, FS_Interval
  <1>4. order \in Injection(1..n, S)
    BY <1>2 DEF Injection, IsInjective
  <1>5. order \in Surjection(1..n, S)
    BY <1>3, <1>4, FS_Injection
  <1>6. \A c \in S : \E i \in 1..n : order[i] = c
    BY <1>5 DEF Surjection
  <1> QED BY <1>1, <1>2, <1>6 DEF Order

LEMMA SendEachSends ==
    ASSUME Framed, NEW frame, IsFiniteSet(DOMAIN frame), SendEach(frame),
           \A c \in DOMAIN frame : frame[c] \in PeerSays(Me)
    PROVE  \/ link[Me] \notin Up /\ toRelay'[Me] = toRelay[Me]
           \/ /\ link[Me] \in Up
              /\ \E s \in Seq(PeerSays(Me)) :
                   /\ toRelay'[Me] = toRelay[Me] \o s
                   /\ \A i \in 1..Len(s) : \E d \in DOMAIN frame : s[i] = frame[d]
                   /\ \A d \in DOMAIN frame : \E p \in 1..Len(s) :
                        /\ s[p] = frame[d]
                        /\ \A i \in 1..Len(s) :
                             i = p \/ \E e \in DOMAIN frame : e # d /\ s[i] = frame[e]
  <1>1. PICK order \in SetToSeqs(DOMAIN frame) :
          toRelay' = [toRelay EXCEPT ![Me] =
            IF link[Me] \in Up
              THEN toRelay[Me] \o [i \in DOMAIN order |-> frame[order[i]]]
              ELSE toRelay[Me]]
    BY DEF SendEach
  <1>2. Me \in Conns /\ toRelay = [x \in Conns |-> toRelay[x]]
    BY OneHostFacts DEF Framed, ToRelayFramed
  <1>3. CASE link[Me] \notin Up
    BY <1>1, <1>2, <1>3
  <1>4. CASE link[Me] \in Up
    <2> DEFINE n == Cardinality(DOMAIN frame)
               s == [i \in DOMAIN order |-> frame[order[i]]]
               P == PeerSays(Me)
    <2>1. Order(order, DOMAIN frame, n) /\ DOMAIN order = 1..n
      BY OrderOf
    <2>2. toRelay'[Me] = toRelay[Me] \o s
      BY <1>1, <1>2, <1>4
    <2>3. s = [i \in 1..n |-> frame[order[i]]]
      BY <2>1
    <2> HIDE DEF s, n, P
    <2>4. \A i \in 1..n : s[i] = frame[order[i]] /\ order[i] \in DOMAIN frame
      BY <2>1, <2>3 DEF Order
    <2>5. n \in Nat /\ \A i \in 1..n : s[i] \in P
      BY <2>1, <2>4 DEF Order, P
    <2>6. s \in Seq(P) /\ Len(s) = n
      BY <2>3, <2>5
    <2>7. ASSUME NEW d \in DOMAIN frame
          PROVE  \E p \in 1..n : /\ s[p] = frame[d]
                                 /\ \A i \in 1..n : i = p \/
                                      \E e \in DOMAIN frame : e # d /\ s[i] = frame[e]
      <3>1. PICK p \in 1..n : order[p] = d
        BY <2>1 DEF Order
      <3>2. \A i \in 1..n : i = p \/ order[i] # d
        BY <2>1, <3>1 DEF Order
      <3> QED BY <2>4, <3>1, <3>2
    <2>8. /\ s \in Seq(PeerSays(Me)) /\ toRelay'[Me] = toRelay[Me] \o s
          /\ \A i \in 1..Len(s) : \E d \in DOMAIN frame : s[i] = frame[d]
          /\ \A d \in DOMAIN frame : \E p \in 1..Len(s) :
               /\ s[p] = frame[d]
               /\ \A i \in 1..Len(s) :
                    i = p \/ \E e \in DOMAIN frame : e # d /\ s[i] = frame[e]
      BY <2>2, <2>4, <2>6, <2>7 DEF P
    <2> QED BY <1>4, <2>8
  <1> QED BY <1>3, <1>4

LEMMA SendEachAlike ==
    ASSUME Framed, NEW frame, IsFiniteSet(DOMAIN frame), SendEach(frame), NEW t, NEW c,
           \A d \in DOMAIN frame : frame[d] \in PeerSays(Me) /\ ~Is(frame[d], t, c)
    PROVE  Alike(toRelay[Me], toRelay'[Me], t, c)
  <1>1. CASE toRelay'[Me] = toRelay[Me]
    BY <1>1, OneHostFacts, SameAlike
  <1>2. ASSUME NEW s \in Seq(PeerSays(Me)), toRelay'[Me] = toRelay[Me] \o s,
               \A i \in 1..Len(s) : \E d \in DOMAIN frame : s[i] = frame[d]
        PROVE  Alike(toRelay[Me], toRelay'[Me], t, c)
    <2>1. toRelay[Me] \in Seq(PeerSays(Me))
      BY OneHostFacts DEF Framed, ToRelayFramed
    <2>2. \A i \in 1..Len(s) : ~Is(s[i], t, c)
      BY <1>2
    <2> QED BY <1>2, <2>1, <2>2, ConcatAlike
  <1> QED BY <1>1, <1>2, SendEachSends

(* Every ready client is sent its own frame, once.                         *)
LEMMA SendEachGains ==
    ASSUME Framed, NEW frame, IsFiniteSet(DOMAIN frame), SendEach(frame), link[Me] \in Up,
           NEW c \in DOMAIN frame, NEW t, NEW n,
           \A d \in DOMAIN frame : frame[d] \in PeerSays(Me) /\ frame[d].client = d,
           Is(frame[c], t, c), frame[c].data.plain = Piece(t, n)
    PROVE  Gains(toRelay[Me], toRelay'[Me], t, c, n)
  <1> DEFINE q == toRelay[Me]
  <1>1. PICK s \in Seq(PeerSays(Me)) :
           /\ toRelay'[Me] = q \o s
           /\ \A d \in DOMAIN frame : \E p \in 1..Len(s) :
                /\ s[p] = frame[d]
                /\ \A i \in 1..Len(s) :
                     i = p \/ \E e \in DOMAIN frame : e # d /\ s[i] = frame[e]
    BY SendEachSends
  <1>2. PICK p \in 1..Len(s) :
           /\ s[p] = frame[c]
           /\ \A i \in 1..Len(s) :
                i = p \/ \E e \in DOMAIN frame : e # c /\ s[i] = frame[e]
    BY <1>1
  <1>3. \A i \in 1..Len(s) : i = p \/ ~Is(s[i], t, c)
    BY <1>2 DEF Is
  <1>4. q \in Seq(PeerSays(Me))
    BY OneHostFacts DEF Framed, ToRelayFramed
  <1> HIDE DEF q
  <1>5. /\ Longer(q, q \o s)
        /\ \A i \in New(q, q \o s) :
             i - Len(q) \in 1..Len(s) /\ (q \o s)[i] = s[i - Len(q)]
        /\ p + Len(q) \in New(q, q \o s) /\ (p + Len(q)) - Len(q) = p
    BY <1>4, ConcatLonger
  <1>6. Len(q \o s) \in Nat
    BY <1>4, LenProperties, ConcatProperties
  <1>7. (q \o s)[p + Len(q)] = frame[c]
    BY <1>2, <1>5
  <1>8. ASSUME NEW i \in New(q, q \o s) PROVE i = p + Len(q) \/ ~Is((q \o s)[i], t, c)
    <2>1. i - Len(q) = p => i = p + Len(q)
      <3>1. Len(q) \in Nat /\ i \in Int
        BY <1>4, LenProperties DEF New
      <3> QED BY <3>1
    <2> QED BY <1>3, <1>5, <2>1
  <1>9. Gains(q, q \o s, t, c, n)
    BY <1>5, <1>6, <1>7, <1>8 DEF Gains
  <1> QED BY <1>1, <1>9 DEF q

LEMMA OtherBudget ==
    ASSUME Inv, HostStep, UNCHANGED clientVars, ~ReadOutput
    PROVE  budget'.output = budget.output
  <1>1. CASE LatencyPing \/ UpdateTermSize
    BY <1>1 DEF LatencyPing, UpdateTermSize, Spend, Inv, HostTypes, Flags
  <1>2. CASE ~(LatencyPing \/ UpdateTermSize)
    BY <1>2 DEF HostStep, HostReadLoop, HostRegister, HostRegistered, HostRefused,
                SetPassword, CloseHost, OnLeft, OnKeyExchange, OnPong, HostReadFails,
                OnJoined, WriteVerify, OnPing, OnVerify, OnInput, hostVars
  <1> QED BY <1>1, <1>2

LEMMA OtherSends ==
    ASSUME HasOutput, Inv, HostStep, UNCHANGED <<relayVars, clientVars>>, ~ReadOutput,
           NEW c \in Clients
    PROVE  Alike(toRelay[Me], toRelay'[Me], "output", c)
  <1>1. /\ Framed /\ Me \in Conns /\ SessionKeys /\ joinPw' = joinPw
        /\ IsFiniteSet(ReadyClients) /\ ReadyClients \subseteq Clients
    BY OneHostFacts, ReadyFinite DEF Inv, HostTypes, clientVars
  <1>2. ASSUME NEW m, Send(Me, m), m.type # "output"
        PROVE  Alike(toRelay[Me], toRelay'[Me], "output", c)
    BY <1>1, <1>2, SendAlike DEF Is
  <1>3. UNCHANGED toRelay => Alike(toRelay[Me], toRelay'[Me], "output", c)
    BY <1>1, SameAlike
  <1>4. CASE HostRegister
    <2>1. \A k \in Codes : Msg("host_register", NoClient, k).type # "output"
      BY Msgs
    <2> QED BY <1>2, <1>4, <2>1 DEF HostRegister
  <1>5. CASE HostRegistered \/ HostRefused \/ SetPassword \/ CloseHost
               \/ OnLeft \/ OnKeyExchange \/ OnPong \/ HostReadFails
    BY <1>3, <1>5 DEF HostRegistered, HostRefused, SetPassword, CloseHost, OnLeft,
                      OnKeyExchange, OnPong, HostReadFails, hostVars, wireVars
  <1>6. CASE OnJoined \/ WriteVerify \/ OnPing
    <2>1. \A d, k : /\ Msg("key_exchange", d, k).type # "output"
                    /\ Msg("verify", d, k).type # "output"
                    /\ Msg("pong", d, k).type # "output"
      BY Msgs
    <2> QED BY <1>2, <1>6, <2>1 DEF OnJoined, WriteVerify, OnPing, hostVars
  <1>7. CASE OnVerify
    <2> DEFINE d == Got(Me).client
               a == IF sized THEN <<Resize(d)>> ELSE << >>
    <2>1. d \in Clients
      BY <1>1, <1>7, HostReadsFrame DEF OnVerify
    <2>2. \/ UNCHANGED toRelay
          \/ /\ d \in ReadyClients
             /\ toRelay' = [toRelay EXCEPT ![Me] =
                  IF link[Me] \in Up THEN toRelay[Me] \o a \o << >> ELSE toRelay[Me]]
      BY <1>7, <2>1 DEF OnVerify, ReadyClients, CheckVerify
    <2>3. ASSUME d \in ReadyClients, toRelay' = [toRelay EXCEPT ![Me] =
                  IF link[Me] \in Up THEN toRelay[Me] \o a \o << >> ELSE toRelay[Me]]
          PROVE  Alike(toRelay[Me], toRelay'[Me], "output", c)
      <3> DEFINE P == PeerSays(Me)
      <3>1. Resize(d) \in P /\ Resize(d).type = "resize"
        BY <1>1, <2>3, ReadySends, Msgs DEF Resize
      <3> HIDE DEF P
      <3>2. /\ a \in Seq(P)
            /\ \A j \in 1..Len(a) : ~Is(a[j], "output", c)
        <4>1. CASE sized
          <5>1. a = <<Resize(d)>>
            BY <4>1
          <5> QED BY <3>1, <5>1 DEF Is
        <4>2. CASE ~sized
          <5>1. a = << >>
            BY <4>2
          <5> QED BY <5>1
        <4> QED BY <4>1, <4>2
      <3> HIDE DEF a
      <3>3. toRelay[Me] \in Seq(P) /\ toRelay = [x \in Conns |-> toRelay[x]]
        BY <1>1 DEF Framed, ToRelayFramed, P
      <3>4. toRelay[Me] \o a \o << >> = toRelay[Me] \o a
        <4>1. toRelay[Me] \o a \in Seq(P)
          BY <3>2, <3>3, ConcatProperties
        <4> QED BY <4>1, ConcatEmptySeq
      <3>5. toRelay'[Me] = toRelay[Me] \/ toRelay'[Me] = toRelay[Me] \o a
        <4>1. \A s : toRelay' = [toRelay EXCEPT ![Me] = s] => toRelay'[Me] = s
          BY <1>1, <3>3
        <4>2. toRelay' = [toRelay EXCEPT ![Me] =
                IF link[Me] \in Up THEN toRelay[Me] \o a ELSE toRelay[Me]]
          BY <2>3, <3>4
        <4> QED BY <4>1, <4>2
      <3> QED BY <1>1, <3>2, <3>3, <3>5, ConcatAlike, SameAlike
    <2> QED BY <1>3, <2>2, <2>3
  <1>8. CASE OnInput
    BY <1>3, <1>8 DEF OnInput
  <1>9. CASE LatencyPing \/ UpdateTermSize
    <2> DEFINE frame1 == [d \in ReadyClients |-> Msg("ping", d, NoData)]
               frame2 == [d \in ReadyClients |-> Resize(d)]
    <2>1. /\ IsFiniteSet(DOMAIN frame1) /\ IsFiniteSet(DOMAIN frame2)
          /\ \A d \in DOMAIN frame1 : /\ frame1[d] \in PeerSays(Me)
                                      /\ frame1[d].type # "output"
          /\ \A d \in DOMAIN frame2 : /\ frame2[d] \in PeerSays(Me)
                                      /\ frame2[d].type # "output"
      BY <1>1, GenuineFrames, Msgs DEF Genuine, Resize
    <2>2. SendEach(frame1) \/ SendEach(frame2)
      BY <1>9 DEF LatencyPing, UpdateTermSize
    <2> HIDE DEF frame1, frame2
    <2> QED BY <1>1, <2>1, <2>2, SendEachAlike DEF Is
  <1> QED BY <1>4, <1>5, <1>6, <1>7, <1>8, <1>9 DEF HostStep, HostReadLoop

(* The host writes to the relay only.                                      *)
LEMMA HostInboxOnly ==
    ASSUME Framed, HostStep, NEW c \in Clients
    PROVE  toPeer'[c] = toPeer[c]
  <1>1. /\ c \in Conns /\ c # Me /\ toPeer = [x \in Conns |-> toPeer[x]]
    BY OneHostFacts DEF Framed, ToPeerFramed
  <1>2. Get(Me) \/ Hangup(Me) \/ UNCHANGED toPeer
    BY HostInbox DEF OnInput, HostReads
  <1> QED BY <1>1, <1>2 DEF Get, Hangup

LEMMA HostOutput ==
    ASSUME HasOutput, Inv, Opened, [Next]_vars, HostStep, UNCHANGED <<relayVars, clientVars>>,
           NEW c \in Clients, Taken(c), NEW a \in Nat, Output(c, a)
    PROVE  Output(c, a)'
  <1>1. /\ Framed /\ c \in Conns /\ Me \in Conns /\ SessionKeys
        /\ IsFiniteSet(ReadyClients) /\ ReadyClients \subseteq Clients
        /\ OutOn(c)' => OutOn(c) /\ (OutUp(c)' => OutUp(c))
    BY OneHostFacts, OutputShuts, ReadyFinite DEF Inv, HostTypes
  <1>2. toPeer'[c] = toPeer[c] /\ Alike(toPeer[c], toPeer'[c], "output", c)
    BY <1>1, HostInboxOnly, SameAlike
  <1>3. CASE ~ReadOutput
    BY <1>1, <1>2, <1>3, OtherSends, OtherBudget, OutputKept
  <1>4. CASE ReadOutput
    <2> DEFINE n == budget.output + 1
               frame == [d \in ReadyClients |->
                           Msg("output", d, Seal(KeyOf(d), [output |-> n]))]
    <2>1. SendEach(frame) /\ link' = link /\ crypto' = crypto /\ pc' = pc
      BY <1>4 DEF ReadOutput, relayVars
    <2>2. budget'.output = n /\ [output |-> n] \in Screen
      <3>1. Flags /\ budget \in [output : 0..MaxOutput, resize : 0..MaxResizes,
                                 ping : 0..MaxHostPings]
        BY DEF Inv, HostTypes, Flags
      <3>2. n \in 1..MaxOutput
        BY <1>4, <3>1, SpendTyped DEF ReadOutput
      <3>3. budget'.output = n
        BY <1>4, <3>1 DEF ReadOutput, Spend
      <3> QED BY <3>2, <3>3 DEF Screen, Outputs
    <2>3. /\ DOMAIN frame = ReadyClients
          /\ \A d \in DOMAIN frame :
               /\ frame[d] \in PeerSays(Me) /\ frame[d].client = d
               /\ frame[d].type = "output" /\ frame[d].data.plain = Piece("output", n)
      <3>1. ASSUME NEW d \in ReadyClients
            PROVE  /\ frame[d] \in PeerSays(Me) /\ frame[d].client = d
                   /\ frame[d].type = "output" /\ frame[d].data.plain = Piece("output", n)
        <4>1. frame[d] = Msg("output", d, Seal(KeyOf(d), [output |-> n]))
          BY <3>1
        <4>2. frame[d] \in PeerSays(Me)
          BY <1>1, <2>2, <3>1, <4>1, ReadySends
        <4>3. Piece("output", n) = [output |-> n]
          BY DEF Piece
        <4> QED BY <4>1, <4>2, <4>3, Msgs DEF Seal
      <3> QED BY <3>1
    <2> HIDE DEF frame
    <2>4. IF OutUp(c) THEN Gains(toRelay[Me], toRelay'[Me], "output", c, n)
                      ELSE Alike(toRelay[Me], toRelay'[Me], "output", c)
      <3>1. CASE OutUp(c)
        <4>1. c \in DOMAIN frame /\ link[Me] \in Up /\ Is(frame[c], "output", c)
              /\ frame[c].data.plain = Piece("output", n)
          BY <2>3, <3>1 DEF OutUp, Is
        <4>2. Gains(toRelay[Me], toRelay'[Me], "output", c, n)
          BY <1>1, <2>1, <2>3, <4>1, SendEachGains
        <4> QED BY <3>1, <4>2
      <3>2. CASE link[Me] \notin Up
        <4>1. toRelay'[Me] = toRelay[Me]
          BY <1>1, <2>1, <2>3, <3>2, SendEachSends
        <4>2. Alike(toRelay[Me], toRelay'[Me], "output", c) /\ ~OutUp(c)
          BY <1>1, <3>2, <4>1, SameAlike DEF OutUp
        <4> QED BY <4>2
      <3>3. CASE c \notin ReadyClients
        <4>1. \A d \in DOMAIN frame : frame[d] \in PeerSays(Me) /\ ~Is(frame[d], "output", c)
          BY <2>3, <3>3 DEF Is
        <4>2. Alike(toRelay[Me], toRelay'[Me], "output", c) /\ ~OutUp(c)
          BY <1>1, <2>1, <2>3, <3>3, <4>1, SendEachAlike DEF OutUp
        <4> QED BY <4>2
      <3> QED BY <3>1, <3>2, <3>3 DEF OutUp
    <2>5. /\ Flow(toPeer[c], toRelay[Me], "output", c, c, a, budget.output,
                  OutOn(c), OutUp(c))
          /\ budget.output \in Nat /\ Len(toRelay[Me]) \in Nat
      BY <1>1, OutputCounts, Lengths DEF Output
    <2> DEFINE w == budget.output
    <2>6. Flow(toPeer[c], toRelay'[Me], "output", c, c, a, w + 1, OutOn(c), OutUp(c))
      <3>1. n = w + 1 /\ w \in Nat
        BY <2>5
      <3> HIDE DEF n, w
      <3> QED BY <2>4, <2>5, <3>1, FlowSent DEF w
    <2>7. OutOn(c)' = OutOn(c) /\ OutUp(c)' = OutUp(c)
      <3>1. OutOn(c)' = OutOn(c)
        BY <2>1 DEF OutOn
      <3>2. ReadyClients' = ReadyClients
        BY <2>1 DEF ReadyClients, HasSession, KeyOf
      <3>3. OutUp(c)' = OutUp(c)
        BY <2>1, <3>2 DEF OutUp
      <3> QED BY <3>1, <3>3
    <2> QED BY <1>2, <2>2, <2>6, <2>7 DEF Output
  <1> QED BY <1>3, <1>4

LEMMA NotCarried ==
    ASSUME NEW q, NEW c, Carried(q, c) = {}
    PROVE  Free(q, "output", c)
  BY DEF Carried, Free, Is, SealedTypes

(* Nothing for c is under way: the next piece is the first.                *)
LEMMA FreshFlow ==
    ASSUME NEW q, NEW r, NEW c, NEW w \in Nat, NEW on, NEW up,
           Carried(r, c) \cup Carried(q, c) = {}
    PROVE  Flow(q, r, "output", c, c, w, w, on, up)
  <1>1. Free(q, "output", c) /\ Free(r, "output", c) /\ w <= w
    BY NotCarried
  <1> QED BY <1>1, FlowEmpty

LEMMA InitOutFlow == ASSUME Init, NEW c \in Clients PROVE OutFlow(c)
  <1>1. /\ toRelay[Me] = << >> /\ toPeer[c] = << >> /\ shown[c] = << >>
        /\ budget.output = 0
    BY OneHostFacts DEF Init, WireInit, ClientInit, HostInit
  <1>2. Len(<< >>) = 0
    OBVIOUS
  <1>3. Carried(toRelay[Me], c) \cup Carried(toPeer[c], c) = {}
    BY <1>1, <1>2 DEF Carried
  <1>4. Output(c, 0)
    BY <1>1, <1>3, FreshFlow DEF Output
  <1>5. LastShown(c, 0)
    BY <1>1 DEF LastShown
  <1> QED BY <1>4, <1>5 DEF OutFlow

LEMMA NextOutFlow ==
    ASSUME HasOutput, Inv, Opened, [Next]_vars, NEW c \in Clients, c \notin Browsers,
           Keyed(c), Placed(c), Agreed(c), OutFlow(c)
    PROVE  OutFlow(c)'
  <1>1. CASE ~Taken(c)
    <2>1. Sealing(c)' = {} /\ shown'[c] = << >>
      BY <1>1, NothingSealed
    <2>2. budget'.output \in Nat
      <3>1. Inv'
        BY NextInv
      <3>2. budget' \in [output : 0..MaxOutput, resize : 0..MaxResizes,
                         ping : 0..MaxHostPings]
        BY <3>1 DEF Inv, HostTypes, Flags
      <3>3. budget'.output \in 0..MaxOutput
        BY <3>2
      <3> QED BY <3>3, HostBoundsNat
    <2>3. Carried(toRelay'[Me], c) \cup Carried(toPeer'[c], c) = {}
      BY <2>1 DEF Sealing
    <2>4. Flow(toPeer'[c], toRelay'[Me], "output", c, c, budget'.output, budget'.output,
               OutOn(c)', OutUp(c)')
      BY <2>2, <2>3, FreshFlow
    <2>5. \E a \in Nat : /\ Flow(toPeer'[c], toRelay'[Me], "output", c, c, a,
                                 budget'.output, OutOn(c)', OutUp(c)')
                         /\ shown'[c] # << >>
                              => shown'[c][Len(shown'[c])] = Piece("output", a)
      BY <2>1, <2>2, <2>4
    <2> QED BY <2>5 DEF OutFlow, Output, LastShown
  <1>2. CASE Taken(c)
    <2>1. PICK a \in Nat : Output(c, a) /\ LastShown(c, a)
      BY DEF OutFlow
    <2>2. ASSUME Output(c, a)', shown' = shown PROVE OutFlow(c)'
      <3>1. LastShown(c, a)'
        BY <2>1, <2>2 DEF LastShown
      <3> QED BY <2>2, <3>1 DEF OutFlow
    <2>3. CASE UNCHANGED vars
      <3>1. OutFlow(c)' = OutFlow(c)
        BY <2>3 DEF vars, wireVars, relayVars, hostVars, clientVars, OutFlow, Output,
                    LastShown, OutOn, OutUp, ReadyClients, HasSession, KeyOf
      <3> QED BY <3>1
    <2>4. CASE RelayStep
      <3>1. UNCHANGED <<hostVars, clientVars>> /\ shown' = shown
            /\ budget'.output = budget.output
        BY <2>4 DEF RelayStep, hostVars, clientVars
      <3>2. ASSUME NEW x \in Conns, Accept(x) PROVE Output(c, a)'
        <4>1. UNCHANGED <<toRelay, toPeer>> /\ Framed /\ c \in Conns /\ Me \in Conns
          BY <3>2, OneHostFacts DEF Accept, Inv
        <4> QED BY <1>2, <2>1, <3>1, <4>1, SameAlike, OutputShuts, OutputKept
      <3>3. Output(c, a)'
        BY <1>2, <2>1, <2>4, <3>1, <3>2, HostHandlerOutput, ClientHandlerOutput
           DEF RelayStep
      <3> QED BY <2>2, <3>1, <3>3
    <2>5. CASE HostStep /\ UNCHANGED <<relayVars, clientVars>>
      <3>1. shown' = shown
        BY <2>5 DEF clientVars
      <3> QED BY <1>2, <2>1, <2>2, <2>5, <3>1, HostOutput
    <2>6. ASSUME NEW d \in Clients, ClientStep(d), UNCHANGED <<relayVars, hostVars>>
          PROVE  OutFlow(c)'
      BY <1>2, <2>6, OwnClientOutput, OtherClientOutput
    <2>7. ASSUME NEW x \in Conns, Lost(x) PROVE OutFlow(c)'
      <3>1. /\ Framed /\ c \in Conns /\ Me \in Conns /\ toRelay' = toRelay
            /\ shown' = shown /\ budget'.output = budget.output
            /\ toPeer = [y \in Conns |-> toPeer[y]]
        BY <2>7, OneHostFacts DEF Lost, Inv, Framed, ToPeerFramed, hostVars, clientVars
      <3>2. CASE toPeer'[c] = toPeer[c]
        BY <1>2, <2>1, <2>2, <3>1, <3>2, SameAlike, OutputShuts, OutputKept
      <3>3. CASE toPeer'[c] # toPeer[c]
        <4>1. x = c /\ Hangup(c) /\ link[c] = "open"
          BY <2>7, <3>1, <3>3 DEF Lost, Hangup
        <4>2. toPeer'[c] = << >> /\ link'[c] = "cut"
          BY <3>1, <4>1 DEF Hangup, Inv, Framed, LinkTypes, Up
        <4>3. ~OutOn(c)'
          BY <4>2 DEF OutOn, Up
        <4> QED BY <2>1, <2>2, <3>1, <4>2, <4>3, OutputLost
      <3> QED BY <3>2, <3>3
    <2> QED BY <2>3, <2>4, <2>5, <2>6, <2>7 DEF Next, ProgramStep
  <1> QED BY <1>1, <1>2

---------------------------------------------------------------------------
(* The steps that the tunnel sees.                                         *)
TunnelInv ==
    /\ Inv /\ Opened /\ HostPlaced
    /\ \A c \in Clients \ Browsers :
         Pipeline(c) /\ Keyed(c) /\ Placed(c) /\ Agreed(c) /\ InFlow(c) /\ OutFlow(c)

LEMMA InitTunnel == Init => TunnelInv
  BY InitInv, InitKnown, InitPlaced, InitPipeline, InitKeyed, InitAgreed, InitInFlow,
     InitOutFlow DEF TunnelInv

LEMMA NextTunnel ==
    ASSUME HasOutput, TunnelInv, [Next]_vars
    PROVE  TunnelInv'
  <1>1. Inv /\ Opened /\ HostPlaced
    BY DEF TunnelInv
  <1>2. Inv' /\ Opened' /\ HostPlaced'
    BY <1>1, NextInv, OpenedKept, NextHostPlaced
  <1>3. ASSUME NEW c \in Clients \ Browsers
        PROVE  /\ Pipeline(c)' /\ Keyed(c)' /\ Placed(c)' /\ Agreed(c)' /\ InFlow(c)'
               /\ OutFlow(c)'
    <2>1. Pipeline(c) /\ Keyed(c) /\ Placed(c) /\ Agreed(c) /\ InFlow(c) /\ OutFlow(c)
      BY DEF TunnelInv
    <2> QED BY <1>1, <2>1, NextPipeline, NextKeyed, NextPlaced, NextAgreed, NextInFlow,
               NextOutFlow
  <1> QED BY <1>2, <1>3 DEF TunnelInv

TunnelVars ==
    <<[c \in Terminals |-> typed[c]], [c \in Terminals |-> injected[c]],
      budget.output, [c \in Terminals |-> shown[c]]>>

Part(f) == [d \in Terminals |-> f[d]]

LEMMA Restricted ==
    ASSUME NEW f, NEW g, DOMAIN f = Clients, NEW c \in Clients, NEW v,
           g = [f EXCEPT ![c] = v]
    PROVE  /\ c \in Terminals => Part(g) = [Part(f) EXCEPT ![c] = v]
           /\ c \notin Terminals => Part(g) = Part(f)
  <1>1. \A d \in Terminals : d \in Clients
    BY DEF Terminals
  <1>2. \A d \in Clients : g[d] = IF d = c THEN v ELSE f[d]
    OBVIOUS
  <1> QED BY <1>1, <1>2 DEF Part

LEMMA Injects ==
    ASSUME TunnelInv, OnInput, UNCHANGED clientVars
    PROVE  \/ [d \in Terminals |-> injected'[d]] = [d \in Terminals |-> injected[d]]
           \/ \E c \in Terminals : Tunnels!Inject(c)
  <1> DEFINE Accepts(c) == /\ c = Got(Me).client
                           /\ c \in ReadyClients /\ Opens(KeyOf(c), Got(Me).data)
  <1>1. injected' = injected \/ \E c \in Clients : Accepts(c)
    BY DEF OnInput, ReadyClients
  <1>2. ASSUME NEW c \in Clients, Accepts(c), c \notin Terminals
        PROVE  [d \in Terminals |-> injected'[d]] = [d \in Terminals |-> injected[d]]
    <2>1. DOMAIN injected = Clients
      BY DEF TunnelInv, Inv, HostTypes, Heard
    <2>2. injected' = [injected EXCEPT ![c] = Append(injected[c], Got(Me).data.plain)]
      BY <1>2 DEF OnInput
    <2>3. Part(injected') = Part(injected)
      <3> DEFINE v == Append(injected[c], Got(Me).data.plain)
      <3> HIDE DEF v
      <3>1. injected' = [injected EXCEPT ![c] = v]
        BY <2>2 DEF v
      <3> QED BY <1>2, <2>1, <3>1, Restricted
    <2> QED BY <2>3 DEF Part
  <1>3. ASSUME NEW c \in Terminals, Accepts(c)
        PROVE  Tunnels!Inject(c)
    <2>1. HostReads("input") /\ Inv /\ c \in Clients /\ c \notin Browsers
      BY <1>3 DEF OnInput, TunnelInv, ReadyClients, Terminals
    <2>2. /\ OwnKey(c) \in crypto[c] /\ Got(Me).type = "input"
          /\ Takes(toPeer[Me], toPeer'[Me]) /\ toPeer[Me][1] = Got(Me)
      BY <1>3, <2>1, InputRead DEF TunnelInv, HostReads
    <2>3. Keystrokes(c)
      BY <2>1, <2>2 DEF TunnelInv, InFlow, Refused
    <2> DEFINE q == toPeer[Me]
               q2 == toPeer'[Me]
               r == toRelay[c]
               on == InOn(c)
               up == InUp(c)
               a == Len(injected[c])
               w == typed[c]
    <2>4. /\ Flow(q, r, "input", c, NoClient, a, w, on, up)
          /\ Takes(q, q2) /\ Is(q[1], "input", c) /\ q[1] = Got(Me)
          /\ a \in Nat /\ w \in Nat /\ Len(q) \in Nat
      BY <1>3, <2>1, <2>2, <2>3, InputCounts, Lengths, OneHostFacts
         DEF Keystrokes, Is, Inv
    <2>5. Got(Me).data.plain = Piece("input", a + 1) /\ a + 1 <= w
      <3>1. Is(Got(Me), "input", c) /\ Got(Me) = q[1]
        BY <2>4
      <3> HIDE DEF q, q2, r, on, up, a, w
      <3>2. q[1].data.plain = Piece("input", a + 1) /\ a + 1 <= w
        BY <2>4, FlowRead
      <3> QED BY <3>1, <3>2
    <2>6. Piece("input", a + 1) = [input |-> a + 1]
      BY DEF Piece
    <2>7. /\ injected' = [injected EXCEPT ![c] = Append(injected[c], [input |-> a + 1])]
          /\ UNCHANGED <<typed, budget.output, shown>>
      BY <1>3, <2>5, <2>6 DEF OnInput, clientVars
    <2>8. DOMAIN injected = Clients
      BY <2>1 DEF Inv, HostTypes, Heard
    <2> DEFINE v == Append(injected[c], [input |-> a + 1])
               restricted == [d \in Terminals |-> injected[d]]
    <2>9. [d \in Terminals |-> injected'[d]] = [restricted EXCEPT ![c] = v]
      <3> HIDE DEF v
      <3>1. injected' = [injected EXCEPT ![c] = v]
        BY <2>7 DEF v
      <3>2. DOMAIN injected = Clients /\ c \in Clients /\ c \in Terminals
        BY <2>1, <2>8
      <3>3. Part(injected') = [Part(injected) EXCEPT ![c] = v]
        BY <3>1, <3>2, Restricted, Zenon
      <3> QED BY <3>3 DEF Part
    <2>10. restricted[c] = injected[c] /\ [d \in Terminals |-> typed[d]][c] = typed[c]
      BY <1>3
    <2> QED BY <1>3, <2>5, <2>7, <2>9, <2>10 DEF Tunnels!Inject
  <1> QED BY <1>1, <1>2, <1>3

LEMMA Shows ==
    ASSUME TunnelInv, NEW c \in Terminals, OnOutput(c), UNCHANGED <<relayVars, hostVars>>
    PROVE  shown' = shown \/ Tunnels!Show(c)
  <1>1. Inv /\ Keyed(c) /\ OutFlow(c) /\ c \in Clients /\ c \notin Browsers
    BY DEF TunnelInv, Terminals
  <1>2. /\ Got(c) \in Sealing(c) /\ Is(Got(c), "output", c) /\ Arrived(c) /\ Get(c)
        /\ toRelay'[Me] = toRelay[Me] /\ link' = link
    BY <1>1, OutputSealed DEF OnOutput, ClientReads, Is
  <1>3. PICK a \in Nat : Output(c, a) /\ LastShown(c, a)
    BY <1>1 DEF OutFlow
  <1>4. /\ Got(c).data.plain = Piece("output", a + 1) /\ a + 1 \in 1..budget.output
    <2>1. Got(c).data.plain = Piece("output", a + 1) /\ a + 1 <= budget.output
      BY <1>1, <1>2, <1>3, OutputTaken
    <2> QED BY <1>1, <2>1, OutputCounts
  <1>5. \A n : Piece("output", n) = [output |-> n]
    BY DEF Piece
  <1>6. shown[c] # << >> => a + 1 = shown[c][Len(shown[c])].output + 1
    BY <1>3, <1>5 DEF LastShown
  <1> DEFINE v == Append(shown[c], [output |-> a + 1])
             restricted == [d \in Terminals |-> shown[d]]
  <1>7. shown' = shown \/ shown' = [shown EXCEPT ![c] = v]
    BY <1>4, <1>5 DEF OnOutput
  <1>8. UNCHANGED <<typed, injected, budget.output>>
    BY DEF OnOutput, hostVars
  <1>9. restricted[c] = shown[c] /\ DOMAIN shown = Clients
    BY <1>1 DEF Inv, ClientTypes
  <1>10. ASSUME shown' = [shown EXCEPT ![c] = v]
         PROVE  [d \in Terminals |-> shown'[d]] = [restricted EXCEPT ![c] = v]
    <2> HIDE DEF v
    <2>1. DOMAIN shown = Clients /\ c \in Clients /\ c \in Terminals
      BY <1>1, <1>9
    <2>2. shown' = [shown EXCEPT ![c] = v]
      BY <1>10
    <2>3. Part(shown') = [Part(shown) EXCEPT ![c] = v]
      BY <2>1, <2>2, Restricted
    <2> QED BY <2>3 DEF Part
  <1>11. ASSUME shown' = [shown EXCEPT ![c] = v] PROVE Tunnels!Show(c)
    BY <1>4, <1>6, <1>8, <1>9, <1>10, <1>11 DEF Tunnels!Show
  <1> QED BY <1>7, <1>11

LEMMA Types ==
    ASSUME Inv, NEW c \in Terminals, SendInput(c), UNCHANGED hostVars
    PROVE  Tunnels!Type(c)
  <1> DEFINE v == typed[c] + 1
             restricted == [d \in Terminals |-> typed[d]]
  <1>1. typed' = [typed EXCEPT ![c] = v] /\ UNCHANGED <<injected, budget.output, shown>>
    BY DEF SendInput, hostVars
  <1>2. restricted[c] = typed[c] /\ DOMAIN typed = Clients /\ c \in Clients
    BY DEF Inv, ClientTypes, Terminals
  <1>3. [d \in Terminals |-> typed'[d]] = [restricted EXCEPT ![c] = v]
    <2> HIDE DEF v
    <2>1. Part(typed') = [Part(typed) EXCEPT ![c] = v]
      BY <1>1, <1>2, Restricted
    <2> QED BY <2>1 DEF Part
  <1> QED BY <1>1, <1>2, <1>3 DEF Tunnels!Type

LEMMA Produces ==
    ASSUME Inv, ReadOutput, UNCHANGED clientVars
    PROVE  Tunnels!Produce
  <1>1. budget \in [output : 0..MaxOutput, resize : 0..MaxResizes, ping : 0..MaxHostPings]
    BY DEF Inv, HostTypes, Flags
  <1>2. budget'.output = budget.output + 1
    BY <1>1 DEF ReadOutput, Spend
  <1> QED BY <1>2 DEF ReadOutput, clientVars, Tunnels!Produce

LEMMA ClientSteps ==
    ASSUME NEW c \in Terminals, ClientStep(c)
    PROVE  \/ UNCHANGED <<typed, shown>>
           \/ SendInput(c) /\ UNCHANGED shown
           \/ OnOutput(c) /\ UNCHANGED typed
  <1>1. c \in Clients /\ c \notin Browsers
    BY DEF Terminals
  <1>2. CASE Join(c) \/ SetOnOutput(c) \/ LatencyPings(c) \/ OnHostPing(c) \/ OnOther(c)
    BY <1>2 DEF Join, SetOnOutput, LatencyPings, OnHostPing, OnOther, clientVars
  <1>3. CASE ReadLoopFails(c) \/ CloseClient(c) \/ HandshakeFails(c)
    BY <1>3 DEF ReadLoopFails, CloseClient, HandshakeFails, Fail
  <1>4. CASE OnSessionJoined(c) \/ OnHostKey(c) \/ OnHostVerify(c)
               \/ KeyPairGenerated(c) \/ KeyDerived(c)
    BY <1>4 DEF OnSessionJoined, OnHostKey, OnHostVerify, KeyPairGenerated, KeyDerived
  <1>5. CASE SendInput(c) \/ OnOutput(c)
    BY <1>5 DEF SendInput, OnOutput
  <1> QED BY <1>1, <1>2, <1>3, <1>4, <1>5, BrowserOnly
          DEF ClientStep, ClientHandshake, ClientReadLoop

LEMMA TunnelSteps ==
    ASSUME HasOutput, TunnelInv, [Next]_vars
    PROVE  Tunnels!Next \/ UNCHANGED TunnelVars
  <1>1. Inv
    BY DEF TunnelInv
  <1>2. CASE UNCHANGED vars \/ RelayStep \/ \E x \in Conns : Lost(x)
    BY <1>2 DEF vars, RelayStep, Lost, hostVars, clientVars, TunnelVars
  <1>3. CASE HostStep /\ UNCHANGED <<relayVars, clientVars>>
    <2>1. CASE ReadOutput
      BY <1>1, <1>3, <2>1, Produces DEF Tunnels!Next
    <2>2. CASE ~ReadOutput
      <3>1. budget'.output = budget.output /\ UNCHANGED <<typed, shown>>
        <4>1. UNCHANGED clientVars
          BY <1>3
        <4> QED BY <1>1, <1>3, <2>2, <4>1, OtherBudget DEF clientVars
      <3>2. injected' = injected \/ OnInput
        BY <1>3, HostInbox
      <3>3. CASE [d \in Terminals |-> injected'[d]] = [d \in Terminals |-> injected[d]]
        BY <3>1, <3>3 DEF TunnelVars
      <3>4. CASE \E c \in Terminals : Tunnels!Inject(c)
        BY <3>4 DEF Tunnels!Next
      <3> QED BY <1>3, <3>2, <3>3, <3>4, Injects
    <2> QED BY <2>1, <2>2
  <1>4. ASSUME NEW c \in Terminals, ClientStep(c), UNCHANGED <<relayVars, hostVars>>
        PROVE  Tunnels!Next \/ UNCHANGED TunnelVars
    <2>1. UNCHANGED <<injected, budget.output>>
      BY <1>4 DEF hostVars
    <2>2. CASE UNCHANGED <<typed, shown>>
      BY <2>1, <2>2 DEF TunnelVars
    <2>3. CASE SendInput(c)
      <3>1. Tunnels!Type(c)
        BY <1>1, <1>4, <2>3, Types
      <3> QED BY <3>1 DEF Tunnels!Next
    <2>4. CASE OnOutput(c) /\ UNCHANGED typed
      <3>1. shown' = shown \/ Tunnels!Show(c)
        BY <1>4, <2>4, Shows
      <3> QED BY <2>1, <2>4, <3>1 DEF Tunnels!Next, TunnelVars
    <2> QED BY <1>4, <2>2, <2>3, <2>4, ClientSteps
  <1>5. ASSUME NEW c \in Clients, c \notin Terminals, ClientStep(c),
               UNCHANGED <<relayVars, hostVars>>
        PROVE  UNCHANGED TunnelVars
    <2>1. UNCHANGED <<injected, budget.output>>
      BY <1>5 DEF hostVars
    <2>2. \A d \in Terminals : d \in Clients /\ d # c
      BY <1>5 DEF Terminals
    <2>3. \A d \in Terminals : typed'[d] = typed[d] /\ shown'[d] = shown[d]
      BY <1>1, <1>5, <2>2, OneHostFacts, OthersUntouched
    <2> QED BY <2>1, <2>3 DEF TunnelVars
  <1> QED BY <1>2, <1>3, <1>4, <1>5 DEF Next, ProgramStep

(* In terminal mode the whole system - relay, host program, clients,       *)
(* encryption, and connections that may be lost at any moment - implements *)
(* the tunnel that each command-line client sees, beside any number of     *)
(* browsers: its keystrokes are injected once each (host.go:598), in order *)
(* and without a gap, and what its callback is given (client.go:236) is a  *)
(* run of consecutive pieces of what the terminal has produced.            *)
THEOREM KeytunIsTunnel == ASSUME HasOutput PROVE Spec => TunnelSpec
  <1>1. Init => Tunnels!Init
    <2>1. SUFFICES ASSUME Init PROVE Tunnels!Init
      OBVIOUS
    <2>2. \A c \in Terminals : c \in Clients
      BY DEF Terminals
    <2>3. \A c \in Terminals : typed[c] = 0 /\ injected[c] = << >> /\ shown[c] = << >>
      BY <2>1, <2>2 DEF Init, HostInit, ClientInit
    <2>4. budget.output = 0
      BY <2>1 DEF Init, HostInit
    <2> QED BY <2>3, <2>4 DEF Tunnels!Init
  <1>2. TunnelInv /\ [Next]_vars => TunnelInv'
    BY NextTunnel
  <1>3. TunnelInv /\ [Next]_vars => [Tunnels!Next]_TunnelVars
    BY TunnelSteps
  <1> QED BY <1>1, <1>2, <1>3, InitTunnel, PTL
          DEF Spec, TunnelSpec, Tunnels!Spec, TunnelVars

=============================================================================
