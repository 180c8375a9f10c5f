--------------------------- MODULE BrowserProofs ---------------------------
(***************************************************************************)
(* Proofs about BrowserSession, for any number of attempts: the client is  *)
(* not stranded, its chains of attempts do not multiply, what is typed is  *)
(* encrypted with the right key unless attempts overlap, and disconnect()  *)
(* leaves only timers that were replaced.                                  *)
(***************************************************************************)
EXTENDS BrowserSession, SequenceTheorems, FiniteSetTheorems, TLAPS

(* An attempt that is about to wait has no waiter.                         *)
Waiting ==
    /\ \A i, j \in 1..Len(waiters) : waiters[i].by = waiters[j].by => i = j
    /\ \A i \in 1..Len(waiters) :
         pc[waiters[i].by] \notin {"none", "opening", "generating"}

Ticking == timer \/ loose > 0

(* The latest attempt: its socket is in use with handlers, or its end has  *)
(* set a timer.                                                            *)
Recovering ==
    /\ pc[ws] # "none"
    /\ pc[ws] = "done" => aesKey # None
    /\ pc[ws] \notin {"opening", "failed"} => sock[ws] \in {"open", "closing", "closed"}
    /\ sock[ws] = "open" => handled[ws]
    /\ ~intentional =>
         /\ sock[ws] = "closing" => pc[ws] = "failed"
         /\ sock[ws] = "closed" => Ticking \/ pc[ws] = "failed"
         /\ pc[ws] = "failed" /\ ws # 1 => Ticking

(* Until an attempt begins beside another or beside a live socket, only    *)
(* the latest attempt is under way and only its socket in use.             *)
Solo ==
    /\ \A a \in Underway : a = ws
    /\ \A w \in InUse : w = ws

(* And the key it derives is that of its own socket, as is the one that is *)
(* encrypting, as long as no attempt has begun since.                      *)
Keyed ==
    /\ aesKey # None => aesKey = ws /\ pc[ws] = "done"
    /\ pc[ws] = "exchanging" /\ sock[ws] = "open" => hostKey[ws] = ws
    /\ pc[ws] = "deriving" \/ aesKey # None => from[ws] = ws /\ hostKey[ws] = ws
    /\ input # NoInput /\ input.on = ws =>
         /\ input.key = ws /\ pc[ws] = "done"
         /\ from[ws] = ws /\ hostKey[ws] = ws

(* The timers that run, and the bound on the chains.                       *)
Timers == (IF timer THEN 1 ELSE 0) + loose

Counted ==
    /\ pc[1] # "none"
    /\ intentional => ~timer
    /\ \A a \in Attempts : pc[a] = "none" => sock[a] = "none"
    /\ input # NoInput => pc[input.on] # "none"
    /\ Chains <= Cardinality(LostSockets)

Types ==
    /\ pc \in [Attempts -> AttemptState]
    /\ ws \in Attempts
    /\ sock \in [Attempts -> SocketState]
    /\ handled \in [Attempts -> BOOLEAN]
    /\ at \in [Attempts -> {"new", "asked", "joined", "refused", "keyed"}]
    /\ hostKey \in [Attempts -> Attempts \cup {None}]
    /\ inbox \in [Attempts -> Seq(Answers \cup {"error"})]
    /\ waiters \in Seq([type : Answers, by : Attempts])
    /\ from \in [Attempts -> Attempts \cup {None}]
    /\ aesKey \in Attempts \cup {None}
    /\ intentional \in BOOLEAN /\ timer \in BOOLEAN
    /\ loose \in Nat
    /\ input \in [key : Attempts, on : Attempts] \cup {NoInput}
    /\ mixed \in BOOLEAN /\ dropped \in Attempts \cup {None}

Inv ==
    /\ Types /\ Waiting /\ Recovering /\ Counted
    /\ ~mixed => Solo /\ Keyed

---------------------------------------------------------------------------
(* The list of waiters.                                                    *)

(* A set of positions has a first and a last element: of the sets of the   *)
(* positions before, and after, its elements one is smallest.              *)
LEMMA Minimal ==
    ASSUME NEW n \in Nat, NEW F, F # {}, \A A \in F : A \subseteq 1..n
    PROVE  \E A \in F : \A B \in F : ~(B \subseteq A /\ B # A)
  <1> DEFINE R == StrictSubsetOrdering(1..n)
  <1>1. IsFiniteSet(1..n)
    BY FS_Interval
  <1>2. FiniteSubsetsOf(1..n) = SUBSET (1..n)
    BY <1>1, FS_FiniteSubsetsOfFinite
  <1>3. IsWellFoundedOn(R, SUBSET (1..n))
    BY <1>2, FS_StrictSubsetOrderingWellFounded
  <1>4. F \subseteq SUBSET (1..n)
    <2> SUFFICES ASSUME NEW A \in F PROVE A \in SUBSET (1..n)
      OBVIOUS
    <2> QED OBVIOUS
  <1> HIDE DEF R
  <1>5. PICK A \in F : \A B \in F : ~(<<B, A>> \in R)
    BY <1>3, <1>4, WFMin
  <1>6. ASSUME NEW B \in F, B \subseteq A, B # A PROVE FALSE
    <2> DEFINE p == <<B, A>>
    <2>1. p \in (SUBSET (1..n)) \X (SUBSET (1..n)) /\ p[1] = B /\ p[2] = A
      BY <1>4, <1>5
    <2>2. p[1] \subseteq p[2] /\ p[1] # p[2]
      BY <1>6
    <2> HIDE DEF p
    <2>3. p \in StrictSubsetOrdering(1..n)
      BY <2>1, <2>2 DEF StrictSubsetOrdering
    <2> QED BY <1>5, <2>3 DEF R, p
  <1>7. ASSUME NEW B \in F PROVE ~(B \subseteq A /\ B # A)
    BY <1>6
  <1> QED BY <1>7

LEMMA FirstLast ==
    ASSUME NEW n \in Nat, NEW T, T \subseteq 1..n, T # {}
    PROVE  /\ \E i \in T : \A j \in T : i <= j
           /\ \E i \in T : \A j \in T : i >= j
  <1>1. \E i \in T : \A j \in T : i <= j
    <2> DEFINE F == {1..i : i \in T}
    <2>1. F # {} /\ \A A \in F : A \subseteq 1..n
      <3>1. ASSUME NEW i \in T PROVE 1..i \subseteq 1..n
        OBVIOUS
      <3> QED BY <3>1
    <2>2. PICK A \in F : \A B \in F : ~(B \subseteq A /\ B # A)
      <3> HIDE DEF F
      <3> QED BY <2>1, Minimal
    <2>3. PICK i \in T : A = 1..i
      BY <2>2
    <2>4. ASSUME NEW j \in T, j < i PROVE FALSE
      <3>1. 1..j \in F
        OBVIOUS
      <3>2. 1..j \subseteq 1..i /\ i \in 1..i /\ i \notin 1..j
        BY <2>4
      <3> QED BY <2>2, <2>3, <3>1, <3>2
    <2> QED BY <2>4
  <1>2. \E i \in T : \A j \in T : i >= j
    <2> DEFINE F == {i..n : i \in T}
    <2>1. F # {} /\ \A A \in F : A \subseteq 1..n
      <3>1. ASSUME NEW i \in T PROVE i..n \subseteq 1..n
        OBVIOUS
      <3> QED BY <3>1
    <2>2. PICK A \in F : \A B \in F : ~(B \subseteq A /\ B # A)
      <3> HIDE DEF F
      <3> QED BY <2>1, Minimal
    <2>3. PICK i \in T : A = i..n
      BY <2>2
    <2>4. ASSUME NEW j \in T, j > i PROVE FALSE
      <3>1. j..n \in F
        OBVIOUS
      <3>2. j..n \subseteq i..n /\ i \in i..n /\ i \notin j..n
        BY <2>4
      <3> QED BY <2>2, <2>3, <3>1, <3>2
    <2> QED BY <2>4
  <1> QED BY <1>1, <1>2

LEMMA WithoutOne ==
    ASSUME NEW S, NEW s \in Seq(S), NEW i \in 1..Len(s)
    PROVE  /\ Without(s, i) \in Seq(S)
           /\ Len(Without(s, i)) = Len(s) - 1
           /\ \A j \in 1..(Len(s) - 1) :
                Without(s, i)[j] = IF j < i THEN s[j] ELSE s[j + 1]
  <1> DEFINE a == SubSeq(s, 1, i - 1)
             b == SubSeq(s, i + 1, Len(s))
             n == Len(s)
  <1>1. n \in Nat /\ \A j \in 1..n : s[j] \in S
    BY LenProperties, ElementOfSeq
  <1>2. /\ a \in Seq(S) /\ Len(a) = i - 1
        /\ \A j \in 1..(i - 1) : a[j] = s[j]
    <2>1. /\ a \in Seq(S)
          /\ Len(a) = IF 1 <= i - 1 THEN (i - 1) - 1 + 1 ELSE 0
          /\ \A j \in 1..((i - 1) - 1 + 1) : a[j] = s[1 + j - 1]
      BY <1>1, SubSeqProperties
    <2> HIDE DEF a
    <2>2. (i - 1) - 1 + 1 = i - 1 /\ i - 1 >= 0 /\ \A j \in 1..(i - 1) : 1 + j - 1 = j
      BY <1>1
    <2>3. (IF 1 <= i - 1 THEN i - 1 ELSE 0) = i - 1
      BY <2>2
    <2> QED BY <2>1, <2>2, <2>3
  <1>3. /\ b \in Seq(S) /\ Len(b) = n - i
        /\ \A j \in 1..(n - i) : b[j] = s[i + j]
    <2>1. /\ b \in Seq(S)
          /\ Len(b) = IF i + 1 <= n THEN n - (i + 1) + 1 ELSE 0
          /\ \A j \in 1..(n - (i + 1) + 1) : b[j] = s[(i + 1) + j - 1]
      BY <1>1, SubSeqProperties
    <2> HIDE DEF b
    <2>2. n - (i + 1) + 1 = n - i /\ n - i >= 0
          /\ \A j \in 1..(n - i) : (i + 1) + j - 1 = i + j
      BY <1>1
    <2>3. ~(i + 1 <= n) => n - i = 0
      BY <1>1
    <2> HIDE DEF n
    <2>4. Len(b) = n - i
      BY <2>1, <2>2, <2>3
    <2>5. \A j \in 1..(n - i) : b[j] = s[i + j]
      BY <2>1, <2>2
    <2> QED BY <2>1, <2>4, <2>5
  <1>4. Without(s, i) = a \o b
    BY DEF Without
  <1> HIDE DEF a, b, n
  <1>5. /\ a \o b \in Seq(S) /\ Len(a \o b) = Len(a) + Len(b)
        /\ \A j \in 1..(Len(a) + Len(b)) :
             (a \o b)[j] = IF j <= Len(a) THEN a[j] ELSE b[j - Len(a)]
    BY <1>2, <1>3, ConcatProperties
  <1>6. Len(a) + Len(b) = n - 1 /\ i \in 1..n
    BY <1>1, <1>2, <1>3 DEF n
  <1>7. ASSUME NEW j \in 1..(n - 1)
        PROVE  (a \o b)[j] = IF j < i THEN s[j] ELSE s[j + 1]
    <2>1. CASE j < i
      <3>1. j \in 1..(i - 1) /\ j <= Len(a)
        BY <1>1, <1>2, <1>6, <2>1
      <3> QED BY <1>2, <1>5, <1>6, <2>1, <3>1
    <2>2. CASE ~(j < i)
      <3>1. ~(j <= Len(a)) /\ j - Len(a) \in 1..(n - i) /\ i + (j - Len(a)) = j + 1
        BY <1>1, <1>2, <1>6, <2>2
      <3> QED BY <1>3, <1>5, <1>6, <2>2, <3>1
    <2> QED BY <2>1, <2>2
  <1> QED BY <1>4, <1>5, <1>6, <1>7 DEF n

LEMMA TypesOK == Types /\ Waiting => TypeOK
  <1> SUFFICES ASSUME Types, Waiting PROVE TypeOK
    OBVIOUS
  <1>1. DOMAIN waiters = 1..Len(waiters)
    BY LenProperties DEF Types
  <1>2. \A i, j \in DOMAIN waiters : waiters[i].by = waiters[j].by => i = j
    BY <1>1 DEF Waiting
  <1> QED BY <1>2 DEF Types, TypeOK

(* What an attempt that waits, one that is given an answer or gives up,    *)
(* and any other step make of the list.                                    *)
LEMMA ListWait ==
    ASSUME Types, Waiting, NEW a \in Attempts, NEW type \in Answers, Wait(a, type),
           pc[a] \in {"none", "opening", "generating"},
           NEW state, Goto(a, state), state \notin {"none", "opening", "generating"}
    PROVE  waiters' \in Seq([type : Answers, by : Attempts]) /\ Waiting'
  <1> DEFINE e == [type |-> type, by |-> a]
             W == [type : Answers, by : Attempts]
             n == Len(waiters)
  <1>1. e \in W /\ e.by = a /\ waiters \in Seq(W) /\ waiters' = Append(waiters, e)
    BY DEF Types, Wait
  <1> HIDE DEF e, W
  <1>2. n \in Nat /\ \A i \in 1..n : waiters[i] \in W
    BY <1>1, LenProperties, ElementOfSeq
  <1>3. /\ waiters' \in Seq(W) /\ Len(waiters') = n + 1
        /\ \A i \in 1..n : waiters'[i] = waiters[i]
        /\ waiters'[n + 1] = e
    BY <1>1, <1>2, AppendProperties
  <1>4. /\ pc'[a] = state /\ \A b \in Attempts \ {a} : pc'[b] = pc[b]
        /\ \A i \in 1..n : waiters[i].by \in Attempts
    BY <1>2 DEF Types, Goto, W
  <1>5. /\ \A i, j \in 1..n : waiters[i].by = waiters[j].by => i = j
        /\ \A i \in 1..n : pc[waiters[i].by] \notin {"none", "opening", "generating"}
    BY DEF Waiting
  <1> HIDE DEF n
  <1>6. \A i \in 1..n : waiters[i].by # a
    BY <1>5
  <1>7. \A i \in 1..(n + 1) : i \in 1..n \/ i = n + 1
    BY <1>2
  <1>8. \A i, j \in 1..(n + 1) : waiters'[i].by = waiters'[j].by => i = j
    BY <1>1, <1>3, <1>5, <1>6, <1>7
  <1>9. \A i \in 1..(n + 1) : pc'[waiters'[i].by] \notin {"none", "opening", "generating"}
    BY <1>1, <1>3, <1>4, <1>5, <1>6, <1>7
  <1> QED BY <1>3, <1>8, <1>9 DEF Waiting, W

LEMMA ListWithout ==
    ASSUME Types, Waiting, NEW i \in 1..Len(waiters), waiters' = Without(waiters, i),
           \A a \in Attempts :
             \/ a = waiters[i].by
             \/ pc[a] \notin {"none", "opening", "generating"} =>
                  pc'[a] \notin {"none", "opening", "generating"}
    PROVE  waiters' \in Seq([type : Answers, by : Attempts]) /\ Waiting'
  <1> DEFINE W == [type : Answers, by : Attempts]
             n == Len(waiters)
             at2(j) == IF j < i THEN j ELSE j + 1
  <1>1. waiters \in Seq(W) /\ n \in Nat /\ \A j \in 1..n : waiters[j] \in W
    BY LenProperties, ElementOfSeq DEF Types
  <1> HIDE DEF W
  <1>2. /\ waiters' \in Seq(W) /\ Len(waiters') = n - 1
        /\ \A j \in 1..(n - 1) :
             waiters'[j] = IF j < i THEN waiters[j] ELSE waiters[j + 1]
    BY <1>1, WithoutOne
  <1>3. \A j \in 1..n : waiters[j].by \in Attempts
    BY <1>1 DEF W
  <1>4. /\ \A j, k \in 1..n : waiters[j].by = waiters[k].by => j = k
        /\ \A j \in 1..n : pc[waiters[j].by] \notin {"none", "opening", "generating"}
        /\ i \in 1..n
    BY DEF Waiting
  <1> HIDE DEF n
  <1>5. \A j \in 1..(n - 1) : at2(j) \in 1..n /\ at2(j) # i
    BY <1>1, <1>4
  <1>6. \A j, k \in 1..(n - 1) : at2(j) = at2(k) => j = k
    BY <1>1, <1>4
  <1>7. \A j \in 1..(n - 1) : waiters'[j] = waiters[at2(j)]
    BY <1>2
  <1> HIDE DEF at2
  <1>8. \A j, k \in 1..(n - 1) : waiters'[j].by = waiters'[k].by => j = k
    BY <1>4, <1>5, <1>6, <1>7
  <1>9. \A j \in 1..(n - 1) :
          pc'[waiters'[j].by] \notin {"none", "opening", "generating"}
    <2> SUFFICES ASSUME NEW j \in 1..(n - 1)
                 PROVE  pc'[waiters[at2(j)].by] \notin {"none", "opening", "generating"}
      BY <1>7
    <2>1. /\ waiters[at2(j)].by \in Attempts /\ waiters[at2(j)].by # waiters[i].by
          /\ pc[waiters[at2(j)].by] \notin {"none", "opening", "generating"}
      BY <1>3, <1>4, <1>5
    <2> QED BY <2>1
  <1> QED BY <1>2, <1>8, <1>9 DEF Waiting, W

LEMMA ListSame ==
    ASSUME Types, Waiting, waiters' = waiters,
           \A a \in Attempts :
             pc[a] \notin {"none", "opening", "generating"} =>
               pc'[a] \notin {"none", "opening", "generating"}
    PROVE  waiters' \in Seq([type : Answers, by : Attempts]) /\ Waiting'
  <1> DEFINE W == [type : Answers, by : Attempts]
  <1>1. waiters \in Seq(W)
    BY DEF Types
  <1> HIDE DEF W
  <1>2. \A i \in 1..Len(waiters) : waiters[i] \in W
    BY <1>1, LenProperties, ElementOfSeq
  <1>3. \A i \in 1..Len(waiters) : waiters[i].by \in Attempts
    BY <1>2 DEF W
  <1>4. Waiting'
    BY <1>3 DEF Waiting
  <1> QED BY <1>1, <1>4 DEF W

LEMMA TypedWaiters ==
    ASSUME Types, NEW type
    PROVE  /\ OfType(type) \subseteq 1..Len(waiters) /\ Len(waiters) \in Nat
           /\ OfType(type) # {} =>
                /\ (CHOOSE i \in OfType(type) : \A j \in OfType(type) : i <= j)
                     \in OfType(type)
                /\ (CHOOSE i \in OfType(type) : \A j \in OfType(type) : i >= j)
                     \in OfType(type)
  <1>1. DOMAIN waiters = 1..Len(waiters) /\ Len(waiters) \in Nat
    BY LenProperties DEF Types
  <1>2. OfType(type) \subseteq 1..Len(waiters)
    BY <1>1 DEF OfType
  <1>3. OfType(type) # {} =>
          /\ \E i \in OfType(type) : \A j \in OfType(type) : i <= j
          /\ \E i \in OfType(type) : \A j \in OfType(type) : i >= j
    BY <1>1, <1>2, FirstLast
  <1> QED BY <1>1, <1>2, <1>3

---------------------------------------------------------------------------
(* Timers and chains.                                                      *)

LEMMA FailMeans ==
    ASSUME NEW a, NEW err, ~NonRetryable(err), Fail(a, err), Types
    PROVE  /\ pc' = [pc EXCEPT ![a] = "failed"] /\ intentional' = intentional
           /\ a = 1 \/ intentional => timer' = timer /\ loose' = loose
           /\ a # 1 /\ ~intentional =>
                timer' = TRUE /\ loose' = IF timer THEN loose + 1 ELSE loose
           /\ timer' \in BOOLEAN /\ loose' \in Nat
  <1>1. /\ pc' = [pc EXCEPT ![a] = "failed"] /\ intentional' = intentional
        /\ IF a = 1 THEN UNCHANGED timers ELSE ScheduleReconnect
    BY DEF Fail, Goto
  <1>2. timer \in BOOLEAN /\ loose \in Nat
    BY DEF Types
  <1>3. UNCHANGED timers => timer' = timer /\ loose' = loose
    BY DEF timers
  <1>4. CASE a = 1
    BY <1>1, <1>2, <1>3, <1>4
  <1>5. CASE a # 1 /\ intentional
    BY <1>1, <1>2, <1>3, <1>5 DEF ScheduleReconnect
  <1>6. CASE a # 1 /\ ~intentional
    <2>1. timer' = TRUE /\ loose' = IF timer THEN loose + 1 ELSE loose
      BY <1>1, <1>6 DEF ScheduleReconnect
    <2>2. loose' \in Nat
      BY <1>2, <2>1
    <2> QED BY <1>1, <1>6, <2>1, <2>2
  <1> QED BY <1>4, <1>5, <1>6

LEMMA Retryable ==
    /\ ~NonRetryable("InvalidStateError") /\ ~NonRetryable("ConnectionFailed")
    /\ ~NonRetryable("TimedOut") /\ ~NonRetryable("OperationError")
  BY DEF NonRetryable

(* Setting a timer adds one, or replaces none.                             *)
LEMMA OneMore ==
    ASSUME Types,
           \/ timer' = timer /\ loose' = loose
           \/ timer' = TRUE /\ loose' = IF timer THEN loose + 1 ELSE loose
    PROVE  Timers' <= Timers + 1
  <1>1. timer \in BOOLEAN /\ loose \in Nat
    BY DEF Types
  <1>2. CASE timer' = timer /\ loose' = loose
    BY <1>1, <1>2 DEF Timers
  <1>3. CASE timer' = TRUE /\ loose' = IF timer THEN loose + 1 ELSE loose
    <2>1. CASE timer
      BY <1>1, <1>3, <2>1 DEF Timers
    <2>2. CASE ~timer
      BY <1>1, <1>3, <2>2 DEF Timers
    <2> QED BY <2>1, <2>2
  <1> QED BY <1>2, <1>3

LEMMA SameTimers ==
    ASSUME Types, timer' = timer /\ loose' = loose PROVE Timers' <= Timers
  BY DEF Types, Timers

LEMMA LoseOne ==
    ASSUME NEW S, IsFiniteSet(S), NEW x \in S, NEW T, T \subseteq S \ {x}
    PROVE  Cardinality(T) + 1 <= Cardinality(S)
  <1>1. IsFiniteSet(S \ {x}) /\ Cardinality(S \ {x}) = Cardinality(S) - 1
    BY FS_RemoveElement
  <1>2. IsFiniteSet(T) /\ Cardinality(T) <= Cardinality(S \ {x})
    BY <1>1, FS_Subset
  <1>3. Cardinality(S) \in Nat /\ Cardinality(T) \in Nat
    BY <1>2, FS_CardinalityType
  <1> QED BY <1>1, <1>2, <1>3

LEMMA GainOne ==
    ASSUME NEW S, IsFiniteSet(S), NEW x, NEW T, T \subseteq S \cup {x}
    PROVE  Cardinality(T) <= Cardinality(S) + 1
  <1>1. CASE x \in S
    <2>1. T \subseteq S
      BY <1>1
    <2>2. IsFiniteSet(T) /\ Cardinality(T) <= Cardinality(S)
      BY <2>1, FS_Subset
    <2>3. Cardinality(S) \in Nat /\ Cardinality(T) \in Nat
      BY <2>2, FS_CardinalityType
    <2> QED BY <2>2, <2>3
  <1>2. CASE x \notin S
    <2>1. IsFiniteSet(S \cup {x}) /\ Cardinality(S \cup {x}) = Cardinality(S) + 1
      BY <1>2, FS_AddElement
    <2>2. Cardinality(T) <= Cardinality(S \cup {x})
      BY <2>1, FS_Subset
    <2> QED BY <2>1, <2>2
  <1> QED BY <1>1, <1>2

LEMMA FiniteSets1 ==
    /\ IsFiniteSet(Underway \ {1}) /\ IsFiniteSet(LostSockets)
    /\ Cardinality(Underway \ {1}) \in Nat /\ Cardinality(LostSockets) \in Nat
  <1>1. IsFiniteSet(Attempts)
    BY AttemptsPositive, FS_Interval DEF Attempts
  <1>2. Underway \ {1} \subseteq Attempts /\ LostSockets \subseteq Attempts
    BY DEF Underway, LostSockets
  <1>3. IsFiniteSet(Underway \ {1}) /\ IsFiniteSet(LostSockets)
    BY <1>1, <1>2, FS_Subset
  <1> QED BY <1>3, FS_CardinalityType

(* The steps the bound on the chains survives: nothing is added; a timer   *)
(* takes the place of an attempt, or an attempt that of a timer; a timer   *)
(* is set for a socket that is lost.                                       *)
LEMMA Counts ==
    ASSUME Types, Types', Counted, LostSockets \subseteq LostSockets',
           \/ Underway' \ {1} \subseteq Underway \ {1} /\ Timers' <= Timers
           \/ /\ \E a \in Underway \ {1} : Underway' \ {1} \subseteq (Underway \ {1}) \ {a}
              /\ Timers' <= Timers + 1
           \/ /\ \E a : Underway' \ {1} \subseteq (Underway \ {1}) \cup {a}
              /\ Timers' <= Timers - 1
           \/ /\ Underway' \ {1} \subseteq Underway \ {1} /\ Timers' <= Timers + 1
              /\ \E w \in LostSockets' : w \notin LostSockets
    PROVE  Chains' <= Cardinality(LostSockets')
  <1> DEFINE U == Underway \ {1}
             L == LostSockets
             u == Cardinality(U)
             l == Cardinality(L)
             t == Timers
             V == Underway' \ {1}
             M == LostSockets'
             v == Cardinality(V)
             m == Cardinality(M)
             r == Timers'
  <1>1. IsFiniteSet(U) /\ IsFiniteSet(L) /\ u \in Nat /\ l \in Nat
    BY FiniteSets1
  <1>2. IsFiniteSet(V) /\ IsFiniteSet(M) /\ v \in Nat /\ m \in Nat
    <2>1. IsFiniteSet(Attempts)
      BY AttemptsPositive, FS_Interval DEF Attempts
    <2>2. V \subseteq Attempts /\ M \subseteq Attempts
      BY DEF Underway, LostSockets
    <2>3. IsFiniteSet(V) /\ IsFiniteSet(M)
      BY <2>1, <2>2, FS_Subset
    <2> QED BY <2>3, FS_CardinalityType
  <1>3. t \in Nat /\ r \in Nat
    <2>1. loose \in Nat /\ loose' \in Nat
      BY DEF Types
    <2>2. ASSUME NEW n \in Nat, NEW b PROVE (IF b THEN 1 ELSE 0) + n \in Nat
      OBVIOUS
    <2>3. (IF timer THEN 1 ELSE 0) + loose \in Nat
      BY <2>1, <2>2
    <2>4. (IF timer' THEN 1 ELSE 0) + loose' \in Nat
      BY <2>1, <2>2
    <2> QED BY <2>3, <2>4 DEF Timers
  <1>4. Chains = u + t
    <2>1. (IF timer THEN 1 ELSE 0) \in Nat /\ loose \in Nat
      BY DEF Types
    <2> HIDE DEF u
    <2>2. u + (IF timer THEN 1 ELSE 0) + loose = u + ((IF timer THEN 1 ELSE 0) + loose)
      BY <1>1, <2>1
    <2> QED BY <2>2 DEF Chains, Timers, u
  <1>5. Chains' = v + r
    <2>1. (IF timer' THEN 1 ELSE 0) \in Nat /\ loose' \in Nat
      BY DEF Types
    <2> HIDE DEF v
    <2>2. v + (IF timer' THEN 1 ELSE 0) + loose' = v + ((IF timer' THEN 1 ELSE 0) + loose')
      BY <1>2, <2>1
    <2> QED BY <2>2 DEF Chains, Timers, v
  <1>6. u + t <= l
    BY <1>4 DEF Counted
  <1>7. L \subseteq M
    OBVIOUS
  <1>8. \/ V \subseteq U /\ r <= t
        \/ (\E a \in U : V \subseteq U \ {a}) /\ r <= t + 1
        \/ (\E a : V \subseteq U \cup {a}) /\ r <= t - 1
        \/ V \subseteq U /\ r <= t + 1 /\ \E w \in M : w \notin L
    OBVIOUS
  <1> HIDE DEF U, L, t, V, M, r
  <1>9. l <= m
    BY <1>2, <1>7, FS_Subset
  <1>10. ASSUME V \subseteq U PROVE v <= u
    BY <1>1, <1>10, FS_Subset
  <1>11. ASSUME NEW a \in U, V \subseteq U \ {a} PROVE v + 1 <= u
    BY <1>1, <1>11, LoseOne
  <1>12. ASSUME NEW a, V \subseteq U \cup {a} PROVE v <= u + 1
    BY <1>1, <1>12, GainOne
  <1>13. ASSUME NEW w \in M, w \notin L PROVE l + 1 <= m
    <2>1. L \subseteq M \ {w}
      BY <1>7, <1>13
    <2> QED BY <1>2, <2>1, LoseOne
  <1> HIDE DEF u, l, v, m
  <1>14. v + r <= m
    <2>1. CASE V \subseteq U /\ r <= t
      BY <1>1, <1>2, <1>3, <1>6, <1>9, <1>10, <2>1
    <2>2. CASE (\E a \in U : V \subseteq U \ {a}) /\ r <= t + 1
      <3>1. v + 1 <= u
        BY <1>11, <2>2
      <3> QED BY <1>1, <1>2, <1>3, <1>6, <1>9, <2>2, <3>1
    <2>3. CASE (\E a : V \subseteq U \cup {a}) /\ r <= t - 1
      <3>1. v <= u + 1
        BY <1>12, <2>3
      <3> QED BY <1>1, <1>2, <1>3, <1>6, <1>9, <2>3, <3>1
    <2>4. CASE V \subseteq U /\ r <= t + 1 /\ \E w \in M : w \notin L
      <3>1. l + 1 <= m
        BY <1>13, <2>4
      <3> QED BY <1>1, <1>2, <1>3, <1>6, <1>10, <2>4, <3>1
    <2> QED BY <1>8, <2>1, <2>2, <2>3, <2>4
  <1> QED BY <1>5, <1>14 DEF M, m

(* An attempt that fails leaves the counts and the keys in order.          *)
LEMMA FailCounts ==
    ASSUME Inv, Types', NEW a \in Attempts, NEW err, ~NonRetryable(err), Fail(a, err),
           pc[a] \notin {"none", "done", "failed"},
           LostSockets \subseteq LostSockets', input' = input,
           \A b \in Attempts : sock[b] = "none" => sock'[b] = "none"
    PROVE  Counted'
  <1>1. Types /\ Counted
    BY DEF Inv
  <1>2. /\ pc' = [pc EXCEPT ![a] = "failed"] /\ intentional' = intentional
        /\ a = 1 \/ intentional => timer' = timer /\ loose' = loose
        /\ a # 1 /\ ~intentional =>
             timer' = TRUE /\ loose' = IF timer THEN loose + 1 ELSE loose
    BY <1>1, FailMeans
  <1>3. pc'[a] = "failed" /\ \A b \in Attempts : b # a => pc'[b] = pc[b]
    BY <1>1, <1>2 DEF Types
  <1>4. \A b \in Attempts : pc[b] # "none" => pc'[b] # "none"
    BY <1>3
  <1>5. pc'[1] # "none"
    BY <1>1, <1>4, AttemptsPositive DEF Counted, Attempts
  <1>6. intentional' => ~timer'
    BY <1>1, <1>2 DEF Counted
  <1>7. input' # NoInput => pc'[input'.on] # "none"
    BY <1>1, <1>4 DEF Counted, Types
  <1>8. Underway' \subseteq Underway \ {a} /\ a \in Underway
    BY <1>3 DEF Underway
  <1>9. Chains' <= Cardinality(LostSockets')
    <2>1. CASE a = 1 \/ intentional
      <3>1. Timers' <= Timers
        BY <1>1, <1>2, <2>1, SameTimers
      <3>2. Underway' \ {1} \subseteq Underway \ {1}
        BY <1>8
      <3> QED BY <1>1, <3>1, <3>2, Counts
    <2>2. CASE a # 1 /\ ~intentional
      <3>1. Timers' <= Timers + 1
        BY <1>1, <1>2, <2>2, OneMore
      <3>2. a \in Underway \ {1} /\ Underway' \ {1} \subseteq (Underway \ {1}) \ {a}
        BY <1>8, <2>2
      <3> QED BY <1>1, <3>1, <3>2, Counts
    <2> QED BY <2>1, <2>2
  <1>10. \A b \in Attempts : pc'[b] = "none" => sock'[b] = "none"
    BY <1>1, <1>4 DEF Counted
  <1> QED BY <1>5, <1>6, <1>7, <1>9, <1>10 DEF Counted

LEMMA FailKeys ==
    ASSUME Inv, ~mixed, NEW a \in Attempts, pc' = [pc EXCEPT ![a] = "failed"],
           pc[a] \notin {"none", "done", "failed"},
           \A w \in Attempts : sock'[w] = sock[w] \/ sock'[w] = "closing",
           ws' = ws, from' = from, hostKey' = hostKey, aesKey' = aesKey, input' = input
    PROVE  Solo' /\ Keyed'
  <1>1. Types /\ Solo /\ Keyed
    BY DEF Inv
  <1>2. /\ pc'[a] = "failed" /\ \A b \in Attempts : b # a => pc'[b] = pc[b]
        /\ ws \in Attempts
    BY <1>1 DEF Types
  <1>3. Underway' \subseteq Underway /\ InUse' \subseteq InUse
    BY <1>2 DEF Underway, InUse
  <1>4. Solo'
    BY <1>1, <1>3 DEF Solo
  <1>5. a = ws /\ pc'[ws] = "failed" /\ pc[ws] # "done"
    BY <1>1, <1>2 DEF Solo, Underway
  <1>6. Keyed'
    BY <1>1, <1>5 DEF Keyed
  <1> QED BY <1>4, <1>6

(* A step of an attempt that sets no timer.                                *)
LEMMA StepCounts ==
    ASSUME Inv, Types', NEW a \in Attempts, NEW to, pc' = [pc EXCEPT ![a] = to],
           to # "none", pc[a] \notin {"none", "done", "failed"},
           LostSockets \subseteq LostSockets', input' = input,
           \A b \in Attempts : sock[b] = "none" => sock'[b] = "none",
           intentional' = intentional, timer' = timer, loose' = loose
    PROVE  Counted'
  <1>1. Types /\ Counted
    BY DEF Inv
  <1>2. pc'[a] = to /\ \A b \in Attempts : b # a => pc'[b] = pc[b]
    BY <1>1 DEF Types
  <1>3. \A b \in Attempts : pc[b] # "none" => pc'[b] # "none"
    BY <1>2
  <1>4. pc'[1] # "none"
    BY <1>1, <1>3, AttemptsPositive DEF Counted, Attempts
  <1>5. input' # NoInput => pc'[input'.on] # "none"
    BY <1>1, <1>3 DEF Counted, Types
  <1>6. Underway' \ {1} \subseteq Underway \ {1}
    BY <1>2 DEF Underway
  <1>7. Timers' <= Timers
    BY <1>1, SameTimers
  <1>8. Chains' <= Cardinality(LostSockets')
    BY <1>1, <1>6, <1>7, Counts
  <1>9. \A b \in Attempts : pc'[b] = "none" => sock'[b] = "none"
    BY <1>1, <1>3 DEF Counted
  <1> QED BY <1>1, <1>4, <1>5, <1>8, <1>9 DEF Counted

(* A step that moves no attempt and sets no timer.                         *)
LEMMA StillCounts ==
    ASSUME Inv, Types', pc' = pc, LostSockets \subseteq LostSockets',
           \A b \in Attempts : sock[b] = "none" => sock'[b] = "none",
           input' # NoInput => input' = input \/ input'.on = ws,
           intentional' = intentional, timer' = timer, loose' = loose
    PROVE  Counted'
  <1>1. Types /\ Counted /\ Recovering
    BY DEF Inv
  <1>2. input' # NoInput => pc'[input'.on] # "none"
    BY <1>1 DEF Counted, Recovering
  <1>3. Underway' \ {1} \subseteq Underway \ {1}
    BY DEF Underway
  <1>4. Timers' <= Timers
    BY <1>1, SameTimers
  <1>5. Chains' <= Cardinality(LostSockets')
    BY <1>1, <1>3, <1>4, Counts
  <1>6. \A b \in Attempts : pc'[b] = "none" => sock'[b] = "none"
    BY <1>1 DEF Counted
  <1> QED BY <1>1, <1>2, <1>5, <1>6 DEF Counted

---------------------------------------------------------------------------
(* One lemma for each action.                                              *)

LEMMA InitInv == Init => Inv
  <1> SUFFICES ASSUME Init PROVE Inv
    OBVIOUS
  <1>1. 1 \in Attempts /\ None = 0
    BY AttemptsPositive DEF Attempts, None
  <1>2. Types
    <2>1. \A S : << >> \in Seq(S)
      OBVIOUS
    <2>2. waiters \in Seq([type : Answers, by : Attempts])
      BY <2>1 DEF Init
    <2>3. inbox \in [Attempts -> Seq(Answers \cup {"error"})]
      BY <2>1 DEF Init
    <2> QED BY <1>1, <2>2, <2>3 DEF Init, Types, AttemptState, SocketState
  <1>3. Len(waiters) = 0
    BY DEF Init
  <1>4. Waiting
    BY <1>3 DEF Waiting
  <1>5. Recovering
    BY <1>1 DEF Init, Recovering
  <1>6. pc[1] = "opening" /\ \A a \in Attempts : a # 1 => pc[a] = "none" /\ sock[a] = "none"
    BY <1>1 DEF Init
  <1>7. Solo
    BY <1>1, <1>6 DEF Init, Solo, Underway, InUse
  <1>8. Keyed
    BY <1>1 DEF Init, Keyed
  <1>9. Counted
    <2>1. Underway \ {1} = {}
      BY <1>6 DEF Underway
    <2>2. Cardinality(Underway \ {1}) = 0
      BY <2>1, FS_EmptySet
    <2>3. Chains = 0
      BY <2>2 DEF Init, Chains
    <2>4. Cardinality(LostSockets) \in Nat
      BY FiniteSets1
    <2>5. Chains <= Cardinality(LostSockets)
      BY <2>3, <2>4
    <2> QED BY <1>6, <2>5 DEF Init, Counted
  <1> QED BY <1>2, <1>4, <1>5, <1>7, <1>8, <1>9 DEF Inv

LEMMA StutterInv == ASSUME Inv, UNCHANGED vars PROVE Inv'
  <1>1. Types'
    BY DEF Inv, Types, vars, attempt, socket, peer, timers, history
  <1>2. Waiting'
    BY DEF Inv, Waiting, vars, attempt, socket, peer, timers
  <1>3. Recovering'
    BY DEF Inv, Recovering, Ticking, vars, attempt, socket, peer, timers
  <1>4. ~mixed' => Solo'
    BY DEF Inv, Solo, Underway, InUse, vars, attempt, socket, history
  <1>5. ~mixed' => Keyed'
    BY DEF Inv, Keyed, vars, attempt, socket, peer, history
  <1>6. Counted'
    <2>1. /\ pc' = pc /\ sock' = sock /\ handled' = handled /\ input' = input
          /\ intentional' = intentional /\ timer' = timer /\ loose' = loose
      BY DEF vars, attempt, socket, timers
    <2>2. LostSockets' = LostSockets
      BY <2>1 DEF LostSockets
    <2> QED BY <1>1, <2>1, <2>2, StillCounts
  <1> QED BY <1>1, <1>2, <1>3, <1>4, <1>5, <1>6 DEF Inv

LEMMA AttemptReconnectInv ==
    ASSUME Inv, NEW a \in Attempts, AttemptReconnect(a) PROVE Inv'
  <1>1. /\ pc[a] = "none" /\ pc' = [pc EXCEPT ![a] = "opening"]
        /\ sock' = [sock EXCEPT ![a] = "connecting"]
        /\ ws' = a /\ aesKey' = None /\ waiters' = << >>
    BY DEF AttemptReconnect, OpenWebSocket, Goto
  <1>2. /\ from' = from /\ handled' = handled /\ at' = at
        /\ hostKey' = hostKey /\ inbox' = inbox /\ intentional' = intentional
        /\ input' = input /\ dropped' = dropped
        /\ mixed' = (mixed \/ Underway \cup InUse # {})
    BY DEF AttemptReconnect, peer
  <1>3. /\ timer' = FALSE
        /\ \/ timer /\ loose' = loose
           \/ loose > 0 /\ loose' = IF timer THEN loose ELSE loose - 1
    BY DEF AttemptReconnect, TimerFires
  <1>4. Types /\ Counted
    BY DEF Inv
  <1>5. Types'
    <2>1. loose' \in Nat
      BY <1>3, <1>4 DEF Types
    <2>2. waiters' \in Seq([type : Answers, by : Attempts])
      BY <1>1
    <2>3. mixed' \in BOOLEAN
      BY <1>2
    <2> QED BY <1>1, <1>2, <1>3, <1>4, <2>1, <2>2, <2>3 DEF Types, AttemptState, SocketState
  <1>6. Waiting'
    <2>1. Len(waiters') = 0
      BY <1>1
    <2> QED BY <2>1 DEF Waiting
  <1>7. /\ pc'[a] = "opening" /\ sock'[a] = "connecting"
        /\ \A b \in Attempts : b # a => pc'[b] = pc[b] /\ sock'[b] = sock[b]
    BY <1>1, <1>4 DEF Types
  <1>8. Recovering'
    BY <1>1, <1>2, <1>7 DEF Recovering
  <1>9. ASSUME ~mixed' PROVE Solo' /\ Keyed'
    <2>1. ~mixed /\ Underway = {} /\ InUse = {}
      BY <1>2, <1>9
    <2>2. \A b \in Underway' : b = a
      BY <1>7, <2>1 DEF Underway
    <2>3. \A b \in InUse' : b = a
      BY <1>7, <2>1 DEF InUse
    <2>4. input' # NoInput => input'.on # a
      BY <1>1, <1>2, <1>4 DEF Counted
    <2>5. Solo'
      BY <1>1, <2>2, <2>3 DEF Solo
    <2>6. Keyed'
      BY <1>1, <1>7, <2>4 DEF Keyed
    <2> QED BY <2>5, <2>6
  <1>10. Counted'
    <2>1. \A b \in Attempts : pc[b] # "none" => pc'[b] # "none"
      BY <1>7
    <2>2. pc'[1] # "none"
      BY <1>4, <2>1, AttemptsPositive DEF Counted, Attempts
    <2>3. input' # NoInput => pc'[input'.on] # "none"
      BY <1>2, <1>4, <2>1 DEF Counted, Types
    <2>4. LostSockets \subseteq LostSockets'
      <3>1. ASSUME NEW w \in Attempts, sock[w] = "closed", handled[w]
            PROVE  w # a
        <4>1. sock[a] = "none"
          BY <1>1, <1>4 DEF Counted
        <4> QED BY <3>1, <4>1
      <3> QED BY <1>2, <1>7, <3>1 DEF LostSockets
    <2>5. Underway' \ {1} \subseteq (Underway \ {1}) \cup {a}
      BY <1>7 DEF Underway
    <2>6. Timers' <= Timers - 1
      <3>1. timer \in BOOLEAN /\ loose \in Nat
        BY <1>4 DEF Types
      <3>2. CASE timer /\ loose' = loose
        BY <1>3, <3>1, <3>2 DEF Timers
      <3>3. CASE timer /\ loose' # loose
        BY <1>3, <3>1, <3>3 DEF Timers
      <3>4. CASE ~timer
        BY <1>3, <3>1, <3>4 DEF Timers
      <3> QED BY <3>2, <3>3, <3>4
    <2>7. Chains' <= Cardinality(LostSockets')
      BY <1>4, <1>5, <2>4, <2>5, <2>6, Counts
    <2>8. \A b \in Attempts : pc'[b] = "none" => sock'[b] = "none"
      BY <1>4, <1>7 DEF Counted
    <2> QED BY <1>3, <2>2, <2>3, <2>7, <2>8 DEF Counted
  <1> QED BY <1>5, <1>6, <1>8, <1>9, <1>10 DEF Inv

LEMMA OpenedInv == ASSUME Inv, NEW a \in Attempts, Opened(a) PROVE Inv'
  <1>1. /\ pc[a] = "opening" /\ sock[a] = "connecting"
        /\ sock' = [sock EXCEPT ![a] = "open"]
        /\ handled' = [handled EXCEPT ![ws] = TRUE]
        /\ ws' = ws /\ from' = from /\ hostKey' = hostKey
        /\ inbox' = inbox /\ aesKey' = aesKey
        /\ input' = input /\ mixed' = mixed /\ dropped' = dropped
    BY DEF Opened, history
  <1>2. Types /\ Waiting /\ Recovering
    BY DEF Inv
  <1>3. /\ sock'[a] = "open" /\ \A b \in Attempts : b # a => sock'[b] = sock[b]
        /\ handled'[ws] /\ \A b \in Attempts : b # ws => handled'[b] = handled[b]
        /\ ws \in Attempts
    BY <1>1, <1>2 DEF Types
  <1>4. LostSockets \subseteq LostSockets'
    BY <1>1, <1>3 DEF LostSockets
  <1>5. \A b \in Attempts : sock[b] = "none" => sock'[b] = "none"
    BY <1>1, <1>3
  <1>6. CASE sock'[ws] = "connecting"
    <2>1. Fail(a, "InvalidStateError") /\ at' = at /\ waiters' = waiters
      BY <1>6 DEF Opened
    <2>2. /\ pc' = [pc EXCEPT ![a] = "failed"] /\ intentional' = intentional
          /\ a = 1 \/ intentional => timer' = timer /\ loose' = loose
          /\ a # 1 /\ ~intentional =>
               timer' = TRUE /\ loose' = IF timer THEN loose + 1 ELSE loose
          /\ timer' \in BOOLEAN /\ loose' \in Nat
      BY <1>2, <2>1, FailMeans, Retryable
    <2>3. a # ws
      BY <1>3, <1>6
    <2>4. pc'[a] = "failed" /\ \A b \in Attempts : b # a => pc'[b] = pc[b]
      BY <1>2, <2>2 DEF Types
    <2>5. waiters' \in Seq([type : Answers, by : Attempts]) /\ Waiting'
      BY <1>2, <2>1, <2>4, ListSame
    <2>6. Types'
      BY <1>1, <1>2, <2>1, <2>2, <2>5 DEF Types, AttemptState, SocketState
    <2>7. Ticking => Ticking'
      BY <1>2, <2>2 DEF Ticking, Types
    <2>8. Recovering'
      BY <1>1, <1>2, <1>3, <2>2, <2>3, <2>4, <2>7 DEF Recovering
    <2>9. mixed
      BY <1>1, <2>3 DEF Inv, Solo, InUse
    <2>10. Counted'
      BY <1>1, <1>4, <1>5, <2>1, <2>6, Retryable, FailCounts
    <2> QED BY <1>1, <2>5, <2>6, <2>8, <2>9, <2>10 DEF Inv
  <1>7. CASE sock'[ws] # "connecting"
    <2>1. /\ Goto(a, "joining") /\ Wait(a, "session_joined")
          /\ intentional' = intentional /\ timer' = timer /\ loose' = loose
      BY <1>7 DEF Opened, timers
    <2>2. at' \in [Attempts -> {"new", "asked", "joined", "refused", "keyed"}]
      <3>1. at' = [at EXCEPT ![ws] = "asked"] \/ at' = at
        BY <1>7 DEF Opened
      <3> QED BY <1>2, <3>1 DEF Types
    <2>3. waiters' \in Seq([type : Answers, by : Attempts]) /\ Waiting'
      BY <1>1, <1>2, <2>1, ListWait DEF Answers
    <2>4. pc'[a] = "joining" /\ \A b \in Attempts : b # a => pc'[b] = pc[b]
      BY <1>2, <2>1 DEF Types, Goto
    <2>5. Types'
      BY <1>1, <1>2, <2>1, <2>2, <2>3 DEF Types, Goto, AttemptState, SocketState
    <2>6. Recovering'
      BY <1>1, <1>2, <1>3, <2>1, <2>4 DEF Recovering, Ticking
    <2>7. ASSUME ~mixed' PROVE Solo' /\ Keyed'
      <3>1. Solo /\ Keyed
        BY <1>1, <2>7 DEF Inv
      <3>2. a = ws /\ a \in Underway
        BY <1>1, <3>1 DEF Solo, Underway
      <3>3. \A b \in Underway' : b = ws
        BY <2>4, <3>1, <3>2 DEF Solo, Underway
      <3>4. \A b \in InUse' : b = ws
        BY <1>3, <3>1, <3>2 DEF Solo, InUse
      <3>5. Solo'
        BY <1>1, <3>3, <3>4 DEF Solo
      <3>6. aesKey = None /\ (input # NoInput => input.on # ws)
        BY <1>1, <3>1, <3>2 DEF Keyed
      <3>7. Keyed'
        BY <1>1, <2>4, <3>2, <3>6 DEF Keyed
      <3> QED BY <3>5, <3>7
    <2>8. Counted'
      BY <1>1, <1>4, <1>5, <2>1, <2>5, StepCounts DEF Goto
    <2> QED BY <1>1, <2>3, <2>5, <2>6, <2>7, <2>8 DEF Inv
  <1> QED BY <1>6, <1>7

LEMMA OpenFailsInv == ASSUME Inv, NEW a \in Attempts, OpenFails(a) PROVE Inv'
  <1>1. /\ pc[a] = "opening" /\ sock[a] \in {"connecting", "closing"}
        /\ sock' = [sock EXCEPT ![a] = "closing"] /\ Fail(a, "ConnectionFailed")
        /\ ws' = ws /\ handled' = handled /\ from' = from
        /\ at' = at /\ hostKey' = hostKey /\ inbox' = inbox
        /\ waiters' = waiters /\ aesKey' = aesKey
        /\ input' = input /\ mixed' = mixed /\ dropped' = dropped
    BY DEF OpenFails, peer, history
  <1>2. Types /\ Waiting /\ Recovering
    BY DEF Inv
  <1>3. /\ pc' = [pc EXCEPT ![a] = "failed"] /\ intentional' = intentional
        /\ a = 1 \/ intentional => timer' = timer /\ loose' = loose
        /\ a # 1 /\ ~intentional =>
             timer' = TRUE /\ loose' = IF timer THEN loose + 1 ELSE loose
        /\ timer' \in BOOLEAN /\ loose' \in Nat
    BY <1>1, <1>2, FailMeans, Retryable
  <1>4. /\ pc'[a] = "failed" /\ sock'[a] = "closing"
        /\ \A b \in Attempts : b # a => pc'[b] = pc[b] /\ sock'[b] = sock[b]
        /\ ws \in Attempts
    BY <1>1, <1>2, <1>3 DEF Types
  <1>5. waiters' \in Seq([type : Answers, by : Attempts]) /\ Waiting'
    BY <1>1, <1>2, <1>4, ListSame
  <1>6. Types'
    BY <1>1, <1>2, <1>3, <1>5 DEF Types, AttemptState, SocketState
  <1>7. (Ticking => Ticking') /\ (a # 1 /\ ~intentional => Ticking')
    BY <1>2, <1>3 DEF Ticking, Types
  <1>8. Recovering'
    BY <1>1, <1>2, <1>3, <1>4, <1>7 DEF Recovering
  <1>9. ~mixed' => Solo' /\ Keyed'
    <2>1. \A w \in Attempts : sock'[w] = sock[w] \/ sock'[w] = "closing"
      BY <1>4
    <2> QED BY <1>1, <1>3, <2>1, FailKeys
  <1>10. Counted'
    <2>1. LostSockets \subseteq LostSockets'
      BY <1>1, <1>4 DEF LostSockets
    <2>2. \A b \in Attempts : sock[b] = "none" => sock'[b] = "none"
      BY <1>1, <1>4
    <2> QED BY <1>1, <1>6, <2>1, <2>2, Retryable, FailCounts
  <1> QED BY <1>5, <1>6, <1>8, <1>9, <1>10 DEF Inv

LEMMA KeyPairGeneratedInv ==
    ASSUME Inv, NEW a \in Attempts, KeyPairGenerated(a) PROVE Inv'
  <1>1. /\ pc[a] = "generating"
        /\ ws' = ws /\ sock' = sock /\ handled' = handled
        /\ from' = from /\ at' = at /\ inbox' = inbox /\ aesKey' = aesKey
        /\ input' = input /\ mixed' = mixed /\ dropped' = dropped
    BY DEF KeyPairGenerated, socket, history
  <1>2. Types /\ Waiting /\ Recovering
    BY DEF Inv
  <1>3. LostSockets' = LostSockets
    BY <1>1 DEF LostSockets
  <1>4. CASE sock[ws] = "connecting"
    <2>1. Fail(a, "InvalidStateError") /\ hostKey' = hostKey /\ waiters' = waiters
      BY <1>4 DEF KeyPairGenerated
    <2>2. /\ pc' = [pc EXCEPT ![a] = "failed"] /\ intentional' = intentional
          /\ a = 1 \/ intentional => timer' = timer /\ loose' = loose
          /\ a # 1 /\ ~intentional =>
               timer' = TRUE /\ loose' = IF timer THEN loose + 1 ELSE loose
          /\ timer' \in BOOLEAN /\ loose' \in Nat
      BY <1>2, <2>1, FailMeans, Retryable
    <2>3. a # ws
      BY <1>1, <1>2, <1>4 DEF Recovering
    <2>4. pc'[a] = "failed" /\ \A b \in Attempts : b # a => pc'[b] = pc[b]
      BY <1>2, <2>2 DEF Types
    <2>5. waiters' \in Seq([type : Answers, by : Attempts]) /\ Waiting'
      BY <1>2, <2>1, <2>4, ListSame
    <2>6. Types'
      BY <1>1, <1>2, <2>1, <2>2, <2>5 DEF Types, AttemptState, SocketState
    <2>7. Ticking => Ticking'
      BY <1>2, <2>2 DEF Ticking, Types
    <2>8. pc'[ws] = pc[ws]
      BY <1>2, <2>3, <2>4 DEF Types
    <2>9. Recovering'
      BY <1>1, <1>2, <2>2, <2>7, <2>8 DEF Recovering
    <2>10. mixed
      BY <1>1, <2>3 DEF Inv, Solo, Underway
    <2>11. Counted'
      BY <1>1, <1>3, <2>1, <2>6, Retryable, FailCounts
    <2> QED BY <1>1, <2>5, <2>6, <2>9, <2>10, <2>11 DEF Inv
  <1>5. CASE sock[ws] # "connecting"
    <2>1. /\ Goto(a, "exchanging") /\ Wait(a, "key_exchange")
          /\ hostKey' = IF sock[ws] = "open"
                          THEN [hostKey EXCEPT ![ws] = a] ELSE hostKey
          /\ intentional' = intentional /\ timer' = timer /\ loose' = loose
      BY <1>5 DEF KeyPairGenerated, timers
    <2>2. waiters' \in Seq([type : Answers, by : Attempts]) /\ Waiting'
      BY <1>1, <1>2, <2>1, ListWait DEF Answers
    <2>3. pc'[a] = "exchanging" /\ \A b \in Attempts : b # a => pc'[b] = pc[b]
      BY <1>2, <2>1 DEF Types, Goto
    <2>4. hostKey' \in [Attempts -> Attempts \cup {None}] /\ ws \in Attempts
      BY <1>2, <2>1 DEF Types
    <2>5. Types'
      BY <1>1, <1>2, <2>1, <2>2, <2>4 DEF Types, Goto, AttemptState, SocketState
    <2>6. Recovering'
      BY <1>1, <1>2, <2>1, <2>3, <2>4 DEF Recovering, Ticking
    <2>7. ASSUME ~mixed' PROVE Solo' /\ Keyed'
      <3>1. Solo /\ Keyed
        BY <1>1, <2>7 DEF Inv
      <3>2. a = ws /\ a \in Underway
        BY <1>1, <3>1 DEF Solo, Underway
      <3>3. (\A b \in Underway' : b = ws) /\ InUse' = InUse
        BY <1>1, <2>3, <3>1, <3>2 DEF Solo, Underway, InUse
      <3>4. Solo'
        BY <1>1, <3>1, <3>3 DEF Solo
      <3>5. aesKey = None /\ (input # NoInput => input.on # ws)
        BY <1>1, <3>1, <3>2 DEF Keyed
      <3>6. sock[ws] = "open" => hostKey'[ws] = ws
        BY <1>2, <2>1, <3>2 DEF Types
      <3>7. Keyed'
        BY <1>1, <2>3, <3>2, <3>5, <3>6 DEF Keyed
      <3> QED BY <3>4, <3>7
    <2>8. Counted'
      BY <1>1, <1>3, <2>1, <2>5, StepCounts DEF Goto
    <2> QED BY <1>1, <2>2, <2>5, <2>6, <2>7, <2>8 DEF Inv
  <1> QED BY <1>4, <1>5

LEMMA KeyDerivedInv == ASSUME Inv, NEW a \in Attempts, KeyDerived(a) PROVE Inv'
  <1>1. /\ pc[a] = "deriving" /\ pc' = [pc EXCEPT ![a] = "done"] /\ aesKey' = a
        /\ ws' = ws /\ sock' = sock /\ handled' = handled
        /\ from' = from /\ at' = at /\ hostKey' = hostKey /\ inbox' = inbox
        /\ waiters' = waiters /\ intentional' = intentional
        /\ timer' = timer /\ loose' = loose
        /\ input' = input /\ mixed' = mixed /\ dropped' = dropped
    BY DEF KeyDerived, Goto, socket, peer, timers, history
  <1>2. Types /\ Waiting /\ Recovering
    BY DEF Inv
  <1>3. /\ pc'[a] = "done" /\ \A b \in Attempts : b # a => pc'[b] = pc[b]
        /\ ws \in Attempts /\ a # None
    BY <1>1, <1>2, AttemptsPositive DEF Types, Attempts, None
  <1>4. waiters' \in Seq([type : Answers, by : Attempts]) /\ Waiting'
    BY <1>1, <1>2, <1>3, ListSame
  <1>5. Types'
    BY <1>1, <1>2, <1>4 DEF Types, AttemptState, SocketState
  <1>6. Recovering'
    BY <1>1, <1>2, <1>3 DEF Recovering, Ticking
  <1>7. ASSUME ~mixed' PROVE Solo' /\ Keyed'
    <2>1. Solo /\ Keyed
      BY <1>1, <1>7 DEF Inv
    <2>2. a = ws /\ a \in Underway
      BY <1>1, <2>1 DEF Solo, Underway
    <2>3. (\A b \in Underway' : b = ws) /\ InUse' = InUse
      BY <1>1, <1>3, <2>1, <2>2 DEF Solo, Underway, InUse
    <2>4. Solo'
      BY <1>1, <2>1, <2>3 DEF Solo
    <2>5. /\ from[ws] = ws /\ hostKey[ws] = ws
          /\ input # NoInput => input.on # ws
      BY <1>1, <2>1, <2>2 DEF Keyed
    <2>6. Keyed'
      BY <1>1, <1>3, <2>2, <2>5 DEF Keyed
    <2> QED BY <2>4, <2>6
  <1>8. Counted'
    <2>1. LostSockets' = LostSockets
      BY <1>1 DEF LostSockets
    <2> QED BY <1>1, <1>5, <2>1, StepCounts
  <1> QED BY <1>1, <1>4, <1>5, <1>6, <1>7, <1>8 DEF Inv

(* An attempt that fails and leaves the sockets as they are.               *)
LEMMA FailInv ==
    ASSUME Inv, NEW a \in Attempts, NEW err, ~NonRetryable(err), Fail(a, err),
           pc[a] \notin {"none", "opening", "done", "failed"},
           waiters' \in Seq([type : Answers, by : Attempts]), Waiting',
           UNCHANGED <<ws, socket, from, peer, inbox, aesKey, input, history>>
    PROVE  Inv'
  <1>1. /\ ws' = ws /\ sock' = sock /\ handled' = handled /\ from' = from
        /\ at' = at /\ hostKey' = hostKey /\ inbox' = inbox /\ aesKey' = aesKey
        /\ input' = input /\ mixed' = mixed /\ dropped' = dropped
    BY DEF socket, peer, history
  <1>2. Types /\ Recovering
    BY DEF Inv
  <1>3. /\ pc' = [pc EXCEPT ![a] = "failed"] /\ intentional' = intentional
        /\ a = 1 \/ intentional => timer' = timer /\ loose' = loose
        /\ a # 1 /\ ~intentional =>
             timer' = TRUE /\ loose' = IF timer THEN loose + 1 ELSE loose
        /\ timer' \in BOOLEAN /\ loose' \in Nat
    BY <1>2, FailMeans
  <1>4. /\ pc'[a] = "failed" /\ \A b \in Attempts : b # a => pc'[b] = pc[b]
        /\ ws \in Attempts
    BY <1>2, <1>3 DEF Types
  <1>5. Types'
    BY <1>1, <1>2, <1>3 DEF Types, AttemptState, SocketState
  <1>6. (Ticking => Ticking') /\ (a # 1 /\ ~intentional => Ticking')
    BY <1>2, <1>3 DEF Ticking, Types
  <1>7. Recovering'
    BY <1>1, <1>2, <1>3, <1>4, <1>6 DEF Recovering
  <1>8. ~mixed' => Solo' /\ Keyed'
    BY <1>1, <1>3, FailKeys
  <1>9. Counted'
    <2>1. LostSockets' = LostSockets
      BY <1>1 DEF LostSockets
    <2> QED BY <1>1, <1>5, <2>1, FailCounts
  <1> QED BY <1>5, <1>7, <1>8, <1>9 DEF Inv

LEMMA CryptoFailsInv == ASSUME Inv, NEW a \in Attempts, CryptoFails(a) PROVE Inv'
  <1>1. /\ pc[a] \in {"generating", "deriving"} /\ Fail(a, "OperationError")
        /\ waiters' = waiters
        /\ UNCHANGED <<ws, socket, from, peer, inbox, aesKey, input, history>>
    BY DEF CryptoFails
  <1>2. Types /\ Waiting
    BY DEF Inv
  <1>3. pc' = [pc EXCEPT ![a] = "failed"]
    BY <1>1, <1>2, FailMeans, Retryable
  <1>4. waiters' \in Seq([type : Answers, by : Attempts]) /\ Waiting'
    <2>1. pc'[a] = "failed" /\ \A b \in Attempts : b # a => pc'[b] = pc[b]
      BY <1>2, <1>3 DEF Types
    <2> QED BY <1>1, <1>2, <2>1, ListSame
  <1> QED BY <1>1, <1>4, Retryable, FailInv

LEMMA HandshakeTimeoutInv ==
    ASSUME Inv, NEW a \in Attempts, HandshakeTimeout(a) PROVE Inv'
  <1>1. /\ pc[a] \in {"joining", "exchanging"} /\ Fail(a, "TimedOut")
        /\ UNCHANGED <<ws, socket, from, peer, inbox, aesKey, input, history>>
    BY DEF HandshakeTimeout
  <1>2. Types /\ Waiting
    BY DEF Inv
  <1>3. pc' = [pc EXCEPT ![a] = "failed"]
    BY <1>1, <1>2, FailMeans, Retryable
  <1>4. pc'[a] = "failed" /\ \A b \in Attempts : b # a => pc'[b] = pc[b]
    BY <1>2, <1>3 DEF Types
  <1>5. waiters' \in Seq([type : Answers, by : Attempts]) /\ Waiting'
    <2>1. CASE OfType(Awaited(a)) = {}
      <3>1. waiters' = waiters
        BY <2>1 DEF HandshakeTimeout
      <3> QED BY <1>2, <1>4, <3>1, ListSame
    <2>2. CASE OfType(Awaited(a)) # {}
      <3> DEFINE type == Awaited(a)
                 i == CHOOSE i \in OfType(type) : \A j \in OfType(type) : i <= j
      <3>1. waiters' = Without(waiters, i)
        BY <2>2 DEF HandshakeTimeout
      <3>2. OfType(type) # {}
        BY <2>2
      <3> HIDE DEF type
      <3>3. i \in 1..Len(waiters)
        BY <1>2, <3>2, TypedWaiters
      <3> HIDE DEF i
      <3> QED BY <1>2, <1>4, <3>1, <3>3, ListWithout
    <2> QED BY <2>1, <2>2
  <1> QED BY <1>1, <1>5, Retryable, FailInv

LEMMA ResolveMeans ==
    ASSUME NEW b, NEW type, NEW w, Resolve(b, type, w)
    PROVE  \/ /\ pc[b] = "joining" /\ pc' = [pc EXCEPT ![b] = "generating"]
              /\ from' = from
           \/ /\ pc[b] = "exchanging" /\ pc' = [pc EXCEPT ![b] = "deriving"]
              /\ from' = [from EXCEPT ![b] = w]
           \/ pc' = pc /\ from' = from
  <1>1. CASE pc[b] = "joining" /\ type = "session_joined"
    BY <1>1 DEF Resolve, Goto
  <1>2. CASE pc[b] = "exchanging" /\ type = "key_exchange"
    BY <1>2 DEF Resolve, Goto
  <1>3. CASE /\ ~(pc[b] = "joining" /\ type = "session_joined")
             /\ ~(pc[b] = "exchanging" /\ type = "key_exchange")
    BY <1>3 DEF Resolve, attempt
  <1> QED BY <1>1, <1>2, <1>3

LEMMA OnMessageInv == ASSUME Inv, NEW w \in Attempts, OnMessage(w) PROVE Inv'
  <1> DEFINE type == Head(inbox[w])
             i == CHOOSE k \in OfType(type) : \A j \in OfType(type) : k >= j
             b == waiters[i].by
  <1>1. /\ sock[w] = "open" /\ inbox[w] # << >>
        /\ inbox' = [inbox EXCEPT ![w] = Tail(@)]
        /\ ws' = ws /\ sock' = sock /\ handled' = handled
        /\ at' = at /\ hostKey' = hostKey /\ aesKey' = aesKey
        /\ intentional' = intentional /\ timer' = timer /\ loose' = loose
        /\ input' = input /\ mixed' = mixed /\ dropped' = dropped
    BY DEF OnMessage, socket, peer, timers, history
  <1>2. Types /\ Waiting /\ Recovering
    BY DEF Inv
  <1>3. inbox' \in [Attempts -> Seq(Answers \cup {"error"})]
    <2> DEFINE A == Answers \cup {"error"}
    <2>1. inbox \in [Attempts -> Seq(A)]
      BY <1>2 DEF Types
    <2> HIDE DEF A
    <2>2. Tail(inbox[w]) \in Seq(A)
      BY <1>1, <2>1
    <2>3. inbox' \in [Attempts -> Seq(A)]
      BY <1>1, <2>1, <2>2
    <2> QED BY <2>3 DEF A
  <1>4. LostSockets' = LostSockets
    BY <1>1 DEF LostSockets
  <1>5. CASE OfType(type) = {}
    <2>1. pc' = pc /\ from' = from /\ waiters' = waiters
      BY <1>5 DEF OnMessage, attempt
    <2>2. waiters' \in Seq([type : Answers, by : Attempts]) /\ Waiting'
      BY <1>2, <2>1, ListSame
    <2>3. Types'
      BY <1>1, <1>2, <1>3, <2>1, <2>2 DEF Types
    <2>4. Recovering'
      BY <1>1, <1>2, <2>1 DEF Recovering, Ticking
    <2>5. ~mixed' => Solo' /\ Keyed'
      BY <1>1, <2>1 DEF Inv, Solo, Keyed, Underway, InUse
    <2>6. Counted'
      BY <1>1, <1>4, <2>1, <2>3, StillCounts
    <2> QED BY <2>2, <2>3, <2>4, <2>5, <2>6 DEF Inv
  <1>6. CASE OfType(type) # {}
    <2>1. waiters' = Without(waiters, i) /\ Resolve(b, type, w)
      BY <1>6 DEF OnMessage
    <2> HIDE DEF type
    <2>2. i \in 1..Len(waiters)
      BY <1>2, <1>6, TypedWaiters
    <2> HIDE DEF i
    <2>3. b \in Attempts
      <3> DEFINE W == [type : Answers, by : Attempts]
      <3>1. waiters \in Seq(W)
        BY <1>2 DEF Types
      <3> HIDE DEF W
      <3>2. waiters[i] \in W
        BY <2>2, <3>1, ElementOfSeq
      <3> QED BY <3>2 DEF W
    <2>4. \/ /\ pc[b] = "joining" /\ pc' = [pc EXCEPT ![b] = "generating"]
             /\ from' = from
          \/ /\ pc[b] = "exchanging" /\ pc' = [pc EXCEPT ![b] = "deriving"]
             /\ from' = [from EXCEPT ![b] = w]
          \/ pc' = pc /\ from' = from
      BY <2>1, ResolveMeans
    <2>5. \A a \in Attempts : a # b => pc'[a] = pc[a] /\ from'[a] = from[a]
      BY <1>2, <2>3, <2>4 DEF Types
    <2>6. waiters' \in Seq([type : Answers, by : Attempts]) /\ Waiting'
      BY <1>2, <2>1, <2>2, <2>5, ListWithout
    <2> HIDE DEF b
    <2>7. Types'
      <3>1. pc' \in [Attempts -> AttemptState]
        BY <1>2, <2>4 DEF Types, AttemptState
      <3>2. from' \in [Attempts -> Attempts \cup {None}]
        BY <1>2, <2>4 DEF Types
      <3> QED BY <1>1, <1>2, <1>3, <2>6, <3>1, <3>2 DEF Types
    <2>8. /\ \/ pc[b] = "joining" /\ pc'[b] = "generating" /\ from'[b] = from[b]
             \/ pc[b] = "exchanging" /\ pc'[b] = "deriving" /\ from'[b] = w
             \/ pc'[b] = pc[b] /\ from'[b] = from[b]
          /\ ws \in Attempts
      BY <1>2, <2>3, <2>4 DEF Types
    <2>9. Recovering'
      BY <1>1, <1>2, <2>5, <2>8 DEF Recovering, Ticking
    <2>10. ASSUME ~mixed' PROVE Solo' /\ Keyed'
      <3>1. Solo /\ Keyed
        BY <1>1, <2>10 DEF Inv
      <3>2. w = ws
        BY <1>1, <3>1 DEF Solo, InUse
      <3>3. Underway' = Underway /\ InUse' = InUse
        BY <1>1, <2>5, <2>8 DEF Underway, InUse
      <3>4. Solo'
        BY <1>1, <3>1, <3>3 DEF Solo
      <3>5. pc[b] \in {"joining", "exchanging"} => b = ws
        BY <2>3, <3>1 DEF Solo, Underway
      <3>6. CASE b = ws /\ pc[b] = "joining" /\ pc'[b] = "generating" /\ from'[b] = from[b]
        BY <1>1, <3>1, <3>4, <3>6 DEF Keyed
      <3>7. CASE b = ws /\ pc[b] = "exchanging" /\ pc'[b] = "deriving" /\ from'[b] = w
        BY <1>1, <3>1, <3>2, <3>4, <3>7 DEF Keyed
      <3>8. CASE pc'[ws] = pc[ws] /\ from'[ws] = from[ws]
        BY <1>1, <3>1, <3>4, <3>8 DEF Keyed
      <3> QED BY <2>5, <2>8, <3>5, <3>6, <3>7, <3>8
    <2>11. Counted'
      <3>1. CASE pc' = pc
        BY <1>1, <1>4, <2>7, <3>1, StillCounts
      <3>2. CASE pc[b] = "joining" /\ pc' = [pc EXCEPT ![b] = "generating"]
        BY <1>1, <1>4, <2>3, <2>7, <3>2, StepCounts
      <3>3. CASE pc[b] = "exchanging" /\ pc' = [pc EXCEPT ![b] = "deriving"]
        BY <1>1, <1>4, <2>3, <2>7, <3>3, StepCounts
      <3> QED BY <2>4, <3>1, <3>2, <3>3
    <2> QED BY <2>6, <2>7, <2>9, <2>10, <2>11 DEF Inv
  <1> QED BY <1>5, <1>6

LEMMA OnCloseInv == ASSUME Inv, NEW w \in Attempts, OnClose(w) PROVE Inv'
  <1>1. /\ \/ sock[w] = "closing" /\ pc[w] # "opening"
           \/ sock[w] = "open"
        /\ sock' = [sock EXCEPT ![w] = "closed"]
        /\ pc' = pc /\ ws' = ws /\ handled' = handled
        /\ from' = from /\ at' = at /\ hostKey' = hostKey /\ inbox' = inbox
        /\ waiters' = waiters /\ aesKey' = aesKey /\ intentional' = intentional
        /\ input' = input /\ mixed' = mixed /\ dropped' = dropped
    BY DEF OnClose, attempt, peer, history
  <1>2. Types /\ Waiting /\ Recovering /\ Counted
    BY DEF Inv
  <1>3. /\ ~handled[w] \/ intentional => timer' = timer /\ loose' = loose
        /\ handled[w] /\ ~intentional =>
             timer' = TRUE /\ loose' = IF timer THEN loose + 1 ELSE loose
    BY DEF OnClose, ScheduleReconnect, timers
  <1>4. timer' \in BOOLEAN /\ loose' \in Nat
    <2>1. timer \in BOOLEAN /\ loose \in Nat /\ loose + 1 \in Nat
      BY <1>2 DEF Types
    <2>2. CASE ~handled[w] \/ intentional
      BY <1>3, <2>1, <2>2
    <2>3. CASE handled[w] /\ ~intentional
      BY <1>3, <2>1, <2>3
    <2> QED BY <2>2, <2>3
  <1>5. /\ sock'[w] = "closed" /\ \A a \in Attempts : a # w => sock'[a] = sock[a]
        /\ ws \in Attempts
    BY <1>1, <1>2 DEF Types
  <1>6. waiters' \in Seq([type : Answers, by : Attempts]) /\ Waiting'
    BY <1>1, <1>2, ListSame
  <1>7. Types'
    BY <1>1, <1>2, <1>4, <1>6 DEF Types, SocketState
  <1>8. (Ticking => Ticking') /\ (handled[w] /\ ~intentional => Ticking')
    BY <1>2, <1>3 DEF Ticking, Types
  <1>9. Recovering'
    BY <1>1, <1>2, <1>5, <1>8 DEF Recovering
  <1>10. ASSUME ~mixed' PROVE Solo' /\ Keyed'
    <2>1. Solo /\ Keyed
      BY <1>1, <1>10 DEF Inv
    <2>2. InUse' \subseteq InUse /\ Underway' = Underway
      BY <1>1, <1>5 DEF InUse, Underway
    <2>3. Solo'
      BY <1>1, <2>1, <2>2 DEF Solo
    <2>4. sock'[ws] = "open" => sock[ws] = "open"
      BY <1>5
    <2> QED BY <1>1, <2>1, <2>3, <2>4 DEF Keyed
  <1>11. Counted'
    <2>1. LostSockets \subseteq LostSockets' /\ (handled[w] => w \in LostSockets')
      BY <1>1, <1>5 DEF LostSockets
    <2>2. w \notin LostSockets
      BY <1>1 DEF LostSockets
    <2>3. Underway' \ {1} \subseteq Underway \ {1}
      BY <1>1 DEF Underway
    <2>4. Chains' <= Cardinality(LostSockets')
      <3>1. CASE ~handled[w] \/ intentional
        <4>1. Timers' <= Timers
          BY <1>2, <1>3, <3>1, SameTimers
        <4> QED BY <1>2, <1>7, <2>1, <2>3, <4>1, Counts
      <3>2. CASE handled[w] /\ ~intentional
        <4>1. Timers' <= Timers + 1
          BY <1>2, <1>3, <3>2, OneMore
        <4> QED BY <1>2, <1>7, <2>1, <2>2, <2>3, <3>2, <4>1, Counts
      <3> QED BY <3>1, <3>2
    <2>5. intentional' => ~timer'
      BY <1>1, <1>2, <1>3 DEF Counted
    <2>6. \A a \in Attempts : pc'[a] = "none" => sock'[a] = "none"
      BY <1>1, <1>2, <1>5 DEF Counted
    <2> QED BY <1>1, <1>2, <2>4, <2>5, <2>6 DEF Counted
  <1> QED BY <1>6, <1>7, <1>9, <1>10, <1>11 DEF Inv

LEMMA DisconnectInv == ASSUME Inv, Disconnect PROVE Inv'
  <1>1. /\ pc[1] = "done" /\ intentional' = TRUE /\ timer' = FALSE
        /\ sock' = [sock EXCEPT ![ws] =
                      IF sock[ws] \in {"connecting", "open"} THEN "closing" ELSE sock[ws]]
        /\ pc' = pc /\ ws' = ws /\ handled' = handled
        /\ from' = from /\ at' = at /\ hostKey' = hostKey /\ inbox' = inbox
        /\ waiters' = waiters /\ aesKey' = aesKey /\ loose' = loose
        /\ input' = input /\ mixed' = mixed /\ dropped' = ws
    BY DEF Disconnect, attempt, peer
  <1>2. Types /\ Waiting /\ Recovering /\ Counted
    BY DEF Inv
  <1>3. /\ \/ sock[ws] \in {"connecting", "open"} /\ sock'[ws] = "closing"
           \/ sock[ws] \notin {"connecting", "open"} /\ sock'[ws] = sock[ws]
        /\ \A a \in Attempts : a # ws => sock'[a] = sock[a]
        /\ ws \in Attempts
    BY <1>1, <1>2 DEF Types
  <1>4. waiters' \in Seq([type : Answers, by : Attempts]) /\ Waiting'
    BY <1>1, <1>2, ListSame
  <1>5. Types'
    BY <1>1, <1>2, <1>4 DEF Types, SocketState
  <1>6. Recovering'
    BY <1>1, <1>2, <1>3 DEF Recovering
  <1>7. ASSUME ~mixed' PROVE Solo' /\ Keyed'
    <2>1. Solo /\ Keyed
      BY <1>1, <1>7 DEF Inv
    <2>2. InUse' \subseteq InUse /\ Underway' = Underway
      BY <1>1, <1>3 DEF InUse, Underway
    <2>3. Solo'
      BY <1>1, <2>1, <2>2 DEF Solo
    <2>4. sock'[ws] # "open"
      BY <1>3
    <2> QED BY <1>1, <2>1, <2>3, <2>4 DEF Keyed
  <1>8. Counted'
    <2>1. LostSockets \subseteq LostSockets'
      BY <1>1, <1>3 DEF LostSockets
    <2>2. Underway' \ {1} \subseteq Underway \ {1}
      BY <1>1 DEF Underway
    <2>3. Timers' <= Timers
      <3>1. timer \in BOOLEAN /\ loose \in Nat
        BY <1>2 DEF Types
      <3>2. CASE timer
        BY <1>1, <3>1, <3>2 DEF Timers
      <3>3. CASE ~timer
        BY <1>1, <3>1, <3>3 DEF Timers
      <3> QED BY <3>2, <3>3
    <2>4. Chains' <= Cardinality(LostSockets')
      BY <1>2, <1>5, <2>1, <2>2, <2>3, Counts
    <2>5. \A a \in Attempts : pc'[a] = "none" => sock'[a] = "none"
      BY <1>1, <1>2, <1>3 DEF Counted
    <2> QED BY <1>1, <1>2, <2>4, <2>5 DEF Counted
  <1> QED BY <1>4, <1>5, <1>6, <1>7, <1>8 DEF Inv

LEMMA InputInv == ASSUME Inv, SendInput \/ InputEncrypted PROVE Inv'
  <1>1. /\ ws' = ws /\ sock' = sock /\ handled' = handled /\ pc' = pc
        /\ from' = from /\ at' = at /\ hostKey' = hostKey /\ inbox' = inbox
        /\ waiters' = waiters /\ aesKey' = aesKey /\ intentional' = intentional
        /\ timer' = timer /\ loose' = loose /\ mixed' = mixed /\ dropped' = dropped
        /\ \/ aesKey # None /\ input' = [key |-> aesKey, on |-> ws]
           \/ input' = NoInput
    BY DEF SendInput, InputEncrypted, attempt, socket, peer, timers, history
  <1>2. Types /\ Waiting /\ Recovering
    BY DEF Inv
  <1>3. waiters' \in Seq([type : Answers, by : Attempts]) /\ Waiting'
    BY <1>1, <1>2, ListSame
  <1>4. input' \in [key : Attempts, on : Attempts] \cup {NoInput}
    BY <1>1, <1>2 DEF Types
  <1>5. Types'
    BY <1>1, <1>2, <1>3, <1>4 DEF Types
  <1>6. Recovering'
    BY <1>1, <1>2 DEF Recovering, Ticking
  <1>7. ASSUME ~mixed' PROVE Solo' /\ Keyed'
    <2>1. Solo /\ Keyed
      BY <1>1, <1>7 DEF Inv
    <2>2. Solo'
      BY <1>1, <2>1 DEF Solo, Underway, InUse
    <2>3. CASE input' = NoInput
      BY <1>1, <2>1, <2>2, <2>3 DEF Keyed
    <2>4. CASE aesKey # None /\ input' = [key |-> aesKey, on |-> ws]
      <3>1. input'.key = ws /\ input'.on = ws
        BY <2>1, <2>4 DEF Keyed
      <3> QED BY <1>1, <2>1, <2>2, <2>4, <3>1 DEF Keyed
    <2> QED BY <1>1, <2>3, <2>4
  <1>8. Counted'
    <2>1. LostSockets' = LostSockets
      BY <1>1 DEF LostSockets
    <2>2. input' # NoInput => input'.on = ws
      BY <1>1
    <2> QED BY <1>1, <1>5, <2>1, <2>2, StillCounts
  <1> QED BY <1>3, <1>5, <1>6, <1>7, <1>8 DEF Inv

LEMMA AnswerInv ==
    ASSUME Inv, NEW w \in Attempts, NEW state \in {"joined", "refused", "keyed"},
           NEW frame \in Answers \cup {"error"}, Answer(w, state, frame)
    PROVE  Inv'
  <1>1. /\ at' = [at EXCEPT ![w] = state] /\ inbox' = [inbox EXCEPT ![w] = Append(@, frame)]
        /\ pc' = pc /\ ws' = ws /\ sock' = sock /\ handled' = handled
        /\ from' = from /\ hostKey' = hostKey
        /\ waiters' = waiters /\ aesKey' = aesKey /\ intentional' = intentional
        /\ timer' = timer /\ loose' = loose
        /\ input' = input /\ mixed' = mixed /\ dropped' = dropped
    BY DEF Answer, attempt, socket, timers, history
  <1>2. Types /\ Waiting /\ Recovering
    BY DEF Inv
  <1>3. inbox' \in [Attempts -> Seq(Answers \cup {"error"})]
    <2> DEFINE A == Answers \cup {"error"}
    <2>1. inbox \in [Attempts -> Seq(A)] /\ frame \in A
      BY <1>2 DEF Types
    <2> HIDE DEF A
    <2>2. Append(inbox[w], frame) \in Seq(A)
      BY <2>1
    <2>3. inbox' \in [Attempts -> Seq(A)]
      BY <1>1, <2>1, <2>2
    <2> QED BY <2>3 DEF A
  <1>4. waiters' \in Seq([type : Answers, by : Attempts]) /\ Waiting'
    BY <1>1, <1>2, ListSame
  <1>5. Types'
    BY <1>1, <1>2, <1>3, <1>4 DEF Types
  <1>6. Recovering'
    BY <1>1, <1>2 DEF Recovering, Ticking
  <1>7. ~mixed' => Solo' /\ Keyed'
    BY <1>1 DEF Inv, Solo, Keyed, Underway, InUse
  <1>8. Counted'
    <2>1. LostSockets' = LostSockets
      BY <1>1 DEF LostSockets
    <2> QED BY <1>1, <1>5, <2>1, StillCounts
  <1> QED BY <1>4, <1>5, <1>6, <1>7, <1>8 DEF Inv

---------------------------------------------------------------------------
(* Every step keeps the invariant.                                         *)
LEMMA NextInv == ASSUME Inv, [Next]_vars PROVE Inv'
  <1>1. CASE UNCHANGED vars
    BY <1>1, StutterInv
  <1>2. ASSUME NEW a \in Attempts, AttemptReconnect(a) PROVE Inv'
    BY <1>2, AttemptReconnectInv
  <1>3. ASSUME NEW a \in Attempts, Step(a) PROVE Inv'
    BY <1>3, OpenedInv, OpenFailsInv, KeyPairGeneratedInv, KeyDerivedInv,
       CryptoFailsInv, HandshakeTimeoutInv DEF Step
  <1>4. ASSUME NEW w \in Attempts, OnMessage(w) \/ OnClose(w) PROVE Inv'
    BY <1>4, OnMessageInv, OnCloseInv
  <1>5. ASSUME NEW w \in Attempts, Accepted(w) \/ Refused(w) \/ HostKey(w) PROVE Inv'
    BY <1>5, AnswerInv DEF Accepted, Refused, HostKey, Answers
  <1> QED BY <1>1, <1>2, <1>3, <1>4, <1>5, DisconnectInv, InputInv DEF Next

LEMMA InvAlways == Spec => []Inv
  <1>1. Init => Inv
    BY InitInv
  <1>2. Inv /\ [Next]_vars => Inv'
    BY NextInv
  <1> QED BY <1>1, <1>2, PTL DEF Spec

(* Every reachable state has the types of TypeOK, and an attempt waits for *)
(* one answer at most.                                                     *)
THEOREM TypeCorrect == Spec => []TypeOK
  <1>1. Inv => TypeOK
    BY TypesOK DEF Inv
  <1> QED BY <1>1, InvAlways, PTL

(* However attempts fail, overlap and are mixed up, the chains of attempts *)
(* (see keytun-client.js:215-221 and 296-304) are never more than the      *)
(* established sockets that were closed.                                   *)
THEOREM NoMultiplying == Spec => []ChainsBounded
  <1>1. Inv => ChainsBounded
    BY DEF Inv, Counted, ChainsBounded
  <1> QED BY <1>1, InvAlways, PTL

(* The host has the key that encrypts what is typed (sendInput,            *)
(* keytun-client.js:134-138) unless an attempt began meanwhile or attempts *)
(* have overlapped.                                                        *)
THEOREM RightKey == Spec => []KeyOfSocket
  <1>1. Inv => KeyOfSocket
    BY DEF Inv, Keyed, KeyOfSocket
  <1> QED BY <1>1, InvAlways, PTL

(* Until the page disconnects it, a client that was connected is           *)
(* connected, or is trying to be, or has a timer that will.                *)
THEOREM AlwaysRecovering == Spec => []NeverStranded
  <1>1. ASSUME Inv PROVE NeverStranded
    <2> SUFFICES ASSUME pc[1] = "done", ~intentional, Underway = {}, ~Ticking
                 PROVE  aesKey # None /\ sock[ws] = "open" /\ handled[ws]
      BY DEF NeverStranded, Ticking
    <2>1. Types /\ Recovering
      BY <1>1 DEF Inv
    <2>2. pc[ws] \in {"none", "done", "failed"}
      BY <2>1 DEF Types, Underway
    <2>3. pc[ws] = "done"
      BY <2>1, <2>2 DEF Recovering
    <2> QED BY <2>1, <2>3 DEF Recovering
  <1> QED BY <1>1, InvAlways, PTL

(* After disconnect() (keytun-client.js:143-152) no timer is set, and only *)
(* timers that others had replaced start attempts, each at most one.       *)
THEOREM EndIsFinal == Spec => LastAttempts
  <1> DEFINE Final == intentional =>
                        /\ ~timer' /\ loose' <= loose
                        /\ (\E a \in Attempts : pc[a] = "none" /\ pc'[a] # "none")
                             => loose' < loose
  <1>1. ASSUME Inv, Next, intentional PROVE Final
    <2>1. Types /\ Counted
      BY <1>1 DEF Inv
    <2>2. ~timer /\ loose \in Nat
      BY <1>1, <2>1 DEF Counted, Types
    <2>3. ASSUME NEW a \in Attempts, AttemptReconnect(a) PROVE Final
      BY <2>2, <2>3 DEF AttemptReconnect, TimerFires
    <2>4. ASSUME timer' = timer, loose' = loose,
                 \A b \in Attempts : pc[b] = "none" => pc'[b] = "none"
          PROVE  Final
      BY <2>2, <2>4
    <2>5. ASSUME NEW a \in Attempts, Step(a) PROVE Final
      <3>1. \E to : pc' = [pc EXCEPT ![a] = to]
        BY <2>5 DEF Step, Opened, OpenFails, KeyPairGenerated, KeyDerived,
                    CryptoFails, HandshakeTimeout, Fail, Goto
      <3>2. pc[a] # "none"
        BY <2>5 DEF Step, Opened, OpenFails, KeyPairGenerated, KeyDerived,
                    CryptoFails, HandshakeTimeout
      <3>3. \A b \in Attempts : pc[b] = "none" => pc'[b] = "none"
        BY <2>1, <3>1, <3>2 DEF Types
      <3>4. \/ timer' = timer /\ loose' = loose
            \/ \E err : Fail(a, err) /\ ~NonRetryable(err)
        <4>1. CASE Opened(a)
          BY <4>1, Retryable DEF Opened, timers
        <4>2. CASE KeyPairGenerated(a)
          BY <4>2, Retryable DEF KeyPairGenerated, timers
        <4>3. CASE KeyDerived(a)
          BY <4>3 DEF KeyDerived, timers
        <4>4. CASE OpenFails(a) \/ CryptoFails(a) \/ HandshakeTimeout(a)
          BY <4>4, Retryable DEF OpenFails, CryptoFails, HandshakeTimeout
        <4> QED BY <2>5, <4>1, <4>2, <4>3, <4>4 DEF Step
      <3>5. timer' = timer /\ loose' = loose
        BY <1>1, <2>1, <3>4, FailMeans
      <3> QED BY <2>4, <3>3, <3>5
    <2>6. ASSUME NEW w \in Attempts, OnMessage(w) PROVE Final
      <3>1. pc' = pc \/ \E c, type : Resolve(c, type, w)
        BY <2>6 DEF OnMessage, attempt
      <3>2. pc' = pc \/ \E c, to : pc' = [pc EXCEPT ![c] = to] /\ pc[c] # "none"
        BY <3>1, ResolveMeans
      <3>3. \A b \in Attempts : pc[b] = "none" => pc'[b] = "none"
        BY <2>1, <3>2 DEF Types
      <3>4. timer' = timer /\ loose' = loose
        BY <2>6 DEF OnMessage, timers
      <3> QED BY <2>4, <3>3, <3>4
    <2>7. ASSUME NEW w \in Attempts, OnClose(w) PROVE Final
      <3>1. pc' = pc /\ timer' = timer /\ loose' = loose
        BY <1>1, <2>7 DEF OnClose, ScheduleReconnect, attempt, timers
      <3> QED BY <2>4, <3>1
    <2>8. ASSUME NEW w \in Attempts, Accepted(w) \/ Refused(w) \/ HostKey(w) PROVE Final
      <3>1. pc' = pc /\ timer' = timer /\ loose' = loose
        BY <2>8 DEF Accepted, Refused, HostKey, Answer, attempt, timers
      <3> QED BY <2>4, <3>1
    <2>9. ASSUME SendInput \/ InputEncrypted PROVE Final
      <3>1. pc' = pc /\ timer' = timer /\ loose' = loose
        BY <2>9 DEF SendInput, InputEncrypted, attempt, timers
      <3> QED BY <2>4, <3>1
    <2>10. ASSUME Disconnect PROVE Final
      <3>1. pc' = pc /\ timer' = FALSE /\ loose' = loose
        BY <2>10 DEF Disconnect, attempt
      <3> QED BY <2>2, <2>4, <3>1
    <2> HIDE DEF Final
    <2> QED BY <1>1, <2>3, <2>5, <2>6, <2>7, <2>8, <2>9, <2>10 DEF Next
  <1>2. Inv /\ [Next]_vars => [Final]_vars
    BY <1>1
  <1>3. LastAttempts <=> [][Final]_vars
    BY DEF LastAttempts
  <1> HIDE DEF Final
  <1> QED BY <1>2, <1>3, InvAlways, PTL DEF Spec

=============================================================================
