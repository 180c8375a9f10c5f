-------------------------- MODULE RateLimitProofs --------------------------
(***************************************************************************)
(* Proofs about RateLimit.  The inductive invariant says, of each bucket   *)
(* of the limiter that never sweeps: it holds at least one unit for every  *)
(* tick since the IP was last seen, or is full; and its units and what the *)
(* joins of the window have cost come to no more than a full bucket and    *)
(* the refills of the window.                                              *)
(***************************************************************************)
EXTENDS RateLimit, TLAPS

Cost(n) == Interval * n

Kept(ip) ==
    /\ present[ip] => level[ip] = ideal[ip]
    /\ ~present[ip] => ideal[ip] = Full
    /\ idle[ip] <= ideal[ip] \/ ideal[ip] = Full

Paid(ip) == Cost(admitted[ip]) + ideal[ip] <= Full + elapsed

Inv ==
    /\ TypeOK
    /\ \A ip \in IPs : Kept(ip) /\ Paid(ip)

(* A full bucket has a natural number of units, and pays for one join.     *)
LEMMA FullNat == Full \in Nat /\ Full >= Interval
  <1>1. Burst \in Nat /\ Burst >= 1 /\ Interval \in Nat
    BY BurstNat, IntervalNat
  <1> QED BY <1>1, SMT DEF Full

(* What n joins cost is a number, and one more join costs Interval more.   *)
LEMMA CostStep ==
    ASSUME NEW n \in Nat
    PROVE  Cost(n) \in Nat /\ Cost(n + 1) = Cost(n) + Interval
  BY IntervalNat, SMT DEF Cost

LEMMA InitInv == Init => Inv
  <1> SUFFICES ASSUME Init PROVE Inv
    OBVIOUS
  <1>1. TypeOK
    BY FullNat, StaleLate, HorizonNat DEF Init, TypeOK
  <1>2. Cost(0) = 0
    BY IntervalNat, SMT DEF Cost
  <1>3. \A ip \in IPs : Kept(ip)
    BY FullNat DEF Init, Kept
  <1>4. ASSUME NEW ip \in IPs PROVE Paid(ip)
    <2>1. admitted[ip] = 0 /\ ideal[ip] = Full /\ elapsed = 0
      BY DEF Init
    <2>2. Cost(admitted[ip]) = 0
      BY <1>2, <2>1
    <2> QED BY <2>1, <2>2, FullNat DEF Paid
  <1> QED BY <1>1, <1>3, <1>4 DEF Inv

LEMMA NextInv == Inv /\ [Next]_vars => Inv'
  <1> SUFFICES ASSUME Inv, [Next]_vars PROVE Inv'
    OBVIOUS
  <1> USE FullNat, StaleLate, HorizonNat, IntervalNat
  <1>1. TypeOK /\ \A ip \in IPs : Kept(ip) /\ Paid(ip)
    BY DEF Inv
  <1>2. CASE Sweep
    <2>1. TypeOK'
      BY <1>1, <1>2 DEF Sweep, TypeOK
    <2>2. ASSUME NEW ip \in IPs PROVE Kept(ip)' /\ Paid(ip)'
      BY <1>1, <1>2 DEF Sweep, TypeOK, Kept, Paid, Stale
    <2> QED BY <2>1, <2>2 DEF Inv
  <1>3. CASE Tick
    <2>1. TypeOK'
      BY <1>1, <1>3 DEF Tick, TypeOK, Refill
    <2>2. ASSUME NEW ip \in IPs PROVE Kept(ip)'
      BY <1>1, <1>3 DEF Tick, TypeOK, Kept, Refill
    <2>3. ASSUME NEW ip \in IPs PROVE Paid(ip)'
      <3>1. Cost(admitted[ip]) \in Nat
        BY <1>1, CostStep DEF TypeOK
      <3> QED BY <1>1, <1>3, <3>1 DEF Tick, TypeOK, Paid, Refill
    <2> QED BY <2>1, <2>2, <2>3 DEF Inv
  <1>4. CASE Observe
    <2>1. TypeOK'
      BY <1>1, <1>4 DEF Observe, TypeOK
    <2>2. ASSUME NEW ip \in IPs PROVE Kept(ip)' /\ Paid(ip)'
      <3>1. Cost(0) = 0
        BY SMT DEF Cost
      <3> QED BY <1>1, <1>4, <3>1 DEF Observe, TypeOK, Kept, Paid
    <2> QED BY <2>1, <2>2 DEF Inv
  <1>5. ASSUME NEW jp \in IPs, Join(jp) PROVE Inv'
    <2>1. Bucket(jp) = ideal[jp] /\ Bucket(jp) \in 0..Full
      BY <1>1 DEF TypeOK, Kept, Bucket
    <2>2. TypeOK'
      BY <1>1, <1>5, <2>1 DEF Join, TypeOK, Seen
    <2>3. ASSUME NEW ip \in IPs PROVE Kept(ip)'
      BY <1>1, <1>5, <2>1 DEF Join, TypeOK, Kept, Seen
    <2>4. ASSUME NEW ip \in IPs PROVE Paid(ip)'
      <3>1. /\ Cost(admitted[ip]) \in Nat
            /\ Cost(admitted[ip] + 1) = Cost(admitted[ip]) + Interval
        BY <1>1, CostStep DEF TypeOK
      <3>2. CASE Bucket(jp) >= Interval
        BY <1>1, <1>5, <2>1, <3>1, <3>2 DEF Join, TypeOK, Paid
      <3>3. CASE ~(Bucket(jp) >= Interval)
        BY <1>1, <1>5, <2>1, <3>1, <3>3 DEF Join, TypeOK, Paid
      <3> QED BY <3>2, <3>3
    <2> QED BY <2>2, <2>3, <2>4 DEF Inv
  <1>6. CASE UNCHANGED vars
    BY <1>1, <1>6 DEF vars, Inv, TypeOK, Kept, Paid
  <1> QED BY <1>2, <1>3, <1>4, <1>5, <1>6 DEF Next

(* The buckets keep their types and their brim.                            *)
THEOREM TypeCorrect == Spec => []TypeOK
  <1>1. Inv => TypeOK
    BY DEF Inv
  <1> QED BY InitInv, NextInv, <1>1, PTL DEF Spec

(* Sweeping stale limiters never changes what an IP is allowed, for every  *)
(* burst, interval and staleness that satisfies StaleLate.                 *)
THEOREM SweepIsUnobservable == Spec => []SweepUnobservable
  <1>1. Inv => SweepUnobservable
    BY DEF Inv, Kept, SweepUnobservable, Bucket
  <1> QED BY InitInv, NextInv, <1>1, PTL DEF Spec

(* The bound on admitted joins holds over every window of every run.       *)
THEOREM AdmissionIsBounded == Spec => []AdmissionBound
  <1>1. Inv => AdmissionBound
    <2> SUFFICES ASSUME Inv, NEW ip \in IPs
                 PROVE  Interval * admitted[ip] <= Full + elapsed
      BY DEF AdmissionBound
    <2>1. Cost(admitted[ip]) \in Nat
      BY CostStep DEF Inv, TypeOK
    <2> QED BY <2>1, FullNat, HorizonNat DEF Inv, TypeOK, Paid, Cost
  <1> QED BY InitInv, NextInv, <1>1, PTL DEF Spec

=============================================================================
