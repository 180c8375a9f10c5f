----------------------------- MODULE RateLimit -----------------------------
(***************************************************************************)
(* The relay's limit on join attempts (getLimiter, sweepStaleLimiters and  *)
(* the Allow at the head of handleClient in src/internal/relay/relay.go):  *)
(* one token bucket for each IP address, created on first use and thrown   *)
(* away when it has not been used for a while.                             *)
(*                                                                         *)
(* A bucket refills by one unit a tick; a join costs Interval units, so a  *)
(* full bucket pays for Burst joins.  Beside the real buckets the module   *)
(* keeps those of a limiter that never sweeps (ideal), and an observer     *)
(* counts, in a window that starts whenever it likes, the ticks that pass  *)
(* and the joins that are let through.                                     *)
(***************************************************************************)
EXTENDS Naturals

CONSTANTS
    IPs,
    Burst,       \* joinBurst: 10
    Interval,    \* ticks for which a join is paid: 6 s
    StaleAfter,  \* ticks without use after which a bucket goes: 5 min
    Horizon      \* bound on the length of the observer's window

Full == Burst * Interval

ASSUME BurstNat == Burst \in Nat \ {0}
ASSUME IntervalNat == Interval \in Nat \ {0}
ASSUME HorizonNat == Horizon \in Nat
(* relay.go:128 and :150: 10 * 6 s against 5 min. *)
ASSUME StaleLate == StaleAfter \in Nat /\ StaleAfter >= Full

VARIABLES
    present,   \* whether r.limiters has an entry for the IP
    level,     \* units in its bucket
    idle,      \* ticks since its lastSeen, up to one more than StaleAfter
    ideal,     \* units in the bucket of the limiter that never sweeps
    elapsed,   \* length of the observer's window
    admitted   \* joins let through in it, for each IP

vars == <<present, level, idle, ideal, elapsed, admitted>>

TypeOK ==
    /\ present \in [IPs -> BOOLEAN]
    /\ level \in [IPs -> 0..Full]
    /\ idle \in [IPs -> 0..StaleAfter + 1]
    /\ ideal \in [IPs -> 0..Full]
    /\ elapsed \in 0..Horizon
    /\ admitted \in [IPs -> Nat]

Init ==
    /\ present = [ip \in IPs |-> FALSE]
    /\ level = [ip \in IPs |-> Full]
    /\ idle = [ip \in IPs |-> 0]
    /\ ideal = [ip \in IPs |-> Full]
    /\ elapsed = 0
    /\ admitted = [ip \in IPs |-> 0]

(* getLimiter: the entry's bucket, or a new, full one.                     *)
Bucket(ip) == IF present[ip] THEN level[ip] ELSE Full

BugKeepsLastSeen(ip) ==  \* lastSeen is set when the entry is created only
    IF present[ip] THEN idle ELSE [idle EXCEPT ![ip] = 0]
Seen(ip) == [idle EXCEPT ![ip] = 0]

BugReserve(ip) ==  \* Reserve in the place of Allow: a debt is made
    /\ present' = [present EXCEPT ![ip] = TRUE]
    /\ idle' = Seen(ip)
    /\ level' = [level EXCEPT ![ip] = Bucket(ip) - Interval]
    /\ admitted' = [admitted EXCEPT ![ip] = @ + 1]
    /\ ideal' = [ideal EXCEPT ![ip] = IF @ >= Interval THEN @ - Interval ELSE @]
    /\ UNCHANGED elapsed

(* A join attempt: lastSeen is set whether it is let through or not.       *)
Join(ip) ==
    /\ present' = [present EXCEPT ![ip] = TRUE]
    /\ idle' = Seen(ip)
    /\ IF Bucket(ip) >= Interval
         THEN /\ level' = [level EXCEPT ![ip] = Bucket(ip) - Interval]
              /\ admitted' = [admitted EXCEPT ![ip] = @ + 1]
         ELSE /\ level' = [level EXCEPT ![ip] = Bucket(ip)]
              /\ UNCHANGED admitted
    /\ ideal' = [ideal EXCEPT ![ip] = IF @ >= Interval THEN @ - Interval ELSE @]
    /\ UNCHANGED elapsed

BugStaleSoon(ip) == present[ip] /\ idle[ip] > Interval  \* the wrong duration
Stale(ip) == present[ip] /\ idle[ip] > StaleAfter

(* sweepStaleLimiters, which the ticker may call at any time.              *)
Sweep ==
    /\ \E ip \in IPs : Stale(ip)
    /\ present' = [ip \in IPs |-> present[ip] /\ ~Stale(ip)]
    /\ UNCHANGED <<level, idle, ideal, elapsed, admitted>>

Refill(n) == IF n < Full THEN n + 1 ELSE Full

Tick ==
    /\ elapsed < Horizon
    /\ elapsed' = elapsed + 1
    /\ level' = [ip \in IPs |-> Refill(level[ip])]
    /\ ideal' = [ip \in IPs |-> Refill(ideal[ip])]
    /\ idle' = [ip \in IPs |-> IF idle[ip] > StaleAfter THEN idle[ip]
                                                        ELSE idle[ip] + 1]
    /\ UNCHANGED <<present, admitted>>

(* The observer starts a new window.                                       *)
Observe ==
    /\ elapsed' = 0
    /\ admitted' = [ip \in IPs |-> 0]
    /\ UNCHANGED <<present, level, idle, ideal>>

Next == Sweep \/ Tick \/ Observe \/ \E ip \in IPs : Join(ip)

Spec == Init /\ [][Next]_vars

(* Throwing a bucket away is never noticed: a bucket that is kept is what  *)
(* it would be without sweeping, and one that is not would be full.        *)
SweepUnobservable ==
    \A ip \in IPs : Bucket(ip) = ideal[ip]

(* In any window, an IP gets Burst joins and one more for every Interval   *)
(* that passes, whatever has been swept in between.                        *)
AdmissionBound ==
    \A ip \in IPs : Interval * admitted[ip] <= Full + elapsed

=============================================================================
