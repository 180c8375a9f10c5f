------------------------- MODULE KeytunOrderProofs -------------------------
(***************************************************************************)
(* Proofs about Keytun: in which order the frames of a client reach the    *)
(* host, that the two ends of a session hold the same key, and that the    *)
(* host has a session for every client that begins a handshake with it.    *)
(***************************************************************************)
EXTENDS KeytunProofs

(* A client's program sends its frames in a fixed order, between its       *)
(* "joined" and its "left": Rank is the place of a frame in that order,    *)
(* and Limit the highest rank the program has reached.                     *)
Rank(m) ==
    IF m.type = "client_join" THEN 1
    ELSE IF m.type = "joined" THEN 2
    ELSE IF m.type = "key_exchange" THEN 3
    ELSE IF m.type = "verify" THEN 4
    ELSE IF m.type = "left" THEN 6 ELSE 5

Limit(s) ==
    IF s = "start" THEN 0
    ELSE IF s \in {"joining", "keygen"} THEN 1
    ELSE IF s \in {"exchanging", "deriving"} THEN 3
    ELSE IF s = "verifying" THEN 4 ELSE 5

Precedes(m, n) == Rank(m) < Rank(n) \/ (Rank(m) = 5 /\ Rank(n) = 5)

(* The client's handler in the relay: before it has announced the client,  *)
(* while it is about to, and where it has no session.                      *)
Before == {"idle", "first", "found", "acked", "added"}
Joining == {"found", "acked", "added", "serving"}
Sessionless == {"idle", "first", "done"}

(* The frames of c in the queue q to the host and those in the queue r to  *)
(* the relay, when its handler is at h and its program has reached l.      *)
InboxOrdered(q, c) ==
    \A i, j \in 1..Len(q) :
        i < j /\ q[i].client = c /\ q[j].client = c => Precedes(q[i], q[j])

OutboxOrdered(r) == \A i, j \in 1..Len(r) : i < j => Precedes(r[i], r[j])

Across(q, r, c) ==
    \A i \in 1..Len(q), j \in 1..Len(r) : q[i].client = c => Precedes(q[i], r[j])

InboxBounded(q, h, l, c) ==
    \A i \in 1..Len(q) : q[i].client = c =>
        /\ h \notin Before
        /\ h # "done" => Rank(q[i]) # 6
        /\ Rank(q[i]) \in {2, 6} \/ Rank(q[i]) <= l

OutboxBounded(r, h, l) ==
    \A j \in 1..Len(r) :
        /\ Rank(r[j]) \in {1, 3, 4, 5} /\ Rank(r[j]) <= l
        /\ h \in Joining => Rank(r[j]) # 1

Pipe(q, r, h, l, c) ==
    /\ InboxOrdered(q, c) /\ OutboxOrdered(r)
    /\ h = "serving" => Across(q, r, c)
    /\ InboxBounded(q, h, l, c) /\ OutboxBounded(r, h, l)
    /\ h \notin Sessionless => l >= 1

(* The host has read the key_exchange of c, or never will.                 *)
Past(q, r, h, l, c) ==
    /\ h \notin Before
    /\ \A i \in 1..Len(q) : q[i].client = c => Rank(q[i]) >= 4
    /\ h = "serving" => l >= 3 /\ \A j \in 1..Len(r) : Rank(r[j]) >= 4

---------------------------------------------------------------------------
(* What one step may do to the frames of one client.                       *)

(* Frames are read or discarded, and frames of others are added.           *)
Thinned(q, q2, c) ==
    \E n \in Nat : \A j \in 1..Len(q2) :
        q2[j].client = c => j + n \in 1..Len(q) /\ q[j + n] = q2[j]

Shortened(r, r2) ==
    \E n \in Nat : \A j \in 1..Len(r2) : j + n \in 1..Len(r) /\ r[j + n] = r2[j]

Harmless(h, h2) ==
    /\ h2 \in Before => h \in Before
    /\ h2 # "done" => h # "done"
    /\ h2 = "serving" => h = "serving"
    /\ h2 \in Joining => h \in Joining
    /\ h2 \notin Sessionless => h \notin Sessionless

LEMMA RankRange == \A m : Rank(m) \in 1..6
  BY DEF Rank

LEMMA QuietKeeps ==
    ASSUME NEW q, NEW r, NEW h, NEW l \in 0..5, NEW c,
           NEW q2, NEW r2, NEW h2, NEW l2 \in 0..5, l2 >= l,
           Len(q) \in Nat, Len(r) \in Nat, Len(q2) \in Nat, Len(r2) \in Nat,
           Thinned(q, q2, c), Shortened(r, r2), Harmless(h, h2), Pipe(q, r, h, l, c)
    PROVE  /\ Pipe(q2, r2, h2, l2, c)
           /\ Past(q, r, h, l, c) => Past(q2, r2, h2, l2, c)
  <1>1. PICK n \in Nat : \A j \in 1..Len(q2) :
          q2[j].client = c => j + n \in 1..Len(q) /\ q[j + n] = q2[j]
    BY DEF Thinned
  <1>2. PICK k \in Nat : \A j \in 1..Len(r2) : j + k \in 1..Len(r) /\ r[j + k] = r2[j]
    BY DEF Shortened
  <1>3. InboxOrdered(q2, c)
    <2> SUFFICES ASSUME NEW i \in 1..Len(q2), NEW j \in 1..Len(q2), i < j,
                        q2[i].client = c, q2[j].client = c
                 PROVE  Precedes(q2[i], q2[j])
      BY DEF InboxOrdered
    <2>1. i + n \in 1..Len(q) /\ j + n \in 1..Len(q) /\ i + n < j + n
          /\ q[i + n] = q2[i] /\ q[j + n] = q2[j]
      BY <1>1
    <2> QED BY <2>1 DEF Pipe, InboxOrdered
  <1>4. OutboxOrdered(r2)
    <2> SUFFICES ASSUME NEW i \in 1..Len(r2), NEW j \in 1..Len(r2), i < j
                 PROVE  Precedes(r2[i], r2[j])
      BY DEF OutboxOrdered
    <2>1. i + k \in 1..Len(r) /\ j + k \in 1..Len(r) /\ i + k < j + k
          /\ r[i + k] = r2[i] /\ r[j + k] = r2[j]
      BY <1>2
    <2> QED BY <2>1 DEF Pipe, OutboxOrdered
  <1>5. h2 = "serving" => Across(q2, r2, c)
    BY <1>1, <1>2 DEF Pipe, Across, Harmless
  <1>6. InboxBounded(q2, h2, l2, c)
    <2> SUFFICES ASSUME NEW i \in 1..Len(q2), q2[i].client = c
                 PROVE  /\ h2 \notin Before
                        /\ h2 # "done" => Rank(q2[i]) # 6
                        /\ Rank(q2[i]) \in {2, 6} \/ Rank(q2[i]) <= l2
      BY DEF InboxBounded
    <2>1. i + n \in 1..Len(q) /\ q[i + n] = q2[i]
      BY <1>1
    <2>2. /\ h \notin Before
          /\ h # "done" => Rank(q2[i]) # 6
          /\ Rank(q2[i]) \in {2, 6} \/ Rank(q2[i]) <= l
      BY <2>1 DEF Pipe, InboxBounded
    <2>3. Rank(q2[i]) <= l => Rank(q2[i]) <= l2
      BY RankRange
    <2> QED BY <2>2, <2>3 DEF Harmless
  <1>7. OutboxBounded(r2, h2, l2)
    <2> SUFFICES ASSUME NEW j \in 1..Len(r2)
                 PROVE  /\ Rank(r2[j]) \in {1, 3, 4, 5} /\ Rank(r2[j]) <= l2
                        /\ h2 \in Joining => Rank(r2[j]) # 1
      BY DEF OutboxBounded
    <2>1. j + k \in 1..Len(r) /\ r[j + k] = r2[j]
      BY <1>2
    <2>2. /\ Rank(r2[j]) \in {1, 3, 4, 5} /\ Rank(r2[j]) <= l
          /\ h \in Joining => Rank(r2[j]) # 1
      BY <2>1 DEF Pipe, OutboxBounded
    <2>3. Rank(r2[j]) <= l => Rank(r2[j]) <= l2
      BY RankRange
    <2> QED BY <2>2, <2>3 DEF Harmless
  <1>8. h2 \notin Sessionless => l2 >= 1
    BY DEF Pipe, Harmless
  <1>9. Past(q, r, h, l, c) => Past(q2, r2, h2, l2, c)
    <2> SUFFICES ASSUME Past(q, r, h, l, c) PROVE Past(q2, r2, h2, l2, c)
      OBVIOUS
    <2>1. \A i \in 1..Len(q2) : q2[i].client = c => Rank(q2[i]) >= 4
      BY <1>1 DEF Past
    <2>2. h2 = "serving" => l2 >= 3 /\ \A j \in 1..Len(r2) : Rank(r2[j]) >= 4
      BY <1>2 DEF Past, Harmless
    <2> QED BY <2>1, <2>2 DEF Past, Harmless
  <1> QED BY <1>3, <1>4, <1>5, <1>6, <1>7, <1>8, <1>9 DEF Pipe

(* One frame is added at the end of a queue, or taken from its front.      *)
Adds(q, q2, m) ==
    /\ Len(q2) = Len(q) + 1 /\ q2[Len(q) + 1] = m
    /\ \A i \in 1..Len(q) : q2[i] = q[i]

Takes(r, r2) ==
    /\ Len(r) >= 1 /\ Len(r2) = Len(r) - 1
    /\ \A i \in 1..Len(r2) : r2[i] = r[i + 1]

(* A client sends the next frame of its order.                             *)
LEMMA SendKeeps ==
    ASSUME NEW q, NEW r, NEW h, NEW l \in 0..5, NEW c,
           NEW r2, NEW m, NEW l2 \in {1, 3, 4, 5}, l < l2 \/ (l = 5 /\ l2 = 5),
           Len(q) \in Nat, Len(r) \in Nat, Adds(r, r2, m), Rank(m) = l2,
           Pipe(q, r, h, l, c)
    PROVE  /\ Pipe(q, r2, h, l2, c)
           /\ Past(q, r, h, l, c) => Past(q, r2, h, l2, c)
  <1> DEFINE n == Len(r) + 1
  <1>1. n \in Nat /\ Len(r2) = n /\ r2[n] = m /\ \A i \in 1..n : i = n \/ i \in 1..Len(r)
    BY DEF Adds
  <1>2. \A i \in 1..Len(r) : r2[i] = r[i] /\ i < n
    BY DEF Adds
  <1> HIDE DEF n
  <1>3. \A j \in 1..Len(r) : Rank(r[j]) \in {1, 3, 4, 5} /\ Rank(r[j]) <= l
    BY DEF Pipe, OutboxBounded
  <1>4. \A j \in 1..Len(r) : Precedes(r[j], m)
    BY <1>3 DEF Precedes
  <1>5. OutboxOrdered(r2)
    <2> SUFFICES ASSUME NEW i \in 1..n, NEW j \in 1..n, i < j PROVE Precedes(r2[i], r2[j])
      BY <1>1 DEF OutboxOrdered
    <2>1. i \in 1..Len(r) /\ r2[i] = r[i]
      BY <1>1, <1>2
    <2>2. CASE j = n
      BY <1>1, <1>4, <2>1, <2>2
    <2>3. CASE j \in 1..Len(r)
      BY <1>2, <2>1, <2>3 DEF Pipe, OutboxOrdered
    <2> QED BY <1>1, <2>2, <2>3
  <1>6. h \in Joining => l >= 1
    BY DEF Pipe, Joining, Sessionless
  <1>7. ASSUME h = "serving" PROVE Across(q, r2, c)
    <2> SUFFICES ASSUME NEW i \in 1..Len(q), NEW j \in 1..n, q[i].client = c
                 PROVE  Precedes(q[i], r2[j])
      BY <1>1 DEF Across
    <2>1. CASE j \in 1..Len(r)
      BY <1>2, <1>7, <2>1 DEF Pipe, Across
    <2>2. CASE j = n
      <3>1. Rank(q[i]) = 2 \/ Rank(q[i]) <= l
        BY <1>7 DEF Pipe, InboxBounded
      <3>2. l2 >= 3
        BY <1>6, <1>7 DEF Joining
      <3>3. Precedes(q[i], m)
        BY <3>1, <3>2, RankRange DEF Precedes
      <3> QED BY <1>1, <2>2, <3>3
    <2> QED BY <1>1, <2>1, <2>2
  <1>8. OutboxBounded(r2, h, l2)
    <2> SUFFICES ASSUME NEW j \in 1..n
                 PROVE  /\ Rank(r2[j]) \in {1, 3, 4, 5} /\ Rank(r2[j]) <= l2
                        /\ h \in Joining => Rank(r2[j]) # 1
      BY <1>1 DEF OutboxBounded
    <2>1. CASE j \in 1..Len(r)
      BY <1>2, <1>3, <2>1 DEF Pipe, OutboxBounded
    <2>2. CASE j = n
      BY <1>1, <1>6, <2>2
    <2> QED BY <1>1, <2>1, <2>2
  <1>9. InboxBounded(q, h, l2, c)
    <2> SUFFICES ASSUME NEW i \in 1..Len(q), q[i].client = c
                 PROVE  /\ h \notin Before
                        /\ h # "done" => Rank(q[i]) # 6
                        /\ Rank(q[i]) \in {2, 6} \/ Rank(q[i]) <= l2
      BY DEF InboxBounded
    <2>1. /\ h \notin Before
          /\ h # "done" => Rank(q[i]) # 6
          /\ Rank(q[i]) \in {2, 6} \/ Rank(q[i]) <= l
      BY DEF Pipe, InboxBounded
    <2>2. Rank(q[i]) <= l => Rank(q[i]) <= l2
      BY RankRange
    <2> QED BY <2>1, <2>2
  <1>10. ASSUME Past(q, r, h, l, c) PROVE Past(q, r2, h, l2, c)
    <2>1. ASSUME h = "serving", NEW j \in 1..n PROVE Rank(r2[j]) >= 4
      BY <1>1, <1>2, <1>10, <2>1 DEF Past
    <2> QED BY <1>1, <1>10, <2>1 DEF Past
  <1> QED BY <1>5, <1>7, <1>8, <1>9, <1>10 DEF Pipe

(* The relay writes a frame of c to the host.                              *)
LEMMA WriteKeeps ==
    ASSUME NEW q, NEW r, NEW h, NEW l \in 0..5, NEW c, NEW q2, NEW r2, NEW h2, NEW m,
           Len(q) \in Nat, Len(r) \in Nat, m.client = c, q2 = q \/ Adds(q, q2, m),
           Pipe(q, r, h, l, c),
           \/ h = "added" /\ h2 = "serving" /\ r2 = r /\ Rank(m) = 2
           \/ h = "notifying" /\ h2 = "done" /\ r2 = r /\ Rank(m) = 6
           \/ h = "serving" /\ h2 = "serving" /\ Takes(r, r2) /\ Rank(m) = Rank(r[1])
    PROVE  /\ Pipe(q2, r2, h2, l, c)
           /\ Past(q, r, h, l, c) => Past(q2, r2, h2, l, c)
  <1> DEFINE n == Len(q) + 1
  <1>1. PICK k \in {0, 1} : \A j \in 1..Len(r2) : j + k \in 1..Len(r) /\ r2[j] = r[j + k]
    <2>1. CASE r2 = r
      <3>1. \A j \in 1..Len(r2) : j + 0 \in 1..Len(r) /\ r2[j] = r[j + 0]
        BY <2>1
      <3> QED BY <3>1
    <2>2. CASE Takes(r, r2)
      <3>1. \A j \in 1..Len(r2) : j + 1 \in 1..Len(r) /\ r2[j] = r[j + 1]
        BY <2>2 DEF Takes
      <3> QED BY <3>1
    <2> QED BY <2>1, <2>2
  <1>2. \A i \in 1..Len(q2) :
          \/ i \in 1..Len(q) /\ q2[i] = q[i] /\ i < n
          \/ i = n /\ q2[i] = m
    BY DEF Adds
  <1>3. n \in Nat /\ (Takes(r, r2) => 1 \in 1..Len(r))
    BY DEF Takes
  <1> HIDE DEF n
  <1>4. /\ \A i, j \in 1..Len(q) :
             i < j /\ q[i].client = c /\ q[j].client = c => Precedes(q[i], q[j])
        /\ \A i, j \in 1..Len(r) : i < j => Precedes(r[i], r[j])
        /\ h = "serving" => Across(q, r, c)
        /\ \A i \in 1..Len(q) : q[i].client = c =>
             /\ h \notin Before
             /\ h # "done" => Rank(q[i]) # 6
             /\ Rank(q[i]) \in {2, 6} \/ Rank(q[i]) <= l
        /\ \A j \in 1..Len(r) :
             /\ Rank(r[j]) \in {1, 3, 4, 5} /\ Rank(r[j]) <= l
             /\ h \in Joining => Rank(r[j]) # 1
        /\ h \notin Sessionless => l >= 1
    BY DEF Pipe, InboxOrdered, OutboxOrdered, InboxBounded, OutboxBounded
  <1>5. \A i \in 1..Len(q) : q[i].client = c => Precedes(q[i], m)
    <2> SUFFICES ASSUME NEW i \in 1..Len(q), q[i].client = c PROVE Precedes(q[i], m)
      OBVIOUS
    <2>1. h # "added"
      BY <1>4 DEF Before
    <2>2. CASE h = "notifying" /\ Rank(m) = 6
      <3>1. Rank(q[i]) # 6
        BY <1>4, <2>2
      <3> QED BY <2>2, <3>1, RankRange DEF Precedes
    <2>3. CASE h = "serving" /\ Takes(r, r2) /\ Rank(m) = Rank(r[1])
      <3>1. Precedes(q[i], r[1])
        BY <1>3, <1>4, <2>3 DEF Across
      <3> QED BY <2>3, <3>1 DEF Precedes
    <2> QED BY <2>1, <2>2, <2>3
  <1>6. InboxOrdered(q2, c)
    <2> SUFFICES ASSUME NEW i \in 1..Len(q2), NEW j \in 1..Len(q2), i < j,
                        q2[i].client = c, q2[j].client = c
                 PROVE  Precedes(q2[i], q2[j])
      BY DEF InboxOrdered
    <2>1. i \in 1..Len(q) /\ q2[i] = q[i]
      BY <1>2, <1>3
    <2> QED BY <1>2, <1>4, <1>5, <2>1
  <1>7. OutboxOrdered(r2)
    <2> SUFFICES ASSUME NEW i \in 1..Len(r2), NEW j \in 1..Len(r2), i < j
                 PROVE  Precedes(r2[i], r2[j])
      BY DEF OutboxOrdered
    <2>1. i + k \in 1..Len(r) /\ j + k \in 1..Len(r) /\ i + k < j + k
          /\ r[i + k] = r2[i] /\ r[j + k] = r2[j]
      BY <1>1
    <2> QED BY <1>4, <2>1
  <1>8. ASSUME h2 = "serving" PROVE Across(q2, r2, c)
    <2> SUFFICES ASSUME NEW i \in 1..Len(q2), NEW j \in 1..Len(r2), q2[i].client = c
                 PROVE  Precedes(q2[i], r2[j])
      BY DEF Across
    <2>1. j + k \in 1..Len(r) /\ r2[j] = r[j + k]
      BY <1>1
    <2>2. CASE i \in 1..Len(q) /\ q2[i] = q[i]
      <3>1. h = "serving"
        BY <1>4, <2>2, <1>8 DEF Before
      <3> QED BY <1>4, <2>1, <2>2, <3>1 DEF Across
    <2>3. CASE q2[i] = m
      <3>1. CASE h = "added" /\ Rank(m) = 2
        BY <1>4, <2>1, <2>3, <3>1 DEF Precedes, Joining
      <3>2. CASE h = "serving" /\ Takes(r, r2) /\ Rank(m) = Rank(r[1])
        <4>1. r2[j] = r[j + 1] /\ j + 1 \in 1..Len(r) /\ 1 < j + 1
          BY <3>2 DEF Takes
        <4>2. Precedes(r[1], r2[j])
          BY <1>3, <1>4, <3>2, <4>1
        <4> QED BY <2>3, <3>2, <4>2 DEF Precedes
      <3> QED BY <1>8, <3>1, <3>2
    <2> QED BY <1>2, <2>2, <2>3
  <1>9. InboxBounded(q2, h2, l, c)
    <2> SUFFICES ASSUME NEW i \in 1..Len(q2), q2[i].client = c
                 PROVE  /\ h2 \notin Before
                        /\ h2 # "done" => Rank(q2[i]) # 6
                        /\ Rank(q2[i]) \in {2, 6} \/ Rank(q2[i]) <= l
      BY DEF InboxBounded
    <2>1. CASE i \in 1..Len(q) /\ q2[i] = q[i]
      BY <1>4, <2>1 DEF Before
    <2>2. CASE q2[i] = m
      <3>1. CASE Takes(r, r2) /\ h2 = "serving" /\ Rank(m) = Rank(r[1])
        BY <1>3, <1>4, <2>2, <3>1 DEF Before
      <3> QED BY <2>2, <3>1 DEF Before
    <2> QED BY <1>2, <2>1, <2>2
  <1>10. OutboxBounded(r2, h2, l)
    <2> SUFFICES ASSUME NEW j \in 1..Len(r2)
                 PROVE  /\ Rank(r2[j]) \in {1, 3, 4, 5} /\ Rank(r2[j]) <= l
                        /\ h2 \in Joining => Rank(r2[j]) # 1
      BY DEF OutboxBounded
    <2>1. j + k \in 1..Len(r) /\ r2[j] = r[j + k]
      BY <1>1
    <2> QED BY <1>4, <2>1 DEF Joining
  <1>11. h2 \notin Sessionless => l >= 1
    BY <1>4 DEF Sessionless
  <1>12. ASSUME Past(q, r, h, l, c) PROVE Past(q2, r2, h2, l, c)
    <2>1. /\ h \notin Before /\ \A i \in 1..Len(q) : q[i].client = c => Rank(q[i]) >= 4
          /\ h = "serving" => l >= 3 /\ \A j \in 1..Len(r) : Rank(r[j]) >= 4
      BY <1>12 DEF Past
    <2>2. Rank(m) >= 4 /\ h2 \notin Before /\ (h2 = "serving" => h = "serving")
      BY <1>3, <2>1 DEF Before
    <2>3. \A i \in 1..Len(q2) : q2[i].client = c => Rank(q2[i]) >= 4
      BY <1>2, <2>1, <2>2
    <2>4. h2 = "serving" => l >= 3 /\ \A j \in 1..Len(r2) : Rank(r2[j]) >= 4
      BY <1>1, <2>1, <2>2
    <2> QED BY <2>2, <2>3, <2>4 DEF Past
  <1> QED BY <1>6, <1>7, <1>8, <1>9, <1>10, <1>11, <1>12 DEF Pipe

(* The relay takes the client_join and finds the session.                  *)
LEMMA LookupKeeps ==
    ASSUME NEW q, NEW r, NEW l \in 0..5, NEW c, NEW r2,
           Len(q) \in Nat, Len(r) \in Nat, Takes(r, r2), Rank(r[1]) = 1,
           Pipe(q, r, "first", l, c)
    PROVE  Pipe(q, r2, "found", l, c)
  <1>1. 1 \in 1..Len(r) /\ \A j \in 1..Len(r2) :
          j + 1 \in 1..Len(r) /\ r2[j] = r[j + 1] /\ 1 < j + 1
    BY DEF Takes
  <1>2. l >= 1
    BY <1>1 DEF Pipe, OutboxBounded
  <1>3. \A j \in 1..Len(r2) : Precedes(r[1], r2[j])
    BY <1>1 DEF Pipe, OutboxOrdered
  <1>4. \A j \in 1..Len(r2) : Rank(r2[j]) # 1
    BY <1>3 DEF Precedes
  <1>5. OutboxBounded(r2, "found", l)
    <2>1. \A j \in 1..Len(r) : Rank(r[j]) \in {1, 3, 4, 5} /\ Rank(r[j]) <= l
      BY DEF Pipe, OutboxBounded
    <2> QED BY <1>1, <1>4, <2>1 DEF OutboxBounded
  <1>6. InboxBounded(q, "found", l, c) /\ InboxOrdered(q, c)
    BY DEF Pipe, InboxBounded, Before
  <1>7. OutboxOrdered(r2)
    <2> SUFFICES ASSUME NEW i \in 1..Len(r2), NEW j \in 1..Len(r2), i < j
                 PROVE  Precedes(r2[i], r2[j])
      BY DEF OutboxOrdered
    <2>1. i + 1 \in 1..Len(r) /\ j + 1 \in 1..Len(r) /\ i + 1 < j + 1
          /\ r2[i] = r[i + 1] /\ r2[j] = r[j + 1]
      BY <1>1
    <2> QED BY <2>1 DEF Pipe, OutboxOrdered
  <1> QED BY <1>2, <1>5, <1>6, <1>7 DEF Pipe

---------------------------------------------------------------------------
(* The queues of the system, seen from one client.                         *)

Pipeline(c) == Pipe(toPeer[Me], toRelay[c], pc[c], Limit(clientPc[c]), c)
Taken(c) == Past(toPeer[Me], toRelay[c], pc[c], Limit(clientPc[c]), c)

LEMMA Lengths ==
    ASSUME Framed, NEW x \in Conns
    PROVE  Len(toRelay[x]) \in Nat /\ Len(toPeer[x]) \in Nat
  BY DEF Framed, ToRelayFramed, ToPeerFramed

LEMMA LimitRange == \A s : Limit(s) \in 0..5
  BY DEF Limit

(* What Tail, << >> and Append are in these terms.                         *)
Fewer(q, q2) == q2 = q \/ (q # << >> /\ q2 = Tail(q)) \/ q2 = << >>

LEMMA FewerFrames ==
    ASSUME NEW S, NEW q \in Seq(S), NEW q2, Fewer(q, q2), NEW c
    PROVE  Shortened(q, q2) /\ Thinned(q, q2, c)
  <1>1. CASE q2 = q
    <2>1. \A j \in 1..Len(q2) : j + 0 \in 1..Len(q) /\ q[j + 0] = q2[j]
      BY <1>1
    <2> QED BY <2>1 DEF Shortened, Thinned
  <1>2. CASE q # << >> /\ q2 = Tail(q)
    <2>1. \A j \in 1..Len(q2) : j + 1 \in 1..Len(q) /\ q[j + 1] = q2[j]
      BY <1>2
    <2> QED BY <2>1 DEF Shortened, Thinned
  <1>3. CASE q2 = << >>
    <2>1. \A j \in 1..Len(q2) : j + 0 \in 1..Len(q) /\ q[j + 0] = q2[j]
      BY <1>3
    <2> QED BY <2>1 DEF Shortened, Thinned
  <1> QED BY <1>1, <1>2, <1>3 DEF Fewer

LEMMA AppendAdds ==
    ASSUME NEW S, NEW q \in Seq(S), NEW m
    PROVE  /\ Adds(q, Append(q, m), m)
           /\ \A c : m.client # c => Thinned(q, Append(q, m), c)
  <1>1. q \in Seq(S \cup {m}) /\ m \in S \cup {m}
    BY SeqWider
  <1> DEFINE q2 == Append(q, m)
  <1>2. /\ Len(q2) = Len(q) + 1 /\ q2[Len(q) + 1] = m /\ Len(q) \in Nat
        /\ \A i \in 1..Len(q) : q2[i] = q[i]
    BY <1>1, AppendProperties
  <1> HIDE DEF q2
  <1>3. ASSUME NEW c, m.client # c PROVE Thinned(q, q2, c)
    <2>1. ASSUME NEW j \in 1..Len(q2), q2[j].client = c
          PROVE  j + 0 \in 1..Len(q) /\ q[j + 0] = q2[j]
      <3>1. j # Len(q) + 1
        BY <1>2, <1>3, <2>1
      <3>2. j \in 1..Len(q) /\ j + 0 = j
        BY <1>2, <2>1, <3>1
      <3> QED BY <1>2, <3>2
    <2> QED BY <2>1 DEF Thinned
  <1>4. Adds(q, q2, m)
    BY <1>2 DEF Adds
  <1> QED BY <1>3, <1>4 DEF q2

LEMMA TailTakes ==
    ASSUME NEW S, NEW q \in Seq(S), q # << >>
    PROVE  Takes(q, Tail(q)) /\ q[1] = Head(q) /\ 1 \in 1..Len(q)
  BY DEF Takes

(* What a step may be for one client: nothing that matters, a frame it     *)
(* sends, a frame its handler writes to the host, the lookup.              *)
Quiet(c) ==
    /\ Thinned(toPeer[Me], toPeer'[Me], c)
    /\ Shortened(toRelay[c], toRelay'[c])
    /\ Harmless(pc[c], pc'[c])
    /\ Limit(clientPc'[c]) >= Limit(clientPc[c])

Sends(c) ==
    /\ toPeer'[Me] = toPeer[Me] /\ pc'[c] = pc[c]
    /\ \E m : Adds(toRelay[c], toRelay'[c], m) /\ Rank(m) = Limit(clientPc'[c])
    /\ Limit(clientPc'[c]) \in {1, 3, 4, 5}
    /\ \/ Limit(clientPc[c]) < Limit(clientPc'[c])
       \/ Limit(clientPc[c]) = 5 /\ Limit(clientPc'[c]) = 5

Writes(c) ==
    /\ clientPc' = clientPc
    /\ \E m :
         /\ m.client = c
         /\ toPeer'[Me] = toPeer[Me] \/ Adds(toPeer[Me], toPeer'[Me], m)
         /\ \/ /\ pc[c] = "added" /\ pc'[c] = "serving"
               /\ toRelay'[c] = toRelay[c] /\ Rank(m) = 2
            \/ /\ pc[c] = "notifying" /\ pc'[c] = "done"
               /\ toRelay'[c] = toRelay[c] /\ Rank(m) = 6
            \/ /\ pc[c] = "serving" /\ pc'[c] = "serving"
               /\ Takes(toRelay[c], toRelay'[c]) /\ Rank(m) = Rank(toRelay[c][1])

LooksUp(c) ==
    /\ toPeer'[Me] = toPeer[Me] /\ clientPc' = clientPc
    /\ pc[c] = "first" /\ pc'[c] = "found"
    /\ Takes(toRelay[c], toRelay'[c]) /\ Rank(toRelay[c][1]) = 1

Turn(c) == Quiet(c) \/ Sends(c) \/ Writes(c) \/ LooksUp(c)

LEMMA TurnKeeps ==
    ASSUME Framed, Framed', NEW c \in Clients, Pipeline(c), Turn(c)
    PROVE  Pipeline(c)' /\ (Taken(c) => Taken(c)')
  <1>1. Me \in Conns /\ c \in Conns
    BY OneHostFacts
  <1>2. Len(toPeer[Me]) \in Nat /\ Len(toRelay[c]) \in Nat
    BY <1>1, Lengths
  <1>3. Len(toPeer'[Me]) \in Nat /\ Len(toRelay'[c]) \in Nat
    BY <1>1 DEF Framed, ToRelayFramed, ToPeerFramed
  <1>4. Limit(clientPc[c]) \in 0..5 /\ Limit(clientPc'[c]) \in 0..5
    BY LimitRange
  <1>5. Pipe(toPeer[Me], toRelay[c], pc[c], Limit(clientPc[c]), c)
    BY DEF Pipeline
  <1>6. CASE Quiet(c)
    BY <1>2, <1>3, <1>4, <1>5, <1>6, QuietKeeps DEF Quiet, Pipeline, Taken
  <1>7. CASE Sends(c)
    <2>1. PICK m : Adds(toRelay[c], toRelay'[c], m) /\ Rank(m) = Limit(clientPc'[c])
      BY <1>7 DEF Sends
    <2>2. /\ toPeer'[Me] = toPeer[Me] /\ pc'[c] = pc[c]
          /\ Limit(clientPc'[c]) \in {1, 3, 4, 5}
          /\ \/ Limit(clientPc[c]) < Limit(clientPc'[c])
             \/ Limit(clientPc[c]) = 5 /\ Limit(clientPc'[c]) = 5
      BY <1>7 DEF Sends
    <2> DEFINE q == toPeer[Me]  r == toRelay[c]  r2 == toRelay'[c]  h == pc[c]
               l == Limit(clientPc[c])  l2 == Limit(clientPc'[c])
    <2> HIDE DEF q, r, r2, h, l, l2
    <2>3. /\ Pipe(q, r2, h, l2, c)
          /\ Past(q, r, h, l, c) => Past(q, r2, h, l2, c)
      <3>1. /\ l \in 0..5 /\ l2 \in {1, 3, 4, 5} /\ (l < l2 \/ (l = 5 /\ l2 = 5))
            /\ Len(q) \in Nat /\ Len(r) \in Nat /\ Adds(r, r2, m) /\ Rank(m) = l2
            /\ Pipe(q, r, h, l, c)
        BY <1>2, <1>4, <1>5, <2>1, <2>2 DEF q, r, r2, h, l, l2
      <3> QED BY <3>1, SendKeeps
    <2> QED BY <2>2, <2>3 DEF Pipeline, Taken, q, r, r2, h, l, l2
  <1>8. CASE Writes(c)
    <2>1. PICK m :
         /\ m.client = c
         /\ toPeer'[Me] = toPeer[Me] \/ Adds(toPeer[Me], toPeer'[Me], m)
         /\ \/ /\ pc[c] = "added" /\ pc'[c] = "serving"
               /\ toRelay'[c] = toRelay[c] /\ Rank(m) = 2
            \/ /\ pc[c] = "notifying" /\ pc'[c] = "done"
               /\ toRelay'[c] = toRelay[c] /\ Rank(m) = 6
            \/ /\ pc[c] = "serving" /\ pc'[c] = "serving"
               /\ Takes(toRelay[c], toRelay'[c]) /\ Rank(m) = Rank(toRelay[c][1])
      BY <1>8 DEF Writes
    <2>2. clientPc' = clientPc
      BY <1>8 DEF Writes
    <2> DEFINE q == toPeer[Me]  r == toRelay[c]  r2 == toRelay'[c]  h == pc[c]
               q2 == toPeer'[Me]  h2 == pc'[c]  l == Limit(clientPc[c])
    <2> HIDE DEF q, r, r2, h, q2, h2, l
    <2>3. /\ Pipe(q2, r2, h2, l, c)
          /\ Past(q, r, h, l, c) => Past(q2, r2, h2, l, c)
      <3>1. /\ l \in 0..5 /\ Len(q) \in Nat /\ Len(r) \in Nat /\ m.client = c
            /\ q2 = q \/ Adds(q, q2, m)
            /\ Pipe(q, r, h, l, c)
            /\ \/ h = "added" /\ h2 = "serving" /\ r2 = r /\ Rank(m) = 2
               \/ h = "notifying" /\ h2 = "done" /\ r2 = r /\ Rank(m) = 6
               \/ h = "serving" /\ h2 = "serving" /\ Takes(r, r2) /\ Rank(m) = Rank(r[1])
        BY <1>2, <1>4, <1>5, <2>1 DEF q, r, r2, h, q2, h2, l
      <3> QED BY <3>1, WriteKeeps
    <2> QED BY <2>2, <2>3 DEF Pipeline, Taken, q, r, r2, h, q2, h2, l
  <1>9. CASE LooksUp(c)
    <2>1. Pipe(toPeer[Me], toRelay'[c], "found", Limit(clientPc[c]), c)
      BY <1>2, <1>4, <1>5, <1>9, LookupKeeps DEF LooksUp
    <2>2. ~Taken(c)
      BY <1>9 DEF Taken, Past, LooksUp, Before
    <2> QED BY <1>9, <2>1, <2>2 DEF LooksUp, Pipeline
  <1> QED BY <1>6, <1>7, <1>8, <1>9 DEF Turn

---------------------------------------------------------------------------
(* Every step is a turn of every client.                                   *)

LEMMA Same ==
    ASSUME Framed, NEW c \in Clients
    PROVE  /\ toPeer'[Me] = toPeer[Me] => Thinned(toPeer[Me], toPeer'[Me], c)
           /\ toRelay'[c] = toRelay[c] => Shortened(toRelay[c], toRelay'[c])
           /\ pc'[c] = pc[c] => Harmless(pc[c], pc'[c])
           /\ clientPc' = clientPc => Limit(clientPc'[c]) >= Limit(clientPc[c])
  <1>1. toPeer[Me] \in Seq(RelaySays(Me)) /\ toRelay[c] \in Seq(PeerSays(c))
    BY OneHostFacts DEF Framed, ToRelayFramed, ToPeerFramed
  <1>2. toPeer'[Me] = toPeer[Me] => Thinned(toPeer[Me], toPeer'[Me], c)
    BY <1>1, FewerFrames DEF Fewer
  <1>3. toRelay'[c] = toRelay[c] => Shortened(toRelay[c], toRelay'[c])
    BY <1>1, FewerFrames DEF Fewer
  <1>4. pc'[c] = pc[c] => Harmless(pc[c], pc'[c])
    BY DEF Harmless
  <1>5. clientPc' = clientPc => Limit(clientPc'[c]) >= Limit(clientPc[c])
    BY LimitRange
  <1> QED BY <1>2, <1>3, <1>4, <1>5

LEMMA GotoHarmless ==
    ASSUME Relaying, NEW x \in Conns, NEW from, NEW to, Goto(x, from, to),
           NEW c \in Clients, x # c \/ Harmless(from, to)
    PROVE  Harmless(pc[c], pc'[c])
  <1>1. pc[x] = from /\ pc' = [pc EXCEPT ![x] = to] /\ pc \in [Conns -> HandlerState]
    BY DEF Goto, Relaying, RelayTypeOK
  <1>2. c \in Conns
    BY OneHostFacts
  <1>3. CASE x = c
    <2>1. pc'[c] = to
      BY <1>1, <1>2, <1>3
    <2> QED BY <1>1, <1>3, <2>1 DEF Harmless
  <1>4. CASE x # c
    <2>1. pc'[c] = pc[c]
      BY <1>1, <1>2, <1>4
    <2> QED BY <2>1 DEF Harmless
  <1> QED BY <1>3, <1>4

LEMMA WriteQuiet ==
    ASSUME Framed, NEW S, NEW m, Write(S, m), NEW c, Me \notin S \/ m.client # c
    PROVE  Thinned(toPeer[Me], toPeer'[Me], c)
  <1>1. toPeer[Me] \in Seq(RelaySays(Me)) /\ Me \in Conns
    BY OneHostFacts DEF Framed, ToPeerFramed
  <1>2. \/ toPeer'[Me] = toPeer[Me]
        \/ Me \in S /\ toPeer'[Me] = Append(toPeer[Me], m)
    BY <1>1 DEF Write
  <1> QED BY <1>1, <1>2, AppendAdds, FewerFrames DEF Fewer

LEMMA TakeShortens ==
    ASSUME Framed, NEW x \in Conns, Incoming(x), Take(x), NEW c \in Clients
    PROVE  Shortened(toRelay[c], toRelay'[c])
  <1>1. toRelay[c] \in Seq(PeerSays(c)) /\ c \in Conns
    BY OneHostFacts DEF Framed, ToRelayFramed
  <1>2. toRelay'[c] = toRelay[c] \/ (toRelay[c] # << >> /\ toRelay'[c] = Tail(toRelay[c]))
    BY <1>1 DEF Take, Incoming, Framed, ToRelayFramed
  <1> QED BY <1>1, <1>2, FewerFrames DEF Fewer

LEMMA CloseShortens ==
    ASSUME Framed, NEW S, Close(S), NEW c \in Clients
    PROVE  Shortened(toRelay[c], toRelay'[c])
  <1>1. toRelay[c] \in Seq(PeerSays(c)) /\ c \in Conns
    BY OneHostFacts DEF Framed, ToRelayFramed
  <1>2. toRelay'[c] = toRelay[c] \/ toRelay'[c] = << >>
    BY <1>1 DEF Close
  <1> QED BY <1>1, <1>2, FewerFrames DEF Fewer

LEMMA Msgs ==
    \A t, c, d : /\ Msg(t, c, d).type = t /\ Msg(t, c, d).client = c
                 /\ Msg(t, c, d).data = d
  BY DEF Msg

LEMMA EitherTurns ==
    ASSUME Relaying, Framed, UNCHANGED clientPc, NEW c \in Clients, NEW x \in Conns,
           Accept(x) \/ FirstReadFails(x) \/ Refuse(x)
    PROVE  Quiet(c)
  <1>1. Harmless("idle", "first") /\ Harmless("first", "done")
    BY DEF Harmless, Before, Joining, Sessionless
  <1>2. Limit(clientPc'[c]) >= Limit(clientPc[c])
    BY Same
  <1>3. CASE Accept(x)
    <2>1. Harmless(pc[c], pc'[c])
      BY <1>1, <1>3, GotoHarmless DEF Accept
    <2> QED BY <1>2, <1>3, <2>1, Same DEF Accept, Quiet
  <1>4. CASE FirstReadFails(x)
    <2>1. Harmless(pc[c], pc'[c])
      BY <1>1, <1>4, GotoHarmless DEF FirstReadFails
    <2>2. Shortened(toRelay[c], toRelay'[c])
      BY <1>4, CloseShortens DEF FirstReadFails
    <2> QED BY <1>2, <1>4, <2>1, <2>2, Same DEF FirstReadFails, Quiet
  <1>5. CASE Refuse(x)
    <2>1. Harmless(pc[c], pc'[c])
      BY <1>1, <1>5, GotoHarmless DEF Refuse
    <2>2. Shortened(toRelay[c], toRelay'[c])
      BY <1>5, CloseShortens DEF Refuse
    <2>3. Thinned(toPeer[Me], toPeer'[Me], c)
      BY <1>5, WriteQuiet, Msgs, OneHostFacts DEF Refuse
    <2> QED BY <1>2, <2>1, <2>2, <2>3 DEF Quiet
  <1> QED BY <1>3, <1>4, <1>5

LEMMA HostHandlerTurns ==
    ASSUME Relaying, Framed, UNCHANGED clientPc, NEW c \in Clients, HostHandler(Me)
    PROVE  Quiet(c)
  <1>1. /\ Me \in Conns /\ Me # c /\ c # NoClient
        /\ Limit(clientPc'[c]) >= Limit(clientPc[c])
    BY Same, OneHostFacts
  <1>2. \A from, to : Goto(Me, from, to) => Harmless(pc[c], pc'[c])
    BY <1>1, GotoHarmless
  <1>3. CASE FirstReadFails(Me) \/ RejectFirst(Me)
    BY <1>1, <1>3, EitherTurns DEF RejectFirst
  <1>4. CASE RegisterHost(Me)
    <2>1. Shortened(toRelay[c], toRelay'[c])
      BY <1>1, <1>4, TakeShortens DEF RegisterHost, First
    <2>2. Thinned(toPeer[Me], toPeer'[Me], c)
      BY <1>1, <1>4, WriteQuiet, Msgs DEF RegisterHost
    <2> QED BY <1>1, <1>2, <1>4, <2>1, <2>2 DEF RegisterHost, Quiet
  <1>5. CASE RejectHost(Me)
    <2>1. Shortened(toRelay[c], toRelay'[c])
      BY <1>1, <1>5, TakeShortens DEF RejectHost, First
    <2>2. Thinned(toPeer[Me], toPeer'[Me], c)
      BY <1>1, <1>5, WriteQuiet, Msgs DEF RejectHost
    <2> QED BY <1>1, <1>2, <1>5, <2>1, <2>2 DEF RejectHost, Quiet
  <1>6. CASE ForwardFromHost(Me)
    <2>1. Shortened(toRelay[c], toRelay'[c])
      BY <1>1, <1>6, TakeShortens DEF ForwardFromHost
    <2>2. Me \notin Targets(Me, Next1(Me))
      <3>1. clients[Me] \subseteq Clients
        BY OneHostFacts DEF Relaying, RelayTypeOK
      <3> QED BY <3>1, OneHostFacts DEF Targets
    <2>3. Thinned(toPeer[Me], toPeer'[Me], c)
      BY <1>6, <2>2, WriteQuiet, Same DEF ForwardFromHost
    <2>4. Harmless(pc[c], pc'[c])
      BY <1>6, Same DEF ForwardFromHost, relayVars
    <2> QED BY <1>1, <2>1, <2>3, <2>4 DEF Quiet
  <1>7. CASE Unregister(Me)
    BY <1>1, <1>2, <1>7, Same DEF Unregister, Quiet, wireVars
  <1>8. CASE CloseHostConn(Me) \/ CloseMembers(Me)
    <2>1. Shortened(toRelay[c], toRelay'[c])
      BY <1>8, CloseShortens DEF CloseHostConn, CloseMembers
    <2> QED BY <1>1, <1>2, <1>8, <2>1, Same DEF CloseHostConn, CloseMembers, Quiet
  <1> QED BY <1>3, <1>4, <1>5, <1>6, <1>7, <1>8 DEF HostHandler

(* The handler of a client other than c.                                   *)
LEMMA OtherHandlerTurns ==
    ASSUME Relaying, Framed, UNCHANGED clientPc, NEW c \in Clients,
           NEW d \in Clients, d # c, ClientHandler(d)
    PROVE  Quiet(c)
  <1>1. d \in Conns /\ Limit(clientPc'[c]) >= Limit(clientPc[c]) /\ c # NoClient
    BY Same, OneHostFacts
  <1>2. \A from, to : Goto(d, from, to) => Harmless(pc[c], pc'[c])
    BY <1>1, GotoHarmless
  <1>3. CASE FirstReadFails(d) \/ RejectFirst(d) \/ RateLimited(d) \/ SessionNotFound(d)
    BY <1>1, <1>3, EitherTurns DEF RejectFirst, RateLimited, SessionNotFound
  <1>4. CASE LookupSession(d)
    <2>1. Shortened(toRelay[c], toRelay'[c])
      BY <1>1, <1>4, TakeShortens DEF LookupSession, First
    <2> QED BY <1>1, <1>2, <1>4, <2>1, Same DEF LookupSession, Quiet
  <1>5. CASE AckJoin(d)
    <2>1. Thinned(toPeer[Me], toPeer'[Me], c)
      BY <1>5, WriteQuiet, OneHostFacts DEF AckJoin
    <2> QED BY <1>1, <1>2, <1>5, <2>1, Same DEF AckJoin, Quiet
  <1>6. CASE AddClient(d) \/ ClientReadFails(d) \/ RemoveClient(d)
    BY <1>1, <1>2, <1>6, Same DEF AddClient, ClientReadFails, RemoveClient, Quiet, wireVars
  <1>7. CASE NotifyJoined(d) \/ NotifyLeft(d)
    <2>1. Thinned(toPeer[Me], toPeer'[Me], c)
      BY <1>7, WriteQuiet, Msgs DEF NotifyJoined, NotifyLeft
    <2> QED BY <1>1, <1>2, <1>7, <2>1, Same DEF NotifyJoined, NotifyLeft, Quiet
  <1>8. CASE ForwardFromClient(d)
    <2>1. Shortened(toRelay[c], toRelay'[c])
      BY <1>1, <1>8, TakeShortens DEF ForwardFromClient
    <2>2. Thinned(toPeer[Me], toPeer'[Me], c)
      <3>1. CASE UNCHANGED toPeer
        BY <3>1, Same
      <3>2. CASE Write({sess[d]}, Msg(Next1(d).type, d, Next1(d).data))
        BY <3>2, WriteQuiet, Msgs
      <3> QED BY <1>8, <3>1, <3>2 DEF ForwardFromClient
    <2>3. Harmless(pc[c], pc'[c])
      BY <1>8, Same DEF ForwardFromClient, relayVars
    <2> QED BY <1>1, <2>1, <2>2, <2>3 DEF Quiet
  <1>9. CASE ForwardFails(d)
    <2>1. Shortened(toRelay[c], toRelay'[c])
      BY <1>1, <1>9, TakeShortens DEF ForwardFails
    <2> QED BY <1>1, <1>2, <1>9, <2>1, Same DEF ForwardFails, Quiet
  <1>10. CASE Disconnect(d)
    <2>1. Shortened(toRelay[c], toRelay'[c])
      BY <1>10, CloseShortens DEF Disconnect
    <2> QED BY <1>1, <1>2, <1>10, <2>1, Same DEF Disconnect, Quiet
  <1> QED BY <1>3, <1>4, <1>5, <1>6, <1>7, <1>8, <1>9, <1>10 DEF ClientHandler

LEMMA OwnWrite ==
    ASSUME Framed, NEW m, Write({Me}, m)
    PROVE  toPeer'[Me] = toPeer[Me] \/ Adds(toPeer[Me], toPeer'[Me], m)
  <1>1. toPeer[Me] \in Seq(RelaySays(Me)) /\ Me \in Conns
    BY OneHostFacts DEF Framed, ToPeerFramed
  <1>2. toPeer'[Me] = toPeer[Me] \/ toPeer'[Me] = Append(toPeer[Me], m)
    BY <1>1 DEF Write
  <1> QED BY <1>1, <1>2, AppendAdds

LEMMA OwnTake ==
    ASSUME Framed, NEW c \in Clients, Incoming(c), Take(c)
    PROVE  Takes(toRelay[c], toRelay'[c]) /\ toRelay[c][1] = Next1(c)
  <1>1. toRelay[c] \in Seq(PeerSays(c)) /\ c \in Conns
    BY OneHostFacts DEF Framed, ToRelayFramed
  <1>2. toRelay[c] # << >> /\ toRelay'[c] = Tail(toRelay[c])
    BY <1>1 DEF Take, Incoming, Framed, ToRelayFramed
  <1> QED BY <1>1, <1>2, TailTakes DEF Next1

(* The handler of c itself.                                                *)
LEMMA OwnHandlerTurns ==
    ASSUME Relaying, Framed, UNCHANGED clientPc, NEW c \in Clients, ClientHandler(c)
    PROVE  Turn(c)
  <1>1. /\ c \in Conns /\ Limit(clientPc'[c]) >= Limit(clientPc[c])
        /\ c # NoClient /\ c # Me /\ Me \in Conns
    BY Same, OneHostFacts
  <1>2. \A from, to : Goto(c, from, to) => pc[c] = from /\ pc'[c] = to
    BY <1>1 DEF Goto, Relaying, RelayTypeOK
  <1>3. CASE FirstReadFails(c) \/ RejectFirst(c) \/ RateLimited(c) \/ SessionNotFound(c)
    BY <1>1, <1>3, EitherTurns DEF RejectFirst, RateLimited, SessionNotFound, Turn
  <1>4. CASE LookupSession(c)
    <2>1. Incoming(c) /\ Next1(c).type = "client_join" /\ Take(c)
      BY <1>4 DEF LookupSession, First
    <2>2. Takes(toRelay[c], toRelay'[c]) /\ Rank(toRelay[c][1]) = 1
      BY <2>1, OwnTake DEF Rank
    <2> QED BY <1>2, <1>4, <2>2 DEF LookupSession, LooksUp, Turn
  <1>5. CASE AckJoin(c)
    <2>1. Thinned(toPeer[Me], toPeer'[Me], c)
      BY <1>1, <1>5, WriteQuiet DEF AckJoin
    <2>2. Harmless(pc[c], pc'[c])
      BY <1>2, <1>5 DEF AckJoin, Harmless, Before, Joining, Sessionless
    <2> QED BY <1>1, <1>5, <2>1, <2>2, Same DEF AckJoin, Quiet, Turn
  <1>6. CASE AddClient(c) \/ ClientReadFails(c) \/ RemoveClient(c)
    <2>1. Harmless(pc[c], pc'[c])
      BY <1>2, <1>6
         DEF AddClient, ClientReadFails, RemoveClient, Harmless, Before, Joining, Sessionless
    <2> QED BY <1>1, <1>6, <2>1, Same
            DEF AddClient, ClientReadFails, RemoveClient, Quiet, wireVars, Turn
  <1>7. CASE NotifyJoined(c)
    <2> DEFINE m == Msg("joined", c, NoData)
    <2>1. pc[c] = "added" /\ pc'[c] = "serving" /\ sess[c] = Me
      BY <1>2, <1>7 DEF NotifyJoined, Relaying, Located, Attached
    <2>2. m.client = c /\ Rank(m) = 2
      BY Msgs DEF Rank
    <2>3. toPeer'[Me] = toPeer[Me] \/ Adds(toPeer[Me], toPeer'[Me], m)
      BY <1>7, <2>1, OwnWrite DEF NotifyJoined
    <2>4. toRelay'[c] = toRelay[c]
      BY <1>7 DEF NotifyJoined
    <2> HIDE DEF m
    <2>5. Writes(c)
      BY <2>1, <2>2, <2>3, <2>4 DEF Writes
    <2> QED BY <2>5 DEF Turn
  <1>8. CASE NotifyLeft(c)
    <2> DEFINE m == Msg("left", c, NoData)
    <2>1. pc[c] = "notifying" /\ pc'[c] = "done" /\ sess[c] = Me
      BY <1>2, <1>8 DEF NotifyLeft, Relaying, Located, Attached
    <2>2. m.client = c /\ Rank(m) = 6
      BY Msgs DEF Rank
    <2>3. toPeer'[Me] = toPeer[Me] \/ Adds(toPeer[Me], toPeer'[Me], m)
      BY <1>8, <2>1, OwnWrite DEF NotifyLeft
    <2>4. toRelay'[c] = toRelay[c]
      BY <1>8 DEF NotifyLeft
    <2> HIDE DEF m
    <2>5. Writes(c)
      BY <2>1, <2>2, <2>3, <2>4 DEF Writes
    <2> QED BY <2>5 DEF Turn
  <1>9. CASE ForwardFromClient(c)
    <2>1. Incoming(c) /\ Take(c) /\ pc[c] = "serving" /\ pc'[c] = "serving" /\ sess[c] = Me
      BY <1>9 DEF ForwardFromClient, relayVars, Relaying, Located, Attached
    <2>2. CASE UNCHANGED toPeer
      <3>1. Shortened(toRelay[c], toRelay'[c])
        BY <1>1, <2>1, TakeShortens
      <3>2. Quiet(c)
        BY <1>1, <2>1, <2>2, <3>1, Same DEF Quiet
      <3> QED BY <3>2 DEF Turn
    <2>3. CASE Write({sess[c]}, Msg(Next1(c).type, c, Next1(c).data))
      <3> DEFINE m == Msg(Next1(c).type, c, Next1(c).data)
      <3>1. Takes(toRelay[c], toRelay'[c]) /\ toRelay[c][1] = Next1(c)
        BY <2>1, OwnTake
      <3>2. m.client = c /\ Rank(m) = Rank(toRelay[c][1])
        BY <3>1, Msgs DEF Rank
      <3>3. toPeer'[Me] = toPeer[Me] \/ Adds(toPeer[Me], toPeer'[Me], m)
        BY <2>1, <2>3, OwnWrite
      <3> HIDE DEF m
      <3>4. Writes(c)
        BY <2>1, <3>1, <3>2, <3>3 DEF Writes
      <3> QED BY <3>4 DEF Turn
    <2> QED BY <1>9, <2>2, <2>3 DEF ForwardFromClient
  <1>10. CASE ForwardFails(c)
    <2>1. Shortened(toRelay[c], toRelay'[c])
      BY <1>1, <1>10, TakeShortens DEF ForwardFails
    <2>2. Harmless(pc[c], pc'[c])
      BY <1>2, <1>10 DEF ForwardFails, Harmless, Before, Joining, Sessionless
    <2> QED BY <1>1, <1>10, <2>1, <2>2, Same DEF ForwardFails, Quiet, Turn
  <1>11. CASE Disconnect(c)
    <2>1. Shortened(toRelay[c], toRelay'[c])
      BY <1>11, CloseShortens DEF Disconnect
    <2>2. Harmless(pc[c], pc'[c])
      BY <1>2, <1>11 DEF Disconnect, Harmless, Before, Joining, Sessionless
    <2> QED BY <1>1, <1>11, <2>1, <2>2, Same DEF Disconnect, Quiet, Turn
  <1> QED BY <1>3, <1>4, <1>5, <1>6, <1>7, <1>8, <1>9, <1>10, <1>11 DEF ClientHandler

(* The host writes to its own connection only.                             *)
LEMMA HostOutbox ==
    ASSUME Framed, HostStep, NEW c \in Clients
    PROVE  toRelay'[c] = toRelay[c]
  <1>1. /\ Me \in Conns /\ c \in Conns /\ c # Me
        /\ toRelay = [x \in Conns |-> toRelay[x]]
    BY OneHostFacts DEF Framed, ToRelayFramed
  <1>2. \A t : toRelay' = [toRelay EXCEPT ![Me] = t] => toRelay'[c] = toRelay[c]
    BY <1>1
  <1>3. \A m : Send(Me, m) => toRelay'[c] = toRelay[c]
    BY <1>2 DEF Send
  <1>4. \A frame : SendEach(frame) => toRelay'[c] = toRelay[c]
    BY <1>2 DEF SendEach
  <1>5. CASE HostRegister \/ HostRegistered \/ HostRefused \/ SetPassword \/ CloseHost
    BY <1>3, <1>5 DEF HostRegister, HostRegistered, HostRefused, SetPassword, CloseHost,
                      wireVars
  <1>6. CASE OnVerify
    BY <1>2, <1>6 DEF OnVerify
  <1>7. CASE OnJoined \/ OnLeft \/ OnKeyExchange \/ WriteVerify \/ OnPing \/ OnPong
             \/ HostReadFails
    BY <1>3, <1>7 DEF OnJoined, OnLeft, OnKeyExchange, WriteVerify, OnPing, OnPong,
                      HostReadFails, wireVars
  <1>8. CASE OnInput \/ ReadOutput \/ LatencyPing \/ UpdateTermSize
    BY <1>4, <1>8 DEF OnInput, ReadOutput, LatencyPing, UpdateTermSize
  <1> QED BY <1>5, <1>6, <1>7, <1>8 DEF HostStep, HostReadLoop

(* It takes frames from its inbox.                                         *)
LEMMA HostTurns ==
    ASSUME Framed, UNCHANGED <<pc, clientPc>>, NEW c \in Clients, HostStep
    PROVE  Quiet(c)
  <1>1. /\ Me \in Conns /\ c \in Conns /\ c # Me
        /\ toPeer[Me] \in Seq(RelaySays(Me)) /\ toPeer = [x \in Conns |-> toPeer[x]]
    BY OneHostFacts DEF Framed, ToPeerFramed
  <1>2. (Arrived(Me) /\ Get(Me)) \/ Hangup(Me) \/ UNCHANGED toPeer
             => Fewer(toPeer[Me], toPeer'[Me])
    BY <1>1 DEF Arrived, Get, Hangup, Fewer
  <1>3. Fewer(toPeer[Me], toPeer'[Me])
    <2>1. CASE HostRegister \/ HostRegistered \/ HostRefused \/ SetPassword \/ CloseHost
      BY <1>2, <2>1 DEF HostRegister, HostRegistered, HostRefused, SetPassword, CloseHost,
                        wireVars
    <2>2. CASE HostReadLoop
      BY <1>2, <2>2 DEF HostReadLoop, OnJoined, OnLeft, OnKeyExchange, WriteVerify, OnVerify,
                        OnInput, OnPing, OnPong, HostReadFails, HostReads, wireVars
    <2>3. CASE ReadOutput \/ LatencyPing \/ UpdateTermSize
      BY <1>2, <2>3 DEF ReadOutput, LatencyPing, UpdateTermSize
    <2> QED BY <2>1, <2>2, <2>3 DEF HostStep
  <1>4. Thinned(toPeer[Me], toPeer'[Me], c)
    BY <1>1, <1>3, FewerFrames
  <1> QED BY <1>4, HostOutbox, Same DEF Quiet

LEMMA LostTurns ==
    ASSUME Framed, NEW c \in Clients, NEW x \in Conns, Lost(x)
    PROVE  Quiet(c)
  <1>1. /\ Me \in Conns /\ toPeer[Me] \in Seq(RelaySays(Me))
        /\ toPeer = [y \in Conns |-> toPeer[y]]
    BY OneHostFacts DEF Framed, ToPeerFramed
  <1>2. Fewer(toPeer[Me], toPeer'[Me])
    BY <1>1 DEF Lost, Hangup, Fewer
  <1>3. Thinned(toPeer[Me], toPeer'[Me], c)
    BY <1>1, <1>2, FewerFrames
  <1>4. toRelay' = toRelay /\ pc' = pc /\ clientPc' = clientPc
    BY DEF Lost, relayVars, clientVars
  <1> QED BY <1>3, <1>4, Same DEF Quiet

(* The steps of a client's program.                                        *)
LEMMA LimitValues ==
    /\ Limit("start") = 0 /\ Limit("joining") = 1 /\ Limit("keygen") = 1
    /\ Limit("exchanging") = 3 /\ Limit("deriving") = 3 /\ Limit("verifying") = 4
    /\ Limit("running") = 5 /\ Limit("closed") = 5 /\ \A s \in Failures : Limit(s) = 5
  BY DEF Limit, Failures

LEMMA Ranks ==
    \A c, d : /\ Rank(Msg("client_join", c, d)) = 1 /\ Rank(Msg("key_exchange", c, d)) = 3
              /\ Rank(Msg("verify", c, d)) = 4 /\ Rank(Msg("input", c, d)) = 5
              /\ Rank(Msg("ping", c, d)) = 5 /\ Rank(Msg("pong", c, d)) = 5
  BY Msgs DEF Rank

LEMMA SendTurns ==
    ASSUME Framed, NEW c \in Clients, NEW m, Send(c, m), pc' = pc,
           toPeer'[Me] = toPeer[Me], NEW n \in {1, 3, 4, 5}, Rank(m) = n,
           Limit(clientPc'[c]) = n,
           Limit(clientPc[c]) < n \/ (Limit(clientPc[c]) = 5 /\ n = 5)
    PROVE  Turn(c)
  <1>1. toRelay[c] \in Seq(PeerSays(c)) /\ c \in Conns
    BY OneHostFacts DEF Framed, ToRelayFramed
  <1>2. toRelay'[c] = toRelay[c] \/ toRelay'[c] = Append(toRelay[c], m)
    BY <1>1 DEF Send, Framed, ToRelayFramed
  <1>3. CASE toRelay'[c] = toRelay[c]
    <2>1. Limit(clientPc'[c]) >= Limit(clientPc[c])
      BY LimitRange
    <2> QED BY <1>3, <2>1, Same DEF Quiet, Turn
  <1>4. CASE toRelay'[c] = Append(toRelay[c], m)
    <2>1. Adds(toRelay[c], toRelay'[c], m)
      BY <1>1, <1>4, AppendAdds
    <2>2. Sends(c)
      BY <2>1 DEF Sends
    <2> QED BY <2>2 DEF Turn
  <1> QED BY <1>2, <1>3, <1>4

LEMMA ClientTurns ==
    ASSUME Inv, NEW c \in Clients, ClientStep(c), pc' = pc
    PROVE  Turn(c)
  <1>1. /\ c \in Conns /\ c # Me /\ Framed /\ clientPc \in [Clients -> ClientState]
        /\ toPeer = [x \in Conns |-> toPeer[x]] /\ Me \in Conns
    BY OneHostFacts DEF Inv, Framed, ToPeerFramed, ClientTypes
  <1>2. Get(c) \/ Hangup(c) \/ UNCHANGED toPeer => toPeer'[Me] = toPeer[Me]
    BY <1>1 DEF Get, Hangup
  <1>3. \A from, to : Move(c, from, to) => clientPc[c] = from /\ clientPc'[c] = to
    BY <1>1 DEF Move
  <1>4. ASSUME toPeer'[Me] = toPeer[Me], toRelay' = toRelay,
               Limit(clientPc'[c]) >= Limit(clientPc[c])
        PROVE  Turn(c)
    BY <1>1, <1>4, Same DEF Quiet, Turn
  <1>5. ASSUME NEW why, Fail(c, why), Limit(why) = 5 PROVE Turn(c)
    <2>1. clientPc'[c] = why /\ toPeer'[Me] = toPeer[Me] /\ toRelay' = toRelay
      BY <1>1, <1>2, <1>5 DEF Fail
    <2>2. Limit(clientPc'[c]) >= Limit(clientPc[c])
      BY <1>5, <2>1, LimitRange
    <2> QED BY <1>4, <2>1, <2>2
  <1>6. CASE Join(c)
    <2>1. PICK k \in Codes : Send(c, Msg("client_join", NoClient, k))
      BY <1>6 DEF Join
    <2>2. toPeer'[Me] = toPeer[Me] /\ clientPc[c] = "start" /\ clientPc'[c] = "joining"
      BY <1>2, <1>3, <1>6 DEF Join
    <2> QED BY <1>1, <2>1, <2>2, SendTurns, Ranks, LimitValues
  <1>7. CASE OnSessionJoined(c)
    <2>1. Send(c, Msg("key_exchange", NoClient, ClientPub(c)))
      BY <1>7 DEF OnSessionJoined, SendKeyExchange
    <2>2. toPeer'[Me] = toPeer[Me] /\ clientPc[c] = "joining" /\ clientPc'[c] = "exchanging"
      BY <1>2, <1>3, <1>7 DEF OnSessionJoined, ClientReads
    <2> QED BY <1>1, <2>1, <2>2, SendTurns, Ranks, LimitValues
  <1>8. CASE OnHostKey(c)
    <2>1. \E d : Send(c, Msg("verify", NoClient, d))
      BY <1>8 DEF OnHostKey
    <2>2. toPeer'[Me] = toPeer[Me] /\ clientPc[c] = "exchanging"
          /\ clientPc'[c] = "verifying"
      BY <1>2, <1>3, <1>8 DEF OnHostKey, ClientReads
    <2> QED BY <1>1, <2>1, <2>2, SendTurns, Ranks, LimitValues
  <1>9. CASE OnHostVerify(c)
    <2>1. toPeer'[Me] = toPeer[Me] /\ clientPc[c] = "verifying" /\ clientPc'[c] = "running"
      BY <1>2, <1>3, <1>9 DEF OnHostVerify, ClientReads
    <2> QED BY <1>4, <1>9, <2>1, LimitValues DEF OnHostVerify
  <1>10. CASE HandshakeFails(c)
    <2>1. PICK why \in Failures : Fail(c, why)
      BY <1>10 DEF HandshakeFails, Failures
    <2> QED BY <1>5, <2>1, LimitValues
  <1>11. CASE BrowserJoined(c)
    <2>1. toPeer'[Me] = toPeer[Me] /\ clientPc[c] = "joining" /\ clientPc'[c] = "keygen"
      BY <1>2, <1>3, <1>11 DEF BrowserJoined, ClientReads
    <2> QED BY <1>4, <1>11, <2>1, LimitValues DEF BrowserJoined
  <1>12. CASE KeyPairGenerated(c)
    <2>1. Send(c, Msg("key_exchange", NoClient, ClientPub(c)))
      BY <1>12 DEF KeyPairGenerated, SendKeyExchange
    <2>2. toPeer'[Me] = toPeer[Me] /\ clientPc[c] = "keygen" /\ clientPc'[c] = "exchanging"
      BY <1>2, <1>3, <1>12 DEF KeyPairGenerated
    <2> QED BY <1>1, <2>1, <2>2, SendTurns, Ranks, LimitValues
  <1>13. CASE BrowserKey(c)
    <2>1. toPeer'[Me] = toPeer[Me] /\ clientPc[c] = "exchanging" /\ clientPc'[c] = "deriving"
      BY <1>2, <1>3, <1>13 DEF BrowserKey, ClientReads
    <2> QED BY <1>4, <1>13, <2>1, LimitValues DEF BrowserKey
  <1>14. CASE KeyDerived(c)
    <2>1. clientPc[c] = "deriving" /\ clientPc'[c] = "running"
      BY <1>3, <1>14 DEF KeyDerived
    <2> QED BY <1>4, <1>14, <2>1, LimitValues DEF KeyDerived, wireVars
  <1>15. CASE BrowserUnawaited(c)
    <2>1. toPeer'[Me] = toPeer[Me] /\ toRelay' = toRelay /\ clientPc' = clientPc
      BY <1>2, <1>15 DEF BrowserUnawaited
    <2> QED BY <1>1, <1>4, <2>1, Same
  <1>16. CASE BrowserTimeout(c)
    <2>1. clientPc'[c] = "timeout"
      BY <1>1, <1>16 DEF BrowserTimeout
    <2>2. Limit(clientPc'[c]) >= Limit(clientPc[c])
      BY <2>1, LimitValues, LimitRange DEF Failures
    <2> QED BY <1>4, <1>16, <2>2 DEF BrowserTimeout, wireVars
  <1>17. CASE SetOnOutput(c)
    BY <1>1, <1>4, <1>17, Same DEF SetOnOutput, wireVars
  <1>18. CASE OnOutput(c)
    <2>1. toPeer'[Me] = toPeer[Me] /\ toRelay' = toRelay /\ clientPc' = clientPc
      BY <1>2, <1>18 DEF OnOutput, ClientReads
    <2> QED BY <1>1, <1>4, <2>1, Same
  <1>19. CASE OnHostPing(c)
    <2>1. Send(c, Msg("pong", NoClient, NoData))
      BY <1>19 DEF OnHostPing
    <2>2. toPeer'[Me] = toPeer[Me] /\ clientPc[c] = "running" /\ clientPc' = clientPc
      BY <1>2, <1>19 DEF OnHostPing, ClientReads, clientVars
    <2> QED BY <1>1, <2>1, <2>2, SendTurns, Ranks, LimitValues
  <1>20. CASE OnOther(c)
    <2>1. toPeer'[Me] = toPeer[Me] /\ toRelay' = toRelay /\ clientPc' = clientPc
      BY <1>2, <1>20 DEF OnOther, clientVars
    <2> QED BY <1>1, <1>4, <2>1, Same
  <1>21. CASE ReadLoopFails(c) \/ CloseClient(c)
    BY <1>5, <1>21, LimitValues DEF ReadLoopFails, CloseClient
  <1>22. CASE SendInput(c)
    <2>1. \E d : Send(c, Msg("input", NoClient, d))
      BY <1>22 DEF SendInput
    <2>2. toPeer'[Me] = toPeer[Me] /\ clientPc[c] = "running" /\ clientPc' = clientPc
      BY <1>2, <1>22 DEF SendInput
    <2> QED BY <1>1, <2>1, <2>2, SendTurns, Ranks, LimitValues
  <1>23. CASE LatencyPings(c)
    <2>1. Send(c, Msg("ping", NoClient, NoData))
      BY <1>23 DEF LatencyPings
    <2>2. toPeer'[Me] = toPeer[Me] /\ clientPc[c] = "running" /\ clientPc' = clientPc
      BY <1>2, <1>23 DEF LatencyPings
    <2> QED BY <1>1, <2>1, <2>2, SendTurns, Ranks, LimitValues
  <1>24. CASE ClientHandshake(c)
    BY <1>7, <1>8, <1>9, <1>10, <1>11, <1>12, <1>13, <1>14, <1>15, <1>16, <1>24
       DEF ClientHandshake
  <1>25. CASE BrowserOutput(c)
    <2>1. toPeer'[Me] = toPeer[Me] /\ toRelay' = toRelay /\ clientPc' = clientPc
      BY <1>2, <1>25 DEF BrowserOutput, ClientReads
    <2> QED BY <1>1, <1>4, <2>1, Same
  <1>29. CASE ClientReadLoop(c)
    BY <1>18, <1>19, <1>20, <1>21, <1>25, <1>29 DEF ClientReadLoop
  <1>26. CASE BrowserInput(c)
    BY <1>1, <1>4, <1>26, Same DEF BrowserInput, wireVars
  <1>27. CASE InputEncrypted(c)
    <2>1. sealing[c] # {} /\ \E d : Send(c, Msg("input", NoClient, d))
      BY <1>27 DEF InputEncrypted
    <2>2. toPeer'[Me] = toPeer[Me] /\ clientPc[c] \in Keyholding /\ clientPc' = clientPc
      BY <1>2, <1>27, <2>1 DEF InputEncrypted, Inv, ClientTypes, Promised
    <2>3. Limit(clientPc[c]) = 5
      BY <2>2, LimitValues DEF Keyholding
    <2> QED BY <1>1, <2>1, <2>2, <2>3, SendTurns, Ranks
  <1>28. CASE OutputDecrypted(c)
    BY <1>1, <1>4, <1>28, Same DEF OutputDecrypted, wireVars
  <1> QED BY <1>6, <1>17, <1>21, <1>22, <1>23, <1>24, <1>26, <1>27, <1>28, <1>29
          DEF ClientStep, BrowserSettles

(* A client's program touches nothing of the others.                       *)
LEMMA ExceptApart ==
    ASSUME NEW S, NEW f, f = [x \in S |-> f[x]], NEW d, NEW v
    PROVE  \A x \in S : x # d => [f EXCEPT ![d] = v][x] = f[x]
  OBVIOUS

LEMMA OthersUntouched ==
    ASSUME Inv, NEW d \in Clients, ClientStep(d), NEW x \in Conns, x # d
    PROVE  /\ toRelay'[x] = toRelay[x] /\ toPeer'[x] = toPeer[x] /\ link'[x] = link[x]
           /\ x \in Clients => /\ clientPc'[x] = clientPc[x] /\ clientKey'[x] = clientKey[x]
                               /\ typed'[x] = typed[x] /\ shown'[x] = shown[x]
  <1>1. /\ toPeer = [y \in Conns |-> toPeer[y]] /\ toRelay = [y \in Conns |-> toRelay[y]]
        /\ link = [y \in Conns |-> link[y]]
    BY DEF Inv, Framed, ToPeerFramed, ToRelayFramed, LinkTypes
  <1>2. /\ clientPc = [y \in Clients |-> clientPc[y]]
        /\ clientKey = [y \in Clients |-> clientKey[y]]
        /\ typed = [y \in Clients |-> typed[y]] /\ shown = [y \in Clients |-> shown[y]]
    BY DEF Inv, ClientTypes
  <1>3. \A m : Send(d, m) => toRelay'[x] = toRelay[x]
    BY <1>1, ExceptApart DEF Send
  <1>4. Get(d) \/ Hangup(d) \/ UNCHANGED toPeer => toPeer'[x] = toPeer[x]
    BY <1>1, ExceptApart DEF Get, Hangup
  <1>5. Hangup(d) \/ UNCHANGED link => link'[x] = link[x]
    BY <1>1, ExceptApart DEF Hangup
  <1>6. ASSUME x \in Clients, NEW to, clientPc' = [clientPc EXCEPT ![d] = to]
        PROVE  clientPc'[x] = clientPc[x]
    BY <1>2, <1>6, ExceptApart
  <1>7. ASSUME x \in Clients, NEW k, clientKey' = [clientKey EXCEPT ![d] = k]
        PROVE  clientKey'[x] = clientKey[x]
    BY <1>2, <1>7, ExceptApart
  <1>8. ASSUME x \in Clients, NEW k, typed' = [typed EXCEPT ![d] = k]
        PROVE  typed'[x] = typed[x]
    BY <1>2, <1>8, ExceptApart
  <1>9. ASSUME x \in Clients, NEW k, shown' = [shown EXCEPT ![d] = k]
        PROVE  shown'[x] = shown[x]
    BY <1>2, <1>9, ExceptApart
  <1>10. CASE \E why : Fail(d, why)
    BY <1>4, <1>5, <1>6, <1>10 DEF Fail
  <1>11. CASE Join(d)
    BY <1>3, <1>6, <1>11 DEF Join, Move
  <1>12. CASE OnSessionJoined(d) \/ KeyPairGenerated(d)
    BY <1>3, <1>4, <1>6, <1>12
       DEF OnSessionJoined, KeyPairGenerated, Move, ClientReads, SendKeyExchange
  <1>13. CASE OnHostKey(d)
    BY <1>3, <1>4, <1>6, <1>7, <1>13 DEF OnHostKey, Move, ClientReads
  <1>14. CASE OnHostVerify(d) \/ BrowserJoined(d) \/ BrowserKey(d)
    BY <1>4, <1>6, <1>14 DEF OnHostVerify, BrowserJoined, BrowserKey, Move, ClientReads
  <1>15. CASE HandshakeFails(d)
    BY <1>10, <1>15 DEF HandshakeFails
  <1>16. CASE KeyDerived(d)
    BY <1>6, <1>7, <1>16 DEF KeyDerived, Move, wireVars
  <1>17. CASE BrowserUnawaited(d)
    BY <1>4, <1>9, <1>17 DEF BrowserUnawaited
  <1>18. CASE BrowserTimeout(d) \/ SetOnOutput(d)
    BY <1>6, <1>18 DEF BrowserTimeout, SetOnOutput, wireVars
  <1>19. CASE OnOutput(d)
    BY <1>4, <1>9, <1>19 DEF OnOutput, ClientReads
  <1>20. CASE OnHostPing(d) \/ OnOther(d)
    BY <1>3, <1>4, <1>20 DEF OnHostPing, OnOther, ClientReads, clientVars
  <1>21. CASE ReadLoopFails(d) \/ CloseClient(d)
    BY <1>10, <1>21 DEF ReadLoopFails, CloseClient
  <1>22. CASE SendInput(d)
    BY <1>3, <1>8, <1>22 DEF SendInput
  <1>23. CASE LatencyPings(d)
    BY <1>3, <1>23 DEF LatencyPings
  <1>24. CASE BrowserInput(d)
    BY <1>8, <1>24 DEF BrowserInput, wireVars
  <1>25. CASE InputEncrypted(d)
    BY <1>3, <1>25 DEF InputEncrypted
  <1>26. CASE BrowserOutput(d)
    BY <1>4, <1>26 DEF BrowserOutput, ClientReads
  <1>27. CASE OutputDecrypted(d)
    BY <1>9, <1>27 DEF OutputDecrypted, wireVars
  <1> QED BY <1>11, <1>12, <1>13, <1>14, <1>15, <1>16, <1>17, <1>18, <1>19, <1>20, <1>21,
             <1>22, <1>23, <1>24, <1>25, <1>26, <1>27
          DEF ClientStep, ClientHandshake, ClientReadLoop, BrowserSettles

LEMMA OtherClientTurns ==
    ASSUME Inv, NEW d \in Clients, ClientStep(d), pc' = pc, NEW c \in Clients, c # d
    PROVE  Quiet(c)
  <1>1. c \in Conns /\ Me \in Conns /\ Me # d /\ Framed
    BY OneHostFacts DEF Inv
  <1>2. toRelay'[c] = toRelay[c] /\ toPeer'[Me] = toPeer[Me] /\ clientPc'[c] = clientPc[c]
    BY <1>1, OthersUntouched
  <1>3. Limit(clientPc'[c]) >= Limit(clientPc[c])
    BY <1>2, LimitRange
  <1> QED BY <1>1, <1>2, <1>3, Same DEF Quiet

LEMMA NextTurns ==
    ASSUME Inv, [Next]_vars, NEW c \in Clients
    PROVE  Turn(c)
  <1>1. Relaying /\ Framed
    BY DEF Inv
  <1>2. CASE UNCHANGED vars
    BY <1>1, <1>2, Same DEF vars, wireVars, relayVars, clientVars, Quiet, Turn
  <1>3. CASE RelayStep
    <2>1. clientPc' = clientPc
      BY <1>3 DEF RelayStep, clientVars
    <2> QED BY <1>1, <1>3, <2>1, EitherTurns, HostHandlerTurns, OtherHandlerTurns,
               OwnHandlerTurns DEF RelayStep, Turn
  <1>4. CASE HostStep /\ UNCHANGED <<relayVars, clientVars>>
    BY <1>1, <1>4, HostTurns DEF relayVars, clientVars, Turn
  <1>5. ASSUME NEW d \in Clients, ClientStep(d), UNCHANGED <<relayVars, hostVars>>
        PROVE  Turn(c)
    <2>1. pc' = pc
      BY <1>5 DEF relayVars
    <2> QED BY <1>5, <2>1, ClientTurns, OtherClientTurns DEF Turn
  <1>6. ASSUME NEW x \in Conns, Lost(x) PROVE Turn(c)
    BY <1>1, <1>6, LostTurns DEF Turn
  <1> QED BY <1>2, <1>3, <1>4, <1>5, <1>6 DEF Next, ProgramStep

(* The frames of a client keep their order.                                *)
LEMMA InitPipeline == ASSUME Init, NEW c \in Clients PROVE Pipeline(c)
  <1>1. /\ toPeer[Me] = << >> /\ toRelay[c] = << >> /\ pc[c] = "idle"
        /\ Limit(clientPc[c]) = 0
    BY OneHostFacts, LimitValues DEF Init, WireInit, RelayInit, ClientInit
  <1>2. Len(<< >>) = 0
    OBVIOUS
  <1> QED BY <1>1, <1>2 DEF Pipeline, Pipe, InboxOrdered, OutboxOrdered, InboxBounded,
                            OutboxBounded, Sessionless

LEMMA NextPipeline ==
    ASSUME Inv, [Next]_vars, NEW c \in Clients, Pipeline(c)
    PROVE  Pipeline(c)' /\ (Taken(c) => Taken(c)')
  <1>1. Framed /\ Framed'
    BY NextInv DEF Inv
  <1> QED BY <1>1, NextTurns, TurnKeeps

---------------------------------------------------------------------------
(* The keys.  The frames that carry a ciphertext, those of them on their   *)
(* way to a client, and what holds for the session of the client: once a   *)
(* key is known to it the key_exchange is past, so that nothing completes  *)
(* the session a second time, and all that is sealed is sealed with it.    *)
SealedTypes == {"verify", "resize", "output"}
Carried(q, c) ==
    {q[i] : i \in {j \in 1..Len(q) : q[j].client = c /\ q[j].type \in SealedTypes}}
Sealing(c) == Carried(toRelay[Me], c) \cup Carried(toPeer[c], c)

Keyed(c) ==
    /\ c \in ReadyClients => Taken(c)
    /\ \A m \in Sealing(c) : Taken(c) /\ crypto[c] \subseteq {m.data.key}
    /\ c \notin Browsers /\ clientPc[c] = "running"
         => Taken(c) /\ crypto[c] \subseteq {clientKey[c]}

(* A step that completes no session: what it seals, it seals with the key  *)
(* of a session that is ready, and a client that starts to run has opened  *)
(* a token of the host.                                                    *)
Serves(c) ==
    /\ crypto'[c] = crypto[c] \/ crypto'[c] = {}
    /\ \A m \in Sealing(c)' :
         \/ m \in Sealing(c)
         \/ c \in ReadyClients /\ crypto'[c] = crypto[c] /\ m.data.key = KeyOf(c)
    /\ c \notin Browsers /\ clientPc'[c] = "running" =>
         \/ clientPc[c] = "running" /\ clientKey'[c] = clientKey[c]
         \/ \E m \in Sealing(c) : m.data.key = clientKey'[c]

LEMMA ReadyKept ==
    ASSUME NEW c \in Clients, crypto'[c] = crypto[c]
    PROVE  KeyOf(c)' = KeyOf(c) /\ (c \in ReadyClients' <=> c \in ReadyClients)
  <1>1. KeyOf(c)' = KeyOf(c)
    BY DEF KeyOf
  <1> QED BY <1>1 DEF ReadyClients, HasSession

LEMMA ServesKeeps ==
    ASSUME SessionKeys, NEW c \in Clients, Keyed(c), Serves(c), Taken(c) => Taken(c)'
    PROVE  Keyed(c)'
  <1>1. ASSUME c \in ReadyClients' PROVE Taken(c)'
    <2>1. crypto'[c] # {}
      BY <1>1 DEF ReadyClients, HasSession
    <2>2. crypto'[c] = crypto[c]
      BY <2>1 DEF Serves
    <2> QED BY <1>1, <2>2, ReadyKept DEF Keyed
  <1>2. ASSUME NEW m \in Sealing(c)' PROVE Taken(c)' /\ crypto'[c] \subseteq {m.data.key}
    <2>1. CASE m \in Sealing(c)
      BY <2>1 DEF Keyed, Serves
    <2>2. CASE c \in ReadyClients /\ crypto'[c] = crypto[c] /\ m.data.key = KeyOf(c)
      <3>1. crypto[c] = {KeyOf(c)}
        BY <2>2, KeyHeld
      <3> QED BY <2>2, <3>1 DEF Keyed
    <2> QED BY <1>2, <2>1, <2>2 DEF Serves
  <1>3. ASSUME c \notin Browsers, clientPc'[c] = "running"
        PROVE  Taken(c)' /\ crypto'[c] \subseteq {clientKey'[c]}
    <2>1. CASE clientPc[c] = "running" /\ clientKey'[c] = clientKey[c]
      BY <1>3, <2>1 DEF Keyed, Serves
    <2>2. CASE \E m \in Sealing(c) : m.data.key = clientKey'[c]
      BY <2>2 DEF Keyed, Serves
    <2> QED BY <1>3, <2>1, <2>2 DEF Serves
  <1> QED BY <1>1, <1>2, <1>3 DEF Keyed

(* What becomes of the frames when a queue is read or written.             *)
Extends(q, q2, S) ==
    \A i \in 1..Len(q2) : (i \in 1..Len(q) /\ q2[i] = q[i]) \/ q2[i] \in S

LEMMA FewerCarried ==
    ASSUME NEW S, NEW q \in Seq(S), NEW q2, Fewer(q, q2), NEW c
    PROVE  Carried(q2, c) \subseteq Carried(q, c)
  <1>0. Shortened(q, q2)
    BY FewerFrames
  <1>1. PICK n \in Nat : \A j \in 1..Len(q2) : j + n \in 1..Len(q) /\ q[j + n] = q2[j]
    BY <1>0 DEF Shortened
  <1>2. ASSUME NEW m \in Carried(q2, c) PROVE m \in Carried(q, c)
    <2>1. PICK j \in 1..Len(q2) :
            m = q2[j] /\ q2[j].client = c /\ q2[j].type \in SealedTypes
      BY <1>2 DEF Carried
    <2>2. j + n \in 1..Len(q) /\ q[j + n] = m
      BY <1>1, <2>1
    <2> QED BY <2>1, <2>2 DEF Carried
  <1> QED BY <1>2

LEMMA ExtendsCarried ==
    ASSUME NEW q, NEW q2, NEW S, Extends(q, q2, S), NEW c
    PROVE  \A m \in Carried(q2, c) :
             \/ m \in Carried(q, c)
             \/ m \in S /\ m.client = c /\ m.type \in SealedTypes
  <1> SUFFICES ASSUME NEW m \in Carried(q2, c)
               PROVE  \/ m \in Carried(q, c)
                      \/ m \in S /\ m.client = c /\ m.type \in SealedTypes
    OBVIOUS
  <1>1. PICK j \in 1..Len(q2) :
          m = q2[j] /\ q2[j].client = c /\ q2[j].type \in SealedTypes
    BY DEF Carried
  <1> QED BY <1>1 DEF Carried, Extends

LEMMA AppendExtends ==
    ASSUME NEW T, NEW q \in Seq(T), NEW S, NEW m \in S
    PROVE  Extends(q, Append(q, m), S) /\ Extends(q, q, S)
  <1> DEFINE q2 == Append(q, m)
  <1>1. /\ Len(q2) = Len(q) + 1 /\ q2[Len(q) + 1] = m /\ Len(q) \in Nat
        /\ \A i \in 1..Len(q) : q2[i] = q[i]
    BY AppendAdds DEF Adds
  <1> HIDE DEF q2
  <1>2. ASSUME NEW i \in 1..Len(q2) PROVE (i \in 1..Len(q) /\ q2[i] = q[i]) \/ q2[i] \in S
    <2>1. i \in 1..Len(q) \/ i = Len(q) + 1
      BY <1>1, <1>2
    <2> QED BY <1>1, <2>1
  <1> QED BY <1>2 DEF Extends, q2

LEMMA ConcatExtends ==
    ASSUME NEW T, NEW q \in Seq(T), NEW S, NEW t \in Seq(S)
    PROVE  Extends(q, q \o t, S)
  <1>1. Len(q) \in Nat /\ Len(t) \in Nat /\ Len(q \o t) = Len(q) + Len(t)
    OBVIOUS
  <1>2. \A i \in 1..Len(t) : t[i] \in S
    OBVIOUS
  <1>3. ASSUME NEW i \in 1..Len(q \o t)
        PROVE  (i \in 1..Len(q) /\ (q \o t)[i] = q[i]) \/ (q \o t)[i] \in S
    <2>1. CASE i <= Len(q)
      BY <1>1, <1>3, <2>1
    <2>2. CASE i > Len(q)
      <3>1. i - Len(q) \in 1..Len(t) /\ (q \o t)[i] = t[i - Len(q)]
        BY <1>1, <1>3, <2>2
      <3> QED BY <1>2, <3>1
    <2> QED BY <1>1, <1>3, <2>1, <2>2
  <1> QED BY <1>3 DEF Extends

LEMMA HeadCarried ==
    ASSUME NEW S, NEW q \in Seq(S), q # << >>, Head(q).type \in SealedTypes
    PROVE  Head(q) \in Carried(q, Head(q).client)
  <1>1. 1 \in 1..Len(q) /\ q[1] = Head(q)
    BY TailTakes
  <1> QED BY <1>1 DEF Carried

(* A step that seals nothing and leaves the programs alone.                *)
LEMMA PassiveServes ==
    ASSUME NEW c \in Clients, crypto' = crypto, clientPc' = clientPc,
           clientKey' = clientKey, \A m \in Sealing(c)' : m \in Sealing(c)
    PROVE  Serves(c)
  BY DEF Serves

LEMMA FewerSealing ==
    ASSUME Framed, NEW c \in Clients, Fewer(toRelay[Me], toRelay'[Me]),
           Fewer(toPeer[c], toPeer'[c])
    PROVE  \A m \in Sealing(c)' : m \in Sealing(c)
  <1>1. /\ toRelay[Me] \in Seq(PeerSays(Me)) /\ toPeer[c] \in Seq(RelaySays(c))
    BY OneHostFacts DEF Framed, ToRelayFramed, ToPeerFramed
  <1>2. /\ Carried(toRelay'[Me], c) \subseteq Carried(toRelay[Me], c)
        /\ Carried(toPeer'[c], c) \subseteq Carried(toPeer[c], c)
    BY <1>1, FewerCarried
  <1> QED BY <1>2 DEF Sealing

LEMMA AnyTakeFewer ==
    ASSUME Framed, NEW x \in Conns, NEW y \in Conns
    PROVE  /\ Incoming(x) /\ Take(x) => Fewer(toRelay[y], toRelay'[y])
           /\ \A S : Close(S) => Fewer(toRelay[y], toRelay'[y])
           /\ toRelay' = toRelay => Fewer(toRelay[y], toRelay'[y])
           /\ toPeer' = toPeer => Fewer(toPeer[y], toPeer'[y])
           /\ Hangup(x) => Fewer(toPeer[y], toPeer'[y])
           /\ Arrived(x) /\ Get(x) => Fewer(toPeer[y], toPeer'[y])
  <1>1. /\ toPeer = [z \in Conns |-> toPeer[z]] /\ toRelay = [z \in Conns |-> toRelay[z]]
    BY DEF Framed, ToPeerFramed, ToRelayFramed
  <1>2. ASSUME Incoming(x), Take(x) PROVE Fewer(toRelay[y], toRelay'[y])
    BY <1>1, <1>2 DEF Incoming, Take, Fewer
  <1>3. ASSUME NEW S, Close(S) PROVE Fewer(toRelay[y], toRelay'[y])
    BY <1>3 DEF Close, Fewer
  <1>4. ASSUME Hangup(x) PROVE Fewer(toPeer[y], toPeer'[y])
    BY <1>1, <1>4 DEF Hangup, Fewer
  <1>5. ASSUME Arrived(x), Get(x) PROVE Fewer(toPeer[y], toPeer'[y])
    BY <1>1, <1>5 DEF Arrived, Get, Fewer
  <1>6. /\ toRelay' = toRelay => Fewer(toRelay[y], toRelay'[y])
        /\ toPeer' = toPeer => Fewer(toPeer[y], toPeer'[y])
    BY DEF Fewer
  <1> QED BY <1>2, <1>3, <1>4, <1>5, <1>6

(* The relay writes to a client what it has of its own, or passes on the   *)
(* frame at the head of the host's.                                        *)
LEMMA WriteSealing ==
    ASSUME Framed, NEW c \in Clients, NEW S, NEW m, Write(S, m),
           Fewer(toRelay[Me], toRelay'[Me]),
           m.type \notin SealedTypes \/ m \in Carried(toRelay[Me], m.client)
    PROVE  \A n \in Sealing(c)' : n \in Sealing(c)
  <1>1. /\ toRelay[Me] \in Seq(PeerSays(Me)) /\ toPeer[c] \in Seq(RelaySays(c))
        /\ c \in Conns
    BY OneHostFacts DEF Framed, ToRelayFramed, ToPeerFramed
  <1>2. Carried(toRelay'[Me], c) \subseteq Carried(toRelay[Me], c)
    BY <1>1, FewerCarried
  <1>3. toPeer'[c] = toPeer[c] \/ toPeer'[c] = Append(toPeer[c], m)
    BY <1>1 DEF Write
  <1>4. Extends(toPeer[c], toPeer'[c], {m})
    BY <1>1, <1>3, AppendExtends
  <1>5. ASSUME NEW n \in Carried(toPeer'[c], c) PROVE n \in Sealing(c)
    <2>1. n \in Carried(toPeer[c], c)
          \/ (n = m /\ n.client = c /\ n.type \in SealedTypes)
      BY <1>4, <1>5, ExtendsCarried
    <2> QED BY <2>1 DEF Sealing
  <1> QED BY <1>2, <1>5 DEF Sealing

LEMMA RelayServes ==
    ASSUME Inv, RelayStep, NEW c \in Clients
    PROVE  Serves(c)
  <1>1. /\ Framed /\ Relaying /\ Me \in Conns /\ c \in Conns
        /\ crypto' = crypto /\ clientPc' = clientPc /\ clientKey' = clientKey
    BY OneHostFacts DEF Inv, RelayStep, hostVars, clientVars
  <1>2. SUFFICES \A m \in Sealing(c)' : m \in Sealing(c)
    BY <1>1, PassiveServes
  <1>3. {"error", "host_registered", "session_joined", "joined", "left"} \cap SealedTypes = {}
    BY DEF SealedTypes
  <1>4. ASSUME NEW x \in Conns, Accept(x) \/ FirstReadFails(x) \/ Refuse(x)
        PROVE  \A m \in Sealing(c)' : m \in Sealing(c)
    <2>1. CASE Accept(x)
      BY <1>1, <2>1, FewerSealing, AnyTakeFewer DEF Accept
    <2>2. CASE FirstReadFails(x)
      BY <1>1, <2>2, FewerSealing, AnyTakeFewer DEF FirstReadFails
    <2>3. CASE Refuse(x)
      BY <1>1, <1>3, <2>3, WriteSealing, AnyTakeFewer, Msgs DEF Refuse
    <2> QED BY <1>4, <2>1, <2>2, <2>3
  <1>5. CASE HostHandler(Me)
    <2>1. CASE FirstReadFails(Me) \/ RejectFirst(Me)
      BY <1>1, <1>4, <2>1 DEF RejectFirst
    <2>2. CASE RegisterHost(Me)
      BY <1>1, <1>3, <2>2, WriteSealing, AnyTakeFewer, Msgs DEF RegisterHost, First
    <2>3. CASE RejectHost(Me)
      BY <1>1, <1>3, <2>3, WriteSealing, AnyTakeFewer, Msgs DEF RejectHost, First
    <2>4. CASE ForwardFromHost(Me)
      <3> DEFINE m == Next1(Me)
      <3>1. Fewer(toRelay[Me], toRelay'[Me])
        BY <1>1, <2>4, AnyTakeFewer DEF ForwardFromHost
      <3>2. UNCHANGED toPeer \/ Write(Targets(Me, m), m)
        BY <2>4 DEF ForwardFromHost
      <3>3. m.type \notin SealedTypes \/ m \in Carried(toRelay[Me], m.client)
        <4>1. toRelay[Me] \in Seq(PeerSays(Me)) /\ toRelay[Me] # << >>
          BY <1>1, <2>4 DEF ForwardFromHost, Incoming, Framed, ToRelayFramed
        <4> QED BY <4>1, HeadCarried DEF Next1
      <3> HIDE DEF m
      <3>4. CASE UNCHANGED toPeer
        BY <1>1, <3>1, <3>4, FewerSealing, AnyTakeFewer
      <3>5. CASE Write(Targets(Me, m), m)
        BY <1>1, <3>1, <3>3, <3>5, WriteSealing
      <3> QED BY <3>2, <3>4, <3>5
    <2>5. CASE Unregister(Me)
      BY <1>1, <2>5, FewerSealing, AnyTakeFewer DEF Unregister, wireVars
    <2>6. CASE CloseHostConn(Me) \/ CloseMembers(Me)
      BY <1>1, <2>6, FewerSealing, AnyTakeFewer DEF CloseHostConn, CloseMembers
    <2> QED BY <1>5, <2>1, <2>2, <2>3, <2>4, <2>5, <2>6 DEF HostHandler
  <1>6. ASSUME NEW d \in Clients, ClientHandler(d)
        PROVE  \A m \in Sealing(c)' : m \in Sealing(c)
    <2>1. d \in Conns /\ d # Me
      BY OneHostFacts
    <2>2. CASE FirstReadFails(d) \/ RejectFirst(d) \/ RateLimited(d) \/ SessionNotFound(d)
      BY <1>4, <2>1, <2>2 DEF RejectFirst, RateLimited, SessionNotFound
    <2>3. CASE LookupSession(d)
      BY <1>1, <2>1, <2>3, FewerSealing, AnyTakeFewer DEF LookupSession, First
    <2>4. CASE AckJoin(d) \/ NotifyJoined(d) \/ NotifyLeft(d)
      BY <1>1, <1>3, <2>4, WriteSealing, AnyTakeFewer, Msgs
         DEF AckJoin, NotifyJoined, NotifyLeft
    <2>5. CASE AddClient(d) \/ ClientReadFails(d) \/ RemoveClient(d)
      BY <1>1, <2>5, FewerSealing, AnyTakeFewer
         DEF AddClient, ClientReadFails, RemoveClient, wireVars
    <2>6. CASE ForwardFromClient(d)
      <3>1. Fewer(toRelay[Me], toRelay'[Me])
        BY <1>1, <2>1, <2>6, AnyTakeFewer DEF ForwardFromClient
      <3>2. CASE UNCHANGED toPeer
        BY <1>1, <3>1, <3>2, FewerSealing, AnyTakeFewer
      <3>3. CASE Write({sess[d]}, Msg(Next1(d).type, d, Next1(d).data))
        <4>1. sess[d] = Me
          BY <1>1, <2>6 DEF ForwardFromClient, Relaying, Located, Attached
        <4>2. toPeer'[c] = toPeer[c]
          BY <1>1, <3>3, <4>1, OneHostFacts DEF Write
        <4>3. Fewer(toPeer[c], toPeer'[c])
          BY <4>2 DEF Fewer
        <4> QED BY <1>1, <3>1, <4>3, FewerSealing
      <3> QED BY <2>6, <3>2, <3>3 DEF ForwardFromClient
    <2>7. CASE ForwardFails(d)
      BY <1>1, <2>1, <2>7, FewerSealing, AnyTakeFewer DEF ForwardFails
    <2>8. CASE Disconnect(d)
      BY <1>1, <2>8, FewerSealing, AnyTakeFewer DEF Disconnect
    <2> QED BY <1>6, <2>2, <2>3, <2>4, <2>5, <2>6, <2>7, <2>8 DEF ClientHandler
  <1> QED BY <1>4, <1>5, <1>6 DEF RelayStep

LEMMA LostServes ==
    ASSUME Inv, NEW x \in Conns, Lost(x), NEW c \in Clients
    PROVE  Serves(c)
  <1>1. /\ Framed /\ Me \in Conns /\ c \in Conns
        /\ crypto' = crypto /\ clientPc' = clientPc /\ clientKey' = clientKey
    BY OneHostFacts DEF Inv, Lost, hostVars, clientVars
  <1>2. Fewer(toRelay[Me], toRelay'[Me]) /\ Fewer(toPeer[c], toPeer'[c])
    BY <1>1, AnyTakeFewer DEF Lost
  <1> QED BY <1>1, <1>2, FewerSealing, PassiveServes

LEMMA ClientServes ==
    ASSUME Inv, NEW c \in Clients, ClientStep(c), crypto' = crypto
    PROVE  Serves(c)
  <1>1. /\ Framed /\ Me \in Conns /\ c \in Conns /\ c # Me
        /\ clientPc \in [Clients -> ClientState] /\ DOMAIN clientKey = Clients
    BY OneHostFacts DEF Inv, ClientTypes
  <1>2. toRelay'[Me] = toRelay[Me]
    BY <1>1, OthersUntouched
  <1>3. Fewer(toPeer[c], toPeer'[c])
    <2>1. (Arrived(c) /\ Get(c)) \/ Hangup(c) \/ UNCHANGED toPeer
      <3>1. CASE Join(c) \/ SetOnOutput(c) \/ SendInput(c) \/ LatencyPings(c)
                   \/ CloseClient(c)
        BY <3>1 DEF Join, SetOnOutput, SendInput, LatencyPings, CloseClient, Fail, wireVars
      <3>2. CASE ClientReadLoop(c)
        BY <3>2 DEF ClientReadLoop, OnOutput, BrowserOutput, OnHostPing, OnOther,
                    ReadLoopFails, Fail, ClientReads
      <3>3. CASE ClientHandshake(c)
        BY <3>3 DEF ClientHandshake, OnSessionJoined, OnHostKey, OnHostVerify,
                    HandshakeFails, BrowserJoined, KeyPairGenerated, BrowserKey, KeyDerived,
                    BrowserUnawaited, BrowserTimeout, Fail, ClientReads, wireVars
      <3>4. CASE BrowserInput(c) \/ BrowserSettles(c)
        BY <3>4 DEF BrowserInput, BrowserSettles, InputEncrypted, OutputDecrypted, wireVars
      <3> QED BY <3>1, <3>2, <3>3, <3>4 DEF ClientStep
    <2> QED BY <1>1, <2>1, AnyTakeFewer
  <1>4. \A m \in Sealing(c)' : m \in Sealing(c)
    BY <1>1, <1>2, <1>3, FewerSealing DEF Fewer
  <1>5. ASSUME c \notin Browsers, clientPc'[c] = "running"
        PROVE  \/ clientPc[c] = "running" /\ clientKey'[c] = clientKey[c]
               \/ \E m \in Sealing(c) : m.data.key = clientKey'[c]
    <2>1. \A from, to : Move(c, from, to) => clientPc'[c] = to
      BY <1>1 DEF Move
    <2>2. ASSUME NEW why \in Failures \cup {"closed"}, Fail(c, why) PROVE FALSE
      BY <1>1, <1>5, <2>2 DEF Fail, Failures
    <2>3. CASE Join(c)
      BY <1>5, <2>1, <2>3 DEF Join
    <2>4. CASE OnSessionJoined(c) \/ OnHostKey(c)
      BY <1>5, <2>1, <2>4 DEF OnSessionJoined, OnHostKey
    <2>5. CASE BrowserJoined(c) \/ KeyPairGenerated(c) \/ BrowserKey(c) \/ BrowserUnawaited(c)
                 \/ BrowserTimeout(c)
      BY <1>5, <2>1, <2>5
         DEF BrowserJoined, KeyPairGenerated, BrowserKey, BrowserUnawaited, BrowserTimeout
    <2>6. CASE KeyDerived(c)
      BY <1>1, <1>5, <2>6 DEF KeyDerived, Move, Inv, ClientTypes
    <2>7. CASE HandshakeFails(c)
      BY <2>2, <2>7 DEF HandshakeFails, Failures
    <2>8. CASE ReadLoopFails(c) \/ CloseClient(c)
      BY <2>2, <2>8 DEF ReadLoopFails, CloseClient
    <2>9. CASE OnHostVerify(c)
      <3>1. /\ toPeer[c] \in Seq(RelaySays(c)) /\ toPeer[c] # << >>
            /\ Got(c).type = "verify" /\ CheckVerify(clientKey[c], Got(c).data)
            /\ clientKey' = clientKey
        BY <1>1, <2>9 DEF OnHostVerify, ClientReads, Arrived, Framed, ToPeerFramed
      <3>2. Got(c) \in RelaySays(c)
        BY <3>1, HeadIn DEF Got
      <3>3. Got(c).client = c
        BY <1>1, <3>1, <3>2 DEF RelaySays, RelayFrame
      <3>4. Got(c) \in Carried(toPeer[c], c)
        BY <3>1, <3>3, HeadCarried DEF Got, SealedTypes
      <3>5. Got(c).data.key = clientKey'[c]
        BY <3>1 DEF CheckVerify, Opens
      <3> QED BY <3>4, <3>5 DEF Sealing
    <2>10. CASE SetOnOutput(c) \/ ClientReadLoop(c) \/ SendInput(c) \/ LatencyPings(c)
                  \/ BrowserInput(c) \/ BrowserSettles(c)
      <3>1. CASE ReadLoopFails(c)
        BY <2>8, <3>1
      <3>2. CASE SetOnOutput(c) \/ SendInput(c) \/ LatencyPings(c)
        BY <3>2 DEF SetOnOutput, SendInput, LatencyPings
      <3>3. CASE OnOutput(c) \/ BrowserOutput(c) \/ OnHostPing(c) \/ OnOther(c)
        BY <3>3 DEF OnOutput, BrowserOutput, OnHostPing, OnOther, clientVars
      <3>4. CASE BrowserInput(c) \/ BrowserSettles(c)
        BY <1>5, <3>4 DEF BrowserInput, BrowserSettles, InputEncrypted, OutputDecrypted
      <3> QED BY <2>10, <3>1, <3>2, <3>3, <3>4 DEF ClientReadLoop
    <2>11. CASE ClientHandshake(c)
      BY <2>4, <2>5, <2>6, <2>7, <2>9, <2>11 DEF ClientHandshake
    <2> QED BY <2>3, <2>8, <2>10, <2>11 DEF ClientStep
  <1> QED BY <1>4, <1>5 DEF Serves

LEMMA OtherClientServes ==
    ASSUME Inv, NEW d \in Clients, ClientStep(d), crypto' = crypto,
           NEW c \in Clients, c # d
    PROVE  Serves(c)
  <1>1. Framed /\ c \in Conns /\ Me \in Conns /\ Me # d
    BY OneHostFacts DEF Inv
  <1>2. /\ toRelay'[Me] = toRelay[Me] /\ toPeer'[c] = toPeer[c]
        /\ clientPc'[c] = clientPc[c] /\ clientKey'[c] = clientKey[c]
    BY <1>1, OthersUntouched
  <1>3. \A m \in Sealing(c)' : m \in Sealing(c)
    BY <1>1, <1>2, FewerSealing DEF Fewer
  <1> QED BY <1>2, <1>3 DEF Serves

(* What the host writes it seals with the key of a session that is ready.  *)
Genuine ==
    {m \in PeerSays(Me) :
       m.type \in SealedTypes => m.client \in ReadyClients /\ m.data.key = KeyOf(m.client)}

LEMMA GenuineFrames ==
    ASSUME SessionKeys
    PROVE  /\ \A k \in Codes : Msg("host_register", NoClient, k) \in Genuine
           /\ \A c \in Clients : /\ Msg("key_exchange", c, HostPub(c)) \in Genuine
                                 /\ Msg("pong", c, NoData) \in Genuine
                                 /\ Msg("ping", c, NoData) \in Genuine
           /\ \A c \in ReadyClients :
                /\ Resize(c) \in Genuine /\ Banner(c) \in Genuine
                /\ Msg("verify", c, VerifyToken(KeyOf(c))) \in Genuine
                /\ \A t \in Screen : Msg("output", c, Seal(KeyOf(c), t)) \in Genuine
  <1>1. {"host_register", "key_exchange", "ping", "pong"} \cap SealedTypes = {}
    BY DEF SealedTypes
  <1>2. \A k \in Codes : Msg("host_register", NoClient, k) \in Genuine
    BY <1>1, RegisterSays, Msgs DEF Genuine
  <1>3. \A c \in Clients : /\ Msg("key_exchange", c, HostPub(c)) \in Genuine
                           /\ Msg("pong", c, NoData) \in Genuine
                           /\ Msg("ping", c, NoData) \in Genuine
    BY <1>1, HostSends, Msgs DEF Genuine
  <1>4. ASSUME NEW c \in ReadyClients
        PROVE  /\ Resize(c) \in Genuine /\ Banner(c) \in Genuine
               /\ Msg("verify", c, VerifyToken(KeyOf(c))) \in Genuine
               /\ \A t \in Screen : Msg("output", c, Seal(KeyOf(c), t)) \in Genuine
    <2>1. \A t, s : /\ Msg(t, c, Seal(KeyOf(c), s)).client = c
                    /\ Msg(t, c, Seal(KeyOf(c), s)).data.key = KeyOf(c)
      BY DEF Msg, Seal
    <2>2. Resize(c) = Msg("resize", c, Seal(KeyOf(c), [resize |-> TRUE]))
      BY <1>4 DEF Resize
    <2>3. \A t, s : Msg(t, c, Seal(KeyOf(c), s)) \in PeerSays(Me)
                      => Msg(t, c, Seal(KeyOf(c), s)) \in Genuine
      BY <1>4, <2>1 DEF Genuine
    <2> QED BY <1>4, <2>2, <2>3, ReadySends DEF Banner, VerifyToken
  <1> QED BY <1>2, <1>3, <1>4

LEMMA SendEachExtends ==
    ASSUME Framed, NEW frame, IsFiniteSet(DOMAIN frame), NEW S,
           \A c \in DOMAIN frame : frame[c] \in S, SendEach(frame)
    PROVE  Extends(toRelay[Me], toRelay'[Me], S)
  <1>1. PICK order \in SetToSeqs(DOMAIN frame) :
          toRelay' = [toRelay EXCEPT ![Me] =
            IF link[Me] \in Up
              THEN toRelay[Me] \o [i \in DOMAIN order |-> frame[order[i]]]
              ELSE toRelay[Me]]
    BY DEF SendEach
  <1> DEFINE n == Cardinality(DOMAIN frame)
             t == [i \in DOMAIN order |-> frame[order[i]]]
  <1>2. n \in Nat
    BY FS_CardinalityType
  <1>3. order \in [1..n -> DOMAIN frame]
    BY <1>1 DEF SetToSeqs
  <1>4. \A i \in 1..n : t[i] \in S
    BY <1>3
  <1>5. t = [i \in 1..n |-> t[i]]
    BY <1>3
  <1>6. toRelay'[Me] = toRelay[Me] \/ toRelay'[Me] = toRelay[Me] \o t
    BY <1>1, OneHostFacts DEF Framed, ToRelayFramed
  <1> HIDE DEF t, n
  <1>7. t \in Seq(S)
    BY <1>2, <1>4, <1>5
  <1>8. toRelay[Me] \in Seq(PeerSays(Me))
    BY OneHostFacts DEF Framed, ToRelayFramed
  <1>9. Extends(toRelay[Me], toRelay[Me], S)
    BY DEF Extends
  <1> QED BY <1>6, <1>7, <1>8, <1>9, ConcatExtends

LEMMA SendExtends ==
    ASSUME Framed, NEW S, NEW m \in S, Send(Me, m)
    PROVE  Extends(toRelay[Me], toRelay'[Me], S)
  <1>1. toRelay[Me] \in Seq(PeerSays(Me))
    BY OneHostFacts DEF Framed, ToRelayFramed
  <1>2. toRelay'[Me] = toRelay[Me] \/ toRelay'[Me] = Append(toRelay[Me], m)
    BY OneHostFacts DEF Send, Framed, ToRelayFramed
  <1> QED BY <1>1, <1>2, AppendExtends

LEMMA HostWrites ==
    ASSUME Inv, HostStep, joinPw' = joinPw
    PROVE  /\ Extends(toRelay[Me], toRelay'[Me], Genuine)
           /\ toRelay' = toRelay \/ crypto' = crypto \/ OnJoined
  <1>1. Framed /\ SessionKeys /\ Flags /\ Me \in Conns
    BY OneHostFacts DEF Inv, HostTypes
  <1>2. toRelay' = toRelay => Extends(toRelay[Me], toRelay'[Me], Genuine)
    BY DEF Extends
  <1>3. IsFiniteSet(ReadyClients) /\ ReadyClients \subseteq Clients
    BY <1>1, ReadyFinite
  <1>4. CASE HostRegister
    BY <1>1, <1>4, SendExtends, GenuineFrames DEF HostRegister
  <1>5. CASE HostRegistered \/ HostRefused \/ SetPassword \/ CloseHost \/ OnLeft \/ OnPong
               \/ OnKeyExchange \/ HostReadFails
    BY <1>2, <1>5 DEF HostRegistered, HostRefused, SetPassword, CloseHost, OnLeft, OnPong,
                      OnKeyExchange, HostReadFails, wireVars
  <1>6. CASE OnJoined
    <2>1. Got(Me).client \in Clients
      BY <1>1, <1>6, HostReadsFrame DEF OnJoined
    <2> QED BY <1>1, <1>6, <2>1, SendExtends, GenuineFrames DEF OnJoined
  <1>7. CASE WriteVerify
    <2>1. verifying \in ReadyClients
      BY <1>1, <1>7 DEF WriteVerify, SessionKeys
    <2> QED BY <1>1, <1>7, <2>1, SendExtends, GenuineFrames DEF WriteVerify
  <1>8. CASE OnVerify
    <2> DEFINE c == Got(Me).client
    <2>1. c \in Clients
      BY <1>1, <1>8, HostReadsFrame DEF OnVerify
    <2>2. CASE HasSession(c) /\ CheckVerify(KeyOf(c), Got(Me).data)
      <3>1. c \in ReadyClients
        BY <2>1, <2>2 DEF ReadyClients, CheckVerify
      <3> DEFINE a == IF sized THEN <<Resize(c)>> ELSE << >>
                 b == IF HasOutput THEN << >> ELSE <<Banner(c)>>
                 S == Genuine
      <3>2. toRelay' = [toRelay EXCEPT ![Me] =
              IF link[Me] \in Up THEN toRelay[Me] \o a \o b ELSE toRelay[Me]]
        BY <1>8, <2>2 DEF OnVerify
      <3>3. Resize(c) \in S /\ Banner(c) \in S
        BY <1>1, <3>1, GenuineFrames
      <3> HIDE DEF S
      <3>4. <<Resize(c)>> \in Seq(S) /\ <<Banner(c)>> \in Seq(S) /\ << >> \in Seq(S)
        BY <3>3
      <3>5. a \in Seq(S) /\ b \in Seq(S)
        BY <3>4
      <3> HIDE DEF a, b
      <3>6. toRelay[Me] \in Seq(PeerSays(Me)) /\ toRelay = [x \in Conns |-> toRelay[x]]
        BY <1>1 DEF Framed, ToRelayFramed
      <3> DEFINE q == toRelay[Me]
      <3>7. toRelay'[Me] = q \/ toRelay'[Me] = q \o a \o b
        BY <1>1, <3>2, <3>6
      <3>8. q \o a \o b = q \o (a \o b) /\ a \o b \in Seq(S)
        <4>1. q \in Seq(PeerSays(Me))
          BY <3>6
        <4> HIDE DEF q
        <4> QED BY <3>5, <4>1
      <3>9. Extends(q, q \o (a \o b), S)
        BY <3>6, <3>8, ConcatExtends
      <3>10. Extends(q, q, S)
        BY DEF Extends
      <3>11. Extends(toRelay[Me], toRelay'[Me], Genuine)
        BY <3>7, <3>8, <3>9, <3>10 DEF S
      <3> QED BY <1>8, <2>2, <3>11 DEF OnVerify
    <2>3. CASE ~(HasSession(c) /\ CheckVerify(KeyOf(c), Got(Me).data))
      BY <1>2, <1>8, <2>3 DEF OnVerify
    <2> QED BY <2>2, <2>3
  <1>9. CASE OnInput
    <2> DEFINE c == Got(Me).client
               frame == [d \in ReadyClients |->
                           Msg("output", d, Seal(KeyOf(d), Got(Me).data.plain))]
    <2>1. c \in Clients /\ Got(Me).data \in Sealed({OwnKey(c)}, Inputs)
      BY <1>1, <1>9, HostReadsFrame DEF OnInput
    <2>2. Got(Me).data.plain \in Screen
      BY <2>1, SealedPayload DEF Screen
    <2>3. /\ IsFiniteSet(DOMAIN frame)
          /\ \A d \in DOMAIN frame : frame[d] \in Genuine
      BY <1>1, <1>3, <2>2, GenuineFrames
    <2>4. UNCHANGED toRelay \/ SendEach(frame)
      BY <1>9 DEF OnInput
    <2>5. crypto' = crypto
      BY <1>9 DEF OnInput
    <2> HIDE DEF frame
    <2> QED BY <1>1, <1>2, <2>3, <2>4, <2>5, SendEachExtends
  <1>10. CASE OnPing
    <2>1. Got(Me).client \in Clients
      BY <1>1, <1>10, HostReadsFrame DEF OnPing
    <2> QED BY <1>1, <1>10, <2>1, SendExtends, GenuineFrames DEF OnPing, hostVars
  <1>11. CASE ReadOutput
    <2> DEFINE frame == [d \in ReadyClients |->
                           Msg("output", d, Seal(KeyOf(d), [output |-> budget.output + 1]))]
    <2>1. [output |-> budget.output + 1] \in Screen
      BY <1>1, <1>11, SpendTyped DEF ReadOutput, Screen, Outputs
    <2>2. /\ IsFiniteSet(DOMAIN frame)
          /\ \A d \in DOMAIN frame : frame[d] \in Genuine
      BY <1>1, <1>3, <2>1, GenuineFrames
    <2>3. SendEach(frame) /\ crypto' = crypto
      BY <1>11 DEF ReadOutput
    <2> HIDE DEF frame
    <2> QED BY <1>1, <2>2, <2>3, SendEachExtends
  <1>12. CASE LatencyPing
    <2> DEFINE frame == [d \in ReadyClients |-> Msg("ping", d, NoData)]
    <2>1. /\ IsFiniteSet(DOMAIN frame)
          /\ \A d \in DOMAIN frame : frame[d] \in Genuine
      BY <1>1, <1>3, GenuineFrames
    <2>2. SendEach(frame) /\ crypto' = crypto
      BY <1>12 DEF LatencyPing
    <2> HIDE DEF frame
    <2> QED BY <1>1, <2>1, <2>2, SendEachExtends
  <1>13. CASE UpdateTermSize
    <2> DEFINE frame == [d \in ReadyClients |-> Resize(d)]
    <2>1. /\ IsFiniteSet(DOMAIN frame)
          /\ \A d \in DOMAIN frame : frame[d] \in Genuine
      BY <1>1, <1>3, GenuineFrames
    <2>2. SendEach(frame) /\ crypto' = crypto
      BY <1>13 DEF UpdateTermSize
    <2> HIDE DEF frame
    <2> QED BY <1>1, <2>1, <2>2, SendEachExtends
  <1> QED BY <1>4, <1>5, <1>6, <1>7, <1>8, <1>9, <1>10, <1>11, <1>12, <1>13
          DEF HostStep, HostReadLoop

(* The host reads a frame of c: what precedes the exchange finds it open,  *)
(* and with the key_exchange it is past.                                   *)
LEMMA ReadKeyPasses ==
    ASSUME NEW q, NEW r, NEW h, NEW l \in 0..5, NEW c, NEW q2,
           Len(q) \in Nat, Len(r) \in Nat, Takes(q, q2), q[1].client = c,
           Rank(q[1]) = 3, Pipe(q, r, h, l, c)
    PROVE  Past(q2, r, h, l, c)
  <1>1. 1 \in 1..Len(q) /\ \A j \in 1..Len(q2) :
          j + 1 \in 1..Len(q) /\ q2[j] = q[j + 1] /\ 1 < j + 1
    BY DEF Takes
  <1>2. h \notin Before /\ 3 <= l
    BY <1>1 DEF Pipe, InboxBounded
  <1>3. ASSUME NEW j \in 1..Len(q2), q2[j].client = c PROVE Rank(q2[j]) >= 4
    <2>1. Precedes(q[1], q2[j])
      BY <1>1, <1>3 DEF Pipe, InboxOrdered
    <2> QED BY <2>1, RankRange DEF Precedes
  <1>4. ASSUME h = "serving", NEW j \in 1..Len(r) PROVE Rank(r[j]) >= 4
    <2>1. Precedes(q[1], r[j])
      BY <1>1, <1>4 DEF Pipe, Across
    <2> QED BY <2>1, RankRange DEF Precedes
  <1> QED BY <1>2, <1>3, <1>4 DEF Past

LEMMA HeadOpen ==
    ASSUME Framed, Arrived(Me), Get(Me)
    PROVE  /\ Takes(toPeer[Me], toPeer'[Me]) /\ toPeer[Me][1] = Got(Me)
           /\ Rank(Got(Me)) <= 3 => ~Taken(Got(Me).client)
  <1>1. toPeer[Me] \in Seq(RelaySays(Me)) /\ Me \in Conns
    BY OneHostFacts DEF Framed, ToPeerFramed
  <1>2. toPeer[Me] # << >> /\ toPeer'[Me] = Tail(toPeer[Me])
    BY <1>1 DEF Arrived, Get, Framed, ToPeerFramed
  <1>3. /\ Takes(toPeer[Me], toPeer'[Me]) /\ toPeer[Me][1] = Got(Me)
        /\ 1 \in 1..Len(toPeer[Me])
    BY <1>1, <1>2, TailTakes DEF Got
  <1>4. Taken(Got(Me).client) => Rank(Got(Me)) >= 4
    BY <1>3 DEF Taken, Past
  <1> QED BY <1>3, <1>4, RankRange

LEMMA HostServes ==
    ASSUME Inv, HostStep, UNCHANGED <<relayVars, clientVars>>, NEW c \in Clients,
           OnJoined => Got(Me).client # c,
           OnKeyExchange => crypto'[c] = crypto[c]
    PROVE  Serves(c)
  <1>1. /\ Framed /\ SessionKeys /\ Me \in Conns /\ c \in Conns /\ c # Me
        /\ joinPw' = joinPw /\ clientPc' = clientPc /\ clientKey' = clientKey
        /\ crypto = [d \in Clients |-> crypto[d]]
    BY OneHostFacts DEF Inv, HostTypes, SessionKeys, clientVars
  <1>2. crypto'[c] = crypto[c] \/ crypto'[c] = {}
    <2>1. CASE OnJoined
      BY <1>1, <2>1 DEF OnJoined
    <2>2. CASE OnLeft \/ OnVerify
      BY <1>1, <2>2 DEF OnLeft, OnVerify
    <2>3. CASE OnKeyExchange
      BY <2>3
    <2>4. CASE HostRegister \/ HostRegistered \/ HostRefused \/ SetPassword \/ CloseHost
               \/ WriteVerify \/ OnInput \/ OnPing \/ OnPong \/ HostReadFails
               \/ ReadOutput \/ LatencyPing \/ UpdateTermSize
      BY <2>4 DEF HostRegister, HostRegistered, HostRefused, SetPassword, CloseHost,
                  WriteVerify, OnInput, OnPing, OnPong, HostReadFails, ReadOutput,
                  LatencyPing, UpdateTermSize, hostVars
    <2> QED BY <2>1, <2>2, <2>3, <2>4 DEF HostStep, HostReadLoop
  <1>3. /\ Extends(toRelay[Me], toRelay'[Me], Genuine)
        /\ toRelay' = toRelay \/ crypto'[c] = crypto[c]
    <2>1. OnJoined => crypto'[c] = crypto[c]
      BY <1>1 DEF OnJoined
    <2> QED BY <1>1, <2>1, HostWrites
  <1>4. Carried(toPeer'[c], c) \subseteq Carried(toPeer[c], c)
    <2>1. (\A v : toPeer' = [toPeer EXCEPT ![Me] = v] => toPeer'[c] = toPeer[c])
      BY <1>1 DEF Framed, ToPeerFramed
    <2>2. Get(Me) \/ Hangup(Me) \/ UNCHANGED toPeer
      <3>1. CASE HostRegister \/ HostRegistered \/ HostRefused \/ SetPassword \/ CloseHost
        BY <3>1 DEF HostRegister, HostRegistered, HostRefused, SetPassword, CloseHost,
                    wireVars
      <3>2. CASE HostReadLoop
        BY <3>2 DEF HostReadLoop, OnJoined, OnLeft, OnKeyExchange, WriteVerify, OnVerify,
                    OnInput, OnPing, OnPong, HostReadFails, HostReads, wireVars
      <3>3. CASE ReadOutput \/ LatencyPing \/ UpdateTermSize
        BY <3>3 DEF ReadOutput, LatencyPing, UpdateTermSize
      <3> QED BY <3>1, <3>2, <3>3 DEF HostStep
    <2>3. toPeer'[c] = toPeer[c]
      BY <2>1, <2>2 DEF Get, Hangup
    <2> QED BY <2>3
  <1>5. ASSUME NEW m \in Sealing(c)'
        PROVE  \/ m \in Sealing(c)
               \/ c \in ReadyClients /\ crypto'[c] = crypto[c] /\ m.data.key = KeyOf(c)
    <2>1. CASE m \in Carried(toPeer'[c], c)
      BY <1>4, <2>1 DEF Sealing
    <2>2. CASE m \in Carried(toRelay'[Me], c)
      <3>1. \/ m \in Carried(toRelay[Me], c)
            \/ m \in Genuine /\ m.client = c /\ m.type \in SealedTypes
        BY <1>3, <2>2, ExtendsCarried
      <3>2. CASE m \in Carried(toRelay[Me], c)
        BY <3>2 DEF Sealing
      <3>3. CASE m \in Genuine /\ m.client = c /\ m.type \in SealedTypes
        <4>1. c \in ReadyClients /\ m.data.key = KeyOf(c)
          BY <3>3 DEF Genuine
        <4>2. CASE toRelay' = toRelay
          BY <2>2, <4>2 DEF Sealing
        <4> QED BY <1>3, <4>1, <4>2
      <3> QED BY <3>1, <3>2, <3>3
    <2> QED BY <1>5, <2>1, <2>2 DEF Sealing
  <1> QED BY <1>1, <1>2, <1>5 DEF Serves

LEMMA HostKeyed ==
    ASSUME Inv, HostStep, UNCHANGED <<relayVars, clientVars>>, NEW c \in Clients,
           Pipeline(c), Keyed(c), Taken(c) => Taken(c)'
    PROVE  Keyed(c)'
  <1>1. /\ Framed /\ SessionKeys /\ Me \in Conns /\ c \in Conns /\ c # Me
        /\ joinPw' = joinPw /\ clientPc' = clientPc /\ clientKey' = clientKey /\ pc' = pc
        /\ crypto = [d \in Clients |-> crypto[d]]
    BY OneHostFacts DEF Inv, HostTypes, SessionKeys, clientVars, relayVars
  <1>2. CASE OnJoined /\ Got(Me).client = c
    <2>1. Got(Me).type = "joined" /\ Arrived(Me) /\ Get(Me)
      BY <1>2 DEF OnJoined, HostReads
    <2>2. ~Taken(c)
      BY <1>1, <1>2, <2>1, HeadOpen DEF Rank
    <2>3. crypto'[c] = {NotReady}
      BY <1>1, <1>2 DEF OnJoined
    <2>4. c \notin ReadyClients'
      <3>1. KeyOf(c)' = NotReady
        BY <2>3 DEF KeyOf
      <3> QED BY <3>1 DEF ReadyClients, IsReady
    <2>5. ASSUME NEW m \in Sealing(c)' PROVE FALSE
      <3> DEFINE n == Msg("key_exchange", c, HostPub(c))
      <3>1. n.type \notin SealedTypes
        BY Msgs DEF SealedTypes
      <3>2. Extends(toRelay[Me], toRelay'[Me], {n})
        BY <1>1, <1>2, SendExtends DEF OnJoined
      <3> HIDE DEF n
      <3>3. toPeer'[c] = toPeer[c]
        BY <1>1, <2>1 DEF Get, Framed, ToPeerFramed
      <3>4. m \in Sealing(c)
        BY <2>5, <3>1, <3>2, <3>3, ExtendsCarried DEF Sealing
      <3> QED BY <2>2, <3>4 DEF Keyed
    <2> QED BY <1>1, <2>2, <2>4, <2>5 DEF Keyed
  <1>3. CASE OnKeyExchange /\ Got(Me).client = c /\ crypto'[c] # crypto[c]
    <2>1. Got(Me).type = "key_exchange" /\ Arrived(Me) /\ Get(Me) /\ UNCHANGED toRelay
      BY <1>3 DEF OnKeyExchange, HostReads
    <2>2. /\ ~Taken(c) /\ Takes(toPeer[Me], toPeer'[Me]) /\ toPeer[Me][1] = Got(Me)
          /\ Rank(Got(Me)) = 3
      BY <1>1, <1>3, <2>1, HeadOpen DEF Rank
    <2>3. Len(toPeer[Me]) \in Nat /\ Len(toRelay[c]) \in Nat
      BY <1>1, Lengths
    <2>4. Past(toPeer'[Me], toRelay[c], pc[c], Limit(clientPc[c]), c)
      BY <1>3, <2>2, <2>3, LimitRange, ReadKeyPasses DEF Pipeline
    <2>5. Taken(c)'
      BY <1>1, <2>1, <2>4 DEF Taken
    <2>6. ASSUME NEW m \in Sealing(c)' PROVE FALSE
      <3>1. toPeer'[c] = toPeer[c]
        BY <1>1, <2>1 DEF Get, Framed, ToPeerFramed
      <3>2. m \in Sealing(c)
        BY <2>1, <2>6, <3>1 DEF Sealing
      <3> QED BY <2>2, <3>2 DEF Keyed
    <2> QED BY <1>1, <2>2, <2>5, <2>6 DEF Keyed
  <1>4. ASSUME OnJoined => Got(Me).client # c, OnKeyExchange => crypto'[c] = crypto[c]
        PROVE  Keyed(c)'
    BY <1>1, <1>4, HostServes, ServesKeeps
  <1>5. OnKeyExchange /\ Got(Me).client # c => crypto'[c] = crypto[c]
    BY <1>1 DEF OnKeyExchange, Completed
  <1> QED BY <1>2, <1>3, <1>4, <1>5

LEMMA InitKeyed == ASSUME Init, NEW c \in Clients PROVE Keyed(c)
  <1>1. /\ crypto[c] = {} /\ toRelay[Me] = << >> /\ toPeer[c] = << >>
        /\ clientPc[c] = "start"
    BY OneHostFacts DEF Init, HostInit, WireInit, ClientInit
  <1>2. c \notin ReadyClients
    BY <1>1 DEF ReadyClients, HasSession
  <1>3. Len(<< >>) = 0
    OBVIOUS
  <1>4. Sealing(c) = {}
    BY <1>1, <1>3 DEF Sealing, Carried
  <1> QED BY <1>1, <1>2, <1>4 DEF Keyed

LEMMA NextKeyed ==
    ASSUME Inv, [Next]_vars, NEW c \in Clients, Pipeline(c), Keyed(c)
    PROVE  Keyed(c)'
  <1>1. SessionKeys /\ (Taken(c) => Taken(c)')
    BY NextPipeline DEF Inv, HostTypes
  <1>2. CASE UNCHANGED vars
    <2>1. Sealing(c)' = Sealing(c)
      BY <1>2 DEF Sealing, vars, wireVars
    <2>2. Serves(c)
      BY <1>2, <2>1 DEF Serves, vars, hostVars, clientVars
    <2> QED BY <1>1, <2>2, ServesKeeps
  <1>3. CASE RelayStep
    BY <1>1, <1>3, RelayServes, ServesKeeps
  <1>4. CASE HostStep /\ UNCHANGED <<relayVars, clientVars>>
    BY <1>1, <1>4, HostKeyed
  <1>5. ASSUME NEW d \in Clients, ClientStep(d), UNCHANGED <<relayVars, hostVars>>
        PROVE  Keyed(c)'
    <2>1. crypto' = crypto
      BY <1>5 DEF hostVars
    <2>2. Serves(c)
      BY <1>5, <2>1, ClientServes, OtherClientServes
    <2> QED BY <1>1, <2>2, ServesKeeps
  <1>6. ASSUME NEW x \in Conns, Lost(x) PROVE Keyed(c)'
    BY <1>1, <1>6, LostServes, ServesKeeps
  <1> QED BY <1>2, <1>3, <1>4, <1>5, <1>6 DEF Next, ProgramStep

(* The key that a running command-line client holds is the key of its      *)
(* session at the host, as long as the host has one: however late frames   *)
(* arrive and whenever the host's password is set, no session is completed *)
(* twice or replaced under a client.                                       *)
THEOREM KeysAgree == Spec => []KeyAgreement
  <1> DEFINE IInv == Inv /\ \A c \in Clients : Pipeline(c) /\ Keyed(c)
  <1>1. Init => IInv
    BY InitInv, InitPipeline, InitKeyed
  <1>2. IInv /\ [Next]_vars => IInv'
    <2> SUFFICES ASSUME IInv, [Next]_vars PROVE IInv'
      OBVIOUS
    <2>1. ASSUME NEW c \in Clients PROVE Pipeline(c)' /\ Keyed(c)'
      BY <2>1, NextPipeline, NextKeyed
    <2> QED BY <2>1, NextInv
  <1>3. IInv => KeyAgreement
    <2> SUFFICES ASSUME IInv, NEW c \in Clients \ Browsers, clientPc[c] = "running",
                        c \in ReadyClients
                 PROVE  KeyOf(c) = clientKey[c]
      BY DEF KeyAgreement
    <2>1. crypto[c] \subseteq {clientKey[c]}
      BY DEF Keyed
    <2>2. crypto[c] = {KeyOf(c)}
      BY KeyHeld DEF Inv, HostTypes
    <2> QED BY <2>1, <2>2
  <1> QED BY <1>1, <1>2, <1>3, PTL DEF Spec

---------------------------------------------------------------------------
(* The sessions.  A key_exchange or verify of c in the inbox q has a       *)
(* session to find there (s) or the "joined" that creates one ahead of it; *)
(* and while the client has not sent its own, or the relay has it still,   *)
(* the "joined" is in the inbox if the session is not there yet (and the   *)
(* host is up).                                                            *)
Asks(m) == m.type \in {"key_exchange", "verify"}
Says(m, t, c) == m.type = t /\ m.client = c
Joins(q, n, c) == \E i \in 1..n : Says(q[i], "joined", c)

Awaited(q, r, h, l, c, up, s) ==
    /\ \A i \in 1..Len(q) : Asks(q[i]) /\ q[i].client = c => s \/ Joins(q, i, c)
    /\ h = "serving" /\ up
         /\ (l <= 3 \/ \E j \in 1..Len(r) : Asks(r[j]))
         => s \/ Joins(q, Len(q), c)

Known(c) ==
    Awaited(toPeer[Me], toRelay[c], pc[c], Limit(clientPc[c]), c, link[Me] \in Up,
            HasSession(c))

(* Nobody has a session with a host that has not connected.                *)
Opened ==
    link[Me] = "none" =>
      /\ pc[Me] = "idle" /\ \A k \in Codes : sessions[k] = NoHost
      /\ \A c \in Clients : pc[c] \notin Attached

(* No "joined" of c is lost.                                               *)
Kept(q, q2, c) ==
    \E n \in Nat :
      /\ \A j \in 1..Len(q2) :
           q2[j].client = c => j + n \in 1..Len(q) /\ q[j + n] = q2[j]
      /\ \A i \in 1..Len(q) :
           Says(q[i], "joined", c) => i - n \in 1..Len(q2) /\ q2[i - n] = q[i]

LEMMA AwaitedKept ==
    ASSUME NEW q, NEW r, NEW h, NEW l \in 0..5, NEW c, NEW up, NEW s \in BOOLEAN,
           NEW q2, NEW r2, NEW h2, NEW l2 \in 0..5, NEW up2, l2 >= l,
           Len(q) \in Nat, Len(r) \in Nat, Len(q2) \in Nat, Len(r2) \in Nat,
           Kept(q, q2, c), Shortened(r, r2), h2 = "serving" /\ up2 => h = "serving" /\ up,
           Awaited(q, r, h, l, c, up, s)
    PROVE  Awaited(q2, r2, h2, l2, c, up2, s)
  <1>1. PICK n \in Nat :
      /\ \A j \in 1..Len(q2) :
           q2[j].client = c => j + n \in 1..Len(q) /\ q[j + n] = q2[j]
      /\ \A i \in 1..Len(q) :
           Says(q[i], "joined", c) => i - n \in 1..Len(q2) /\ q2[i - n] = q[i]
    BY DEF Kept
  <1>2. PICK k \in Nat : \A j \in 1..Len(r2) : j + k \in 1..Len(r) /\ r[j + k] = r2[j]
    BY DEF Shortened
  <1>3. ASSUME NEW i \in 1..Len(q2), Asks(q2[i]), q2[i].client = c, ~s
        PROVE  Joins(q2, i, c)
    <2>1. i + n \in 1..Len(q) /\ q[i + n] = q2[i]
      BY <1>1, <1>3 DEF Says
    <2>2. PICK j \in 1..(i + n) : Says(q[j], "joined", c)
      BY <1>3, <2>1 DEF Awaited, Joins
    <2>3. j \in 1..Len(q)
      BY <2>1, <2>2
    <2>4. j - n \in 1..Len(q2) /\ q2[j - n] = q[j]
      BY <1>1, <2>2, <2>3
    <2>5. j - n \in 1..i
      BY <2>2, <2>4
    <2> QED BY <2>2, <2>4, <2>5 DEF Joins
  <1>4. ASSUME h2 = "serving", up2, l2 <= 3 \/ \E j \in 1..Len(r2) : Asks(r2[j]),
               ~s
        PROVE  Joins(q2, Len(q2), c)
    <2>1. l <= 3 \/ \E j \in 1..Len(r) : Asks(r[j])
      <3>1. CASE l2 <= 3
        BY <3>1
      <3>2. ASSUME NEW j \in 1..Len(r2), Asks(r2[j])
            PROVE  \E i \in 1..Len(r) : Asks(r[i])
        BY <1>2, <3>2
      <3> QED BY <1>4, <3>1, <3>2
    <2>2. PICK i \in 1..Len(q) : Says(q[i], "joined", c)
      BY <1>4, <2>1 DEF Awaited, Joins
    <2>3. i - n \in 1..Len(q2) /\ q2[i - n] = q[i]
      BY <1>1, <2>2
    <2> QED BY <2>2, <2>3 DEF Joins
  <1> QED BY <1>3, <1>4 DEF Awaited

LEMMA AwaitedSend ==
    ASSUME NEW q, NEW r, NEW h, NEW l \in 0..5, NEW c, NEW up, NEW s \in BOOLEAN,
           NEW r2, NEW l2 \in 0..5, NEW m, l2 >= l, Len(r) \in Nat, Adds(r, r2, m),
           Asks(m) => l <= 3,
           Awaited(q, r, h, l, c, up, s)
    PROVE  Awaited(q, r2, h, l2, c, up, s)
  <1>1. ASSUME NEW j \in 1..Len(r2), Asks(r2[j])
        PROVE  l <= 3 \/ \E i \in 1..Len(r) : Asks(r[i])
    <2>1. j \in 1..Len(r) \/ j = Len(r) + 1
      BY DEF Adds
    <2> QED BY <1>1, <2>1 DEF Adds
  <1>2. l2 <= 3 => l <= 3
    OBVIOUS
  <1> QED BY <1>1, <1>2 DEF Awaited

(* The relay writes a frame m of c to the host: its handler announces c,   *)
(* takes its leave, or forwards what c said.                               *)
Delivers(up, q, q2, m) == (up => Adds(q, q2, m)) /\ (~up => q2 = q)

Speaks(h, h2, r, r2, m) ==
    \/ h2 = "serving" /\ m.type = "joined"
    \/ h2 = "done" /\ m.type = "left"
    \/ h = "serving" /\ h2 = "serving" /\ Takes(r, r2) /\ m.type = r[1].type

LEMMA AwaitedWrite ==
    ASSUME NEW q, NEW r, NEW h, NEW l \in 0..5, NEW c, NEW up, NEW s \in BOOLEAN,
           NEW q2, NEW r2, NEW h2, NEW m, Len(q) \in Nat, Len(r) \in Nat,
           Delivers(up, q, q2, m), m.client = c, Speaks(h, h2, r, r2, m),
           Awaited(q, r, h, l, c, up, s)
    PROVE  Awaited(q2, r2, h2, l, c, up, s)
  <1> DEFINE n == Len(q) + 1
  <1>1. CASE ~up
    BY <1>1 DEF Awaited, Delivers
  <1>2. CASE up
    <2>1. /\ n \in Nat /\ Len(q2) = n /\ q2[n] = m /\ n \in 1..n
          /\ \A i \in 1..n : i = n \/ i \in 1..Len(q)
          /\ \A i \in 1..Len(q) : q2[i] = q[i] /\ i \in 1..n
      BY <1>2 DEF Adds, Delivers
    <2> HIDE DEF n
    <2>2. \A i \in 1..Len(q) : Joins(q, i, c) => Joins(q2, i, c)
      BY <2>1 DEF Joins
    <2>3. Joins(q, Len(q), c) => Joins(q2, n, c)
      BY <2>1 DEF Joins
    <2>4. ASSUME h = "serving", h2 = "serving", Takes(r, r2), m.type = r[1].type, ~s
          PROVE  /\ Asks(m) => Joins(q2, n, c)
                 /\ (l <= 3 \/ \E j \in 1..Len(r2) : Asks(r2[j]))
                      => Joins(q2, n, c)
      <3>1. 1 \in 1..Len(r) /\ \A j \in 1..Len(r2) : j + 1 \in 1..Len(r) /\ r2[j] = r[j + 1]
        BY <2>4 DEF Takes
      <3>2. (l <= 3 \/ \E j \in 1..Len(r) : Asks(r[j])) => Joins(q, Len(q), c)
        BY <1>2, <2>4 DEF Awaited
      <3>3. Asks(m) => Asks(r[1])
        BY <2>4 DEF Asks
      <3> QED BY <2>3, <2>4, <3>1, <3>2, <3>3
    <2>5. m.type = "joined" => Joins(q2, n, c)
      BY <2>1 DEF Joins, Says
    <2>6. ASSUME NEW i \in 1..n, Asks(q2[i]), q2[i].client = c, ~s PROVE Joins(q2, i, c)
      <3>1. CASE i = n
        BY <2>1, <2>4, <2>6, <3>1 DEF Asks, Speaks
      <3>2. CASE i \in 1..Len(q)
        BY <2>1, <2>2, <2>6, <3>2 DEF Awaited
      <3> QED BY <2>1, <3>1, <3>2
    <2> QED BY <1>2, <2>1, <2>4, <2>5, <2>6 DEF Awaited, Speaks
  <1> QED BY <1>1, <1>2

(* The session of c is ended by a frame that nothing precedes any more.    *)
LEMMA AwaitedEnd ==
    ASSUME NEW q, NEW r, NEW h, NEW l \in 0..5, NEW c, NEW up, NEW s \in BOOLEAN, NEW q2,
           Len(q) \in Nat, Len(r) \in Nat, Takes(q, q2), q[1].client = c,
           Rank(q[1]) \in {4, 6}, Pipe(q, r, h, l, c)
    PROVE  Awaited(q2, r, h, l, c, up, s)
  <1>1. 1 \in 1..Len(q) /\ \A j \in 1..Len(q2) :
          j + 1 \in 1..Len(q) /\ q2[j] = q[j + 1] /\ 1 < j + 1
    BY DEF Takes
  <1>2. \A m : Asks(m) => Rank(m) \in {3, 4}
    BY DEF Rank, Asks
  <1>3. ASSUME NEW j \in 1..Len(q2), Asks(q2[j]), q2[j].client = c PROVE FALSE
    <2>1. Precedes(q[1], q2[j])
      BY <1>1, <1>3 DEF Pipe, InboxOrdered, Says
    <2> QED BY <1>2, <1>3, <2>1, RankRange DEF Precedes, Says
  <1>4. ASSUME h = "serving", NEW j \in 1..Len(r), Asks(r[j]) PROVE FALSE
    <2>1. Precedes(q[1], r[j])
      BY <1>1, <1>4 DEF Pipe, Across
    <2> QED BY <1>2, <1>4, <2>1, RankRange DEF Precedes
  <1>5. h = "serving" => l >= 4
    <2>1. ASSUME h = "serving" PROVE Rank(q[1]) # 6 /\ (Rank(q[1]) \in {2, 6} \/ Rank(q[1]) <= l)
      BY <1>1, <2>1 DEF Pipe, InboxBounded
    <2> QED BY <2>1
  <1> QED BY <1>3, <1>4, <1>5 DEF Awaited

(* A step that loses no "joined" of c, ends no session of c and is not the *)
(* announcement of c.                                                      *)
Steady(c) ==
    /\ Kept(toPeer[Me], toPeer'[Me], c)
    /\ Shortened(toRelay[c], toRelay'[c])
    /\ pc'[c] = "serving" /\ link'[Me] \in Up => pc[c] = "serving" /\ link[Me] \in Up
    /\ Limit(clientPc'[c]) >= Limit(clientPc[c])
    /\ crypto'[c] = {} <=> crypto[c] = {}

LEMMA SteadyKnown ==
    ASSUME Framed, Framed', NEW c \in Clients, Known(c), Steady(c)
    PROVE  Known(c)'
  <1>1. Me \in Conns /\ c \in Conns
    BY OneHostFacts
  <1>2. Len(toPeer[Me]) \in Nat /\ Len(toRelay[c]) \in Nat
    BY <1>1, Lengths
  <1>3. Len(toPeer'[Me]) \in Nat /\ Len(toRelay'[c]) \in Nat
    BY <1>1 DEF Framed, ToRelayFramed, ToPeerFramed
  <1>4. Limit(clientPc[c]) \in 0..5 /\ Limit(clientPc'[c]) \in 0..5
    BY LimitRange
  <1>5. HasSession(c)' = HasSession(c) /\ HasSession(c) \in BOOLEAN
    BY DEF Steady, HasSession
  <1> DEFINE s == HasSession(c)  q == toPeer[Me]  q2 == toPeer'[Me]
             r == toRelay[c]  r2 == toRelay'[c]  h == pc[c]  h2 == pc'[c]
             l == Limit(clientPc[c])  l2 == Limit(clientPc'[c])
             up == link[Me] \in Up  up2 == link'[Me] \in Up
  <1>6. /\ l \in 0..5 /\ l2 \in 0..5 /\ s \in BOOLEAN /\ l2 >= l
        /\ Len(q) \in Nat /\ Len(r) \in Nat /\ Len(q2) \in Nat /\ Len(r2) \in Nat
        /\ Kept(q, q2, c) /\ Shortened(r, r2)
        /\ h2 = "serving" /\ up2 => h = "serving" /\ up
        /\ Awaited(q, r, h, l, c, up, s)
    BY <1>2, <1>3, <1>4, <1>5 DEF Steady, Known
  <1> HIDE DEF s, q, q2, r, r2, h, h2, l, l2, up, up2
  <1>7. Awaited(q2, r2, h2, l2, c, up2, s)
    BY <1>6, AwaitedKept
  <1> QED BY <1>5, <1>7 DEF Known, s, q2, r2, h2, l2, up2

(* The host's connection is gone and its inbox with it.                    *)
LEMMA EmptiedKnown ==
    ASSUME NEW c \in Clients, toPeer'[Me] = << >>, link'[Me] \notin Up
    PROVE  Known(c)'
  <1>1. Len(<< >>) = 0
    OBVIOUS
  <1> QED BY <1>1 DEF Known, Awaited

LEMMA SessionKnown ==
    ASSUME NEW c \in Clients, crypto'[c] # {}
    PROVE  Known(c)'
  BY DEF Known, Awaited, HasSession

LEMMA KeptSame ==
    ASSUME Framed, NEW c, toPeer'[Me] = toPeer[Me]
    PROVE  Kept(toPeer[Me], toPeer'[Me], c)
  <1>1. Len(toPeer[Me]) \in Nat
    BY OneHostFacts, Lengths
  <1>2. \A j \in 1..Len(toPeer[Me]) : j + 0 = j /\ j - 0 = j
    BY <1>1
  <1> QED BY <1>2 DEF Kept

LEMMA KeptWrite ==
    ASSUME Framed, NEW S, NEW m, Write(S, m), NEW c, Me \notin S \/ m.client # c
    PROVE  Kept(toPeer[Me], toPeer'[Me], c)
  <1>1. toPeer[Me] \in Seq(RelaySays(Me)) /\ Me \in Conns
    BY OneHostFacts DEF Framed, ToPeerFramed
  <1>2. \/ toPeer'[Me] = toPeer[Me]
        \/ Me \in S /\ toPeer'[Me] = Append(toPeer[Me], m)
    BY <1>1 DEF Write
  <1>3. CASE Me \in S /\ toPeer'[Me] = Append(toPeer[Me], m)
    <2> DEFINE q == toPeer[Me]  q2 == toPeer'[Me]
    <2>1. Adds(q, q2, m) /\ Len(q) \in Nat
      BY <1>1, <1>3, AppendAdds
    <2> HIDE DEF q, q2
    <2>2. ASSUME NEW j \in 1..Len(q2), q2[j].client = c
          PROVE  j + 0 \in 1..Len(q) /\ q[j + 0] = q2[j]
      <3>1. j # Len(q) + 1
        BY <1>3, <2>1, <2>2 DEF Adds
      <3>2. j \in 1..Len(q) /\ j + 0 = j
        BY <2>1, <2>2, <3>1 DEF Adds
      <3> QED BY <2>1, <3>2 DEF Adds
    <2>3. \A i \in 1..Len(q) : i - 0 \in 1..Len(q2) /\ q2[i - 0] = q[i]
      BY <2>1 DEF Adds
    <2>4. Kept(q, q2, c)
      BY <2>2, <2>3 DEF Kept
    <2> QED BY <2>4 DEF q, q2
  <1> QED BY <1>2, <1>3, KeptSame

LEMMA KeptGet ==
    ASSUME Framed, Arrived(Me), Get(Me), NEW c, ~Says(Got(Me), "joined", c)
    PROVE  Kept(toPeer[Me], toPeer'[Me], c)
  <1> DEFINE q == toPeer[Me]  q2 == toPeer'[Me]
  <1>1. Takes(q, q2) /\ q[1] = Got(Me) /\ Len(q) \in Nat
    BY OneHostFacts, HeadOpen, Lengths
  <1> HIDE DEF q, q2
  <1>2. \A j \in 1..Len(q2) : j + 1 \in 1..Len(q) /\ q[j + 1] = q2[j]
    BY <1>1 DEF Takes
  <1>3. ASSUME NEW i \in 1..Len(q), Says(q[i], "joined", c)
        PROVE  i - 1 \in 1..Len(q2) /\ q2[i - 1] = q[i]
    <2>1. i # 1
      BY <1>1, <1>3
    <2>2. i - 1 \in 1..Len(q2) /\ (i - 1) + 1 = i
      BY <1>1, <1>3, <2>1 DEF Takes
    <2> QED BY <1>2, <2>2
  <1>4. Kept(q, q2, c)
    BY <1>2, <1>3 DEF Kept
  <1> QED BY <1>4 DEF q, q2

LEMMA OpenedKept ==
    ASSUME Inv, Opened, [Next]_vars
    PROVE  Opened'
  <1>1. SUFFICES ASSUME link'[Me] = "none" PROVE Opened'
    BY DEF Opened
  <1>2. Me \in Conns /\ Relaying /\ Framed /\ link = [x \in Conns |-> link[x]]
        /\ \A c \in Clients : c \in Conns /\ c # Me
    BY OneHostFacts DEF Inv, Framed, LinkTypes
  <1>3. \A S : Close(S) => link'[Me] = link[Me] \/ link'[Me] = "closed"
    BY <1>2 DEF Close
  <1>4. \A x \in Conns : Hangup(x) => link'[Me] = link[Me] \/ link'[Me] = "cut"
    BY <1>2 DEF Hangup
  <1>5. ASSUME UNCHANGED relayVars, link[Me] = "none" PROVE Opened'
    BY <1>5 DEF Opened, relayVars
  <1>6. \A x, from, to : Goto(x, from, to) => pc[x] = from /\ pc' = [pc EXCEPT ![x] = to]
    BY DEF Goto
  <1>7. ASSUME link[Me] = "none"
        PROVE  /\ pc[Me] = "idle" /\ \A k \in Codes : sessions[k] = NoHost
               /\ \A c \in Clients : pc[c] \notin Attached
    BY <1>7 DEF Opened
  <1>8. CASE UNCHANGED vars
    BY <1>1, <1>5, <1>8 DEF vars, wireVars
  <1>9. ASSUME NEW x \in Conns, Lost(x) PROVE Opened'
    <2>1. link[Me] = "none"
      BY <1>1, <1>2, <1>4, <1>9 DEF Lost
    <2> QED BY <1>5, <1>9, <2>1 DEF Lost
  <1>10. CASE HostStep /\ UNCHANGED <<relayVars, clientVars>>
    <2>1. Hangup(Me) \/ UNCHANGED link
      <3>1. CASE HostRegister \/ HostRegistered \/ HostRefused \/ SetPassword \/ CloseHost
        BY <3>1 DEF HostRegister, HostRegistered, HostRefused, SetPassword, CloseHost,
                    wireVars
      <3>2. CASE HostReadLoop
        BY <3>2 DEF HostReadLoop, OnJoined, OnLeft, OnKeyExchange, WriteVerify, OnVerify,
                    OnInput, OnPing, OnPong, HostReadFails, wireVars
      <3>3. CASE ReadOutput \/ LatencyPing \/ UpdateTermSize
        BY <3>3 DEF ReadOutput, LatencyPing, UpdateTermSize
      <3> QED BY <1>10, <3>1, <3>2, <3>3 DEF HostStep
    <2>2. link[Me] = "none"
      BY <1>1, <1>2, <1>4, <2>1
    <2> QED BY <1>5, <1>10, <2>2
  <1>11. ASSUME NEW d \in Clients, ClientStep(d), UNCHANGED <<relayVars, hostVars>>
         PROVE  Opened'
    <2>1. link[Me] = "none"
      BY <1>1, <1>2, <1>11, OthersUntouched
    <2> QED BY <1>5, <1>11, <2>1
  <1>12. CASE RelayStep
    <2>1. ASSUME NEW x \in Conns, Accept(x) PROVE Opened'
      <3>1. x # Me
        BY <1>1, <1>2, <2>1 DEF Accept
      <3>2. link[Me] = "none"
        BY <1>1, <1>2, <2>1, <3>1 DEF Accept
      <3>3. pc' = [pc EXCEPT ![x] = "first"] /\ sessions' = sessions
        BY <2>1 DEF Accept, Goto, registry
      <3>4. pc'[Me] = pc[Me]
        BY <3>1, <3>3
      <3>5. \A c \in Clients : pc'[c] = pc[c] \/ pc'[c] = "first"
        BY <3>3 DEF Relaying, RelayTypeOK
      <3> QED BY <1>7, <3>2, <3>3, <3>4, <3>5 DEF Opened, Attached
    <2>2. CASE HostHandler(Me)
      <3>1. link[Me] = "none" /\ pc[Me] # "idle"
        BY <1>1, <1>2, <1>3, <2>2
           DEF HostHandler, FirstReadFails, RejectFirst, Refuse, RegisterHost, RejectHost,
               ForwardFromHost, Unregister, CloseHostConn, CloseMembers, Goto, wireVars
      <3> QED BY <1>7, <3>1
    <2>3. ASSUME NEW d \in Clients, ClientHandler(d) PROVE Opened'
      <3>1. link[Me] = "none"
        BY <1>1, <1>2, <1>3, <2>3
           DEF ClientHandler, FirstReadFails, RejectFirst, Refuse, RateLimited,
               SessionNotFound, LookupSession, AckJoin, AddClient, NotifyJoined,
               ForwardFromClient, ForwardFails, ClientReadFails, Disconnect, RemoveClient,
               NotifyLeft, wireVars
      <3>2. pc[d] \notin Attached
        BY <1>7, <2>3, <3>1
      <3>3. FirstReadFails(d) \/ Refuse(d) \/ LookupSession(d)
        BY <2>3, <3>2
           DEF ClientHandler, RejectFirst, RateLimited, SessionNotFound, AckJoin, AddClient,
               NotifyJoined, ForwardFromClient, ForwardFails, ClientReadFails, Disconnect,
               RemoveClient, NotifyLeft, Goto, Attached
      <3>4. ~LookupSession(d)
        <4>1. ASSUME LookupSession(d) PROVE FALSE
          <5>1. Next1(d).type = "client_join" /\ Next1(d) \in PeerSays(d)
                /\ sessions[Next1(d).data] # NoHost
            <6>1. toRelay[d] \in Seq(PeerSays(d)) /\ toRelay[d] # << >>
              BY <1>2, <4>1 DEF LookupSession, First, Incoming, Framed, ToRelayFramed
            <6>2. Next1(d) \in PeerSays(d)
              BY <6>1, HeadIn DEF Next1
            <6> QED BY <4>1, <6>2 DEF LookupSession, First
          <5>2. Next1(d).data \in Codes
            BY <1>2, <5>1 DEF PeerSays, PeerFrame, ClientFrame
          <5> QED BY <1>7, <3>1, <5>1, <5>2
        <4> QED BY <4>1
      <3>5. pc' = [pc EXCEPT ![d] = "done"] /\ sessions' = sessions
        BY <3>3, <3>4 DEF FirstReadFails, Refuse, Goto, registry
      <3>6. pc'[Me] = pc[Me]
        BY <1>2, <3>5
      <3>7. \A c \in Clients : pc'[c] = pc[c] \/ pc'[c] = "done"
        BY <3>5 DEF Relaying, RelayTypeOK
      <3> QED BY <1>7, <3>1, <3>5, <3>6, <3>7 DEF Opened, Attached
    <2> QED BY <1>12, <2>1, <2>2, <2>3 DEF RelayStep
  <1> QED BY <1>8, <1>9, <1>10, <1>11, <1>12 DEF Next, ProgramStep

LEMMA RelayKept ==
    ASSUME Inv, NEW c \in Clients,
           \/ \E x \in Conns : Accept(x) \/ FirstReadFails(x) \/ Refuse(x)
           \/ HostHandler(Me)
           \/ \E d \in Clients : ClientHandler(d) /\ d # c
    PROVE  Kept(toPeer[Me], toPeer'[Me], c)
  <1>1. Framed /\ Relaying /\ c # NoClient /\ Me \notin Clients /\ Me \in Conns
    BY OneHostFacts DEF Inv
  <1>2. UNCHANGED toPeer => Kept(toPeer[Me], toPeer'[Me], c)
    BY <1>1, KeptSame
  <1>3. ASSUME NEW x \in Conns, Accept(x) \/ FirstReadFails(x) \/ Refuse(x)
        PROVE  Kept(toPeer[Me], toPeer'[Me], c)
    BY <1>1, <1>2, <1>3, KeptWrite, Msgs DEF Accept, FirstReadFails, Refuse
  <1>4. CASE HostHandler(Me)
    <2>1. CASE FirstReadFails(Me) \/ RejectFirst(Me)
      BY <1>1, <1>3, <2>1 DEF RejectFirst
    <2>2. CASE RegisterHost(Me)
      BY <1>1, <2>2, KeptWrite, Msgs DEF RegisterHost
    <2>3. CASE RejectHost(Me)
      BY <1>1, <2>3, KeptWrite, Msgs DEF RejectHost
    <2>4. CASE ForwardFromHost(Me)
      <3>1. Me \notin Targets(Me, Next1(Me))
        <4>1. clients[Me] \subseteq Clients
          BY OneHostFacts DEF Inv, Relaying, RelayTypeOK
        <4> QED BY <1>1, <4>1 DEF Targets
      <3> QED BY <1>1, <1>2, <2>4, <3>1, KeptWrite DEF ForwardFromHost
    <2>5. CASE Unregister(Me) \/ CloseHostConn(Me) \/ CloseMembers(Me)
      BY <1>2, <2>5 DEF Unregister, CloseHostConn, CloseMembers, wireVars
    <2> QED BY <1>4, <2>1, <2>2, <2>3, <2>4, <2>5 DEF HostHandler
  <1>5. ASSUME NEW d \in Clients, ClientHandler(d), d # c
        PROVE  Kept(toPeer[Me], toPeer'[Me], c)
    <2>1. d \in Conns
      BY OneHostFacts
    <2>2. CASE FirstReadFails(d) \/ RejectFirst(d) \/ RateLimited(d) \/ SessionNotFound(d)
      BY <1>3, <2>1, <2>2 DEF RejectFirst, RateLimited, SessionNotFound
    <2>3. CASE LookupSession(d) \/ AddClient(d) \/ ClientReadFails(d) \/ RemoveClient(d)
               \/ ForwardFails(d) \/ Disconnect(d)
      BY <1>2, <2>3 DEF LookupSession, AddClient, ClientReadFails, RemoveClient,
                        ForwardFails, Disconnect, wireVars
    <2>4. CASE AckJoin(d) \/ NotifyJoined(d) \/ NotifyLeft(d)
      BY <1>1, <1>5, <2>4, KeptWrite, Msgs DEF AckJoin, NotifyJoined, NotifyLeft
    <2>5. CASE ForwardFromClient(d)
      BY <1>1, <1>2, <1>5, <2>5, KeptWrite, Msgs DEF ForwardFromClient
    <2> QED BY <1>5, <2>2, <2>3, <2>4, <2>5 DEF ClientHandler
  <1> QED BY <1>3, <1>4, <1>5

LEMMA RelayLink ==
    ASSUME Inv, RelayStep, link'[Me] \in Up
    PROVE  link[Me] \in Up \/ (link[Me] = "none" /\ Accept(Me))
  <1>1. Me \in Conns /\ Me \notin Clients /\ link = [x \in Conns |-> link[x]]
    BY OneHostFacts DEF Inv, Framed, LinkTypes
  <1>2. \A S : Close(S) => link'[Me] = link[Me] \/ link'[Me] = "closed"
    BY <1>1 DEF Close
  <1>3. CASE \E x \in Conns : Accept(x)
    BY <1>1, <1>3 DEF Accept
  <1>4. CASE HostHandler(Me)
    BY <1>2, <1>4
       DEF HostHandler, FirstReadFails, RejectFirst, Refuse, RegisterHost, RejectHost,
           ForwardFromHost, Unregister, CloseHostConn, CloseMembers, wireVars, Up
  <1>5. ASSUME NEW d \in Clients, ClientHandler(d) PROVE link[Me] \in Up
    BY <1>2, <1>5
       DEF ClientHandler, FirstReadFails, RejectFirst, Refuse, RateLimited, SessionNotFound,
           LookupSession, AckJoin, AddClient, NotifyJoined, ForwardFromClient, ForwardFails,
           ClientReadFails, Disconnect, RemoveClient, NotifyLeft, wireVars, Up
  <1> QED BY <1>3, <1>4, <1>5 DEF RelayStep

LEMMA OthersRelayKnown ==
    ASSUME Inv, Opened, RelayStep, NEW c \in Clients, Known(c),
           \/ \E x \in Conns : Accept(x) \/ FirstReadFails(x) \/ Refuse(x)
           \/ HostHandler(Me)
           \/ \E d \in Clients : ClientHandler(d) /\ d # c
    PROVE  Known(c)'
  <1>1. Framed /\ Framed' /\ Relaying
    BY NextInv DEF Inv, Next, ProgramStep
  <1>2. clientPc' = clientPc /\ crypto' = crypto
    BY DEF RelayStep, hostVars, clientVars
  <1>3. Quiet(c)
    BY <1>1, <1>2, EitherTurns, HostHandlerTurns, OtherHandlerTurns
  <1>4. pc'[c] = "serving" => pc[c] = "serving"
    BY <1>3 DEF Quiet, Harmless
  <1>5. pc'[c] = "serving" /\ link'[Me] \in Up => link[Me] \in Up
    BY <1>4, RelayLink DEF Opened, Attached
  <1>6. Steady(c)
    BY <1>2, <1>3, <1>4, <1>5, RelayKept DEF Steady, Quiet
  <1> QED BY <1>1, <1>6, SteadyKnown

LEMMA OwnRelayKnown ==
    ASSUME Inv, Opened, RelayStep, NEW c \in Clients, Known(c), ClientHandler(c)
    PROVE  Known(c)'
  <1>1. /\ Framed /\ Framed' /\ Relaying /\ Me \in Conns /\ c \in Conns /\ c # Me
        /\ clientPc' = clientPc /\ crypto' = crypto
    BY NextInv, OneHostFacts DEF Inv, Next, ProgramStep, RelayStep, hostVars, clientVars
  <1>2. \A from, to : Goto(c, from, to) => pc[c] = from /\ pc'[c] = to
    BY <1>1 DEF Goto, Relaying, RelayTypeOK
  <1>3. Limit(clientPc'[c]) >= Limit(clientPc[c])
    BY <1>1, Same
  <1>4. \A S : Close(S) => (link'[Me] \in Up => link[Me] \in Up)
    BY <1>1 DEF Close, Up
  <1>5. ASSUME Kept(toPeer[Me], toPeer'[Me], c), Shortened(toRelay[c], toRelay'[c]),
               pc'[c] = "serving" => pc[c] = "serving", link'[Me] \in Up => link[Me] \in Up
        PROVE  Known(c)'
    BY <1>1, <1>3, <1>5, SteadyKnown DEF Steady
  <1>6. CASE FirstReadFails(c) \/ RejectFirst(c) \/ RateLimited(c) \/ SessionNotFound(c)
    BY <1>1, <1>6, OthersRelayKnown DEF RejectFirst, RateLimited, SessionNotFound
  <1>7. CASE LookupSession(c)
    <2>1. Shortened(toRelay[c], toRelay'[c])
      BY <1>1, <1>7, TakeShortens DEF LookupSession, First
    <2> QED BY <1>1, <1>2, <1>5, <1>7, <2>1, KeptSame DEF LookupSession
  <1>8. CASE AckJoin(c)
    <2>1. Kept(toPeer[Me], toPeer'[Me], c)
      BY <1>1, <1>8, KeptWrite DEF AckJoin
    <2> QED BY <1>1, <1>2, <1>5, <1>8, <2>1, Same DEF AckJoin
  <1>9. CASE AddClient(c) \/ ClientReadFails(c) \/ RemoveClient(c)
    BY <1>1, <1>2, <1>5, <1>9, Same, KeptSame
       DEF AddClient, ClientReadFails, RemoveClient, wireVars
  <1>10. CASE ForwardFails(c)
    <2>1. Shortened(toRelay[c], toRelay'[c])
      BY <1>1, <1>10, TakeShortens DEF ForwardFails
    <2> QED BY <1>1, <1>2, <1>5, <1>10, <2>1, KeptSame DEF ForwardFails
  <1>11. CASE Disconnect(c)
    <2>1. Shortened(toRelay[c], toRelay'[c])
      BY <1>1, <1>11, CloseShortens DEF Disconnect
    <2> QED BY <1>1, <1>2, <1>4, <1>5, <1>11, <2>1, KeptSame DEF Disconnect
  <1> DEFINE s == HasSession(c)  q == toPeer[Me]  q2 == toPeer'[Me]
             r == toRelay[c]  r2 == toRelay'[c]  h == pc[c]  h2 == pc'[c]
             l == Limit(clientPc[c])  up == link[Me] \in Up
  <1>12. /\ l \in 0..5 /\ s \in BOOLEAN /\ Len(q) \in Nat /\ Len(r) \in Nat
         /\ Awaited(q, r, h, l, c, up, s)
    BY <1>1, Lengths, LimitRange DEF Known, HasSession
  <1>13. ASSUME Awaited(q2, r2, h2, l, c, up, s), link' = link PROVE Known(c)'
    <2>1. HasSession(c)' = s
      BY <1>1 DEF HasSession
    <2> QED BY <1>1, <1>13, <2>1 DEF Known
  <1>14. ASSUME NEW m, Write({Me}, m) PROVE Delivers(up, q, q2, m)
    <2>1. toPeer[Me] \in Seq(RelaySays(Me))
      BY <1>1 DEF Framed, ToPeerFramed
    <2>2. /\ up => toPeer'[Me] = Append(toPeer[Me], m)
          /\ ~up => toPeer'[Me] = toPeer[Me]
      BY <1>1, <1>14 DEF Write
    <2> QED BY <2>1, <2>2, AppendAdds DEF Delivers
  <1> HIDE DEF s, q, q2, r, r2, h, h2, l, up
  <1>15. CASE NotifyJoined(c) \/ NotifyLeft(c)
    <2>1. PICK t \in {"joined", "left"} :
            /\ Write({Me}, Msg(t, c, NoData))
            /\ (h2 = "serving" /\ t = "joined") \/ (h2 = "done" /\ t = "left")
      BY <1>1, <1>2, <1>15 DEF NotifyJoined, NotifyLeft, Relaying, Located, Attached, h2
    <2> DEFINE m == Msg(t, c, NoData)
    <2>2. m.client = c /\ Delivers(up, q, q2, m) /\ Speaks(h, h2, r, r2, m)
      BY <1>14, <2>1, Msgs DEF Speaks
    <2> HIDE DEF m
    <2>3. Awaited(q2, r2, h2, l, c, up, s)
      BY <1>12, <2>2, AwaitedWrite
    <2> QED BY <1>13, <1>15, <2>3 DEF NotifyJoined, NotifyLeft
  <1>16. CASE ForwardFromClient(c)
    <2>1. /\ Incoming(c) /\ Take(c) /\ h = "serving" /\ h2 = "serving" /\ sess[c] = Me
          /\ link' = link
      BY <1>16 DEF ForwardFromClient, relayVars, Relaying, Located, Attached, Inv, h, h2
    <2>2. CASE UNCHANGED toPeer
      <3>1. Shortened(toRelay[c], toRelay'[c])
        BY <1>1, <2>1, TakeShortens
      <3> QED BY <1>1, <1>5, <2>1, <2>2, <3>1, KeptSame DEF h, h2
    <2>3. CASE Write({sess[c]}, Msg(Next1(c).type, c, Next1(c).data))
      <3> DEFINE m == Msg(Next1(c).type, c, Next1(c).data)
      <3>1. Takes(r, r2) /\ r[1] = Next1(c)
        BY <1>1, <2>1, OwnTake DEF r, r2
      <3>2. m.client = c /\ m.type = r[1].type /\ Write({Me}, m)
        BY <2>1, <2>3, <3>1, Msgs
      <3> HIDE DEF m
      <3>3. Delivers(up, q, q2, m) /\ Speaks(h, h2, r, r2, m)
        BY <1>14, <2>1, <3>1, <3>2 DEF Speaks
      <3>4. Awaited(q2, r2, h2, l, c, up, s)
        BY <1>12, <3>2, <3>3, AwaitedWrite
      <3> QED BY <1>13, <2>1, <3>4
    <2> QED BY <1>16, <2>2, <2>3 DEF ForwardFromClient
  <1> QED BY <1>6, <1>7, <1>8, <1>9, <1>10, <1>11, <1>15, <1>16 DEF ClientHandler
LEMMA ClientKnown ==
    ASSUME Inv, NEW d \in Clients, ClientStep(d), UNCHANGED <<relayVars, hostVars>>,
           NEW c \in Clients, Known(c)
    PROVE  Known(c)'
  <1>1. /\ Framed /\ Framed' /\ pc' = pc /\ crypto' = crypto /\ Me \in Conns /\ Me # d
        /\ c \in Conns
    BY NextInv, OneHostFacts DEF Inv, Next, ProgramStep, relayVars, hostVars
  <1>2. toPeer'[Me] = toPeer[Me] /\ link'[Me] = link[Me]
    BY <1>1, OthersUntouched
  <1>3. ASSUME Shortened(toRelay[c], toRelay'[c]),
               Limit(clientPc'[c]) >= Limit(clientPc[c])
        PROVE  Known(c)'
    BY <1>1, <1>2, <1>3, KeptSame, SteadyKnown DEF Steady
  <1>4. CASE c # d
    BY <1>1, <1>3, <1>4, OtherClientTurns DEF Quiet
  <1>5. CASE c = d /\ ~Sends(c)
    <2>1. Quiet(c) \/ Writes(c) \/ LooksUp(c)
      BY <1>1, <1>5, ClientTurns DEF Turn
    <2>2. CASE Quiet(c)
      BY <1>3, <2>2 DEF Quiet
    <2>3. CASE Writes(c) \/ LooksUp(c)
      <3>1. /\ toRelay'[c] = toRelay[c] \/ Takes(toRelay[c], toRelay'[c])
            /\ clientPc' = clientPc
        BY <2>3 DEF Writes, LooksUp
      <3>2. ASSUME Takes(toRelay[c], toRelay'[c])
            PROVE  Shortened(toRelay[c], toRelay'[c])
        <4>1. Len(toRelay[c]) \in Nat
          BY <1>1, Lengths
        <4>2. \A j \in 1..Len(toRelay'[c]) : /\ j + 1 \in 1..Len(toRelay[c])
                                             /\ toRelay[c][j + 1] = toRelay'[c][j]
          BY <3>2, <4>1 DEF Takes
        <4> QED BY <4>2 DEF Shortened
      <3>3. Shortened(toRelay[c], toRelay'[c])
        BY <1>1, <3>1, <3>2, Same
      <3>4. Limit(clientPc'[c]) >= Limit(clientPc[c])
        BY <1>1, <3>1, Same
      <3> QED BY <1>3, <3>3, <3>4
    <2> QED BY <2>1, <2>2, <2>3
  <1>6. CASE Sends(c)
    <2> DEFINE s == HasSession(c)  q == toPeer[Me]  h == pc[c]
               r == toRelay[c]  r2 == toRelay'[c]
               l == Limit(clientPc[c])  l2 == Limit(clientPc'[c])
               up == link[Me] \in Up
    <2>1. PICK m : Adds(r, r2, m) /\ Rank(m) = l2
      BY <1>6 DEF Sends
    <2>2. l \in 0..5 /\ l2 \in 0..5 /\ (l < l2 \/ (l = 5 /\ l2 = 5))
      <3>1. l < l2 \/ (l = 5 /\ l2 = 5)
        BY <1>6 DEF Sends
      <3> QED BY <3>1, LimitRange
    <2>3. l \in {0, 1, 3, 4, 5}
      BY DEF Limit
    <2>4. Asks(m) => Rank(m) \in {3, 4}
      BY DEF Rank, Asks
    <2>5. s \in BOOLEAN /\ Len(r) \in Nat /\ Awaited(q, r, h, l, c, up, s)
      BY <1>1, Lengths DEF Known, HasSession
    <2>6. HasSession(c)' = s /\ toPeer'[Me] = q /\ pc'[c] = h /\ (link'[Me] \in Up) = up
      BY <1>1, <1>2 DEF HasSession
    <2> HIDE DEF s, q, h, r, r2, l, l2, up
    <2>7. l2 >= l /\ (Asks(m) => l <= 3)
      BY <2>1, <2>2, <2>3, <2>4
    <2>8. Awaited(q, r2, h, l2, c, up, s)
      BY <2>1, <2>2, <2>5, <2>7, AwaitedSend
    <2> QED BY <2>6, <2>8 DEF Known, r2, l2
  <1> QED BY <1>4, <1>5, <1>6

LEMMA LostKnown ==
    ASSUME Inv, NEW x \in Conns, Lost(x), NEW c \in Clients, Known(c)
    PROVE  Known(c)'
  <1>1. /\ Framed /\ Framed' /\ pc' = pc /\ crypto' = crypto /\ toRelay' = toRelay
        /\ clientPc' = clientPc /\ Me \in Conns /\ c \in Conns
    BY NextInv, OneHostFacts DEF Inv, Next, Lost, relayVars, hostVars, clientVars
  <1>2. /\ link = [y \in Conns |-> link[y]] /\ toPeer = [y \in Conns |-> toPeer[y]]
    BY DEF Inv, Framed, LinkTypes, ToPeerFramed
  <1>3. ASSUME toPeer'[Me] = toPeer[Me], link'[Me] \in Up => link[Me] \in Up
        PROVE  Known(c)'
    BY <1>1, <1>3, KeptSame, Same, SteadyKnown DEF Steady
  <1>4. CASE Hangup(x) /\ x = Me
    <2>1. toPeer'[Me] = << >> /\ link'[Me] = "cut"
      BY <1>1, <1>2, <1>4 DEF Hangup, Lost, Up
    <2> QED BY <2>1, EmptiedKnown DEF Up
  <1>5. CASE Hangup(x) /\ x # Me
    <2>1. toPeer'[Me] = toPeer[Me] /\ link'[Me] = link[Me]
      BY <1>1, <1>2, <1>5 DEF Hangup
    <2> QED BY <1>3, <2>1
  <1>6. CASE ~Hangup(x)
    BY <1>1, <1>2, <1>3, <1>6 DEF Lost, Up
  <1> QED BY <1>4, <1>5, <1>6
LEMMA HostKnown ==
    ASSUME Inv, HostStep, UNCHANGED <<relayVars, clientVars>>,
           NEW c \in Clients, Known(c), Pipeline(c)
    PROVE  Known(c)'
  <1>1. /\ Framed /\ Framed' /\ pc' = pc /\ clientPc' = clientPc
        /\ Me \in Conns /\ c \in Conns /\ joinPw' = joinPw
        /\ link = [y \in Conns |-> link[y]] /\ toPeer = [y \in Conns |-> toPeer[y]]
        /\ crypto = [d \in Clients |-> crypto[d]]
    BY NextInv, OneHostFacts
       DEF Inv, Next, ProgramStep, relayVars, clientVars, HostTypes, SessionKeys, Framed,
           LinkTypes, ToPeerFramed
  <1>2. Shortened(toRelay[c], toRelay'[c]) /\ Limit(clientPc'[c]) >= Limit(clientPc[c])
    BY <1>1, HostTurns DEF Quiet
  <1>3. ASSUME Kept(toPeer[Me], toPeer'[Me], c), link' = link,
               crypto'[c] = {} <=> crypto[c] = {}
        PROVE  Known(c)'
    BY <1>1, <1>2, <1>3, SteadyKnown DEF Steady
  <1>4. ASSUME UNCHANGED <<link, toPeer, crypto>> PROVE Known(c)'
    BY <1>1, <1>3, <1>4, KeptSame
  <1>5. ASSUME Hangup(Me) PROVE Known(c)'
    <2>1. toPeer'[Me] = << >> /\ link'[Me] \notin Up
      BY <1>1, <1>5 DEF Hangup, Up
    <2> QED BY <2>1, EmptiedKnown
  <1>6. ASSUME Arrived(Me), Get(Me), Got(Me).type # "joined", link' = link,
               crypto'[c] = {} <=> crypto[c] = {}
        PROVE  Known(c)'
    <2>1. ~Says(Got(Me), "joined", c)
      BY <1>6 DEF Says
    <2> QED BY <1>1, <1>3, <1>6, <2>1, KeptGet
  <1>7. ASSUME Arrived(Me), Get(Me), link' = link, toRelay' = toRelay,
               Got(Me).client = c, Rank(Got(Me)) \in {4, 6}
        PROVE  Known(c)'
    <2> DEFINE s2 == crypto'[c] # {}  q == toPeer[Me]  q2 == toPeer'[Me]  h == pc[c]
               r == toRelay[c]  l == Limit(clientPc[c])  up == link[Me] \in Up
    <2>1. Takes(q, q2) /\ q[1].client = c /\ Rank(q[1]) \in {4, 6}
      BY <1>1, <1>7, HeadOpen
    <2>2. /\ l \in 0..5 /\ s2 \in BOOLEAN /\ Len(q) \in Nat /\ Len(r) \in Nat
          /\ Pipe(q, r, h, l, c)
      BY <1>1, Lengths, LimitRange DEF Pipeline
    <2>3. HasSession(c)' = s2
      BY DEF HasSession
    <2> HIDE DEF s2, q, q2, h, r, l, up
    <2>4. Awaited(q2, r, h, l, c, up, s2)
      BY <2>1, <2>2, AwaitedEnd
    <2> QED BY <1>1, <1>7, <2>3, <2>4 DEF Known, q2, r, h, l, up
  <1>8. ASSUME NEW t, HostReads(t) PROVE Arrived(Me) /\ Got(Me).type = t /\ Get(Me)
    BY <1>8 DEF HostReads
  <1>9. CASE HostRegister \/ SetPassword \/ HostReadFails \/ WriteVerify
    BY <1>4, <1>9 DEF HostRegister, SetPassword, HostReadFails, WriteVerify, wireVars
  <1>10. CASE ReadOutput \/ LatencyPing \/ UpdateTermSize
    BY <1>4, <1>10 DEF ReadOutput, LatencyPing, UpdateTermSize
  <1>11. CASE HostRefused \/ CloseHost
    BY <1>5, <1>11 DEF HostRefused, CloseHost
  <1>12. CASE HostRegistered
    BY <1>6, <1>12 DEF HostRegistered
  <1>13. CASE OnInput \/ OnPing \/ OnPong
    BY <1>6, <1>8, <1>13 DEF OnInput, OnPing, OnPong, hostVars
  <1>14. CASE OnKeyExchange
    <2>1. crypto'[c] = {} <=> crypto[c] = {}
      BY <1>1, <1>14 DEF OnKeyExchange, Completed, HasSession
    <2> QED BY <1>6, <1>8, <1>14, <2>1 DEF OnKeyExchange
  <1>15. CASE OnJoined
    <2>1. crypto' = [crypto EXCEPT ![Got(Me).client] = {NotReady}] /\ link' = link
      BY <1>15 DEF OnJoined
    <2>2. CASE Got(Me).client = c
      <3>1. crypto'[c] # {}
        BY <1>1, <2>1, <2>2
      <3> QED BY <3>1, SessionKnown
    <2>3. CASE Got(Me).client # c
      <3>1. crypto'[c] = crypto[c]
        BY <1>1, <2>1, <2>3
      <3>2. ~Says(Got(Me), "joined", c)
        BY <2>3 DEF Says
      <3>3. Kept(toPeer[Me], toPeer'[Me], c)
        BY <1>1, <1>8, <1>15, <3>2, KeptGet DEF OnJoined
      <3> QED BY <1>3, <2>1, <3>1, <3>3
    <2> QED BY <2>2, <2>3
  <1>16. CASE OnLeft
    <2>1. CASE Got(Me).client = c
      <3>1. Rank(Got(Me)) = 6
        BY <1>8, <1>16 DEF OnLeft, Rank
      <3> QED BY <1>7, <1>8, <1>16, <2>1, <3>1 DEF OnLeft
    <2>2. CASE Got(Me).client # c
      <3>1. crypto'[c] = crypto[c]
        BY <1>1, <1>16, <2>2 DEF OnLeft
      <3> QED BY <1>6, <1>8, <1>16, <3>1 DEF OnLeft
    <2> QED BY <2>1, <2>2
  <1>17. CASE OnVerify
    <2>1. CASE crypto'[c] = crypto[c]
      BY <1>6, <1>8, <1>17, <2>1 DEF OnVerify
    <2>2. CASE crypto'[c] # crypto[c]
      <3>1. Got(Me).client = c /\ toRelay' = toRelay /\ link' = link
        BY <1>1, <1>17, <2>2 DEF OnVerify
      <3>2. Rank(Got(Me)) = 4
        BY <1>8, <1>17 DEF OnVerify, Rank
      <3> QED BY <1>7, <1>8, <1>17, <3>1, <3>2 DEF OnVerify
    <2> QED BY <2>1, <2>2
  <1> QED BY <1>9, <1>10, <1>11, <1>12, <1>13, <1>14, <1>15, <1>16, <1>17
          DEF HostStep, HostReadLoop
LEMMA InitKnown == ASSUME Init PROVE Opened /\ \A c \in Clients : Known(c)
  <1>1. /\ pc = [x \in Conns |-> "idle"] /\ sessions = [k \in Codes |-> NoHost]
        /\ toPeer[Me] = << >> /\ link[Me] = "none" /\ Me \in Conns
        /\ \A c \in Clients : c \in Conns
    BY OneHostFacts DEF Init, WireInit, RelayInit
  <1>2. Opened
    BY <1>1 DEF Opened, Attached
  <1>3. Len(<< >>) = 0
    OBVIOUS
  <1>4. ASSUME NEW c \in Clients PROVE Known(c)
    BY <1>1, <1>3, <1>4 DEF Known, Awaited, Up
  <1> QED BY <1>2, <1>4

LEMMA NextKnown ==
    ASSUME Inv, Opened, [Next]_vars, NEW c \in Clients, Pipeline(c), Known(c)
    PROVE  Known(c)'
  <1>1. CASE UNCHANGED vars
    BY <1>1 DEF Known, HasSession, vars, wireVars, relayVars, hostVars, clientVars
  <1>2. CASE RelayStep
    BY <1>2, OthersRelayKnown, OwnRelayKnown DEF RelayStep
  <1>3. CASE HostStep /\ UNCHANGED <<relayVars, clientVars>>
    BY <1>3, HostKnown
  <1>4. ASSUME NEW d \in Clients, ClientStep(d), UNCHANGED <<relayVars, hostVars>>
        PROVE  Known(c)'
    BY <1>4, ClientKnown
  <1>5. ASSUME NEW x \in Conns, Lost(x) PROVE Known(c)'
    BY <1>5, LostKnown
  <1> QED BY <1>1, <1>2, <1>3, <1>4, <1>5 DEF Next, ProgramStep

(* The host never reads a key_exchange or a verify of a client that it has *)
(* no session for (host.go:622 and 651 drop one): what the handler of the  *)
(* client in the relay writes after "joined" stays behind it, the client   *)
(* sends its key and its token once, and no frame that ends its session    *)
(* comes before them.                                                      *)
THEOREM KeysFindSessions == Spec => []SessionBeforeKey
  <1> DEFINE IInv == Inv /\ Opened /\ \A c \in Clients : Pipeline(c) /\ Known(c)
  <1>1. Init => IInv
    BY InitInv, InitPipeline, InitKnown
  <1>2. IInv /\ [Next]_vars => IInv'
    <2> SUFFICES ASSUME IInv, [Next]_vars PROVE IInv'
      OBVIOUS
    <2>1. Inv' /\ Opened'
      BY NextInv, OpenedKept
    <2>2. ASSUME NEW c \in Clients PROVE Pipeline(c)' /\ Known(c)'
      BY NextPipeline, NextKnown
    <2> QED BY <2>1, <2>2
  <1>3. IInv => SessionBeforeKey
    <2> SUFFICES ASSUME IInv, Arrived(Me), Asks(Got(Me))
                 PROVE  HasSession(Got(Me).client)
      BY DEF SessionBeforeKey, Asks
    <2> DEFINE q == toPeer[Me]  c == Got(Me).client
    <2>1. q \in Seq(RelaySays(Me)) /\ q # << >>
      BY OneHostFacts DEF Inv, Framed, ToPeerFramed, Arrived
    <2>2. q[1] = Got(Me) /\ q[1] \in RelaySays(Me) /\ 1 \in 1..Len(q)
      BY <2>1, HeadIn DEF Got
    <2>3. c \in Clients
      BY <2>2, HostGets DEF Asks
    <2>4. HasSession(c) \/ Joins(q, 1, c)
      BY <2>2, <2>3 DEF Known, Awaited
    <2>5. ~Joins(q, 1, c)
      BY <2>2 DEF Joins, Says, Asks
    <2> QED BY <2>4, <2>5
  <1> QED BY <1>1, <1>2, <1>3, PTL DEF Spec

=============================================================================
