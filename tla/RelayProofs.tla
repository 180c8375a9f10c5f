---------------------------- MODULE RelayProofs ----------------------------
(***************************************************************************)
(* Proofs about RelaySystem: type correctness; the invariants that tie     *)
(* the registry and the member maps to the positions of the handlers; and  *)
(* what hosts and clients read: the order of a client's events, the        *)
(* acknowledgements, who gets whose frames, and the refinement of Roster.  *)
(***************************************************************************)
EXTENDS RelaySystem, SequenceTheorems, TLAPS

(* The states of a handleClient from which sess is defined.                *)
Attached ==
    {"found", "acked", "added", "serving", "leaving", "removing", "notifying"}

(* The frames that open a connection carry a code.                         *)
Openings == {"host_register", "client_join"}
CodesCarried(q) ==
    \A i \in 1..Len(q) : q[i].type \in Openings => q[i].data \in Codes
Frames == \A x \in Conns : CodesCarried(toRelay[x])

(* The queues.                                                             *)

LEMMA MsgInMessage ==
    ASSUME NEW t \in MsgType, NEW c \in Clients \cup {NoClient}, NEW d \in Data
    PROVE  Msg(t, c, d) \in Message
  BY DEF Msg, Message

LEMMA WriteType ==
    ASSUME WireTypeOK, NEW S, NEW m \in Message, Write(S, m)
    PROVE  toPeer' \in [Conns -> Seq(Message)]
  <1>1. ASSUME NEW x \in Conns
        PROVE  (IF x \in S /\ link[x] \in Up THEN Append(toPeer[x], m)
                                            ELSE toPeer[x]) \in Seq(Message)
    BY AppendProperties DEF WireTypeOK
  <1> QED BY <1>1, Zenon DEF Write

LEMMA CloseType ==
    ASSUME WireTypeOK, Frames, NEW S, Close(S)
    PROVE  /\ link' \in [Conns -> LinkState]
           /\ toRelay' \in [Conns -> Seq(Message)]
           /\ Frames'
  BY DEF Close, WireTypeOK, LinkState, Frames, CodesCarried

LEMMA TakeType ==
    ASSUME WireTypeOK, Frames, NEW x \in Conns, Incoming(x)
    PROVE  /\ Next1(x) \in Message
           /\ Next1(x).type \in Openings => Next1(x).data \in Codes
           /\ Take(x) => toRelay' \in [Conns -> Seq(Message)] /\ Frames'
  <1> DEFINE q == toRelay[x]
  <1>1. q \in Seq(Message) /\ q # << >>
    BY DEF WireTypeOK, Incoming
  <1>2. /\ Head(q) \in Message
        /\ Tail(q) \in Seq(Message)
        /\ Len(Tail(q)) = Len(q) - 1
        /\ \A i \in 1..Len(Tail(q)) : Tail(q)[i] = q[i + 1]
    BY <1>1, HeadTailProperties
  <1>3. Head(q) = q[1] /\ 1 \in 1..Len(q) /\ Len(q) \in Nat
    BY <1>1
  <1>4. CodesCarried(q)
    BY DEF Frames
  <1>5. CodesCarried(Tail(q))
    BY <1>2, <1>3, <1>4 DEF CodesCarried
  <1>6. ASSUME Take(x) PROVE toRelay' \in [Conns -> Seq(Message)] /\ Frames'
    <2>1. toRelay' = [toRelay EXCEPT ![x] = Tail(q)]
      BY <1>6 DEF Take
    <2>2. toRelay' \in [Conns -> Seq(Message)]
      BY <1>2, <2>1, Zenon DEF WireTypeOK
    <2>3. ASSUME NEW y \in Conns PROVE CodesCarried(toRelay'[y])
      BY <1>5, <2>1, Zenon DEF Frames, WireTypeOK
    <2> QED BY <2>2, <2>3 DEF Frames, CodesCarried
  <1> QED BY <1>2, <1>3, <1>4, <1>6 DEF Next1, CodesCarried

LEMMA RefusalInMessage == Msg("error", NoClient, NoData) \in Message
  BY MsgInMessage, DataCarriesCodes DEF MsgType

---------------------------------------------------------------------------
(* The positions of the handlers.                                          *)

InMap == {"added", "serving", "leaving", "removing"}

(* A host in its loop has a code, a client that found a session has it.    *)
Coded == \A h \in Hosts : pc[h] = "serving" => code[h] \in Codes
Located == \A c \in Clients : pc[c] \in Attached => sess[c] \in Hosts

Control == SessionOwner /\ Membership /\ Coded /\ Located

(* What the relay's steps preserve; sent and seen are the peers' own.      *)
Core == WireTypeOK /\ RelayTypeOK /\ Frames /\ Control

LEMMA GotoMoves ==
    ASSUME RelayTypeOK, NEW x \in Conns, NEW from, NEW to \in HandlerState,
           Goto(x, from, to)
    PROVE  /\ pc[x] = from
           /\ pc' \in [Conns -> HandlerState]
           /\ pc'[x] = to
           /\ \A y \in Conns \ {x} : pc'[y] = pc[y]
  BY DEF RelayTypeOK, Goto

(* A move that neither enters nor leaves a host's loop, nor the stretch in *)
(* which a client is in a map, disturbs nothing.                           *)
LEMMA MoveKeepsControl ==
    ASSUME RelayTypeOK, Control, NEW x \in Conns, NEW from,
           NEW to \in HandlerState, Goto(x, from, to),
           UNCHANGED <<sessions, code, clients, sess>>,
           x \in Hosts => from # "serving" /\ to # "serving",
           x \in Clients => /\ to \in Attached => from \in Attached
                            /\ from \in InMap <=> to \in InMap
    PROVE  Control'
  <1>1. /\ pc[x] = from /\ pc'[x] = to
        /\ \A y \in Conns \ {x} : pc'[y] = pc[y]
    BY GotoMoves
  <1>2. SessionOwner'
    BY <1>1 DEF Control, SessionOwner, Conns
  <1>3. Membership'
    BY <1>1 DEF Control, Membership, InMap, Conns
  <1>4. Coded' /\ Located'
    BY <1>1 DEF Control, Coded, Located, Conns
  <1> QED BY <1>2, <1>3, <1>4 DEF Control

(* The wire.  A step leaves it alone, closes some connections, or reads    *)
(* and writes at most one frame.                                           *)
WireSafe == WireTypeOK /\ Frames

LEMMA SameWire ==
    ASSUME WireSafe, UNCHANGED wireVars
    PROVE  WireSafe'
  BY DEF WireSafe, wireVars, WireTypeOK, Frames, CodesCarried

LEMMA ClosedWire ==
    ASSUME WireSafe, NEW S, Close(S),
           UNCHANGED toPeer \/ \E T : \E m \in Message : Write(T, m)
    PROVE  WireSafe'
  BY CloseType, WriteType DEF WireSafe, WireTypeOK

LEMMA WrittenWire ==
    ASSUME WireSafe, NEW S, NEW m \in Message, Write(S, m),
           UNCHANGED <<link, toRelay>>
    PROVE  WireSafe'
  BY WriteType DEF WireSafe, WireTypeOK, Frames, CodesCarried

LEMMA TakenWire ==
    ASSUME WireSafe, NEW x \in Conns, Incoming(x), Take(x), UNCHANGED link,
           UNCHANGED toPeer \/ \E S : \E m \in Message : Write(S, m)
    PROVE  WireSafe'
  BY TakeType, WriteType DEF WireSafe, WireTypeOK

LEMMA FirstFrame ==
    ASSUME WireSafe, NEW x \in Conns, NEW t \in Openings, First(x, t)
    PROVE  Next1(x).data \in Codes
  BY TakeType DEF WireSafe, First

---------------------------------------------------------------------------
(* One step of a handler before its role is known.                         *)

LEMMA OpeningStep ==
    ASSUME Core, NEW x \in Conns,
           Accept(x) \/ FirstReadFails(x) \/ RejectFirst(x)
    PROVE  Core'
  <1>1. \E from \in {"idle", "first"}, to \in {"first", "done"} : Goto(x, from, to)
    BY DEF Accept, FirstReadFails, RejectFirst, Refuse
  <1>2. UNCHANGED <<sessions, code, clients, sess, stopping, snapshot, current>>
    BY DEF Accept, FirstReadFails, RejectFirst, Refuse, registry, shutdown
  <1>3. RelayTypeOK'
    BY <1>1, <1>2, GotoMoves DEF Core, RelayTypeOK, HandlerState
  <1>4. Control'
    BY <1>1, <1>2, MoveKeepsControl DEF Core, HandlerState, InMap, Attached
  <1>5. CASE Accept(x)
    <2>1. WireSafe'
      BY <1>5 DEF Core, WireSafe, Accept, WireTypeOK, LinkState, Frames, CodesCarried
    <2> QED BY <1>3, <1>4, <2>1 DEF Core, WireSafe
  <1>6. CASE FirstReadFails(x)
    <2>1. WireSafe'
      BY <1>6, ClosedWire DEF Core, WireSafe, FirstReadFails
    <2> QED BY <1>3, <1>4, <2>1 DEF Core, WireSafe
  <1>7. CASE RejectFirst(x)
    <2>1. WireSafe'
      BY <1>7, ClosedWire, RefusalInMessage DEF Core, WireSafe, RejectFirst, Refuse
    <2> QED BY <1>3, <1>4, <2>1 DEF Core, WireSafe
  <1> QED BY <1>5, <1>6, <1>7

---------------------------------------------------------------------------
(* The host's handler.                                                     *)

LEMMA RegisterHostStep ==
    ASSUME Core, NEW h \in Hosts, RegisterHost(h)
    PROVE  Core'
  <1> DEFINE k == Next1(h).data
  <1>1. h \in Conns /\ WireSafe /\ k \in Codes
    BY FirstFrame DEF Core, WireSafe, RegisterHost, Conns, Openings
  <1>2. /\ Goto(h, "first", "serving")
        /\ sessions[k] = NoHost
        /\ sessions' = [sessions EXCEPT ![k] = h]
        /\ code' = [code EXCEPT ![h] = k]
        /\ UNCHANGED <<clients, sess, stopping, snapshot, current>>
    BY DEF RegisterHost, shutdown
  <1>3. WireSafe'
    <2>1. Msg("host_registered", NoClient, k) \in Message
      BY <1>1, MsgInMessage, DataCarriesCodes DEF MsgType
    <2> QED BY <1>1, <2>1, TakenWire DEF RegisterHost, First
  <1>4. RelayTypeOK'
    BY <1>1, <1>2, GotoMoves DEF Core, RelayTypeOK, HandlerState
  <1>5. /\ pc[h] = "first" /\ pc'[h] = "serving"
        /\ \A y \in Conns \ {h} : pc'[y] = pc[y]
    BY <1>1, <1>2, GotoMoves DEF Core, HandlerState
  <1>6. SessionOwner'
    BY <1>1, <1>2, <1>5, NoHostFresh
    DEF Core, Control, SessionOwner, RelayTypeOK, Conns
  <1>7. Membership' /\ Located'
    BY <1>2, <1>5, RolesDisjoint DEF Core, Control, Membership, Located, Conns
  <1>8. Coded'
    BY <1>1, <1>2, <1>5 DEF Core, Control, Coded, RelayTypeOK, Conns
  <1> QED BY <1>3, <1>4, <1>6, <1>7, <1>8 DEF Core, WireSafe, Control

LEMMA UnregisterStep ==
    ASSUME Core, NEW h \in Hosts, Unregister(h)
    PROVE  Core'
  <1>1. h \in Conns /\ WireSafe
    BY DEF Core, WireSafe, Conns
  <1>2. /\ Goto(h, "serving", "unregistered")
        /\ sessions' = [sessions EXCEPT ![code[h]] = NoHost]
        /\ UNCHANGED <<code, clients, sess, stopping, snapshot, current>>
    BY DEF Unregister, shutdown
  <1>3. WireSafe'
    BY <1>1, SameWire DEF Unregister, wireVars
  <1>4. /\ pc[h] = "serving" /\ pc'[h] = "unregistered"
        /\ \A y \in Conns \ {h} : pc'[y] = pc[y]
    BY <1>1, <1>2, GotoMoves DEF Core, HandlerState
  <1>5. RelayTypeOK'
    BY <1>1, <1>2, GotoMoves DEF Core, RelayTypeOK, HandlerState
  <1>6. SessionOwner'
    BY <1>1, <1>2, <1>4, NoHostFresh
    DEF Core, Control, SessionOwner, Coded, RelayTypeOK, Conns
  <1>7. Membership' /\ Located'
    BY <1>2, <1>4, RolesDisjoint DEF Core, Control, Membership, Located, Conns
  <1>8. Coded'
    BY <1>2, <1>4 DEF Core, Control, Coded, Conns
  <1> QED BY <1>3, <1>5, <1>6, <1>7, <1>8 DEF Core, WireSafe, Control

LEMMA ForwardFromHostStep ==
    ASSUME Core, NEW h \in Hosts, ForwardFromHost(h)
    PROVE  Core'
  <1>1. h \in Conns /\ WireSafe
    BY DEF Core, WireSafe, Conns
  <1>2. Next1(h) \in Message
    BY <1>1, TakeType DEF ForwardFromHost, WireSafe
  <1>3. WireSafe'
    BY <1>1, <1>2, TakenWire DEF ForwardFromHost
  <1> QED BY <1>3 DEF Core, WireSafe, ForwardFromHost, relayVars, RelayTypeOK,
             Control, SessionOwner, Membership, Coded, Located

LEMMA HostMoveStep ==
    ASSUME Core, NEW h \in Hosts,
           RejectHost(h) \/ CloseHostConn(h) \/ CloseMembers(h)
    PROVE  Core'
  <1>1. h \in Conns /\ h \notin Clients /\ WireSafe
    BY RolesDisjoint DEF Core, WireSafe, Conns
  <1>2. \E from \in {"first", "unregistered", "closing"},
           to \in {"rejected", "closing", "done"} : Goto(h, from, to)
    BY DEF RejectHost, CloseHostConn, CloseMembers
  <1>3. UNCHANGED <<sessions, code, clients, sess, stopping, snapshot, current>>
    BY DEF RejectHost, CloseHostConn, CloseMembers, registry, shutdown
  <1>4. RelayTypeOK'
    BY <1>1, <1>2, <1>3, GotoMoves DEF Core, RelayTypeOK, HandlerState
  <1>5. Control'
    BY <1>1, <1>2, <1>3, MoveKeepsControl DEF Core, HandlerState
  <1>6. ASSUME RejectHost(h) PROVE WireSafe'
    BY <1>1, <1>6, TakenWire, RefusalInMessage DEF RejectHost, First
  <1>7. ASSUME CloseHostConn(h) PROVE WireSafe'
    BY <1>1, <1>7, ClosedWire DEF CloseHostConn
  <1>8. ASSUME CloseMembers(h) PROVE WireSafe'
    BY <1>1, <1>8, ClosedWire DEF CloseMembers
  <1> QED BY <1>4, <1>5, <1>6, <1>7, <1>8 DEF Core, WireSafe

---------------------------------------------------------------------------
(* The client's handler.                                                   *)

LEMMA LookupSessionStep ==
    ASSUME Core, NEW c \in Clients, LookupSession(c)
    PROVE  Core'
  <1> DEFINE h == sessions[Next1(c).data]
  <1>1. c \in Conns /\ c \notin Hosts /\ WireSafe
    BY RolesDisjoint DEF Core, WireSafe, Conns
  <1>2. h \in Hosts
    BY <1>1, FirstFrame DEF Core, RelayTypeOK, LookupSession, Openings
  <1>3. /\ Goto(c, "first", "found")
        /\ sess' = [sess EXCEPT ![c] = h]
        /\ UNCHANGED <<sessions, code, clients, stopping, snapshot, current>>
    BY DEF LookupSession, registry, shutdown
  <1>4. WireSafe'
    BY <1>1, TakenWire DEF LookupSession, First
  <1>5. RelayTypeOK'
    BY <1>1, <1>2, <1>3, GotoMoves DEF Core, RelayTypeOK, HandlerState
  <1>6. /\ pc[c] = "first" /\ pc'[c] = "found"
        /\ \A y \in Conns \ {c} : pc'[y] = pc[y]
    BY <1>1, <1>3, GotoMoves DEF Core, HandlerState
  <1>7. SessionOwner' /\ Coded'
    BY <1>1, <1>3, <1>6 DEF Core, Control, SessionOwner, Coded, Conns
  <1>8. Membership'
    BY <1>3, <1>6 DEF Core, Control, Membership, RelayTypeOK, Conns
  <1>9. Located'
    BY <1>2, <1>3, <1>6 DEF Core, Control, Located, RelayTypeOK, Conns
  <1> QED BY <1>4, <1>5, <1>7, <1>8, <1>9 DEF Core, WireSafe, Control

(* The two steps that change a map: into it, and out of it.                *)
LEMMA MemberStep ==
    ASSUME Core, NEW c \in Clients, AddClient(c) \/ RemoveClient(c)
    PROVE  Core'
  <1>1. c \in Conns /\ c \notin Hosts /\ WireSafe
    BY RolesDisjoint DEF Core, WireSafe, Conns
  <1>2. /\ UNCHANGED <<sessions, code, sess, stopping, snapshot, current>>
        /\ UNCHANGED wireVars
    BY DEF AddClient, RemoveClient, registry, shutdown
  <1>3. WireSafe'
    BY <1>1, <1>2, SameWire
  <1>4. CASE AddClient(c)
    <2>1. /\ pc[c] = "acked" /\ pc'[c] = "added"
          /\ pc' \in [Conns -> HandlerState]
          /\ \A y \in Conns \ {c} : pc'[y] = pc[y]
          /\ clients' = [clients EXCEPT ![sess[c]] = @ \cup {c}]
      BY <1>1, <1>4, GotoMoves DEF Core, AddClient, HandlerState
    <2>2. sess[c] \in Hosts
      BY <2>1 DEF Core, Control, Located, Attached
    <2>3. RelayTypeOK'
      BY <1>2, <2>1, <2>2 DEF Core, RelayTypeOK
    <2>4. SessionOwner' /\ Coded'
      BY <1>1, <1>2, <2>1 DEF Core, Control, SessionOwner, Coded, Conns
    <2>5. Membership'
      BY <1>2, <2>1, <2>2 DEF Core, Control, Membership, RelayTypeOK, Conns
    <2>6. Located'
      BY <1>2, <2>1, <2>2 DEF Core, Control, Located, Conns
    <2> QED BY <1>3, <2>3, <2>4, <2>5, <2>6 DEF Core, WireSafe, Control
  <1>5. CASE RemoveClient(c)
    <2>1. /\ pc[c] = "removing" /\ pc'[c] = "notifying"
          /\ pc' \in [Conns -> HandlerState]
          /\ \A y \in Conns \ {c} : pc'[y] = pc[y]
          /\ clients' = [clients EXCEPT ![sess[c]] = @ \ {c}]
      BY <1>1, <1>5, GotoMoves DEF Core, RemoveClient, HandlerState
    <2>2. sess[c] \in Hosts
      BY <2>1 DEF Core, Control, Located, Attached
    <2>3. RelayTypeOK'
      BY <1>2, <2>1, <2>2 DEF Core, RelayTypeOK
    <2>4. SessionOwner' /\ Coded'
      BY <1>1, <1>2, <2>1 DEF Core, Control, SessionOwner, Coded, Conns
    <2>5. Membership'
      BY <1>2, <2>1, <2>2 DEF Core, Control, Membership, RelayTypeOK, Conns
    <2>6. Located'
      BY <1>2, <2>1, <2>2 DEF Core, Control, Located, Conns
    <2> QED BY <1>3, <2>3, <2>4, <2>5, <2>6 DEF Core, WireSafe, Control
  <1> QED BY <1>4, <1>5

LEMMA ForwardFromClientStep ==
    ASSUME Core, NEW c \in Clients, ForwardFromClient(c)
    PROVE  Core'
  <1>1. c \in Conns /\ WireSafe
    BY DEF Core, WireSafe, Conns
  <1>2. Msg(Next1(c).type, c, Next1(c).data) \in Message
    <2>1. Next1(c) \in Message
      BY <1>1, TakeType DEF ForwardFromClient, WireSafe
    <2> QED BY <2>1 DEF Message, Msg
  <1>3. WireSafe'
    BY <1>1, <1>2, TakenWire DEF ForwardFromClient
  <1> QED BY <1>3 DEF Core, WireSafe, ForwardFromClient, relayVars, RelayTypeOK,
             Control, SessionOwner, Membership, Coded, Located

LEMMA ClientMoveStep ==
    ASSUME Core, NEW c \in Clients,
           \/ RateLimited(c) \/ SessionNotFound(c) \/ AckJoin(c)
           \/ NotifyJoined(c) \/ ForwardFails(c) \/ ClientReadFails(c)
           \/ Disconnect(c) \/ NotifyLeft(c)
    PROVE  Core'
  <1>1. c \in Conns /\ c \notin Hosts /\ WireSafe
    BY RolesDisjoint DEF Core, WireSafe, Conns
  <1>2. \E move \in {<<"first", "done">>, <<"found", "acked">>,
                     <<"added", "serving">>, <<"serving", "leaving">>,
                     <<"leaving", "removing">>, <<"notifying", "done">>} :
           Goto(c, move[1], move[2])
    BY DEF RateLimited, SessionNotFound, Refuse, AckJoin, NotifyJoined,
           ForwardFails, ClientReadFails, Disconnect, NotifyLeft
  <1>3. UNCHANGED <<sessions, code, clients, sess, stopping, snapshot, current>>
    BY DEF RateLimited, SessionNotFound, Refuse, AckJoin, NotifyJoined,
           ForwardFails, ClientReadFails, Disconnect, NotifyLeft,
           registry, shutdown
  <1>4. RelayTypeOK'
    BY <1>1, <1>2, <1>3, GotoMoves DEF Core, RelayTypeOK, HandlerState
  <1>5. Control'
    BY <1>1, <1>2, <1>3, MoveKeepsControl DEF Core, HandlerState, InMap, Attached
  <1>6. ASSUME RateLimited(c) \/ SessionNotFound(c) PROVE WireSafe'
    BY <1>1, <1>6, ClosedWire, RefusalInMessage DEF RateLimited, SessionNotFound, Refuse
  <1>7. ASSUME AckJoin(c) \/ NotifyJoined(c) \/ NotifyLeft(c) PROVE WireSafe'
    <2>1. \A t \in {"session_joined", "joined", "left"} :
             Msg(t, c, NoData) \in Message
      BY MsgInMessage, DataCarriesCodes DEF MsgType
    <2> QED BY <1>1, <1>7, <2>1, WrittenWire DEF AckJoin, NotifyJoined, NotifyLeft
  <1>8. ASSUME ForwardFails(c) PROVE WireSafe'
    BY <1>1, <1>8, TakenWire DEF ForwardFails
  <1>9. ASSUME ClientReadFails(c) PROVE WireSafe'
    BY <1>1, <1>9, SameWire DEF ClientReadFails
  <1>10. ASSUME Disconnect(c) PROVE WireSafe'
    BY <1>1, <1>10, ClosedWire DEF Disconnect
  <1> QED BY <1>4, <1>5, <1>6, <1>7, <1>8, <1>9, <1>10 DEF Core, WireSafe

---------------------------------------------------------------------------
(* CloseAllSessions.                                                       *)

LEMMA ShutdownStep ==
    ASSUME Core, SnapshotSessions \/ \E h \in Hosts : CloseAllSessions(h)
    PROVE  Core'
  <1>1. UNCHANGED <<sessions, code, clients, sess, pc>>
    BY DEF SnapshotSessions, CloseAllSessions, CloseSnapshotHost,
           CloseSnapshotClients, registry
  <1>2. Control'
    BY <1>1 DEF Core, Control, SessionOwner, Membership, Coded, Located
  <1>3. RelayTypeOK'
    BY <1>1 DEF Core, RelayTypeOK, SnapshotSessions, CloseAllSessions,
                CloseSnapshotHost, CloseSnapshotClients
  <1>4. WireSafe'
    BY SameWire, ClosedWire DEF Core, WireSafe, SnapshotSessions,
       CloseAllSessions, CloseSnapshotHost, CloseSnapshotClients
  <1> QED BY <1>2, <1>3, <1>4 DEF Core, WireSafe

---------------------------------------------------------------------------
(* The whole system.                                                       *)

PeersTypeOK ==
    sent \in [Conns -> Nat] /\ seen \in [Hosts -> [Clients -> Presence]]

Inv == Core /\ PeersTypeOK

LEMMA RelayStepInv ==
    ASSUME Inv, RelayStep
    PROVE  Inv'
  <1>1. PeersTypeOK'
    BY DEF Inv, RelayStep, peerVars, PeersTypeOK
  <1>2. CASE \E x \in Conns : Accept(x)
    BY <1>1, <1>2, OpeningStep DEF Inv
  <1>3. CASE \E h \in Hosts : HostHandler(h)
    <2>1. PICK h \in Hosts : HostHandler(h)
      BY <1>3
    <2>2. h \in Conns
      BY DEF Conns
    <2> QED BY <1>1, <2>1, <2>2, OpeningStep, RegisterHostStep, UnregisterStep,
               ForwardFromHostStep, HostMoveStep DEF Inv, HostHandler
  <1>4. CASE \E c \in Clients : ClientHandler(c)
    <2>1. PICK c \in Clients : ClientHandler(c)
      BY <1>4
    <2>2. c \in Conns
      BY DEF Conns
    <2> QED BY <1>1, <2>1, <2>2, OpeningStep, LookupSessionStep, MemberStep,
               ForwardFromClientStep, ClientMoveStep DEF Inv, ClientHandler
  <1>5. CASE SnapshotSessions \/ \E h \in Hosts : CloseAllSessions(h)
    BY <1>1, <1>5, ShutdownStep DEF Inv
  <1> QED BY <1>2, <1>3, <1>4, <1>5 DEF RelayStep

(* A peer leaves the relay's variables alone; what it sends first carries  *)
(* a code, and nothing it sends later opens a connection.                  *)
LEMMA PeerSendInv ==
    ASSUME Inv, NEW x \in Conns, PeerSend(x)
    PROVE  Inv'
  <1>1. PICK m \in Opening(x) \cup Following(x) : Send(x, m)
    BY DEF PeerSend
  <1>2. m \in Message /\ (m.type \in Openings => m.data \in Codes)
    <2>1. CASE m \in Opening(x)
      BY <2>1, PeerTypes, DataCarriesCodes
      DEF Opening, Msg, Message, MsgType, Openings
    <2>2. CASE m \in Following(x)
      BY <2>2, PeerTypes, Traceable
      DEF Following, Msg, Message, MsgType, Openings
    <2> QED BY <2>1, <2>2
  <1>3. ASSUME NEW y \in Conns
        PROVE  toRelay'[y] \in Seq(Message) /\ CodesCarried(toRelay'[y])
    <2> DEFINE q == toRelay[y]
    <2>1. q \in Seq(Message) /\ CodesCarried(q)
      BY DEF Inv, Core, WireTypeOK, Frames
    <2>2. toRelay'[y] = q \/ toRelay'[y] = Append(q, m)
      BY <1>1 DEF Send, Inv, Core, WireTypeOK
    <2>3. Append(q, m) \in Seq(Message) /\ CodesCarried(Append(q, m))
      BY <1>2, <2>1, AppendProperties DEF CodesCarried
    <2> QED BY <2>1, <2>2, <2>3
  <1>4. WireSafe'
    <2>1. toRelay' = [y \in Conns |-> toRelay'[y]]
      BY <1>1 DEF Send, Inv, Core, WireTypeOK
    <2>2. toRelay' \in [Conns -> Seq(Message)] /\ Frames'
      BY <1>3, <2>1 DEF Frames, CodesCarried
    <2> QED BY <2>2 DEF PeerSend, WireSafe, WireTypeOK, Inv, Core
  <1>5. PeersTypeOK'
    BY DEF PeerSend, Inv, PeersTypeOK
  <1> QED BY <1>4, <1>5 DEF PeerSend, relayVars, Inv, Core, WireSafe, RelayTypeOK,
             Control, SessionOwner, Membership, Coded, Located

LEMMA PeerStepInv ==
    ASSUME Inv, PeerStep
    PROVE  Inv'
  <1>1. PICK x \in Conns : PeerSend(x) \/ PeerRead(x) \/ PeerGone(x) \/ Expire(x)
    BY DEF PeerStep
  <1>2. ASSUME ~PeerSend(x) PROVE Inv'
    <2>1. /\ UNCHANGED relayVars
          /\ UNCHANGED <<toRelay, sent>>
      BY <1>1, <1>2 DEF PeerRead, PeerGone, Expire, peerVars
    <2>2. CASE PeerRead(x)
      <3>1. toPeer[x] \in Seq(Message) /\ toPeer[x] # << >>
        BY <2>2 DEF PeerRead, Arrived, Inv, Core, WireTypeOK
      <3>2. Head(toPeer[x]) \in Message /\ Tail(toPeer[x]) \in Seq(Message)
        BY <3>1, HeadTailProperties
      <3>3. link' = link /\ toPeer' \in [Conns -> Seq(Message)]
        BY <2>2, <3>2 DEF PeerRead, Get, Inv, Core, WireTypeOK
      <3>4. seen' \in [Hosts -> [Clients -> Presence]]
        BY <2>2, <3>2 DEF PeerRead, Told, Got, Inv, PeersTypeOK, Presence, Message
      <3> QED BY <2>1, <3>3, <3>4 DEF relayVars, Inv, PeersTypeOK, Core, WireTypeOK,
                 Frames, CodesCarried, RelayTypeOK, Control, SessionOwner,
                 Membership, Coded, Located
    <2>3. CASE PeerGone(x) \/ Expire(x)
      <3>1. /\ link' \in [Conns -> LinkState]
            /\ toPeer' \in [Conns -> Seq(Message)]
            /\ seen' = seen
        <4>1. << >> \in Seq(Message)
          BY EmptySeq
        <4>2. CASE PeerGone(x)
          BY <4>1, <4>2 DEF PeerGone, Hangup, peerVars, Inv, Core, WireTypeOK, LinkState
        <4>3. CASE Expire(x)
          BY <4>3 DEF Expire, peerVars, Inv, Core, WireTypeOK, LinkState
        <4> QED BY <2>3, <4>2, <4>3
      <3> QED BY <2>1, <3>1 DEF relayVars, Inv, PeersTypeOK, Core, WireTypeOK,
                 Frames, CodesCarried, RelayTypeOK, Control, SessionOwner,
                 Membership, Coded, Located
    <2> QED BY <1>1, <1>2, <2>2, <2>3
  <1> QED BY <1>1, <1>2, PeerSendInv

(* The inductive invariant: the types, the frames that open a connection,  *)
(* the registry and the maps tied to the positions of the handlers.        *)
THEOREM Invariant == Spec => []Inv
  <1>1. Init => Inv
    <2> SUFFICES ASSUME Init PROVE Inv
      OBVIOUS
    <2>1. WireTypeOK /\ Frames
      <3>1. << >> \in Seq(Message) /\ CodesCarried(<< >>)
        BY EmptySeq DEF CodesCarried
      <3> QED BY <3>1 DEF Init, WireInit, WireTypeOK, LinkState, Frames
    <2>2. RelayTypeOK /\ PeersTypeOK
      BY DEF Init, RelayInit, RelayTypeOK, HandlerState, PeersTypeOK, Presence
    <2>3. Control
      BY NoHostFresh DEF Init, RelayInit, Control, SessionOwner, Membership,
                         Coded, Located, Attached, Conns
    <2> QED BY <2>1, <2>2, <2>3 DEF Inv, Core
  <1>2. Inv /\ [Next]_vars => Inv'
    <2> SUFFICES ASSUME Inv, [Next]_vars PROVE Inv'
      OBVIOUS
    <2>1. CASE UNCHANGED vars
      BY <2>1 DEF vars, wireVars, relayVars, peerVars, Inv, Core, PeersTypeOK,
         WireTypeOK, RelayTypeOK, Frames, CodesCarried, Control, SessionOwner,
         Membership, Coded, Located
    <2> QED BY <2>1, RelayStepInv, PeerStepInv DEF Next
  <1> QED BY <1>1, <1>2, PTL DEF Spec

(* Every variable of the relay and of its peers keeps its type, whatever   *)
(* frames the peers send and however the handlers interleave.              *)
THEOREM TypeCorrect == Spec => []TypeOK
  <1>1. Inv => TypeOK
    BY DEF Inv, Core, PeersTypeOK, TypeOK
  <1> QED BY <1>1, Invariant, PTL

(* A code is registered to a host exactly while that host's handler is in  *)
(* its loop, for any number of hosts and codes.                            *)
THEOREM OwnedWhileServing == Spec => []SessionOwner
  <1>1. Inv => SessionOwner
    BY DEF Inv, Core, Control
  <1> QED BY <1>1, Invariant, PTL

(* A client is in the map of the session it looked up from AddClient to    *)
(* RemoveClient, and in no other map ever.                                 *)
THEOREM MembersOnly == Spec => []Membership
  <1>1. Inv => Membership
    BY DEF Inv, Core, Control
  <1> QED BY <1>1, Invariant, PTL

---------------------------------------------------------------------------
(* Queues.  What a frame written or read does to what a queue says.        *)

(* The frames about a client in the queue of a host, with what the host    *)
(* has read so far: one "joined" and then traffic, and after "left"        *)
(* nothing.                                                                *)
About(m, c) == m.client = c

Ordered(q, c, known) ==
    \A i \in 1..Len(q) : About(q[i], c) =>
        /\ IF q[i].type = "joined"
             THEN known = "new" /\ \A j \in 1..(i - 1) : ~About(q[j], c)
             ELSE \/ known = "present"
                  \/ /\ known = "new"
                     /\ \E j \in 1..(i - 1) :
                          About(q[j], c) /\ q[j].type = "joined"
        /\ q[i].type = "left" => \A j \in (i + 1)..Len(q) : ~About(q[j], c)

(* Before the client is announced: nothing about it.                       *)
Silent(q, c, known) ==
    known = "new" /\ \A i \in 1..Len(q) : ~About(q[i], c)

(* Between its "joined" and its "left": more may follow.                   *)
Followed(q, c, known) ==
    /\ \A i \in 1..Len(q) : About(q[i], c) => q[i].type # "left"
    /\ \/ known = "present"
       \/ /\ known = "new"
          /\ \E i \in 1..Len(q) : About(q[i], c) /\ q[i].type = "joined"

(* What the host knows after reading m.                                    *)
After(m, c, known) ==
    IF ~About(m, c) THEN known
    ELSE IF m.type = "joined" THEN "present"
    ELSE IF m.type = "left" THEN "gone" ELSE known

LEMMA AppendShape ==
    ASSUME NEW q \in Seq(Message), NEW m \in Message
    PROVE  /\ Append(q, m) \in Seq(Message)
           /\ Len(q) \in Nat
           /\ Len(Append(q, m)) = Len(q) + 1
           /\ \A i \in 1..Len(q) : Append(q, m)[i] = q[i]
           /\ Append(q, m)[Len(q) + 1] = m
  BY AppendProperties

LEMMA AppendOther ==
    ASSUME NEW q \in Seq(Message), NEW m \in Message, NEW c, NEW known, ~About(m, c)
    PROVE  /\ Ordered(q, c, known) => Ordered(Append(q, m), c, known)
           /\ Silent(q, c, known) => Silent(Append(q, m), c, known)
           /\ Followed(q, c, known) => Followed(Append(q, m), c, known)
  <1> DEFINE r == Append(q, m)
             n == Len(q)
  <1>1. /\ n \in Nat
        /\ Len(r) = n + 1
        /\ \A i \in 1..n : r[i] = q[i]
        /\ r[n + 1] = m
    BY AppendShape
  <1> HIDE DEF r, n
  <1>2. \A i \in 1..Len(r) : About(r[i], c) => i \in 1..n /\ r[i] = q[i]
    BY <1>1
  <1>3. Len(q) = n
    BY DEF n
  <1>4. Silent(q, c, known) => Silent(r, c, known)
    BY <1>1, <1>2, <1>3 DEF Silent
  <1>5. Followed(q, c, known) => Followed(r, c, known)
    BY <1>1, <1>2, <1>3 DEF Followed
  <1>6. ASSUME Ordered(q, c, known) PROVE Ordered(r, c, known)
    <2> SUFFICES ASSUME NEW i \in 1..Len(r), About(r[i], c)
                 PROVE  /\ IF r[i].type = "joined"
                             THEN /\ known = "new"
                                  /\ \A j \in 1..(i - 1) : ~About(r[j], c)
                             ELSE \/ known = "present"
                                  \/ /\ known = "new"
                                     /\ \E j \in 1..(i - 1) :
                                          About(r[j], c) /\ r[j].type = "joined"
                        /\ r[i].type = "left" =>
                             \A j \in (i + 1)..Len(r) : ~About(r[j], c)
      BY DEF Ordered
    <2>1. i \in 1..n /\ r[i] = q[i] /\ \A j \in 1..(i - 1) : j \in 1..n /\ r[j] = q[j]
      BY <1>1, <1>2
    <2>2. \A j \in (i + 1)..Len(r) : About(r[j], c) => j \in (i + 1)..n /\ r[j] = q[j]
      BY <1>1, <1>2
    <2> QED BY <1>3, <1>6, <2>1, <2>2 DEF Ordered
  <1> QED BY <1>4, <1>5, <1>6 DEF r

LEMMA TailShape ==
    ASSUME NEW q \in Seq(Message), q # << >>
    PROVE  /\ Head(q) = q[1] /\ Head(q) \in Message
           /\ Len(q) \in Nat /\ Len(q) >= 1
           /\ Tail(q) \in Seq(Message)
           /\ Len(Tail(q)) = Len(q) - 1
           /\ \A i \in 1..Len(Tail(q)) : i + 1 \in 1..Len(q) /\ Tail(q)[i] = q[i + 1]
  BY HeadTailProperties

LEMMA TailKeepsOrder ==
    ASSUME NEW q \in Seq(Message), q # << >>, NEW c, NEW known,
           Ordered(q, c, known)
    PROVE  Ordered(Tail(q), c, After(Head(q), c, known))
  <1> DEFINE r == Tail(q)
             n == Len(q)
             m == Head(q)
             k == After(m, c, known)
  <1>1. /\ n \in Nat /\ n >= 1 /\ m = q[1]
        /\ Len(r) = n - 1
        /\ \A i \in 1..Len(r) : r[i] = q[i + 1]
    BY TailShape
  <1>2. Len(q) = n /\ k = After(m, c, known) /\ Ordered(q, c, known)
    OBVIOUS
  <1> HIDE DEF r, n, m, k
  <1> SUFFICES ASSUME NEW i \in 1..Len(r), About(r[i], c)
               PROVE  /\ IF r[i].type = "joined"
                           THEN /\ k = "new"
                                /\ \A j \in 1..(i - 1) : ~About(r[j], c)
                           ELSE \/ k = "present"
                                \/ /\ k = "new"
                                   /\ \E j \in 1..(i - 1) :
                                        About(r[j], c) /\ r[j].type = "joined"
                      /\ r[i].type = "left" =>
                           \A j \in (i + 1)..Len(r) : ~About(r[j], c)
    BY DEF Ordered, r, k, m
  <1>3. i + 1 \in 1..n /\ 1 \in 1..n /\ 1 \in 1..((i + 1) - 1) /\ About(q[i + 1], c)
    BY <1>1
  <1>4. \A j \in 1..(i - 1) : r[j] = q[j + 1] /\ j + 1 \in 1..((i + 1) - 1)
    BY <1>1
  <1>5. \A j \in (i + 1)..Len(r) : r[j] = q[j + 1] /\ j + 1 \in ((i + 1) + 1)..n
    BY <1>1
  <1>6. r[i] = q[i + 1]
    BY <1>1
  <1>7. About(m, c) =>
          /\ q[i + 1].type # "joined" /\ m.type # "left"
          /\ m.type = "joined" \/ known = "present"
    <2>1. ~(m.type = "left" /\ About(m, c))
      <3>1. i + 1 \in (1 + 1)..n
        BY <1>1, <1>3
      <3> QED BY <1>1, <1>2, <1>3, <3>1 DEF Ordered
    <2>2. About(m, c) => q[i + 1].type # "joined"
      BY <1>1, <1>2, <1>3 DEF Ordered
    <2>3. About(m, c) => m.type = "joined" \/ known = "present"
      <3>1. \A j \in 1..(1 - 1) : FALSE
        OBVIOUS
      <3> QED BY <1>1, <1>2, <1>3, <3>1 DEF Ordered
    <2> QED BY <2>1, <2>2, <2>3
  <1>8. CASE About(m, c)
    <2>1. k = "present"
      BY <1>2, <1>7, <1>8 DEF After
    <2>2. r[i].type = "left" => \A j \in (i + 1)..Len(r) : ~About(r[j], c)
      BY <1>2, <1>3, <1>5, <1>6 DEF Ordered
    <2> QED BY <1>6, <1>7, <1>8, <2>1, <2>2
  <1>9. CASE ~About(m, c)
    <2>1. k = known
      BY <1>2, <1>9 DEF After
    <2>2. r[i].type = "left" => \A j \in (i + 1)..Len(r) : ~About(r[j], c)
      BY <1>2, <1>3, <1>5, <1>6 DEF Ordered
    <2>3. r[i].type = "joined" =>
            known = "new" /\ \A j \in 1..(i - 1) : ~About(r[j], c)
      BY <1>2, <1>3, <1>4, <1>6 DEF Ordered
    <2>4. ASSUME NEW j \in 1..((i + 1) - 1), About(q[j], c), q[j].type = "joined"
          PROVE  \E l \in 1..(i - 1) : About(r[l], c) /\ r[l].type = "joined"
      <3>1. j # 1
        BY <1>1, <1>9, <2>4
      <3>2. j - 1 \in 1..(i - 1) /\ r[j - 1] = q[j]
        BY <1>1, <3>1
      <3> QED BY <2>4, <3>2
    <2>5. r[i].type # "joined" =>
            \/ known = "present"
            \/ /\ known = "new"
               /\ \E j \in 1..(i - 1) : About(r[j], c) /\ r[j].type = "joined"
      BY <1>2, <1>3, <1>6, <2>4 DEF Ordered
    <2> QED BY <2>1, <2>2, <2>3, <2>5
  <1> QED BY <1>8, <1>9

LEMMA TailKeepsSilent ==
    ASSUME NEW q \in Seq(Message), q # << >>, NEW c, NEW known,
           Silent(q, c, known)
    PROVE  Silent(Tail(q), c, After(Head(q), c, known))
  <1>1. ~About(Head(q), c)
    BY TailShape DEF Silent
  <1>2. \A i \in 1..Len(Tail(q)) : ~About(Tail(q)[i], c)
    BY TailShape DEF Silent
  <1> QED BY <1>1, <1>2 DEF Silent, After

LEMMA TailKeepsFollowed ==
    ASSUME NEW q \in Seq(Message), q # << >>, NEW c, NEW known,
           Followed(q, c, known)
    PROVE  Followed(Tail(q), c, After(Head(q), c, known))
  <1> DEFINE k == After(Head(q), c, known)
  <1>1. \A i \in 1..Len(Tail(q)) : About(Tail(q)[i], c) => Tail(q)[i].type # "left"
    BY TailShape DEF Followed
  <1>2. About(Head(q), c) => Head(q).type # "left"
    BY TailShape DEF Followed
  <1>3. CASE known = "present"
    BY <1>1, <1>2, <1>3 DEF Followed, After
  <1>4. CASE known = "new" /\ About(Head(q), c) /\ Head(q).type = "joined"
    BY <1>1, <1>4 DEF Followed, After
  <1>5. CASE known = "new" /\ ~(About(Head(q), c) /\ Head(q).type = "joined")
    <2>1. k = "new"
      BY <1>2, <1>5 DEF After
    <2>2. PICK i \in 1..Len(q) : About(q[i], c) /\ q[i].type = "joined"
      BY <1>5 DEF Followed
    <2>3. i # 1
      BY <1>5, <2>2, TailShape
    <2>4. i - 1 \in 1..Len(Tail(q)) /\ Tail(q)[i - 1] = q[i]
      BY <2>3, TailShape
    <2> QED BY <1>1, <2>1, <2>2, <2>4 DEF Followed
  <1> QED BY <1>3, <1>4, <1>5 DEF Followed

(* The frames about a client that are written, in the order of a session.  *)
LEMMA AppendJoined ==
    ASSUME NEW q \in Seq(Message), NEW m \in Message, NEW c, NEW known,
           About(m, c), m.type = "joined", Silent(q, c, known)
    PROVE  /\ Ordered(Append(q, m), c, known)
           /\ Followed(Append(q, m), c, known)
  <1> DEFINE r == Append(q, m)
             n == Len(q)
  <1>1. /\ n \in Nat
        /\ Len(r) = n + 1
        /\ \A i \in 1..n : r[i] = q[i]
        /\ r[n + 1] = m
    BY AppendShape
  <1>2. known = "new" /\ \A i \in 1..n : ~About(q[i], c)
    BY DEF Silent
  <1> HIDE DEF r, n
  <1>3. \A i \in 1..Len(r) : About(r[i], c) => i = n + 1 /\ r[i].type = "joined"
    BY <1>1, <1>2
  <1>4. n + 1 \in 1..Len(r) /\ About(r[n + 1], c) /\ r[n + 1].type = "joined"
    BY <1>1
  <1>5. \A j \in 1..((n + 1) - 1) : ~About(r[j], c)
    BY <1>1, <1>2
  <1>6. Ordered(r, c, known)
    BY <1>2, <1>3, <1>5 DEF Ordered
  <1>7. Followed(r, c, known)
    BY <1>2, <1>3, <1>4 DEF Followed
  <1> QED BY <1>6, <1>7 DEF r

LEMMA AppendFurther ==
    ASSUME NEW q \in Seq(Message), NEW m \in Message, NEW c, NEW known,
           About(m, c), m.type # "joined",
           Ordered(q, c, known), Followed(q, c, known)
    PROVE  /\ Ordered(Append(q, m), c, known)
           /\ m.type # "left" => Followed(Append(q, m), c, known)
  <1> DEFINE r == Append(q, m)
             n == Len(q)
  <1>1. /\ n \in Nat
        /\ Len(r) = n + 1
        /\ \A i \in 1..n : r[i] = q[i]
        /\ r[n + 1] = m
    BY AppendShape
  <1>2. /\ \A i \in 1..n : About(q[i], c) => q[i].type # "left"
        /\ \/ known = "present"
           \/ /\ known = "new"
              /\ \E i \in 1..n : About(q[i], c) /\ q[i].type = "joined"
    BY DEF Followed
  <1>3. n = Len(q)
    OBVIOUS
  <1> HIDE DEF r, n
  <1>4. \/ known = "present"
        \/ /\ known = "new"
           /\ \E i \in 1..n : About(r[i], c) /\ r[i].type = "joined"
    BY <1>1, <1>2
  <1>5. m.type # "left" => Followed(r, c, known)
    <2>1. 1..n \subseteq 1..Len(r) /\ \A i \in 1..Len(r) : i \in 1..n \/ r[i] = m
      BY <1>1
    <2>2. m.type # "left" =>
            \A i \in 1..Len(r) : About(r[i], c) => r[i].type # "left"
      BY <1>1, <1>2, <2>1
    <2> QED BY <1>4, <2>1, <2>2 DEF Followed
  <1>6. ASSUME NEW i \in 1..Len(r), About(r[i], c)
        PROVE  /\ IF r[i].type = "joined"
                    THEN /\ known = "new"
                         /\ \A j \in 1..(i - 1) : ~About(r[j], c)
                    ELSE \/ known = "present"
                         \/ /\ known = "new"
                            /\ \E j \in 1..(i - 1) :
                                 About(r[j], c) /\ r[j].type = "joined"
               /\ r[i].type = "left" =>
                    \A j \in (i + 1)..Len(r) : ~About(r[j], c)
    <2>1. CASE i = n + 1
      <3>1. r[i] = m /\ (i + 1)..Len(r) = {} /\ i - 1 = n
        BY <1>1, <2>1
      <3> QED BY <1>4, <3>1
    <2>2. CASE i \in 1..n
      <3>1. r[i] = q[i] /\ \A j \in 1..(i - 1) : r[j] = q[j]
        BY <1>1, <2>2
      <3>2. r[i].type # "left"
        BY <1>2, <1>6, <2>2, <3>1
      <3> QED BY <1>3, <1>6, <2>2, <3>1, <3>2 DEF Ordered
    <2> QED BY <1>1, <2>1, <2>2
  <1>7. Ordered(r, c, known)
    BY <1>6 DEF Ordered
  <1> QED BY <1>5, <1>7 DEF r

---------------------------------------------------------------------------
(* Connections and handlers.  A connection is up only while its handler    *)
(* has work with it, and a client that found a host found one that has     *)
(* been acknowledged.                                                      *)
Unanswered == {"idle", "first", "found"}
Gone == {"removing", "notifying", "done"}
HostOnly == {"rejected", "unregistered", "closing"}

Links ==
    /\ \A x \in Conns : pc[x] = "idle" <=> link[x] = "none"
    /\ \A c \in Clients : pc[c] \in Gone => link[c] = "closed"
    /\ \A c \in Clients : sess[c] \in Hosts => pc[sess[c]] \notin Unanswered
    /\ \A h \in snapshot : pc[h] # "idle"
    /\ \A c \in Clients : pc[c] \notin HostOnly

(* How a step that dials nothing may change the links.                     *)
Fades ==
    \A y \in Conns :
        \/ link'[y] = link[y]
        \/ link[y] \in Up /\ link'[y] \in {"expired", "cut"}
        \/ pc[y] # "idle" /\ link'[y] = "closed"

LEMMA CloseFades ==
    ASSUME WireTypeOK, NEW S, Close(S), \A y \in S \cap Conns : pc[y] # "idle"
    PROVE  Fades /\ \A y \in S \cap Conns : link'[y] = "closed"
  BY DEF Close, Fades, WireTypeOK

LEMMA SameLinkFades == ASSUME link' = link PROVE Fades
  BY DEF Fades

LEMMA LinksMove ==
    ASSUME RelayTypeOK, Links, NEW x \in Conns, NEW from, NEW to \in HandlerState,
           Goto(x, from, to), from # "idle", to \notin {"idle", "first"},
           x \in Hosts => to # "found",
           x \in Clients => to \notin HostOnly,
           Fades, UNCHANGED <<sess, snapshot>>,
           x \in Clients /\ to \in Gone /\ from \notin Gone => link'[x] = "closed"
    PROVE  Links'
  <1>1. /\ pc[x] = from /\ pc'[x] = to
        /\ \A y \in Conns \ {x} : pc'[y] = pc[y]
    BY GotoMoves
  <1>2. \A y \in Conns : pc'[y] = "idle" <=> pc[y] = "idle"
    BY <1>1
  <1>3. \A y \in Conns : link'[y] = "none" <=> link[y] = "none"
    BY DEF Fades, Links, Up
  <1>4. \A y \in Conns : link[y] = "closed" => link'[y] = "closed"
    BY DEF Fades, Up
  <1>5. \A c \in Clients : pc'[c] \in Gone => link'[c] = "closed"
    BY <1>1, <1>4 DEF Links, Conns
  <1>6. \A c \in Clients : sess'[c] \in Hosts => pc'[sess'[c]] \notin Unanswered
    BY <1>1 DEF Links, Conns, Unanswered
  <1>7. \A h \in snapshot' : pc'[h] # "idle"
    BY <1>2 DEF Links, Conns, RelayTypeOK
  <1>8. \A c \in Clients : pc'[c] \notin HostOnly
    BY <1>1 DEF Links, Conns
  <1> QED BY <1>2, <1>3, <1>5, <1>6, <1>7, <1>8 DEF Links

LEMMA LinksStay ==
    ASSUME Links, Fades, UNCHANGED <<pc, sess>>,
           \A h \in snapshot' : pc[h] # "idle"
    PROVE  Links'
  <1>1. \A y \in Conns : link'[y] = "none" <=> link[y] = "none"
    BY DEF Fades, Links, Up
  <1>2. \A y \in Conns : link[y] = "closed" => link'[y] = "closed"
    BY DEF Fades, Up
  <1> QED BY <1>1, <1>2 DEF Links, Conns

LEMMA MembersNotIdle ==
    ASSUME Inv, NEW h \in Hosts
    PROVE  \A y \in clients[h] \cap Conns : pc[y] # "idle"
  BY DEF Inv, Core, Control, Membership, RelayTypeOK

LEMMA AcceptLinks ==
    ASSUME Inv, Links, NEW x \in Conns, Accept(x)
    PROVE  Links'
  <1>1. /\ pc[x] = "idle" /\ pc'[x] = "first"
        /\ \A y \in Conns \ {x} : pc'[y] = pc[y]
        /\ link' = [link EXCEPT ![x] = "open"]
        /\ UNCHANGED <<sess, snapshot>>
    BY GotoMoves DEF Inv, Core, Accept, HandlerState, shutdown
  <1>2. \A y \in Conns : pc'[y] = "idle" <=> link'[y] = "none"
    BY <1>1 DEF Links, Inv, Core, WireTypeOK
  <1>3. \A c \in Clients : pc'[c] \in Gone => link'[c] = "closed"
    BY <1>1 DEF Links, Inv, Core, WireTypeOK, Conns, Gone
  <1>4. \A c \in Clients : sess'[c] \in Hosts => pc'[sess'[c]] \notin Unanswered
    BY <1>1 DEF Links, Conns, Unanswered
  <1>5. \A h \in snapshot' : pc'[h] # "idle"
    BY <1>1 DEF Links, Conns, Inv, Core, RelayTypeOK
  <1>6. \A c \in Clients : pc'[c] \notin HostOnly
    BY <1>1 DEF Links, Conns, HostOnly
  <1> QED BY <1>2, <1>3, <1>4, <1>5, <1>6 DEF Links

LEMMA HostLinks ==
    ASSUME Inv, Links, NEW h \in Hosts, HostHandler(h)
    PROVE  Links'
  <1>1. h \in Conns /\ h \notin Clients /\ RelayTypeOK /\ WireTypeOK
    BY RolesDisjoint DEF Conns, Inv, Core
  <1>2. \A y \in {h} \cap Conns : pc[h] # "idle" => pc[y] # "idle"
    OBVIOUS
  <1>3. CASE FirstReadFails(h) \/ RejectFirst(h)
    <2>1. pc[h] = "first" /\ Goto(h, "first", "done") /\ Close({h})
          /\ UNCHANGED <<sess, snapshot>>
      BY <1>3 DEF FirstReadFails, RejectFirst, Refuse, Goto, shutdown
    <2>2. Fades
      BY <1>1, <1>2, <2>1, CloseFades
    <2> QED BY <1>1, <2>1, <2>2, LinksMove DEF HandlerState, HostOnly
  <1>4. CASE RegisterHost(h) \/ RejectHost(h)
    <2>1. \E to \in {"serving", "rejected"} : Goto(h, "first", to)
      BY <1>4 DEF RegisterHost, RejectHost
    <2>2. Fades /\ UNCHANGED <<sess, snapshot>>
      BY <1>4, SameLinkFades DEF RegisterHost, RejectHost, shutdown
    <2> QED BY <1>1, <2>1, <2>2, LinksMove DEF HandlerState, HostOnly
  <1>5. CASE ForwardFromHost(h)
    <2>1. Fades /\ UNCHANGED <<pc, sess, snapshot>>
      BY <1>5, SameLinkFades DEF ForwardFromHost, relayVars
    <2> QED BY <2>1, LinksStay DEF Links
  <1>6. CASE Unregister(h)
    <2>1. /\ Goto(h, "serving", "unregistered")
          /\ Fades /\ UNCHANGED <<sess, snapshot>>
      BY <1>6, SameLinkFades DEF Unregister, wireVars, shutdown
    <2> QED BY <1>1, <2>1, LinksMove DEF HandlerState, HostOnly
  <1>7. CASE CloseHostConn(h)
    <2>1. /\ pc[h] = "unregistered" /\ Goto(h, "unregistered", "closing")
          /\ Close({h}) /\ UNCHANGED <<sess, snapshot>>
      BY <1>7 DEF CloseHostConn, Goto, shutdown
    <2>2. Fades
      BY <1>1, <1>2, <2>1, CloseFades
    <2> QED BY <1>1, <2>1, <2>2, LinksMove DEF HandlerState, HostOnly
  <1>8. CASE CloseMembers(h)
    <2>1. /\ Goto(h, "closing", "done")
          /\ Close(clients[h]) /\ UNCHANGED <<sess, snapshot>>
      BY <1>8 DEF CloseMembers, shutdown
    <2>2. Fades
      BY <1>1, <2>1, MembersNotIdle, CloseFades
    <2> QED BY <1>1, <2>1, <2>2, LinksMove DEF HandlerState, HostOnly
  <1> QED BY <1>3, <1>4, <1>5, <1>6, <1>7, <1>8 DEF HostHandler

LEMMA ClientLinks ==
    ASSUME Inv, Links, NEW c \in Clients, ClientHandler(c)
    PROVE  Links'
  <1>1. c \in Conns /\ c \notin Hosts /\ RelayTypeOK /\ WireTypeOK
    BY RolesDisjoint DEF Conns, Inv, Core
  <1>2. CASE FirstReadFails(c) \/ RejectFirst(c) \/ RateLimited(c) \/ SessionNotFound(c)
    <2>1. pc[c] = "first" /\ Goto(c, "first", "done") /\ Close({c})
          /\ UNCHANGED <<sess, snapshot>>
      BY <1>2 DEF FirstReadFails, RejectFirst, RateLimited, SessionNotFound, Refuse,
                  Goto, shutdown
    <2>2. Fades /\ link'[c] = "closed"
      BY <1>1, <2>1, CloseFades
    <2> QED BY <1>1, <2>1, <2>2, LinksMove DEF HandlerState, HostOnly
  <1>3. CASE LookupSession(c)
    <2>1. /\ pc[c] = "first" /\ pc'[c] = "found"
          /\ \A y \in Conns \ {c} : pc'[y] = pc[y]
          /\ UNCHANGED <<link, snapshot>>
      BY <1>1, <1>3, GotoMoves DEF LookupSession, HandlerState, shutdown
    <2>2. PICK k \in Codes : sessions[k] # NoHost /\ sess' = [sess EXCEPT ![c] = sessions[k]]
      BY <1>1, <1>3, FirstFrame
      DEF LookupSession, Inv, Core, WireSafe, Openings
    <2>3. sessions[k] \in Hosts /\ pc[sessions[k]] = "serving"
      BY <2>2 DEF Inv, Core, RelayTypeOK, Control, SessionOwner
    <2>4. \A d \in Clients : sess'[d] \in Hosts => pc[sess'[d]] \notin Unanswered
      BY <1>1, <2>2, <2>3 DEF Links, RelayTypeOK, Unanswered
    <2>5. \A d \in Clients : sess'[d] \in Hosts => sess'[d] # c /\ sess'[d] \in Conns
      BY RolesDisjoint DEF Conns
    <2>6. \A d \in Clients : sess'[d] \in Hosts => pc'[sess'[d]] \notin Unanswered
      BY <2>1, <2>4, <2>5
    <2> QED BY <1>1, <2>1, <2>6 DEF Links, Conns, Gone, HostOnly, RelayTypeOK
  <1>4. CASE AckJoin(c) \/ AddClient(c) \/ NotifyJoined(c) \/ ForwardFails(c)
             \/ ClientReadFails(c) \/ RemoveClient(c) \/ NotifyLeft(c)
    <2>1. Fades /\ UNCHANGED <<sess, snapshot>>
      BY <1>4, SameLinkFades DEF AckJoin, AddClient, NotifyJoined, ForwardFails,
         ClientReadFails, RemoveClient, NotifyLeft, wireVars, shutdown
    <2>2. \E move \in {<<"found", "acked">>, <<"acked", "added">>,
                       <<"added", "serving">>, <<"serving", "leaving">>,
                       <<"removing", "notifying">>, <<"notifying", "done">>} :
             Goto(c, move[1], move[2])
      BY <1>4 DEF AckJoin, AddClient, NotifyJoined, ForwardFails,
         ClientReadFails, RemoveClient, NotifyLeft
    <2> QED BY <1>1, <2>1, <2>2, LinksMove DEF HandlerState, Gone, HostOnly
  <1>5. CASE ForwardFromClient(c)
    <2>1. Fades /\ UNCHANGED <<pc, sess, snapshot>>
      BY <1>5, SameLinkFades DEF ForwardFromClient, relayVars
    <2> QED BY <2>1, LinksStay DEF Links
  <1>6. CASE Disconnect(c)
    <2>1. /\ pc[c] = "leaving" /\ Goto(c, "leaving", "removing")
          /\ Close({c}) /\ UNCHANGED <<sess, snapshot>>
      BY <1>6 DEF Disconnect, Goto, shutdown
    <2>2. Fades /\ link'[c] = "closed"
      BY <1>1, <2>1, CloseFades
    <2> QED BY <1>1, <2>1, <2>2, LinksMove DEF HandlerState, HostOnly
  <1> QED BY <1>2, <1>3, <1>4, <1>5, <1>6 DEF ClientHandler

LEMMA ShutdownLinks ==
    ASSUME Inv, Links, SnapshotSessions \/ \E h \in Hosts : CloseAllSessions(h)
    PROVE  Links'
  <1>1. WireTypeOK /\ UNCHANGED <<pc, sess>>
    BY DEF Inv, Core, SnapshotSessions, CloseAllSessions, CloseSnapshotHost,
           CloseSnapshotClients
  <1>2. CASE SnapshotSessions
    <2>1. Fades
      BY <1>2, SameLinkFades DEF SnapshotSessions, wireVars
    <2>2. \A h \in snapshot' : pc[h] # "idle"
      BY <1>2 DEF SnapshotSessions, Inv, Core, Control, SessionOwner
    <2> QED BY <1>1, <2>1, <2>2, LinksStay
  <1>3. ASSUME NEW h \in Hosts, CloseSnapshotHost(h) PROVE Links'
    <2>1. pc[h] # "idle" /\ Close({h}) /\ snapshot' = snapshot
      BY <1>3 DEF CloseSnapshotHost, Links
    <2>2. Fades
      BY <1>1, <2>1, CloseFades
    <2> QED BY <1>1, <2>1, <2>2, LinksStay DEF Links
  <1>4. ASSUME NEW h \in Hosts, CloseSnapshotClients(h) PROVE Links'
    <2>1. Close(clients[h]) /\ snapshot' \subseteq snapshot
      BY <1>4 DEF CloseSnapshotClients
    <2>2. Fades
      BY <1>1, <2>1, MembersNotIdle, CloseFades
    <2> QED BY <1>1, <2>1, <2>2, LinksStay DEF Links
  <1> QED BY <1>2, <1>3, <1>4 DEF CloseAllSessions

LEMMA PeerLinks ==
    ASSUME Inv, Links, PeerStep
    PROVE  Links'
  <1>1. UNCHANGED <<pc, sess, snapshot>>
    BY DEF PeerStep, PeerSend, PeerRead, PeerGone, Expire, relayVars
  <1>2. Fades
    BY DEF PeerStep, PeerSend, PeerRead, PeerGone, Expire, Hangup, Fades, Up,
           Inv, Core, WireTypeOK
  <1> QED BY <1>1, <1>2, LinksStay DEF Links

LEMMA LinksInvariant == Spec => []Links
  <1>1. Init => Links
    BY NoHostFresh DEF Init, WireInit, RelayInit, Links, Gone, HostOnly, Conns
  <1>2. Inv /\ Links /\ [Next]_vars => Links'
    <2> SUFFICES ASSUME Inv, Links, [Next]_vars PROVE Links'
      OBVIOUS
    <2>1. CASE UNCHANGED vars
      BY <2>1 DEF vars, wireVars, relayVars, Links
    <2> QED BY <2>1, AcceptLinks, HostLinks, ClientLinks, ShutdownLinks, PeerLinks
            DEF Next, RelayStep
  <1> QED BY <1>1, <1>2, Invariant, PTL DEF Spec

---------------------------------------------------------------------------
(* Frames on their way to the relay carry the name of their sender, all    *)
(* but the first, which the relay takes before it forwards anything.       *)
Start == {"idle", "first"}

TracedAt(x) ==
    /\ sent[x] = 0 => toRelay[x] = << >> /\ (pc[x] \in Start \/ link[x] = "closed")
    /\ \A i \in 1..Len(toRelay[x]) :
         (i = 1 /\ pc[x] \in Start) \/ toRelay[x][i].data = x

Traced == \A x \in Conns : TracedAt(x)

(* What a step of the relay may do to the frames of x: leave them, discard *)
(* them with the connection, or take the first.                            *)
Leaves(x) ==
    /\ toRelay'[x] = toRelay[x]
    /\ pc'[x] \in Start <=> pc[x] \in Start
    /\ link[x] = "closed" => link'[x] = "closed"
Discards(x) == toRelay'[x] = << >> /\ link'[x] = "closed"
Takes(x) == Incoming(x) /\ toRelay'[x] = Tail(toRelay[x])
Consumes(x) == Leaves(x) \/ Discards(x) \/ Takes(x)

LEMMA ConsumedTraced ==
    ASSUME Inv, NEW x \in Conns, TracedAt(x), Consumes(x), sent' = sent
    PROVE  TracedAt(x)'
  <1>1. toRelay[x] \in Seq(Message)
    BY DEF Inv, Core, WireTypeOK
  <1>2. CASE Leaves(x)
    BY <1>2 DEF Leaves, TracedAt
  <1>3. CASE Discards(x)
    BY <1>3 DEF Discards, TracedAt
  <1>4. CASE Takes(x)
    <2>1. toRelay[x] # << >> /\ toRelay'[x] = Tail(toRelay[x])
      BY <1>4 DEF Takes, Incoming
    <2>2. \A i \in 1..Len(toRelay'[x]) : toRelay'[x][i].data = x
      BY <1>1, <2>1, TailShape DEF TracedAt
    <2> QED BY <2>1, <2>2 DEF TracedAt
  <1> QED BY <1>2, <1>3, <1>4 DEF Consumes

LEMMA SameConsumes ==
    ASSUME UNCHANGED <<link, toRelay>>, NEW x, pc'[x] \in Start <=> pc[x] \in Start
    PROVE  Consumes(x)
  BY DEF Consumes, Leaves

LEMMA CloseConsumes ==
    ASSUME WireTypeOK, NEW S, Close(S), NEW x \in Conns,
           x \notin S => (pc'[x] \in Start <=> pc[x] \in Start)
    PROVE  Consumes(x)
  BY DEF Consumes, Leaves, Discards, Close, WireTypeOK

LEMMA TakeConsumes ==
    ASSUME WireTypeOK, NEW y \in Conns, Incoming(y), Take(y), UNCHANGED link,
           NEW x \in Conns, x # y => (pc'[x] \in Start <=> pc[x] \in Start)
    PROVE  Consumes(x)
  BY DEF Consumes, Leaves, Takes, Take, WireTypeOK

LEMMA RelayConsumes ==
    ASSUME Inv, Links, RelayStep, NEW x \in Conns
    PROVE  Consumes(x)
  <1>1. RelayTypeOK /\ WireTypeOK
    BY DEF Inv, Core
  <1>2. ASSUME NEW y \in Conns, NEW from, NEW to \in HandlerState, Goto(y, from, to),
               x # y \/ (from \notin Start /\ to \notin Start)
        PROVE  pc'[x] \in Start <=> pc[x] \in Start
    BY <1>1, <1>2, GotoMoves
  <1>3. ASSUME NEW y \in Conns, Accept(y) PROVE Consumes(x)
    <2>1. /\ pc[y] = "idle" /\ pc'[y] = "first" /\ link[y] = "none"
          /\ \A z \in Conns \ {y} : pc'[z] = pc[z]
          /\ link' = [link EXCEPT ![y] = "open"] /\ toRelay' = toRelay
      BY <1>1, <1>3, GotoMoves DEF Accept, HandlerState
    <2> QED BY <1>1, <2>1 DEF Consumes, Leaves, Start, WireTypeOK
  <1>4. ASSUME NEW y \in Conns, FirstReadFails(y) \/ RejectFirst(y)
        PROVE  Consumes(x)
    <2>1. Goto(y, "first", "done") /\ Close({y})
      BY <1>4 DEF FirstReadFails, RejectFirst, Refuse
    <2> QED BY <1>1, <1>2, <2>1, CloseConsumes DEF HandlerState
  <1>5. ASSUME NEW h \in Hosts, HostHandler(h) PROVE Consumes(x)
    <2>1. h \in Conns
      BY DEF Conns
    <2>2. CASE RegisterHost(h) \/ RejectHost(h)
      <3>1. \E to \in {"serving", "rejected"} : Goto(h, "first", to)
        BY <2>2 DEF RegisterHost, RejectHost
      <3>2. Incoming(h) /\ Take(h) /\ UNCHANGED link
        BY <2>2 DEF RegisterHost, RejectHost, First
      <3> QED BY <1>1, <1>2, <2>1, <3>1, <3>2, TakeConsumes DEF HandlerState
    <2>3. CASE ForwardFromHost(h)
      <3>1. Incoming(h) /\ Take(h) /\ UNCHANGED <<link, pc>>
        BY <2>3 DEF ForwardFromHost, relayVars
      <3> QED BY <1>1, <2>1, <3>1, TakeConsumes
    <2>4. CASE Unregister(h)
      <3>1. Goto(h, "serving", "unregistered") /\ UNCHANGED <<link, toRelay>>
        BY <2>4 DEF Unregister, wireVars
      <3> QED BY <1>2, <2>1, <3>1, SameConsumes DEF HandlerState, Start
    <2>5. CASE CloseHostConn(h) \/ CloseMembers(h)
      <3>1. /\ \E from \in {"unregistered", "closing"}, to \in {"closing", "done"} :
                   Goto(h, from, to)
            /\ Close({h}) \/ Close(clients[h])
        BY <2>5 DEF CloseHostConn, CloseMembers
      <3>2. pc'[x] \in Start <=> pc[x] \in Start
        BY <1>2, <2>1, <3>1 DEF HandlerState, Start
      <3> QED BY <1>1, <3>1, <3>2, CloseConsumes
    <2> QED BY <1>4, <1>5, <2>1, <2>2, <2>3, <2>4, <2>5 DEF HostHandler
  <1>6. ASSUME NEW c \in Clients, ClientHandler(c) PROVE Consumes(x)
    <2>1. c \in Conns
      BY DEF Conns
    <2>2. CASE RateLimited(c) \/ SessionNotFound(c)
      <3>1. Goto(c, "first", "done") /\ Close({c})
        BY <2>2 DEF RateLimited, SessionNotFound, Refuse
      <3> QED BY <1>1, <1>2, <2>1, <3>1, CloseConsumes DEF HandlerState
    <2>3. CASE LookupSession(c)
      <3>1. Goto(c, "first", "found") /\ Incoming(c) /\ Take(c) /\ UNCHANGED link
        BY <2>3 DEF LookupSession, First
      <3> QED BY <1>1, <1>2, <2>1, <3>1, TakeConsumes DEF HandlerState
    <2>4. CASE AckJoin(c) \/ AddClient(c) \/ NotifyJoined(c)
               \/ ClientReadFails(c) \/ RemoveClient(c) \/ NotifyLeft(c)
      <3>1. \E move \in {<<"found", "acked">>, <<"acked", "added">>,
                         <<"added", "serving">>, <<"serving", "leaving">>,
                         <<"removing", "notifying">>, <<"notifying", "done">>} :
               Goto(c, move[1], move[2])
        BY <2>4 DEF AckJoin, AddClient, NotifyJoined, ClientReadFails,
                    RemoveClient, NotifyLeft
      <3>2. UNCHANGED <<link, toRelay>>
        BY <2>4 DEF AckJoin, AddClient, NotifyJoined, ClientReadFails,
                    RemoveClient, NotifyLeft, wireVars
      <3> QED BY <1>2, <2>1, <3>1, <3>2, SameConsumes DEF HandlerState, Start
    <2>5. CASE ForwardFromClient(c)
      <3>1. Incoming(c) /\ Take(c) /\ UNCHANGED <<link, pc>>
        BY <2>5 DEF ForwardFromClient, relayVars
      <3> QED BY <1>1, <2>1, <3>1, TakeConsumes
    <2>6. CASE ForwardFails(c)
      <3>1. Goto(c, "serving", "leaving") /\ Incoming(c) /\ Take(c) /\ UNCHANGED link
        BY <2>6 DEF ForwardFails
      <3> QED BY <1>1, <1>2, <2>1, <3>1, TakeConsumes DEF HandlerState, Start
    <2>7. CASE Disconnect(c)
      <3>1. Goto(c, "leaving", "removing") /\ Close({c})
        BY <2>7 DEF Disconnect
      <3> QED BY <1>1, <1>2, <2>1, <3>1, CloseConsumes DEF HandlerState
    <2> QED BY <1>4, <1>6, <2>1, <2>2, <2>3, <2>4, <2>5, <2>6, <2>7 DEF ClientHandler
  <1>7. CASE SnapshotSessions \/ \E h \in Hosts : CloseAllSessions(h)
    <2>1. UNCHANGED pc
      BY <1>7 DEF SnapshotSessions, CloseAllSessions, CloseSnapshotHost,
                  CloseSnapshotClients
    <2>2. \/ UNCHANGED <<link, toRelay>>
          \/ \E h \in Hosts : Close({h}) \/ Close(clients[h])
      BY <1>7 DEF SnapshotSessions, CloseAllSessions, CloseSnapshotHost,
                  CloseSnapshotClients, wireVars
    <2> QED BY <1>1, <2>1, <2>2, SameConsumes, CloseConsumes
  <1> QED BY <1>3, <1>5, <1>6, <1>7 DEF RelayStep

LEMMA SentTraced ==
    ASSUME Inv, Traced, NEW y \in Conns, PeerSend(y), NEW x \in Conns
    PROVE  TracedAt(x)'
  <1>1. PICK m \in IF sent[y] = 0 THEN Opening(y) ELSE Following(y) : Send(y, m)
    BY DEF PeerSend
  <1>2. /\ UNCHANGED <<link, pc>> /\ link[y] \in Up
        /\ sent' = [sent EXCEPT ![y] = @ + 1]
        /\ toRelay' = [toRelay EXCEPT ![y] = Append(@, m)]
    BY <1>1 DEF PeerSend, relayVars, Send
  <1>3. TracedAt(x) /\ sent \in [Conns -> Nat] /\ toRelay \in [Conns -> Seq(Message)]
    BY DEF Traced, Inv, PeersTypeOK, Core, WireTypeOK
  <1>4. CASE x # y
    BY <1>2, <1>3, <1>4 DEF TracedAt
  <1>5. CASE x = y
    <2> DEFINE q == toRelay[x]
    <2>1. sent'[x] # 0 /\ toRelay'[x] = Append(q, m) /\ pc'[x] = pc[x]
      BY <1>2, <1>3, <1>5
    <2>2. m \in Message
      BY <1>1, <1>5, PeerTypes, Traceable, DataCarriesCodes
      DEF Opening, Following, Msg, Message, MsgType
    <2>3. /\ Len(q) \in Nat /\ Len(Append(q, m)) = Len(q) + 1
          /\ \A i \in 1..Len(q) : Append(q, m)[i] = q[i]
          /\ Append(q, m)[Len(q) + 1] = m
      BY <1>3, <2>2, AppendShape
    <2>4. CASE sent[x] = 0
      <3>1. q = << >> /\ pc[x] \in Start
        BY <1>2, <1>3, <1>5, <2>4 DEF TracedAt, Up
      <3>2. Len(q) = 0
        BY <3>1
      <3>3. \A i \in 1..Len(Append(q, m)) : i = 1
        BY <2>3, <3>2
      <3> QED BY <2>1, <3>1, <3>3 DEF TracedAt
    <2>5. CASE sent[x] # 0
      <3>1. m.data = x
        BY <1>1, <1>5, <2>5 DEF Following, Msg
      <3>2. \A i \in 1..Len(Append(q, m)) :
               i \in 1..Len(q) \/ Append(q, m)[i] = m
        BY <2>3
      <3> QED BY <1>3, <2>1, <2>3, <3>1, <3>2 DEF TracedAt
    <2> QED BY <2>4, <2>5
  <1> QED BY <1>4, <1>5

LEMMA TracedInvariant == Spec => []Traced
  <1>1. Init => Traced
    <2>1. \A i \in 1..Len(<< >>) : FALSE
      OBVIOUS
    <2> QED BY <2>1 DEF Init, WireInit, RelayInit, Traced, TracedAt, Start
  <1>2. Inv /\ Links /\ Traced /\ [Next]_vars => Traced'
    <2> SUFFICES ASSUME Inv, Links, Traced, [Next]_vars, NEW x \in Conns
                 PROVE  TracedAt(x)'
      BY DEF Traced
    <2>1. TracedAt(x)
      BY DEF Traced
    <2>2. CASE RelayStep
      BY <2>1, <2>2, RelayConsumes, ConsumedTraced DEF RelayStep, peerVars
    <2>3. ASSUME NEW y \in Conns, PeerRead(y) \/ PeerGone(y) \/ Expire(y)
          PROVE  TracedAt(x)'
      BY <2>1, <2>3 DEF PeerRead, PeerGone, Expire, Hangup, relayVars, peerVars,
         TracedAt, Inv, Core, WireTypeOK, Up
    <2>4. CASE UNCHANGED vars
      BY <2>1, <2>4 DEF vars, wireVars, relayVars, peerVars, TracedAt
    <2> QED BY <2>2, <2>3, <2>4, SentTraced DEF Next, PeerStep
  <1> QED BY <1>1, <1>2, Invariant, LinksInvariant, PTL DEF Spec

---------------------------------------------------------------------------
(* The steps, by what they do to the frames on their way to the peers.     *)
(* Before a client is announced to its host, and until its departure is.   *)
Before == {"idle", "first", "found", "acked", "added"}
During == {"serving", "leaving", "removing", "notifying"}

(* Nothing is written or read, and nobody gets ahead without a frame.      *)
Steady ==
    /\ UNCHANGED <<toPeer, seen>>
    /\ \A x \in Conns :
         /\ pc'[x] \in Unanswered => pc[x] \in Unanswered
         /\ link'[x] \in Up => link[x] \in Up \/ pc[x] = "idle"
    /\ \A c \in Clients :
         /\ pc'[c] \in Before => pc[c] \in Before
         /\ pc'[c] \in During => pc[c] \in During
         /\ sess'[c] # sess[c] => pc[c] = "first" /\ pc'[c] \in Before

(* The answer to a first frame, if it is not an acknowledged join.         *)
Answers(x) ==
    \/ RejectFirst(x)
    \/ x \in Hosts /\ (RegisterHost(x) \/ RejectHost(x))
    \/ x \in Clients /\ (RateLimited(x) \/ SessionNotFound(x))

(* What such an answer, or a notification, changes beside the queues.      *)
Moves(x, from, to) ==
    /\ pc[x] = from /\ pc'[x] = to
    /\ \A y \in Conns \ {x} : pc'[y] = pc[y]
    /\ \A y \in Conns : link'[y] \in Up => link[y] \in Up
    /\ UNCHANGED <<sess, seen>>

LEMMA AnswerEffect ==
    ASSUME Inv, NEW x \in Conns, Answers(x), UNCHANGED seen
    PROVE  /\ \E to \in {"done", "serving", "rejected"} : Moves(x, "first", to)
           /\ x \in Clients => Moves(x, "first", "done")
           /\ \E m \in Message : /\ Write({x}, m) /\ m.client = NoClient
                                /\ m.type \in {"error", "host_registered"}
  <1>1. RelayTypeOK /\ WireTypeOK /\ WireSafe
    BY DEF Inv, Core, WireSafe
  <1>2. /\ Msg("error", NoClient, NoData) \in Message
        /\ Msg("error", NoClient, NoData).client = NoClient
        /\ Msg("error", NoClient, NoData).type = "error"
    BY RefusalInMessage DEF Msg
  <1>3. ASSUME Refuse(x) PROVE Moves(x, "first", "done")
    BY <1>1, <1>3, GotoMoves DEF Refuse, Close, Up, Moves, HandlerState, WireTypeOK
  <1>4. CASE RejectFirst(x) \/ (x \in Clients /\ (RateLimited(x) \/ SessionNotFound(x)))
    <2>1. Refuse(x)
      BY <1>4 DEF RejectFirst, RateLimited, SessionNotFound
    <2> QED BY <1>2, <1>3, <2>1 DEF Refuse
  <1>5. ASSUME x \in Hosts, NEW to \in {"serving", "rejected"}, Goto(x, "first", to),
               UNCHANGED <<link, sess>>
        PROVE  Moves(x, "first", to)
    BY <1>1, <1>5, GotoMoves DEF Moves, HandlerState
  <1>6. CASE x \in Hosts /\ RejectHost(x)
    BY <1>2, <1>5, <1>6, RolesDisjoint DEF RejectHost
  <1>7. CASE x \in Hosts /\ RegisterHost(x)
    <2> DEFINE m == Msg("host_registered", NoClient, Next1(x).data)
    <2>1. m \in Message /\ m.client = NoClient /\ m.type = "host_registered"
      <3>1. Next1(x).data \in Codes
        BY <1>1, <1>7, FirstFrame DEF RegisterHost, Openings
      <3> QED BY <3>1, MsgInMessage, DataCarriesCodes DEF MsgType, Msg
    <2> QED BY <1>5, <1>7, <2>1, RolesDisjoint DEF RegisterHost
  <1> QED BY <1>4, <1>6, <1>7 DEF Answers

LEMMA NotificationEffect ==
    ASSUME Inv, NEW c \in Clients, UNCHANGED seen
    PROVE  /\ AckJoin(c) => Moves(c, "found", "acked")
           /\ NotifyJoined(c) => Moves(c, "added", "serving")
           /\ NotifyLeft(c) => Moves(c, "notifying", "done")
           /\ \A t \in MsgType : /\ Msg(t, c, NoData) \in Message
                                /\ Msg(t, c, NoData).client = c
                                /\ Msg(t, c, NoData).type = t
  <1>1. c \in Conns /\ RelayTypeOK
    BY DEF Conns, Inv, Core
  <1>2. \A t \in MsgType : Msg(t, c, NoData) \in Message
    BY MsgInMessage, DataCarriesCodes
  <1> QED BY <1>1, <1>2, GotoMoves
          DEF AckJoin, NotifyJoined, NotifyLeft, Moves, HandlerState, Msg

(* A step that moves one handler and writes nothing is steady.             *)
LEMMA MoveSteady ==
    ASSUME Inv, NEW x \in Conns, NEW from, NEW to \in HandlerState,
           Goto(x, from, to), UNCHANGED <<toPeer, seen, sess>>,
           \A y \in Conns : link'[y] \in Up => link[y] \in Up \/ pc[y] = "idle",
           to \in Unanswered => from \in Unanswered,
           to \in Before => from \in Before,
           x \in Clients /\ to \in During => from \in During
    PROVE  Steady
  BY GotoMoves DEF Inv, Core, Steady, Conns

LEMMA StaySteady ==
    ASSUME UNCHANGED <<toPeer, seen, sess, pc>>,
           \A y \in Conns : link'[y] \in Up => link[y] \in Up
    PROVE  Steady
  BY DEF Steady

LEMMA CloseDims ==
    ASSUME NEW S, Close(S)
    PROVE  \A y \in Conns : link'[y] \in Up => link[y] \in Up
  BY DEF Close, Up

LEMMA HostSteady ==
    ASSUME Inv, NEW h \in Hosts, UNCHANGED seen,
           FirstReadFails(h) \/ Unregister(h) \/ CloseHostConn(h) \/ CloseMembers(h)
    PROVE  Steady
  <1>1. h \in Conns /\ h \notin Clients
    BY RolesDisjoint DEF Conns
  <1>2. \E move \in {<<"first", "done">>, <<"serving", "unregistered">>,
                     <<"unregistered", "closing">>, <<"closing", "done">>} :
           Goto(h, move[1], move[2])
    BY DEF FirstReadFails, Unregister, CloseHostConn, CloseMembers
  <1>3. UNCHANGED <<toPeer, seen, sess>>
    BY DEF FirstReadFails, Unregister, CloseHostConn, CloseMembers, wireVars
  <1>4. \A y \in Conns : link'[y] \in Up => link[y] \in Up
    BY CloseDims DEF FirstReadFails, Unregister, CloseHostConn, CloseMembers, wireVars
  <1> QED BY <1>1, <1>2, <1>3, <1>4, MoveSteady DEF HandlerState, Unanswered, Before

LEMMA ClientSteady ==
    ASSUME Inv, NEW c \in Clients, UNCHANGED seen,
           \/ FirstReadFails(c) \/ LookupSession(c) \/ AddClient(c) \/ ForwardFails(c)
           \/ ClientReadFails(c) \/ Disconnect(c) \/ RemoveClient(c)
    PROVE  Steady
  <1>1. c \in Conns /\ RelayTypeOK
    BY DEF Conns, Inv, Core
  <1>2. CASE LookupSession(c)
    <2>1. /\ pc[c] = "first" /\ pc'[c] = "found"
          /\ \A y \in Conns \ {c} : pc'[y] = pc[y]
      BY <1>1, <1>2, GotoMoves DEF LookupSession, HandlerState
    <2>2. UNCHANGED <<toPeer, link>> /\ \A d \in Clients \ {c} : sess'[d] = sess[d]
      BY <1>1, <1>2 DEF LookupSession, RelayTypeOK
    <2> QED BY <2>1, <2>2 DEF Steady, Unanswered, Before, During, Conns
  <1>3. CASE ~LookupSession(c)
    <2>1. \E move \in {<<"first", "done">>, <<"acked", "added">>,
                       <<"serving", "leaving">>, <<"leaving", "removing">>,
                       <<"removing", "notifying">>} :
             Goto(c, move[1], move[2])
      BY <1>3 DEF FirstReadFails, AddClient, ForwardFails, ClientReadFails,
                  Disconnect, RemoveClient
    <2>2. UNCHANGED <<toPeer, seen, sess>>
      BY <1>3 DEF FirstReadFails, AddClient, ForwardFails, ClientReadFails,
                  Disconnect, RemoveClient, wireVars
    <2>3. \A y \in Conns : link'[y] \in Up => link[y] \in Up
      BY <1>3, CloseDims DEF FirstReadFails, AddClient, ForwardFails,
         ClientReadFails, Disconnect, RemoveClient, wireVars
    <2> QED BY <1>1, <2>1, <2>2, <2>3, MoveSteady
            DEF HandlerState, Unanswered, Before, During
  <1> QED BY <1>2, <1>3

LEMMA OtherSteady ==
    ASSUME Inv, UNCHANGED seen,
           \/ \E x \in Conns : Accept(x) \/ PeerSend(x) \/ Expire(x)
           \/ SnapshotSessions
           \/ \E h \in Hosts : CloseAllSessions(h)
           \/ UNCHANGED vars
    PROVE  Steady
  <1>1. ASSUME NEW x \in Conns, Accept(x) PROVE Steady
    <2>1. /\ Goto(x, "idle", "first") /\ UNCHANGED <<toPeer, seen, sess>>
          /\ \A y \in Conns : link'[y] \in Up => link[y] \in Up \/ pc[y] = "idle"
      BY <1>1 DEF Accept, Goto, Inv, Core, WireTypeOK
    <2> QED BY <2>1, MoveSteady DEF HandlerState, Unanswered, Before, During
  <1>2. ASSUME NEW x \in Conns, PeerSend(x) \/ Expire(x) PROVE Steady
    BY <1>2, StaySteady DEF PeerSend, Expire, relayVars, Up, Inv, Core, WireTypeOK
  <1>3. CASE SnapshotSessions \/ \E h \in Hosts : CloseAllSessions(h)
    BY <1>3, StaySteady, CloseDims DEF SnapshotSessions, CloseAllSessions,
       CloseSnapshotHost, CloseSnapshotClients, wireVars
  <1>4. CASE UNCHANGED vars
    BY <1>4, StaySteady DEF vars, wireVars, relayVars, peerVars
  <1> QED BY <1>1, <1>2, <1>3, <1>4

LEMMA StepCases ==
    ASSUME Inv, [Next]_vars
    PROVE  \/ Steady
           \/ /\ UNCHANGED seen
              /\ \/ \E x \in Conns : Answers(x)
                 \/ \E h \in Hosts : ForwardFromHost(h)
                 \/ \E c \in Clients : \/ AckJoin(c) \/ NotifyJoined(c)
                                      \/ ForwardFromClient(c) \/ NotifyLeft(c)
           \/ \E x \in Conns : PeerRead(x) \/ PeerGone(x)
  <1>1. CASE RelayStep
    <2>1. UNCHANGED seen
      BY <1>1 DEF RelayStep, peerVars
    <2>2. ASSUME NEW h \in Hosts, HostHandler(h)
          PROVE  Steady \/ ForwardFromHost(h) \/ Answers(h)
      BY <2>1, <2>2, HostSteady DEF HostHandler, Answers
    <2>3. ASSUME NEW c \in Clients, ClientHandler(c)
          PROVE  \/ Steady \/ Answers(c) \/ AckJoin(c) \/ NotifyJoined(c)
                 \/ ForwardFromClient(c) \/ NotifyLeft(c)
      BY <2>1, <2>3, ClientSteady DEF ClientHandler, Answers
    <2> QED BY <1>1, <2>1, <2>2, <2>3, OtherSteady DEF RelayStep, Conns
  <1>2. ASSUME NEW x \in Conns, PeerSend(x) \/ Expire(x) PROVE Steady
    BY <1>2, OtherSteady DEF PeerSend, Expire, peerVars
  <1>3. CASE UNCHANGED vars
    BY <1>3, OtherSteady DEF vars, peerVars
  <1> QED BY <1>1, <1>2, <1>3 DEF Next, PeerStep

LEMMA WriteAt ==
    ASSUME NEW S, NEW m, Write(S, m), NEW x \in Conns
    PROVE  \/ toPeer'[x] = toPeer[x]
           \/ x \in S /\ link[x] \in Up /\ toPeer'[x] = Append(toPeer[x], m)
  BY DEF Write

---------------------------------------------------------------------------
(* The acknowledgements.  Before its answer a peer is sent nothing: a host *)
(* is written to by the clients that found it, a client by the host whose  *)
(* map it is in.                                                           *)
Acks == {"host_registered", "session_joined"}

AnsweredAt(x) ==
    /\ pc[x] \in Unanswered => toPeer[x] = << >>
    /\ \A i \in 1..Len(toPeer[x]) : toPeer[x][i].type \in Acks => i = 1

Answered == \A x \in Conns : AnsweredAt(x)

LEMMA AppendAnswered ==
    ASSUME Inv, NEW x \in Conns, AnsweredAt(x), NEW m \in Message,
           toPeer'[x] = Append(toPeer[x], m),
           pc'[x] \notin Unanswered,
           m.type \in Acks => pc[x] \in Unanswered
    PROVE  AnsweredAt(x)'
  <1> DEFINE q == toPeer[x]
  <1>1. /\ q \in Seq(Message) /\ Len(q) \in Nat
        /\ Len(Append(q, m)) = Len(q) + 1
        /\ \A i \in 1..Len(q) : Append(q, m)[i] = q[i]
        /\ Append(q, m)[Len(q) + 1] = m
    BY AppendShape DEF Inv, Core, WireTypeOK
  <1>2. m.type \in Acks => Len(q) = 0
    BY DEF AnsweredAt
  <1>3. \A i \in 1..Len(Append(q, m)) : Append(q, m)[i].type \in Acks => i = 1
    BY <1>1, <1>2 DEF AnsweredAt
  <1> QED BY <1>3 DEF AnsweredAt

LEMMA UnwrittenAnswered ==
    ASSUME NEW x, AnsweredAt(x), toPeer'[x] = toPeer[x],
           pc'[x] \in Unanswered => pc[x] \in Unanswered
    PROVE  AnsweredAt(x)'
  BY DEF AnsweredAt

LEMMA ReadAnswered ==
    ASSUME Inv, NEW x \in Conns, AnsweredAt(x), UNCHANGED pc,
           \/ toPeer'[x] = << >>
           \/ toPeer[x] # << >> /\ toPeer'[x] = Tail(toPeer[x])
    PROVE  AnsweredAt(x)'
  <1>1. CASE toPeer'[x] = << >>
    BY <1>1 DEF AnsweredAt
  <1>2. CASE toPeer[x] # << >> /\ toPeer'[x] = Tail(toPeer[x])
    <2>1. toPeer[x] \in Seq(Message)
      BY DEF Inv, Core, WireTypeOK
    <2>2. \A i \in 1..Len(toPeer'[x]) : toPeer'[x][i].type \notin Acks
      BY <1>2, <2>1, TailShape DEF AnsweredAt
    <2> QED BY <1>2, <2>2 DEF AnsweredAt
  <1> QED BY <1>1, <1>2

(* What the peers are sent beside the answers.                             *)
LEMMA ForwardedByHost ==
    ASSUME Inv, NEW h \in Hosts, ForwardFromHost(h)
    PROVE  /\ UNCHANGED <<link, pc, sess>>
           /\ Incoming(h) /\ Next1(h) \in Message
           /\ \/ UNCHANGED toPeer
              \/ /\ Next1(h).type \in HostForwards
                 /\ Write(Targets(h, Next1(h)), Next1(h))
           /\ \A x \in Targets(h, Next1(h)) :
                /\ x \in Clients /\ sess[x] = h /\ pc[x] \in InMap
                /\ Next1(h).client \in {x, NoClient}
  <1>1. h \in Conns /\ WireSafe
    BY DEF Conns, Inv, Core, WireSafe
  <1>2. Incoming(h) /\ Next1(h) \in Message
    BY <1>1, TakeType DEF ForwardFromHost, WireSafe
  <1>3. \A x \in Targets(h, Next1(h)) :
          x \in Clients /\ x \in clients[h] /\ Next1(h).client \in {x, NoClient}
    BY DEF Targets, Inv, Core, RelayTypeOK
  <1>4. \A x \in Targets(h, Next1(h)) : sess[x] = h /\ pc[x] \in InMap
    BY <1>3 DEF Inv, Core, Control, Membership, InMap
  <1> QED BY <1>2, <1>3, <1>4 DEF ForwardFromHost, relayVars

LEMMA ForwardedByClient ==
    ASSUME Inv, NEW c \in Clients, ForwardFromClient(c)
    PROVE  /\ UNCHANGED <<link, pc, sess>> /\ pc[c] = "serving" /\ sess[c] \in Hosts
           /\ Incoming(c)
           /\ \/ UNCHANGED toPeer
              \/ \E m \in Message :
                   /\ Write({sess[c]}, m) /\ m.client = c
                   /\ m.type \in ClientForwards /\ m.data = Next1(c).data
  <1>1. c \in Conns /\ WireSafe
    BY DEF Conns, Inv, Core, WireSafe
  <1>2. Incoming(c) /\ Next1(c) \in Message
    BY <1>1, TakeType DEF ForwardFromClient, WireSafe
  <1>3. pc[c] = "serving" /\ sess[c] \in Hosts
    BY DEF ForwardFromClient, Inv, Core, Control, Located, Attached
  <1> DEFINE m == Msg(Next1(c).type, c, Next1(c).data)
  <1>4. /\ m \in Message /\ m.client = c /\ m.data = Next1(c).data
        /\ m.type = Next1(c).type
    BY <1>2 DEF Msg, Message
  <1> QED BY <1>2, <1>3, <1>4 DEF ForwardFromClient, relayVars

LEMMA Notified ==
    ASSUME Inv, Links, NEW c \in Clients, NotifyJoined(c) \/ NotifyLeft(c)
    PROVE  sess[c] \in Hosts /\ sess[c] \in Conns /\ pc[sess[c]] \notin Unanswered
  BY DEF NotifyJoined, NotifyLeft, Goto, Inv, Core, Control, Located, Attached,
         Links, Conns

LEMMA AnsweredInvariant == Spec => []Answered
  <1>1. Init => Answered
    <2>1. \A i \in 1..Len(<< >>) : FALSE
      OBVIOUS
    <2> QED BY <2>1 DEF Init, WireInit, Answered, AnsweredAt
  <1>2. Inv /\ Links /\ Answered /\ [Next]_vars => Answered'
    <2> SUFFICES ASSUME Inv, Links, Answered, [Next]_vars, NEW x \in Conns
                 PROVE  AnsweredAt(x)'
      BY DEF Answered
    <2>1. AnsweredAt(x)
      BY DEF Answered
    <2>2. CASE Steady
      BY <2>1, <2>2, UnwrittenAnswered DEF Steady
    <2>3. ASSUME NEW y \in Conns, Answers(y), UNCHANGED seen PROVE AnsweredAt(x)'
      <3>1. PICK m \in Message : Write({y}, m)
        BY <2>3, AnswerEffect
      <3>2. pc[y] = "first" /\ pc'[y] \notin Unanswered /\ \A z \in Conns \ {y} : pc'[z] = pc[z]
        BY <2>3, AnswerEffect DEF Moves, Unanswered
      <3>3. CASE toPeer'[x] = toPeer[x]
        BY <2>1, <3>2, <3>3, UnwrittenAnswered
      <3>4. CASE x = y /\ toPeer'[x] = Append(toPeer[x], m)
        BY <2>1, <3>2, <3>4, AppendAnswered DEF Unanswered
      <3> QED BY <3>1, <3>3, <3>4, WriteAt
    <2>4. ASSUME NEW h \in Hosts, ForwardFromHost(h) PROVE AnsweredAt(x)'
      <3> DEFINE m == Next1(h)
      <3>1. UNCHANGED pc /\ m \in Message
        BY <2>4, ForwardedByHost
      <3>2. CASE toPeer'[x] = toPeer[x]
        BY <2>1, <3>1, <3>2, UnwrittenAnswered
      <3>3. CASE x \in Targets(h, m) /\ m.type \in HostForwards
                 /\ toPeer'[x] = Append(toPeer[x], m)
        <4>1. pc[x] \notin Unanswered /\ m.type \notin Acks
          BY <2>4, <3>3, ForwardedByHost DEF InMap, Unanswered, HostForwards, Acks
        <4> QED BY <2>1, <3>1, <3>3, <4>1, AppendAnswered
      <3> QED BY <2>4, <3>2, <3>3, ForwardedByHost, WriteAt
    <2>5. ASSUME NEW c \in Clients, ForwardFromClient(c) PROVE AnsweredAt(x)'
      <3>1. UNCHANGED pc /\ sess[c] \in Conns /\ pc[sess[c]] \notin Unanswered
        BY <2>5, ForwardedByClient DEF Links, Conns
      <3>2. CASE toPeer'[x] = toPeer[x]
        BY <2>1, <3>1, <3>2, UnwrittenAnswered
      <3>3. CASE toPeer'[x] # toPeer[x]
        <4>1. PICK m \in Message : Write({sess[c]}, m) /\ m.type \in ClientForwards
          BY <2>5, <3>3, ForwardedByClient
        <4>2. x = sess[c] /\ toPeer'[x] = Append(toPeer[x], m)
          BY <3>3, <4>1, WriteAt
        <4> QED BY <2>1, <3>1, <4>1, <4>2, AppendAnswered DEF ClientForwards, Acks
      <3> QED BY <3>2, <3>3
    <2>6. ASSUME NEW c \in Clients, AckJoin(c), UNCHANGED seen PROVE AnsweredAt(x)'
      <3> DEFINE m == Msg("session_joined", c, NoData)
      <3>1. Moves(c, "found", "acked") /\ m \in Message /\ Write({c}, m)
        BY <2>6, NotificationEffect DEF MsgType, AckJoin
      <3>2. c \in Conns
        BY DEF Conns
      <3>3. CASE toPeer'[x] = toPeer[x]
        BY <2>1, <3>1, <3>2, <3>3, UnwrittenAnswered DEF Moves, Unanswered
      <3>4. CASE x = c /\ toPeer'[x] = Append(toPeer[x], m)
        BY <2>1, <3>1, <3>2, <3>4, AppendAnswered DEF Moves, Unanswered
      <3> QED BY <3>1, <3>3, <3>4, WriteAt
    <2>7. ASSUME NEW c \in Clients, NotifyJoined(c) \/ NotifyLeft(c), UNCHANGED seen
          PROVE  AnsweredAt(x)'
      <3>1. PICK t \in {"joined", "left"} : Write({sess[c]}, Msg(t, c, NoData))
        BY <2>7 DEF NotifyJoined, NotifyLeft
      <3> DEFINE m == Msg(t, c, NoData)
      <3>2. m \in Message /\ m.type \notin Acks
        BY <2>7, NotificationEffect DEF MsgType, Acks
      <3>3. \/ Moves(c, "added", "serving")
            \/ Moves(c, "notifying", "done")
        BY <2>7, NotificationEffect
      <3>4. \A z \in Conns : pc'[z] \in Unanswered <=> pc[z] \in Unanswered
        BY <3>3 DEF Moves, Unanswered
      <3>5. CASE toPeer'[x] = toPeer[x]
        BY <2>1, <3>4, <3>5, UnwrittenAnswered
      <3>6. CASE x = sess[c] /\ toPeer'[x] = Append(toPeer[x], m)
        BY <2>1, <2>7, <3>2, <3>4, <3>6, Notified, AppendAnswered
      <3> QED BY <3>1, <3>5, <3>6, WriteAt
    <2>8. ASSUME NEW y \in Conns, PeerRead(y) \/ PeerGone(y) PROVE AnsweredAt(x)'
      <3>1. UNCHANGED pc
        BY <2>8 DEF PeerRead, PeerGone, relayVars
      <3>2. CASE x # y
        <4>1. toPeer'[x] = toPeer[x]
          BY <2>8, <3>2 DEF PeerRead, PeerGone, Get, Hangup, Inv, Core, WireTypeOK
        <4> QED BY <2>1, <3>1, <4>1, UnwrittenAnswered
      <3>3. CASE x = y
        <4>1. \/ toPeer'[x] = << >>
              \/ toPeer[x] # << >> /\ toPeer'[x] = Tail(toPeer[x])
          BY <2>8, <3>3 DEF PeerRead, PeerGone, Arrived, Get, Hangup, Inv, Core, WireTypeOK
        <4> QED BY <2>1, <3>1, <4>1, ReadAnswered
      <3> QED BY <3>2, <3>3
    <2> QED BY <2>2, <2>3, <2>4, <2>5, <2>6, <2>7, <2>8, StepCases
  <1> QED BY <1>1, <1>2, Invariant, LinksInvariant, PTL DEF Spec

(* No frame of a session overtakes the answer that opens it, whatever the  *)
(* other handlers do between the answer and the entry into the map.        *)
THEOREM AcksComeFirst == Spec => []AckFirst
  <1>1. Inv /\ Answered => AckFirst
    BY DEF Inv, Core, WireTypeOK, Answered, AnsweredAt, AckFirst, Acks
  <1> QED BY <1>1, Invariant, AnsweredInvariant, PTL

---------------------------------------------------------------------------
(* The events of a client.  The frames about it are written by its own     *)
(* handler only, so that what is queued for a host follows from where that *)
(* handler is; a host whose connection is gone is written nothing more.    *)
Unannounced(h, c) == sess[c] # h \/ pc[c] \in Before
Announced(h, c) == sess[c] = h /\ pc[c] \in During /\ link[h] \in Up

EventsAt(h, c) ==
    /\ Ordered(toPeer[h], c, seen[h][c])
    /\ Unannounced(h, c) => Silent(toPeer[h], c, seen[h][c])
    /\ Announced(h, c) => Followed(toPeer[h], c, seen[h][c])

Events == \A h \in Hosts, c \in Clients : EventsAt(h, c)

(* The handler of the client does not get ahead of what it writes.         *)
Settled(h, c) ==
    /\ Unannounced(h, c)' => Unannounced(h, c)
    /\ Announced(h, c)' => Announced(h, c)

LEMMA SameQueueEvents ==
    ASSUME NEW h, NEW c, EventsAt(h, c), Settled(h, c),
           toPeer'[h] = toPeer[h], seen'[h][c] = seen[h][c]
    PROVE  EventsAt(h, c)'
  BY DEF EventsAt, Settled

LEMMA OtherFrameEvents ==
    ASSUME Inv, NEW h \in Hosts, NEW c, EventsAt(h, c), Settled(h, c),
           NEW m \in Message, ~About(m, c),
           toPeer'[h] \in {toPeer[h], Append(toPeer[h], m)}, seen'[h][c] = seen[h][c]
    PROVE  EventsAt(h, c)'
  <1>1. toPeer[h] \in Seq(Message)
    BY DEF Inv, Core, WireTypeOK, Conns
  <1> QED BY <1>1, AppendOther DEF EventsAt, Settled

LEMMA SteadySettled ==
    ASSUME Links, Steady, NEW h \in Hosts, NEW c \in Clients
    PROVE  Settled(h, c)
  <1>1. sess[c] = h => pc[h] # "idle"
    BY DEF Links, Unanswered
  <1>2. Announced(h, c)' => Announced(h, c)
    <2>1. pc'[c] \in During => pc'[c] \notin Before
      BY DEF During, Before
    <2> QED BY <1>1, <2>1 DEF Steady, Announced, Conns
  <1>3. Unannounced(h, c)' => Unannounced(h, c)
    BY DEF Steady, Unannounced, Before
  <1> QED BY <1>2, <1>3 DEF Settled

LEMMA MovedSettled ==
    ASSUME NEW x \in Conns, NEW from, NEW to, Moves(x, from, to),
           NEW h \in Hosts, NEW c \in Clients,
           x = c => /\ to \in Before => from \in Before
                    /\ to \in During => from \in During
    PROVE  Settled(h, c)
  BY DEF Moves, Settled, Unannounced, Announced, Conns

LEMMA NotifiedEvents ==
    ASSUME Inv, NEW h \in Hosts, NEW c \in Clients, EventsAt(h, c),
           NEW d \in Clients, NotifyJoined(d) \/ NotifyLeft(d), UNCHANGED seen
    PROVE  EventsAt(h, c)'
  <1>1. PICK t \in {"joined", "left"} :
            /\ Write({sess[d]}, Msg(t, d, NoData))
            /\ t = "joined" => Moves(d, "added", "serving")
            /\ t = "left" => Moves(d, "notifying", "done")
    BY NotificationEffect DEF NotifyJoined, NotifyLeft
  <1> DEFINE m == Msg(t, d, NoData)
  <1>2. m \in Message /\ m.client = d /\ m.type = t
    BY NotificationEffect DEF MsgType
  <1>3. h \in Conns /\ d \in Conns /\ toPeer[h] \in Seq(Message)
    BY DEF Conns, Inv, Core, WireTypeOK
  <1>4. toPeer'[h] \in {toPeer[h], Append(toPeer[h], m)}
    BY <1>1, <1>3, WriteAt
  <1>5. CASE d # c
    <2>1. ~About(m, c)
      BY <1>2, <1>5 DEF About
    <2>2. Settled(h, c)
      BY <1>1, <1>3, <1>5, MovedSettled
    <2> QED BY <1>2, <1>4, <2>1, <2>2, OtherFrameEvents
  <1>6. CASE d = c /\ sess[c] # h
    <2>1. toPeer'[h] = toPeer[h] /\ sess' = sess
      BY <1>1, <1>3, <1>6, WriteAt DEF Moves
    <2>2. Settled(h, c)
      BY <1>6, <2>1 DEF Settled, Unannounced, Announced
    <2> QED BY <2>1, <2>2, SameQueueEvents
  <1>7. CASE d = c /\ sess[c] = h
    <2>1. pc[c] = "added" \/ pc[c] = "notifying"
      BY <1>1, <1>7 DEF Moves
    <2>2. link'[h] \in Up => link[h] \in Up
      BY <1>1, <1>3 DEF Moves
    <2>3. pc'[c] \notin Before /\ sess'[c] = h
      BY <1>1, <1>7 DEF Moves, Before
    <2>4. CASE link[h] \notin Up
      <3>1. toPeer'[h] = toPeer[h]
        BY <1>1, <1>3, <2>4, WriteAt
      <3> QED BY <2>2, <2>3, <2>4, <3>1 DEF EventsAt, Unannounced, Announced
    <2>5. CASE link[h] \in Up
      <3>1. toPeer'[h] = Append(toPeer[h], m)
        BY <1>1, <1>3, <1>7, <2>5 DEF Write
      <3>2. CASE t = "joined"
        <4>1. Silent(toPeer[h], c, seen[h][c])
          BY <1>1, <1>7, <3>2 DEF EventsAt, Unannounced, Moves, Before
        <4> QED BY <1>2, <1>3, <1>7, <2>3, <3>1, <3>2, <4>1, AppendJoined
                DEF About, EventsAt, Unannounced
      <3>3. CASE t = "left"
        <4>1. Followed(toPeer[h], c, seen[h][c]) /\ Ordered(toPeer[h], c, seen[h][c])
          BY <1>1, <1>7, <2>5, <3>3 DEF EventsAt, Announced, Moves, During
        <4>2. pc'[c] \notin During
          BY <1>1, <1>7, <3>3 DEF Moves, During
        <4> QED BY <1>2, <1>3, <1>7, <2>3, <3>1, <3>3, <4>1, <4>2, AppendFurther
                DEF About, EventsAt, Unannounced, Announced
      <3> QED BY <3>2, <3>3
    <2> QED BY <2>4, <2>5
  <1> QED BY <1>5, <1>6, <1>7

LEMMA ForwardedEvents ==
    ASSUME Inv, NEW h \in Hosts, NEW c \in Clients, EventsAt(h, c),
           NEW d \in Clients, ForwardFromClient(d), UNCHANGED seen
    PROVE  EventsAt(h, c)'
  <1>1. Settled(h, c) /\ h \in Conns /\ toPeer[h] \in Seq(Message)
    BY ForwardedByClient
    DEF Settled, Unannounced, Announced, Conns, Inv, Core, WireTypeOK
  <1>2. CASE toPeer'[h] = toPeer[h]
    BY <1>1, <1>2, SameQueueEvents
  <1>3. CASE toPeer'[h] # toPeer[h]
    <2>1. PICK m \in Message : /\ Write({sess[d]}, m) /\ m.client = d
                              /\ m.type \in ClientForwards
      BY <1>3, ForwardedByClient
    <2>2. sess[d] = h /\ link[h] \in Up /\ toPeer'[h] = Append(toPeer[h], m)
      BY <1>1, <1>3, <2>1, WriteAt
    <2>3. CASE d # c
      BY <1>1, <2>1, <2>2, <2>3, OtherFrameEvents DEF About
    <2>4. CASE d = c
      <3>1. Announced(h, c) /\ ~Unannounced(h, c)
        BY <2>2, <2>4, ForwardedByClient DEF Announced, Unannounced, During, Before
      <3>2. m.type # "joined" /\ m.type # "left"
        BY <2>1 DEF ClientForwards
      <3> QED BY <1>1, <2>1, <2>2, <2>4, <3>1, <3>2, AppendFurther
              DEF About, EventsAt, Settled
    <2> QED BY <2>3, <2>4
  <1> QED BY <1>2, <1>3

(* A host that reads keeps up with its queue.                              *)
LEMMA ToldOf ==
    ASSUME Inv, NEW h \in Hosts, NEW c \in Clients, PeerRead(h)
    PROVE  /\ toPeer[h] \in Seq(Message) /\ toPeer[h] # << >>
           /\ toPeer'[h] = Tail(toPeer[h])
           /\ seen'[h][c] = After(Head(toPeer[h]), c, seen[h][c])
  <1>1. h \in Conns /\ toPeer[h] \in Seq(Message) /\ toPeer[h] # << >>
    BY DEF Conns, PeerRead, Arrived, Inv, Core, WireTypeOK
  <1>2. toPeer'[h] = Tail(toPeer[h])
    BY <1>1 DEF PeerRead, Get, Inv, Core, WireTypeOK
  <1> DEFINE m == Head(toPeer[h])
  <1>3. /\ m.type = "joined" => seen' = [seen EXCEPT ![h][m.client] = "present"]
        /\ m.type = "left" => seen' = [seen EXCEPT ![h][m.client] = "gone"]
        /\ m.type \notin {"joined", "left"} => seen' = seen
    BY DEF PeerRead, Told, Got
  <1>4. seen \in [Hosts -> [Clients -> Presence]]
    BY DEF Inv, PeersTypeOK
  <1>5. seen'[h][c] = After(m, c, seen[h][c])
    BY <1>3, <1>4 DEF After, About
  <1> QED BY <1>1, <1>2, <1>5

LEMMA ReadEvents ==
    ASSUME Inv, NEW h \in Hosts, NEW c \in Clients, EventsAt(h, c),
           NEW y \in Conns, PeerRead(y) \/ PeerGone(y)
    PROVE  EventsAt(h, c)'
  <1>1. UNCHANGED <<pc, sess>> /\ (link'[h] \in Up => link[h] \in Up) /\ h \in Conns
    BY DEF PeerRead, PeerGone, Hangup, relayVars, Up, Conns, Inv, Core, WireTypeOK
  <1>2. Settled(h, c)
    BY <1>1 DEF Settled, Unannounced, Announced
  <1>3. CASE y # h
    <2>1. toPeer'[h] = toPeer[h]
      BY <1>1, <1>3 DEF PeerRead, PeerGone, Get, Hangup, Inv, Core, WireTypeOK
    <2>2. seen'[h][c] = seen[h][c]
      BY <1>3 DEF PeerRead, PeerGone, peerVars, Told, Inv, PeersTypeOK
    <2> QED BY <1>2, <2>1, <2>2, SameQueueEvents
  <1>4. CASE y = h /\ PeerRead(h)
    <2>1. /\ Ordered(toPeer[h], c, seen[h][c]) =>
                Ordered(toPeer'[h], c, seen'[h][c])
          /\ Silent(toPeer[h], c, seen[h][c]) =>
                Silent(toPeer'[h], c, seen'[h][c])
          /\ Followed(toPeer[h], c, seen[h][c]) =>
                Followed(toPeer'[h], c, seen'[h][c])
      BY <1>4, ToldOf, TailKeepsOrder, TailKeepsSilent, TailKeepsFollowed
    <2> QED BY <1>2, <2>1 DEF EventsAt, Settled
  <1>5. CASE y = h /\ PeerGone(h)
    <2>1. toPeer'[h] = << >> /\ seen' = seen /\ link'[h] \notin Up
      BY <1>1, <1>5 DEF PeerGone, Hangup, peerVars, Up, Inv, Core, WireTypeOK
    <2>2. \A i \in 1..Len(<< >>) : FALSE
      OBVIOUS
    <2>3. Ordered(toPeer'[h], c, seen'[h][c])
      BY <2>1, <2>2 DEF Ordered
    <2>4. Silent(toPeer[h], c, seen[h][c]) => Silent(toPeer'[h], c, seen'[h][c])
      BY <2>1, <2>2 DEF Silent
    <2> QED BY <1>2, <2>1, <2>3, <2>4 DEF EventsAt, Settled, Announced
  <1> QED BY <1>3, <1>4, <1>5

LEMMA EventsInvariant == Spec => []Events
  <1>1. Init => Events
    <2>1. \A i \in 1..Len(<< >>) : FALSE
      OBVIOUS
    <2> QED BY <2>1, NoHostFresh
            DEF Init, WireInit, RelayInit, Events, EventsAt, Ordered, Silent,
                Announced, During, Conns
  <1>2. Inv /\ Links /\ Events /\ [Next]_vars => Events'
    <2> SUFFICES ASSUME Inv, Links, Events, [Next]_vars,
                        NEW h \in Hosts, NEW c \in Clients
                 PROVE  EventsAt(h, c)'
      BY DEF Events
    <2>1. EventsAt(h, c) /\ h \in Conns /\ h \notin Clients
      BY RolesDisjoint DEF Events, Conns
    <2>2. CASE Steady
      BY <2>1, <2>2, SteadySettled, SameQueueEvents DEF Steady
    <2>3. ASSUME NEW x \in Conns, Answers(x), UNCHANGED seen PROVE EventsAt(h, c)'
      <3>1. PICK m \in Message : Write({x}, m) /\ m.client = NoClient
        BY <2>3, AnswerEffect
      <3>2. PICK to \in {"done", "serving", "rejected"} :
               Moves(x, "first", to) /\ (x \in Clients => to = "done")
        BY <2>3, AnswerEffect
      <3>3. Settled(h, c)
        BY <3>2, MovedSettled DEF Before, During
      <3>4. ~About(m, c)
        BY <3>1, NoClientFresh DEF About
      <3> QED BY <2>1, <2>3, <3>1, <3>3, <3>4, WriteAt, OtherFrameEvents
    <2>4. ASSUME NEW g \in Hosts, ForwardFromHost(g), UNCHANGED seen
          PROVE  EventsAt(h, c)'
      <3>1. toPeer'[h] = toPeer[h]
        BY <2>1, <2>4, ForwardedByHost, WriteAt
      <3>2. Settled(h, c)
        BY <2>4, ForwardedByHost DEF Settled, Unannounced, Announced
      <3> QED BY <2>1, <2>4, <3>1, <3>2, SameQueueEvents
    <2>5. ASSUME NEW d \in Clients, AckJoin(d), UNCHANGED seen PROVE EventsAt(h, c)'
      <3>1. Moves(d, "found", "acked") /\ Write({d}, Msg("session_joined", d, NoData))
        BY <2>5, NotificationEffect DEF AckJoin
      <3>2. toPeer'[h] = toPeer[h]
        BY <2>1, <3>1, WriteAt
      <3>3. d \in Conns
        BY DEF Conns
      <3>4. Settled(h, c)
        BY <3>1, <3>3, MovedSettled DEF Before, During
      <3> QED BY <2>1, <2>5, <3>2, <3>4, SameQueueEvents
    <2> QED BY <2>1, <2>2, <2>3, <2>4, <2>5, NotifiedEvents, ForwardedEvents,
               ReadEvents, StepCases
  <1> QED BY <1>1, <1>2, Invariant, LinksInvariant, PTL DEF Spec

(* Every host reads of a client one "joined", then its traffic, and after  *)
(* its "left" nothing more.                                                *)
THEOREM EventsInOrder == Spec => []EventOrder
  <1>1. Inv /\ Events => EventOrder
    <2> SUFFICES ASSUME Inv, Events, NEW h \in Hosts, Arrived(h),
                        Got(h).client # NoClient
                 PROVE  seen[h][Got(h).client] =
                          IF Got(h).type = "joined" THEN "new" ELSE "present"
      BY DEF EventOrder
    <2> DEFINE q == toPeer[h]
               c == Got(h).client
    <2>1. q \in Seq(Message) /\ q # << >>
      BY DEF Arrived, Inv, Core, WireTypeOK, Conns
    <2>2. Got(h) = q[1] /\ 1 \in 1..Len(q) /\ Got(h) \in Message
      BY <2>1, TailShape DEF Got
    <2>3. c \in Clients
      BY <2>2 DEF Message
    <2>4. Ordered(q, c, seen[h][c])
      BY <2>3 DEF Events, EventsAt
    <2>5. 1..(1 - 1) = {}
      OBVIOUS
    <2> QED BY <2>2, <2>4, <2>5 DEF Ordered, About
  <1> QED BY <1>1, Invariant, EventsInvariant, PTL

(* A host can reach every client it was told of for as long as that client *)
(* is connected.                                                           *)
THEOREM PresentReachable == Spec => []Reachable
  <1>1. Inv /\ Links /\ Events => Reachable
    <2> SUFFICES ASSUME Inv, Links, Events, NEW h \in Hosts, NEW c \in Clients,
                        seen[h][c] = "present", link[c] \in Up
                 PROVE  c \in clients[h]
      BY DEF Reachable
    <2>1. sess[c] = h /\ pc[c] \notin Before
      BY DEF Events, EventsAt, Unannounced, Silent
    <2>2. pc[c] \notin Gone
      BY DEF Links, Up
    <2>3. h \in Conns /\ c \in Conns /\ pc[c] \in HandlerState \ HostOnly
      BY DEF Links, Inv, Core, RelayTypeOK, Conns
    <2> QED BY <2>1, <2>2, <2>3 DEF Inv, Core, Control, Membership, HandlerState,
            HostOnly, Before, Gone
  <1> QED BY <1>1, Invariant, LinksInvariant, EventsInvariant, PTL

---------------------------------------------------------------------------
(* Isolation.  What is forwarded was sent by the other end of the session. *)
FramesOf(q) == {q[i] : i \in 1..Len(q)}

LEMMA QueueFrames ==
    ASSUME NEW q \in Seq(Message)
    PROVE  /\ \A m \in Message : FramesOf(Append(q, m)) = FramesOf(q) \cup {m}
           /\ q # << >> => FramesOf(Tail(q)) \subseteq FramesOf(q)
           /\ FramesOf(<< >>) = {}
  <1>1. ASSUME NEW m \in Message PROVE FramesOf(Append(q, m)) = FramesOf(q) \cup {m}
    <2>1. /\ Len(q) \in Nat
          /\ Len(Append(q, m)) = Len(q) + 1
          /\ \A i \in 1..Len(q) : Append(q, m)[i] = q[i]
          /\ Append(q, m)[Len(q) + 1] = m
      BY AppendShape
    <2>2. ASSUME NEW i \in 1..Len(Append(q, m)), Append(q, m)[i] # m
          PROVE  i \in 1..Len(q) /\ Append(q, m)[i] = q[i]
      BY <2>1, <2>2
    <2>3. FramesOf(Append(q, m)) \subseteq FramesOf(q) \cup {m}
      BY <2>2 DEF FramesOf
    <2>4. m \in FramesOf(Append(q, m))
      BY <2>1 DEF FramesOf
    <2>5. FramesOf(q) \subseteq FramesOf(Append(q, m))
      BY <2>1 DEF FramesOf
    <2> QED BY <2>3, <2>4, <2>5
  <1>2. q # << >> => FramesOf(Tail(q)) \subseteq FramesOf(q)
    BY TailShape DEF FramesOf
  <1>3. FramesOf(<< >>) = {}
    BY DEF FramesOf
  <1> QED BY <1>1, <1>2, <1>3

LEMMA WriteFrames ==
    ASSUME Inv, NEW S, NEW m \in Message, Write(S, m), NEW x \in Conns
    PROVE  /\ FramesOf(toPeer'[x]) \subseteq FramesOf(toPeer[x]) \cup {m}
           /\ x \notin S => FramesOf(toPeer'[x]) = FramesOf(toPeer[x])
  <1>1. toPeer[x] \in Seq(Message)
    BY DEF Inv, Core, WireTypeOK
  <1>2. CASE toPeer'[x] = toPeer[x]
    BY <1>2, Zenon
  <1>3. CASE x \in S /\ toPeer'[x] = Append(toPeer[x], m)
    <2>1. FramesOf(Append(toPeer[x], m)) = FramesOf(toPeer[x]) \cup {m}
      BY <1>1, QueueFrames
    <2> QED BY <1>3, <2>1, Zenon
  <1> QED BY <1>2, <1>3, WriteAt, Zenon

LEMMA TracedHead ==
    ASSUME Inv, Traced, NEW x \in Conns, Incoming(x), pc[x] \notin Start
    PROVE  Next1(x).data = x
  <1>1. toRelay[x] \in Seq(Message) /\ toRelay[x] # << >>
    BY DEF Incoming, Inv, Core, WireTypeOK
  <1>2. Next1(x) = toRelay[x][1] /\ 1 \in 1..Len(toRelay[x])
    BY <1>1, TailShape DEF Next1
  <1> QED BY <1>2 DEF Traced, TracedAt

LEMMA ForwardsApart ==
    \A t \in HostForwards \cup ClientForwards :
        t \notin {"error", "host_registered", "session_joined", "joined", "left"}
  BY DEF HostForwards, ClientForwards

(* The frames a step adds to the queue of x.                               *)
FromHost(x, m) ==
    x \in Clients /\ sess'[x] = sess[x] /\ m.data = sess[x] /\ m.client \in {x, NoClient}
FromClient(x, m) ==
    x \in Hosts /\ m.client \in Clients /\ m.data = m.client

LEMMA NewFrames ==
    ASSUME Inv, Traced, [Next]_vars, NEW x \in Conns,
           NEW m \in FramesOf(toPeer'[x]), m \notin FramesOf(toPeer[x]),
           m.type \in HostForwards \cup ClientForwards
    PROVE  FromHost(x, m) \/ FromClient(x, m)
  <1>1. CASE Steady
    BY <1>1 DEF Steady
  <1>2. ASSUME NEW y \in Conns, Answers(y), UNCHANGED seen PROVE FALSE
    <2>1. PICK n \in Message : Write({y}, n) /\ n.type \in {"error", "host_registered"}
      BY <1>2, AnswerEffect
    <2>2. m = n
      BY <2>1, WriteFrames
    <2> QED BY <2>1, <2>2, ForwardsApart
  <1>3. ASSUME NEW h \in Hosts, ForwardFromHost(h) PROVE FromHost(x, m)
    <2>1. m = Next1(h) /\ x \in Targets(h, Next1(h)) /\ sess' = sess
      BY <1>3, ForwardedByHost, WriteFrames
    <2>2. Next1(h).data = h
      BY <1>3, ForwardedByHost, TracedHead DEF ForwardFromHost, Conns, Start
    <2> QED BY <1>3, <2>1, <2>2, ForwardedByHost DEF FromHost
  <1>4. ASSUME NEW c \in Clients, ForwardFromClient(c) PROVE FromClient(x, m)
    <2>1. PICK n \in Message : /\ Write({sess[c]}, n) /\ n.client = c
                              /\ n.data = Next1(c).data
      BY <1>4, ForwardedByClient
    <2>2. m = n /\ x \in Hosts
      BY <1>4, <2>1, ForwardedByClient, WriteFrames
    <2>3. Next1(c).data = c
      BY <1>4, ForwardedByClient, TracedHead DEF Conns, Start
    <2> QED BY <2>1, <2>2, <2>3 DEF FromClient
  <1>5. ASSUME NEW c \in Clients, AckJoin(c) \/ NotifyJoined(c) \/ NotifyLeft(c),
               UNCHANGED seen
        PROVE  FALSE
    <2>1. \E t \in {"session_joined", "joined", "left"}, S \in {{c}, {sess[c]}} :
             Write(S, Msg(t, c, NoData))
      BY <1>5 DEF AckJoin, NotifyJoined, NotifyLeft
    <2>2. \A t \in {"session_joined", "joined", "left"} :
             Msg(t, c, NoData) \in Message /\ Msg(t, c, NoData).type = t
      BY <1>5, NotificationEffect DEF MsgType
    <2> QED BY <2>1, <2>2, WriteFrames, ForwardsApart
  <1>6. ASSUME NEW y \in Conns, PeerRead(y) \/ PeerGone(y) PROVE FALSE
    <2>1. toPeer[x] \in Seq(Message)
      BY DEF Inv, Core, WireTypeOK
    <2>2. \/ toPeer'[x] = toPeer[x]
          \/ toPeer'[x] = << >>
          \/ toPeer[x] # << >> /\ toPeer'[x] = Tail(toPeer[x])
      BY <1>6 DEF PeerRead, PeerGone, Arrived, Get, Hangup, Inv, Core, WireTypeOK
    <2> QED BY <2>1, <2>2, QueueFrames
  <1> QED BY <1>1, <1>2, <1>3, <1>4, <1>5, <1>6, StepCases

PureAt(x) ==
    \A m \in FramesOf(toPeer[x]) :
        /\ x \in Clients /\ m.type \in HostForwards =>
                m.data = sess[x] /\ m.client \in {x, NoClient}
        /\ x \in Hosts /\ m.type \in ClientForwards =>
                m.client \in Clients /\ m.data = m.client

Pure == \A x \in Conns : PureAt(x)

LEMMA SessKept ==
    ASSUME Inv, [Next]_vars, NEW c \in Clients, sess'[c] # sess[c]
    PROVE  pc[c] = "first" /\ toPeer' = toPeer
  <1>1. ASSUME NEW x \in Conns, Answers(x), UNCHANGED seen PROVE sess' = sess
    BY <1>1, AnswerEffect DEF Moves
  <1>2. ASSUME NEW h \in Hosts, ForwardFromHost(h) PROVE sess' = sess
    BY <1>2, ForwardedByHost
  <1>3. ASSUME NEW d \in Clients, UNCHANGED seen,
               \/ AckJoin(d) \/ NotifyJoined(d) \/ ForwardFromClient(d) \/ NotifyLeft(d)
        PROVE  sess' = sess
    BY <1>3, NotificationEffect, ForwardedByClient DEF Moves
  <1>4. ASSUME NEW x \in Conns, PeerRead(x) \/ PeerGone(x) PROVE sess' = sess
    BY <1>4 DEF PeerRead, PeerGone, relayVars
  <1> QED BY <1>1, <1>2, <1>3, <1>4, StepCases DEF Steady

LEMMA PureInvariant == Spec => []Pure
  <1>1. Init => Pure
    <2>1. FramesOf(<< >>) = {}
      BY DEF FramesOf
    <2> QED BY <2>1 DEF Init, WireInit, Pure, PureAt
  <1>2. Inv /\ Traced /\ Answered /\ Pure /\ [Next]_vars => Pure'
    <2> SUFFICES ASSUME Inv, Traced, Answered, Pure, [Next]_vars, NEW x \in Conns
                 PROVE  PureAt(x)'
      BY DEF Pure
    <2>1. PureAt(x)
      BY DEF Pure
    <2>2. CASE x \in Clients
      <3> SUFFICES ASSUME NEW m \in FramesOf(toPeer'[x]), m.type \in HostForwards
                   PROVE  m.data = sess'[x] /\ m.client \in {x, NoClient}
        BY <2>2, RolesDisjoint DEF PureAt
      <3>1. CASE m \notin FramesOf(toPeer[x])
        BY <2>2, <3>1, NewFrames, RolesDisjoint DEF FromHost, FromClient
      <3>2. CASE m \in FramesOf(toPeer[x])
        <4>1. sess'[x] = sess[x]
          <5> SUFFICES ASSUME sess'[x] # sess[x] PROVE FALSE
            OBVIOUS
          <5>1. toPeer[x] = << >>
            BY <2>2, SessKept DEF Answered, AnsweredAt, Unanswered
          <5> QED BY <3>2, <5>1 DEF FramesOf
        <4> QED BY <2>1, <2>2, <3>2, <4>1 DEF PureAt
      <3> QED BY <3>1, <3>2
    <2>3. CASE x \in Hosts
      <3> SUFFICES ASSUME NEW m \in FramesOf(toPeer'[x]), m.type \in ClientForwards
                   PROVE  m.client \in Clients /\ m.data = m.client
        BY <2>3, RolesDisjoint DEF PureAt
      <3>1. CASE m \notin FramesOf(toPeer[x])
        BY <2>3, <3>1, NewFrames, RolesDisjoint DEF FromHost, FromClient
      <3> QED BY <2>1, <2>3, <3>1 DEF PureAt
    <2> QED BY <2>2, <2>3 DEF Conns
  <1> QED BY <1>1, <1>2, Invariant, TracedInvariant, AnsweredInvariant, PTL DEF Spec

(* Nothing crosses sessions: what is forwarded was sent by the other end   *)
(* of the session it is read in, and carries the client it came from or is *)
(* meant for.                                                              *)
THEOREM SessionsIsolated == Spec => []Isolation
  <1>1. Inv /\ Pure /\ Events => Isolation
    <2> SUFFICES ASSUME Inv, Pure, Events PROVE Isolation
      OBVIOUS
    <2>1. \A x \in Conns : DOMAIN toPeer[x] = 1..Len(toPeer[x])
      BY DEF Inv, Core, WireTypeOK
    <2>2. \A x \in Conns : \A i \in DOMAIN toPeer[x] : toPeer[x][i] \in FramesOf(toPeer[x])
      BY <2>1 DEF FramesOf
    <2>3. ASSUME NEW c \in Clients, NEW i \in DOMAIN toPeer[c],
                 toPeer[c][i].type \in HostForwards
          PROVE  /\ toPeer[c][i].data = sess[c]
                 /\ toPeer[c][i].client \in {c, NoClient}
      BY <2>2, <2>3 DEF Pure, PureAt, Conns
    <2>4. ASSUME NEW h \in Hosts, NEW i \in DOMAIN toPeer[h],
                 toPeer[h][i].type \in ClientForwards
          PROVE  /\ toPeer[h][i].data = toPeer[h][i].client
                 /\ sess[toPeer[h][i].client] = h
      <3> DEFINE c == toPeer[h][i].client
      <3>1. c \in Clients /\ toPeer[h][i].data = c
        BY <2>2, <2>4 DEF Pure, PureAt, Conns
      <3>2. ~Silent(toPeer[h], c, seen[h][c])
        BY <2>1 DEF Silent, About, Conns
      <3> QED BY <3>1, <3>2 DEF Events, EventsAt, Unannounced
    <2> QED BY <2>3, <2>4 DEF Isolation
  <1> QED BY <1>1, Invariant, PureInvariant, EventsInvariant, PTL

---------------------------------------------------------------------------
(* The refinement: a registration is a claim, the deferred delete its      *)
(* release, and reading "joined" or "left" an arrival or a departure.      *)
Promise == Promised!Next \/ UNCHANGED <<sessions, seen>>

LEMMA ClaimStep ==
    ASSUME Inv, NEW h \in Hosts, RegisterHost(h), UNCHANGED seen
    PROVE  Promised!Next
  <1> DEFINE k == Next1(h).data
  <1>1. k \in Codes
    BY FirstFrame DEF Inv, Core, WireSafe, RegisterHost, Conns, Openings
  <1>2. \A j \in Codes : sessions[j] # h
    BY DEF RegisterHost, Goto, Inv, Core, Control, SessionOwner
  <1>3. sessions[k] = NoHost /\ sessions' = [sessions EXCEPT ![k] = h]
    BY DEF RegisterHost
  <1>4. Promised!Claim(h, k)
    BY <1>2, <1>3 DEF Promised!Claim
  <1> QED BY <1>1, <1>4 DEF Promised!Next

LEMMA ReleaseStep ==
    ASSUME Inv, NEW h \in Hosts, Unregister(h), UNCHANGED seen
    PROVE  Promised!Next
  <1>1. code[h] \in Codes /\ sessions[code[h]] = h
    BY DEF Unregister, Goto, Inv, Core, Control, Coded, SessionOwner
  <1>2. Promised!Release(code[h])
    BY <1>1, NoHostFresh DEF Unregister, Promised!Release
  <1> QED BY <1>1, <1>2 DEF Promised!Next

LEMMA RegistryKept ==
    ASSUME Inv, RelayStep,
           \A h \in Hosts : ~RegisterHost(h) /\ ~Unregister(h)
    PROVE  sessions' = sessions
  BY DEF RelayStep, HostHandler, ClientHandler, CloseAllSessions, Accept,
         FirstReadFails, RejectFirst, Refuse, RejectHost, ForwardFromHost,
         CloseHostConn, CloseMembers, RateLimited, SessionNotFound,
         LookupSession, AckJoin, AddClient, NotifyJoined, ForwardFromClient,
         ForwardFails, ClientReadFails, Disconnect, RemoveClient, NotifyLeft,
         SnapshotSessions, CloseSnapshotHost, CloseSnapshotClients, relayVars, registry

LEMMA ReadStep ==
    ASSUME Inv, Events, NEW h \in Hosts, PeerRead(h)
    PROVE  Promise
  <1> DEFINE q == toPeer[h]
             m == Head(toPeer[h])
             c == m.client
  <1>1. q \in Seq(Message) /\ q # << >>
    BY DEF PeerRead, Arrived, Inv, Core, WireTypeOK, Conns
  <1>2. m = q[1] /\ 1 \in 1..Len(q) /\ m \in Message
    BY <1>1, TailShape
  <1>3. sessions' = sessions /\ seen \in [Hosts -> [Clients -> Presence]]
    BY DEF PeerRead, relayVars, Inv, PeersTypeOK
  <1>4. /\ m.type = "joined" => seen' = [seen EXCEPT ![h][c] = "present"]
        /\ m.type = "left" => seen' = [seen EXCEPT ![h][c] = "gone"]
        /\ m.type \notin {"joined", "left"} => seen' = seen
    BY DEF PeerRead, Told, Got
  <1>5. CASE c \notin Clients \/ m.type \notin {"joined", "left"}
    <2>1. seen' = seen
      BY <1>3, <1>4, <1>5
    <2> QED BY <1>3, <2>1 DEF Promise
  <1>6. CASE c \in Clients /\ m.type \in {"joined", "left"}
    <2>1. 1..(1 - 1) = {}
      OBVIOUS
    <2>2. IF m.type = "joined" THEN seen[h][c] = "new" ELSE seen[h][c] = "present"
      BY <1>2, <1>6, <2>1 DEF Events, EventsAt, Ordered, About
    <2>3. ~Silent(q, c, seen[h][c])
      BY <1>2 DEF Silent, About
    <2>4. sess[c] = h
      BY <1>6, <2>3 DEF Events, EventsAt, Unannounced
    <2>5. \A g \in Hosts \ {h} : seen[g][c] = "new"
      BY <1>6, <2>4 DEF Events, EventsAt, Unannounced, Silent
    <2>6. CASE m.type = "joined"
      <3>1. Promised!Arrive(h, c)
        BY <1>3, <1>4, <2>2, <2>5, <2>6 DEF Promised!Arrive
      <3> QED BY <1>6, <3>1 DEF Promise, Promised!Next
    <2>7. CASE m.type = "left"
      <3>1. Promised!Leave(h, c)
        BY <1>3, <1>4, <2>2, <2>7 DEF Promised!Leave
      <3> QED BY <1>6, <3>1 DEF Promise, Promised!Next
    <2> QED BY <1>6, <2>6, <2>7
  <1> QED BY <1>2, <1>5, <1>6

(* The relay, with whatever peers, keeps the roster's promises.            *)
THEOREM RelayRefinesRoster == Spec => RosterSpec
  <1>1. Init => Promised!Init
    BY DEF Init, RelayInit, Promised!Init
  <1>2. Inv /\ Events /\ [Next]_vars => [Promised!Next]_<<sessions, seen>>
    <2> SUFFICES ASSUME Inv, Events, [Next]_vars PROVE Promise
      BY DEF Promise
    <2>1. CASE RelayStep
      <3>1. UNCHANGED seen
        BY <2>1 DEF RelayStep, peerVars
      <3> QED BY <2>1, <3>1, ClaimStep, ReleaseStep, RegistryKept DEF Promise
    <2>2. ASSUME NEW x \in Conns, PeerSend(x) \/ PeerGone(x) \/ Expire(x)
          PROVE  Promise
      BY <2>2 DEF PeerSend, PeerGone, Expire, relayVars, peerVars, Promise
    <2>3. ASSUME NEW c \in Clients, PeerRead(c) PROVE Promise
      BY <2>3, RolesDisjoint DEF PeerRead, relayVars, Promise
    <2>4. CASE UNCHANGED vars
      BY <2>4 DEF vars, relayVars, peerVars, Promise
    <2> QED BY <2>1, <2>2, <2>3, <2>4, ReadStep DEF Next, PeerStep, Conns
  <1> QED BY <1>1, <1>2, Invariant, EventsInvariant, PTL
          DEF Spec, RosterSpec, Promised!Spec

=============================================================================
