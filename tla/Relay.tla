------------------------------- MODULE Relay -------------------------------
(***************************************************************************)
(* The relay broker (src/internal/relay/relay.go): the session registry,   *)
(* the member map of each session, and one handler goroutine for each      *)
(* connection.  A lock-protected section of the code is one action; what   *)
(* the code does between two sections is an interleaving point.            *)
(*                                                                         *)
(* A definition whose name starts with "Bug" is a mutant of the one after  *)
(* it: what the code would do with a plausible mistake.  No other          *)
(* definition uses it; the runs are repeated with it in the place of the   *)
(* original, to see that the properties notice.                            *)
(***************************************************************************)
EXTENDS Wire

CONSTANTS NoHost, NoCode

ASSUME NoHostFresh == NoHost \notin Hosts
ASSUME NoCodeFresh == NoCode \notin Codes

VARIABLES
    sessions,   \* r.sessions: the host connection registered for a code
    clients,    \* sess.clients of the session of each host
    pc,         \* where the handler goroutine of each connection is
    code,       \* the code argument of a running handleHost
    sess,       \* the sess pointer a handleClient looked up
    stopping,   \* CloseAllSessions has taken its snapshot
    snapshot,   \* sessions it has still to close
    current     \* the one whose host it has closed, whose clients it has not

relayVars == <<sessions, clients, pc, code, sess, stopping, snapshot, current>>

HandlerState ==
    {"idle",                              \* no connection yet
     "first",                             \* reading the first frame
     "serving",                           \* in the forwarding loop
     "rejected",                          \* handleHost returned, conn left open
     "unregistered", "closing",           \* handleHost's deferred function
     "found", "acked", "added",           \* handleClient before its loop
     "leaving", "removing", "notifying",  \* handleClient's deferred function
     "done"}

RelayTypeOK ==
    /\ sessions \in [Codes -> Hosts \cup {NoHost}]
    /\ clients \in [Hosts -> SUBSET Clients]
    /\ pc \in [Conns -> HandlerState]
    /\ code \in [Hosts -> Codes \cup {NoCode}]
    /\ sess \in [Clients -> Hosts \cup {NoHost}]
    /\ stopping \in BOOLEAN
    /\ snapshot \in SUBSET Hosts
    /\ current \in Hosts \cup {NoHost}

RelayInit ==
    /\ sessions = [k \in Codes |-> NoHost]
    /\ clients = [h \in Hosts |-> {}]
    /\ pc = [x \in Conns |-> "idle"]
    /\ code = [h \in Hosts |-> NoCode]
    /\ sess = [c \in Clients |-> NoHost]
    /\ stopping = FALSE
    /\ snapshot = {}
    /\ current = NoHost

Goto(x, from, to) ==
    /\ pc[x] = from
    /\ pc' = [pc EXCEPT ![x] = to]

registry == <<sessions, code>>
shutdown == <<stopping, snapshot, current>>

HostForwards ==
    {"output", "key_exchange", "resize", "verify", "ping", "pong"}
BugNoInput == {"key_exchange", "verify", "ping", "pong"}
ClientForwards ==
    {"input", "key_exchange", "verify", "ping", "pong"}

---------------------------------------------------------------------------
(* HandleWebSocket                                                         *)

(* The upgrade; the handler then blocks in its first read.                 *)
Accept(x) ==
    /\ Goto(x, "idle", "first")
    /\ link[x] = "none"
    /\ link' = [link EXCEPT ![x] = "open"]
    /\ UNCHANGED <<toRelay, toPeer, registry, clients, sess, shutdown>>

FirstReadFails(x) ==
    /\ Goto(x, "first", "done")
    /\ ReadFails(x)
    /\ Close({x})
    /\ UNCHANGED <<toPeer, registry, clients, sess, shutdown>>

(* The reply every early return gives: an error frame, then conn.Close().  *)
Refuse(x) ==
    /\ Goto(x, "first", "done")
    /\ Write({x}, Msg("error", NoClient, NoData))
    /\ Close({x})
    /\ UNCHANGED <<registry, clients, sess, shutdown>>

First(x, t) == Incoming(x) /\ Next1(x).type = t

RejectFirst(x) ==
    /\ Incoming(x)
    /\ Next1(x).type \notin {"host_register", "client_join"}
    /\ Refuse(x)

---------------------------------------------------------------------------
(* handleHost                                                              *)

(* One section under r.mu: the acknowledgement is written before the       *)
(* session becomes visible.                                                *)
BugRegisterOver(h) ==  \* the code in use is not checked
    /\ Goto(h, "first", "serving")
    /\ First(h, "host_register")
    /\ LET k == Next1(h).data IN
         /\ sessions' = [sessions EXCEPT ![k] = h]
         /\ code' = [code EXCEPT ![h] = k]
         /\ Write({h}, Msg("host_registered", NoClient, k))
    /\ Take(h)
    /\ UNCHANGED <<link, clients, sess, shutdown>>

RegisterHost(h) ==
    /\ Goto(h, "first", "serving")
    /\ First(h, "host_register")
    /\ LET k == Next1(h).data IN
         /\ sessions[k] = NoHost
         /\ sessions' = [sessions EXCEPT ![k] = h]
         /\ code' = [code EXCEPT ![h] = k]
         /\ Write({h}, Msg("host_registered", NoClient, k))
    /\ Take(h)
    /\ UNCHANGED <<link, clients, sess, shutdown>>

(* A duplicate code: the handler returns without closing the connection.   *)
RejectHost(h) ==
    /\ Goto(h, "first", "rejected")
    /\ First(h, "host_register")
    /\ sessions[Next1(h).data] # NoHost
    /\ Write({h}, Msg("error", NoClient, NoData))
    /\ Take(h)
    /\ UNCHANGED <<link, registry, clients, sess, shutdown>>

(* A frame with a client_id goes to that member, one without to all.       *)
BugTargetsAll(h, m) == clients[h]  \* client_id is ignored

Targets(h, m) ==
    IF m.client = NoClient THEN clients[h] ELSE clients[h] \cap {m.client}

ForwardFromHost(h) ==
    /\ pc[h] = "serving"
    /\ Incoming(h)
    /\ LET m == Next1(h) IN
         IF m.type \in HostForwards THEN Write(Targets(h, m), m)
                                    ELSE UNCHANGED toPeer
    /\ Take(h)
    /\ UNCHANGED <<link, relayVars>>

(* The loop's read fails; the deferred function deletes the registration,  *)
(* closes the host connection, then every member's, each in a step.        *)
Unregister(h) ==
    /\ Goto(h, "serving", "unregistered")
    /\ ReadFails(h)
    /\ sessions' = [sessions EXCEPT ![code[h]] = NoHost]
    /\ UNCHANGED <<wireVars, code, clients, sess, shutdown>>

CloseHostConn(h) ==
    /\ Goto(h, "unregistered", "closing")
    /\ Close({h})
    /\ UNCHANGED <<toPeer, registry, clients, sess, shutdown>>

BugMembersKept(h) ==  \* the members are not closed
    /\ Goto(h, "closing", "done")
    /\ UNCHANGED <<wireVars, registry, clients, sess, shutdown>>

CloseMembers(h) ==
    /\ Goto(h, "closing", "done")
    /\ Close(clients[h])
    /\ UNCHANGED <<toPeer, registry, clients, sess, shutdown>>

---------------------------------------------------------------------------
(* handleClient                                                            *)

(* The verdict of the per-IP limiter is not determined here: see RateLimit.*)
RateLimited(c) ==
    /\ First(c, "client_join")
    /\ Refuse(c)

SessionNotFound(c) ==
    /\ First(c, "client_join")
    /\ sessions[Next1(c).data] = NoHost
    /\ Refuse(c)

(* The lookup is under r.mu, which is released before the client is added. *)
BugLookupAdds(c) ==  \* the client is added in the same section
    /\ Goto(c, "first", "found")
    /\ First(c, "client_join")
    /\ LET h == sessions[Next1(c).data] IN
         /\ h # NoHost
         /\ sess' = [sess EXCEPT ![c] = h]
         /\ clients' = [clients EXCEPT ![h] = @ \cup {c}]
    /\ Take(c)
    /\ UNCHANGED <<link, toPeer, registry, shutdown>>

LookupSession(c) ==
    /\ Goto(c, "first", "found")
    /\ First(c, "client_join")
    /\ LET h == sessions[Next1(c).data] IN
         /\ h # NoHost
         /\ sess' = [sess EXCEPT ![c] = h]
    /\ Take(c)
    /\ UNCHANGED <<link, toPeer, registry, clients, shutdown>>

AckJoin(c) ==
    /\ Goto(c, "found", "acked")
    /\ Write({c}, Msg("session_joined", c, NoData))
    /\ UNCHANGED <<link, toRelay, registry, clients, sess, shutdown>>

AddClient(c) ==
    /\ Goto(c, "acked", "added")
    /\ clients' = [clients EXCEPT ![sess[c]] = @ \cup {c}]
    /\ UNCHANGED <<wireVars, registry, sess, shutdown>>

BugNotifyOfFirst(c) ==  \* only the first member is announced
    /\ Goto(c, "added", "serving")
    /\ IF clients[sess[c]] = {c} THEN Write({sess[c]}, Msg("joined", c, NoData))
                                ELSE UNCHANGED toPeer
    /\ UNCHANGED <<link, toRelay, registry, clients, sess, shutdown>>

NotifyJoined(c) ==
    /\ Goto(c, "added", "serving")
    /\ Write({sess[c]}, Msg("joined", c, NoData))
    /\ UNCHANGED <<link, toRelay, registry, clients, sess, shutdown>>

(* The relay overwrites client_id.  A write to a host whose end is cut may *)
(* succeed into the socket buffer, or fail; to a closed one it fails.      *)
ForwardFromClient(c) ==
    /\ pc[c] = "serving"
    /\ Incoming(c)
    /\ LET m == Next1(c) IN
         IF m.type \in ClientForwards
           THEN /\ link[sess[c]] # "closed"
                /\ Write({sess[c]}, Msg(m.type, c, m.data))
           ELSE UNCHANGED toPeer
    /\ Take(c)
    /\ UNCHANGED <<link, relayVars>>

ForwardFails(c) ==
    /\ Goto(c, "serving", "leaving")
    /\ Incoming(c)
    /\ Next1(c).type \in ClientForwards
    /\ link[sess[c]] \in {"cut", "closed"}
    /\ Take(c)
    /\ UNCHANGED <<link, toPeer, registry, clients, sess, shutdown>>

BugReturnsAtOnce(c) ==  \* the read loop returns past the deferred function
    /\ Goto(c, "serving", "done")
    /\ ReadFails(c)
    /\ UNCHANGED <<wireVars, registry, clients, sess, shutdown>>

ClientReadFails(c) ==
    /\ Goto(c, "serving", "leaving")
    /\ ReadFails(c)
    /\ UNCHANGED <<wireVars, registry, clients, sess, shutdown>>

(* The deferred function: conn.Close, delete from the map, notify the host.*)
BugNotClosed(c) ==  \* conn.Close() is missing
    /\ Goto(c, "leaving", "removing")
    /\ UNCHANGED <<wireVars, registry, clients, sess, shutdown>>

Disconnect(c) ==
    /\ Goto(c, "leaving", "removing")
    /\ Close({c})
    /\ UNCHANGED <<toPeer, registry, clients, sess, shutdown>>

BugNotRemoved(c) ==  \* the delete is missing
    /\ Goto(c, "removing", "notifying")
    /\ UNCHANGED <<wireVars, registry, clients, sess, shutdown>>

BugLeftTwice(c) ==  \* "left" is also sent here
    /\ Goto(c, "removing", "notifying")
    /\ clients' = [clients EXCEPT ![sess[c]] = @ \ {c}]
    /\ Write({sess[c]}, Msg("left", c, NoData))
    /\ UNCHANGED <<link, toRelay, registry, sess, shutdown>>

RemoveClient(c) ==
    /\ Goto(c, "removing", "notifying")
    /\ clients' = [clients EXCEPT ![sess[c]] = @ \ {c}]
    /\ UNCHANGED <<wireVars, registry, sess, shutdown>>

BugLeftSwapped(c) ==  \* two arguments change places
    /\ Goto(c, "notifying", "done")
    /\ Write({sess[c]}, Msg("left", NoData, c))
    /\ UNCHANGED <<link, toRelay, registry, clients, sess, shutdown>>

NotifyLeft(c) ==
    /\ Goto(c, "notifying", "done")
    /\ Write({sess[c]}, Msg("left", c, NoData))
    /\ UNCHANGED <<link, toRelay, registry, clients, sess, shutdown>>

---------------------------------------------------------------------------
(* CloseAllSessions, called once when the process is told to stop          *)

SnapshotSessions ==
    /\ ~stopping
    /\ stopping' = TRUE
    /\ snapshot' = {h \in Hosts : \E k \in Codes : sessions[k] = h}
    /\ UNCHANGED <<wireVars, registry, clients, pc, sess, current>>

CloseSnapshotHost(h) ==
    /\ current = NoHost
    /\ h \in snapshot
    /\ current' = h
    /\ Close({h})
    /\ UNCHANGED <<toPeer, registry, clients, pc, sess, stopping, snapshot>>

CloseSnapshotClients(h) ==
    /\ current = h
    /\ current' = NoHost
    /\ snapshot' = snapshot \ {h}
    /\ Close(clients[h])
    /\ UNCHANGED <<toPeer, registry, clients, pc, sess, stopping>>

---------------------------------------------------------------------------
HostHandler(h) ==
    \/ FirstReadFails(h) \/ RejectFirst(h)
    \/ RegisterHost(h) \/ RejectHost(h) \/ ForwardFromHost(h)
    \/ Unregister(h) \/ CloseHostConn(h) \/ CloseMembers(h)

ClientHandler(c) ==
    \/ FirstReadFails(c) \/ RejectFirst(c)
    \/ RateLimited(c) \/ SessionNotFound(c) \/ LookupSession(c)
    \/ AckJoin(c) \/ AddClient(c) \/ NotifyJoined(c)
    \/ ForwardFromClient(c) \/ ForwardFails(c) \/ ClientReadFails(c)
    \/ Disconnect(c) \/ RemoveClient(c) \/ NotifyLeft(c)

CloseAllSessions(h) == CloseSnapshotHost(h) \/ CloseSnapshotClients(h)

===========================================================================
