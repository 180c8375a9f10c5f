---------------------------- MODULE RelaySystem ----------------------------
(***************************************************************************)
(* The relay together with peers that do whatever the protocol lets them:  *)
(* register, join, send any frame with any client_id, read what they are   *)
(* sent, stall, and vanish.  The peers stand for the host and client       *)
(* programs (and the browser client) seen from the relay; the data of a    *)
(* frame a peer sends names that peer, so that a frame can be traced.      *)
(***************************************************************************)
EXTENDS Relay

CONSTANTS
    HostTypes, ClientTypes,  \* frame types the peers send after the first
    FirstTypes,              \* wrong types they may send first
    HostFrames,              \* bound on the frames a host sends
    ClientFrames,            \* bound on the frames a client sends
    MaxConns,                \* bound on the connections that are dialled
    CanStop                  \* whether the relay may be told to stop

ASSUME FramesNat == HostFrames \in Nat /\ ClientFrames \in Nat
ASSUME ConnsNat == MaxConns \in Nat
ASSUME StopBoolean == CanStop \in BOOLEAN
ASSUME PeerTypes ==
    HostTypes \cup ClientTypes \cup FirstTypes
        \subseteq MsgType \ {"host_register", "client_join"}
ASSUME Traceable == Conns \subseteq Data

VARIABLES
    sent,   \* how many frames each peer has sent
    seen    \* what each host has been told of each client

peerVars == <<sent, seen>>
vars == <<wireVars, relayVars, peerVars>>

Presence == {"new", "present", "gone"}

TypeOK ==
    /\ WireTypeOK
    /\ RelayTypeOK
    /\ sent \in [Conns -> Nat]
    /\ seen \in [Hosts -> [Clients -> Presence]]

Init ==
    /\ WireInit
    /\ RelayInit
    /\ sent = [x \in Conns |-> 0]
    /\ seen = [h \in Hosts |-> [c \in Clients |-> "new"]]

---------------------------------------------------------------------------
(* The peers                                                               *)

Opening(x) ==
    {Msg(IF x \in Hosts THEN "host_register" ELSE "client_join", NoClient, k) :
        k \in Codes}
        \cup {Msg(t, NoClient, NoData) : t \in FirstTypes}

Following(x) ==
    {Msg(t, c, x) : t \in IF x \in Hosts THEN HostTypes ELSE ClientTypes,
                    c \in Clients \cup {NoClient}}

PeerSend(x) ==
    /\ link[x] \in Up
    /\ sent[x] < IF x \in Hosts THEN HostFrames ELSE ClientFrames
    /\ \E m \in IF sent[x] = 0 THEN Opening(x) ELSE Following(x) :
         Send(x, m)
    /\ sent' = [sent EXCEPT ![x] = @ + 1]
    /\ UNCHANGED <<link, toPeer, relayVars, seen>>

(* A host keeps track of its clients from the peer events it reads.        *)
Told(h, m) ==
    CASE m.type = "joined" -> [seen EXCEPT ![h][m.client] = "present"]
      [] m.type = "left"   -> [seen EXCEPT ![h][m.client] = "gone"]
      [] OTHER             -> seen

PeerRead(x) ==
    /\ Arrived(x)
    /\ Get(x)
    /\ seen' = IF x \in Hosts THEN Told(x, Got(x)) ELSE seen
    /\ UNCHANGED <<link, toRelay, relayVars, sent>>

(* The peer goes away; or, once the relay has closed the connection, the   *)
(* frames still on their way are lost.                                     *)
PeerGone(x) ==
    /\ link[x] \in Up \cup {"closed"}
    /\ Hangup(x)
    /\ UNCHANGED <<toRelay, relayVars, peerVars>>

(* The relay's read deadline passes, or it meets a frame over the limit.   *)
Expire(x) ==
    /\ link[x] = "open"
    /\ link' = [link EXCEPT ![x] = "expired"]
    /\ UNCHANGED <<toRelay, toPeer, relayVars, peerVars>>

---------------------------------------------------------------------------
Dialled == {x \in Conns : link[x] # "none"}

RelayStep ==
    /\ \/ Cardinality(Dialled) < MaxConns /\ \E x \in Conns : Accept(x)
       \/ \E h \in Hosts : HostHandler(h)
       \/ \E c \in Clients : ClientHandler(c)
       \/ CanStop /\ SnapshotSessions
       \/ \E h \in Hosts : CloseAllSessions(h)
    /\ UNCHANGED peerVars

PeerStep ==
    \E x \in Conns : PeerSend(x) \/ PeerRead(x) \/ PeerGone(x) \/ Expire(x)

Next == RelayStep \/ PeerStep

Spec == Init /\ [][Next]_vars

(* Every handler goroutine is scheduled; a peer that is connected keeps    *)
(* reading (if it stops, a write to it blocks: see README).  Nobody is     *)
(* obliged to connect, to send, or to leave.                               *)
Fairness ==
    /\ \A h \in Hosts : WF_vars(HostHandler(h) /\ UNCHANGED peerVars)
    /\ \A c \in Clients : WF_vars(ClientHandler(c) /\ UNCHANGED peerVars)
    /\ \A h \in Hosts : WF_vars(CloseAllSessions(h) /\ UNCHANGED peerVars)
    /\ \A x \in Conns : WF_vars(PeerRead(x))

FairSpec == Spec /\ Fairness

---------------------------------------------------------------------------
(* Safety                                                                  *)

(* A code is registered to a host exactly while that host's handler is in  *)
(* its loop, so the unconditional delete of the deferred function          *)
(* (relay.go:254) never removes a session another host owns.               *)
SessionOwner ==
    \A k \in Codes, h \in Hosts :
        sessions[k] = h <=> pc[h] = "serving" /\ code[h] = k

(* A client is in at most one session's map, the one it looked up, and     *)
(* from AddClient to RemoveClient only: no handler leaves an entry behind. *)
Membership ==
    \A h \in Hosts, c \in Clients :
        c \in clients[h] <=>
            sess[c] = h /\ pc[c] \in {"added", "serving", "leaving", "removing"}

(* Whatever a host reads about a client lies between its one "joined" and  *)
(* its one "left": the notifications and the tagged frames are written by  *)
(* one goroutine, whose order the host sees.                               *)
EventOrder ==
    \A h \in Hosts : Arrived(h) =>
        LET m == Got(h) IN
        m.client # NoClient =>
            seen[h][m.client] = IF m.type = "joined" THEN "new" ELSE "present"

(* No traffic overtakes the answer to a join: the client is added to the   *)
(* map after the ack is written, so the ack is alone in its queue.         *)
AckFirst ==
    \A x \in Conns : \A i \in DOMAIN toPeer[x] :
        toPeer[x][i].type \in {"host_registered", "session_joined"} => i = 1

(* A host that has read "joined" for a client and not yet "left" can       *)
(* address it: the client is in the map for as long as it is connected.    *)
Reachable ==
    \A h \in Hosts, c \in Clients :
        seen[h][c] = "present" /\ link[c] \in Up => c \in clients[h]

(* No frame crosses sessions or misses its addressee, and the client_id a  *)
(* host reads is that of the connection the frame came from, whatever the  *)
(* client wrote there.                                                     *)
Isolation ==
    /\ \A c \in Clients : \A i \in DOMAIN toPeer[c] :
         LET m == toPeer[c][i] IN
         m.type \in HostForwards =>
            m.data = sess[c] /\ m.client \in {c, NoClient}
    /\ \A h \in Hosts : \A i \in DOMAIN toPeer[h] :
         LET m == toPeer[h][i] IN
         m.type \in ClientForwards => m.data = m.client /\ sess[m.client] = h

(* The relay keeps the roster's promises: the registry is the ownership    *)
(* and what the hosts have read so far is the presence.                    *)
Promised == INSTANCE Roster WITH owner <- sessions, presence <- seen
RosterSpec == Promised!Spec

(* relay.go:310: "Hold r.mu while looking up the session and adding the    *)
(* client so that a concurrent host disconnect cannot remove the session   *)
(* in between."                                                            *)
FoundSessionRegistered ==
    \A c \in Clients :
        pc[c] \in {"found", "acked"} => \E k \in Codes : sessions[k] = sess[c]

---------------------------------------------------------------------------
(* Liveness                                                                *)

(* Every departure is reported: a host that has seen a client join is told *)
(* when the connection of that client is lost, unless its own goes too.    *)
DepartureReported ==
    \A h \in Hosts, c \in Clients :
        seen[h][c] = "present" /\ link[c] \notin Up
            ~> seen[h][c] = "gone" \/ link[h] # "open"

(* When a host is lost, every client that is in its map before the last    *)
(* step of the cleanup is disconnected, also one added during the cleanup. *)
(* A shutdown is a loss of every host in its snapshot, so that a client    *)
(* that joins such a host meanwhile is disconnected by the host's cleanup. *)
MembersDisconnected ==
    \A h \in Hosts :
        /\ h \in snapshot ~> link[h] \notin Up
        /\ \A c \in Clients :
             c \in clients[h] /\ link[h] \notin Up /\ pc[h] # "done"
                 ~> link[c] \notin Up

===========================================================================
