------------------------------- MODULE Wire -------------------------------
(***************************************************************************)
(* The WebSocket connections between the relay and its peers: one duplex   *)
(* connection per element of Conns, each direction a reliable FIFO queue   *)
(* while the connection is open.  A connection is dialled at most once; a  *)
(* peer that reconnects is another element.                                *)
(*                                                                         *)
(*   "none"    not dialled yet                                             *)
(*   "open"    both ends are up                                            *)
(*   "expired" both ends are up, but the relay's next read fails: no pong  *)
(*             within the read deadline, or a frame over the size limit    *)
(*   "cut"     the peer's end is gone (it closed, its process died, the    *)
(*             network dropped it): the relay's reads fail sooner or       *)
(*             later, its writes vanish                                    *)
(*   "closed"  the relay called conn.Close()                               *)
(***************************************************************************)
EXTENDS Naturals, Sequences, FiniteSets

CONSTANTS
    Hosts,     \* connections whose first frame asks to host a session
    Clients,   \* connections whose first frame asks to join one
    Codes,     \* session codes
    Data,      \* what a frame carries
    NoClient,  \* an absent client_id
    NoData     \* an absent payload

Conns == Hosts \cup Clients

(* The error texts are not told apart; a peer_event is named by its event. *)
MsgType == {"host_register", "host_registered", "client_join",
            "session_joined", "key_exchange", "verify", "input", "output",
            "resize", "ping", "pong", "joined", "left", "error"}

Message == [type : MsgType, client : Clients \cup {NoClient}, data : Data]

Msg(t, c, d) == [type |-> t, client |-> c, data |-> d]

LinkState == {"none", "open", "expired", "cut", "closed"}
Up == {"open", "expired"}

ASSUME RolesDisjoint == Hosts \cap Clients = {}
ASSUME NoClientFresh == NoClient \notin Clients
ASSUME DataCarriesCodes == Codes \cup {NoData} \subseteq Data

VARIABLES
    link,      \* state of each connection
    toRelay,   \* frames sent by the peer and not read by the relay yet
    toPeer     \* frames written by the relay and not read by the peer yet

wireVars == <<link, toRelay, toPeer>>

WireTypeOK ==
    /\ link \in [Conns -> LinkState]
    /\ toRelay \in [Conns -> Seq(Message)]
    /\ toPeer \in [Conns -> Seq(Message)]

WireInit ==
    /\ link = [x \in Conns |-> "none"]
    /\ toRelay = [x \in Conns |-> << >>]
    /\ toPeer = [x \in Conns |-> << >>]

(* conn.WriteMessage on every connection of S.                             *)
Write(S, m) ==
    toPeer' = [x \in Conns |-> IF x \in S /\ link[x] \in Up
                                 THEN Append(toPeer[x], m)
                                 ELSE toPeer[x]]

(* conn.ReadMessage by the relay: it takes the first frame.                *)
Incoming(x) == toRelay[x] # << >>
Next1(x) == Head(toRelay[x])
Take(x) == toRelay' = [toRelay EXCEPT ![x] = Tail(@)]

(* From then on conn.ReadMessage may report an error, whether or not       *)
(* frames are still buffered.                                              *)
ReadFails(x) == link[x] \in {"expired", "cut", "closed"}

(* conn.Close() by the relay: frames it has not read are discarded, those  *)
(* it has written can still be read by the peer.                           *)
Close(S) ==
    /\ link' = [x \in Conns |-> IF x \in S THEN "closed" ELSE link[x]]
    /\ toRelay' = [x \in Conns |-> IF x \in S THEN << >> ELSE toRelay[x]]

(* The peer's side: its next frame, a write, and the end of the connection *)
(* at its end (frames on their way to it are lost with it).                *)
Arrived(x) == toPeer[x] # << >>
Got(x) == Head(toPeer[x])
Get(x) == toPeer' = [toPeer EXCEPT ![x] = Tail(@)]

Send(x, m) ==
    toRelay' = [toRelay EXCEPT ![x] = IF link[x] \in Up THEN Append(@, m) ELSE @]

Hangup(x) ==
    /\ link' = [link EXCEPT ![x] = IF @ \in Up THEN "cut" ELSE @]
    /\ toPeer' = [toPeer EXCEPT ![x] = << >>]

===========================================================================
