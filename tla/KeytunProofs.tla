---------------------------- MODULE KeytunProofs ----------------------------
(***************************************************************************)
(* Proofs about Keytun, for any number of clients and any passwords: what  *)
(* the connections carry, and what the passwords keep out.                 *)
(***************************************************************************)
EXTENDS Keytun, SequenceTheorems, FiniteSetTheorems, TLAPS

(* The key that the host and a client derive with a password, and what     *)
(* is encrypted with one of a set of keys.                                 *)
SharedKey(c, p) == Derive(HostPub(c), ClientPub(c), p)
HostKeys(c) == {SharedKey(c, p) : p \in {NoPassword, HostPassword}}
OwnKey(c) == SharedKey(c, joinPw[c])
Sealed(keys, plains) == {Seal(k, s) : k \in keys, s \in plains}

Inputs == [input : 1..MaxInput]
Outputs == [output : 1..MaxOutput]
Screen == Inputs \cup Outputs \cup {[banner |-> TRUE]}
Ciphers == Sealed(Keys, Screen)

(* The frames the host sends, those a client sends, and those the relay    *)
(* writes to each.                                                         *)
HostFrame(m) ==
    \/ m.type = "host_register" /\ m.client = NoClient /\ m.data \in Codes
    \/ /\ m.client \in Clients
       /\ \/ m.type \in {"ping", "pong"}
          \/ m.type = "key_exchange" /\ m.data = HostPub(m.client)
          \/ /\ m.type = "verify"
             /\ m.data \in Sealed(HostKeys(m.client), {Challenge})
          \/ /\ m.type = "resize"
             /\ m.data \in Sealed(HostKeys(m.client), {[resize |-> TRUE]})
          \/ m.type = "output" /\ m.data \in Sealed(HostKeys(m.client), Screen)

ClientFrame(c, m) ==
    \/ m.type \in {"ping", "pong"}
    \/ m.type = "key_exchange" /\ m.data = ClientPub(c)
    \/ m.type = "verify" /\ m.data \in Sealed({OwnKey(c)}, {Challenge})
    \/ m.type = "input" /\ m.data \in Sealed({OwnKey(c)}, Inputs)

PeerFrame(x, m) ==
    IF x = Me THEN HostFrame(m)
    ELSE /\ m.client = NoClient
         /\ \/ m.type = "client_join" /\ m.data \in Codes
            \/ ClientFrame(x, m)

RelayFrame(x, m) ==
    \/ m.type = "error"
    \/ IF x = Me
         THEN \/ m.type = "host_registered"
              \/ /\ m.client \in Clients
                 /\ m.type \in {"joined", "left"} \/ ClientFrame(m.client, m)
         ELSE \/ m.type = "session_joined"
              \/ m.client = x /\ HostFrame(m)

PeerSays(x) == {m \in Message : PeerFrame(x, m)}
RelaySays(x) == {m \in Message : RelayFrame(x, m)}

LinkTypes == link \in [Conns -> LinkState]

ToRelayFramed ==
    /\ toRelay = [x \in Conns |-> toRelay[x]]
    /\ \A x \in Conns : toRelay[x] \in Seq(PeerSays(x))

ToPeerFramed ==
    /\ toPeer = [x \in Conns |-> toPeer[x]]
    /\ \A x \in Conns : toPeer[x] \in Seq(RelaySays(x))

Framed == LinkTypes /\ ToRelayFramed /\ ToPeerFramed

(* The host: a session has one key, that of the client's public key.       *)
Flags ==
    /\ hostPc \in HostState
    /\ password \in {NoPassword, HostPassword}
    /\ keyReady \in BOOLEAN /\ sized \in BOOLEAN
    /\ budget \in [output : 0..MaxOutput, resize : 0..MaxResizes,
                   ping : 0..MaxHostPings]

OneKey(c, keys) == keys = {} \/ \E k \in HostKeys(c) \cup {NotReady} : keys = {k}

SessionKeys ==
    /\ crypto = [c \in Clients |-> crypto[c]]
    /\ \A c \in Clients : OneKey(c, crypto[c])
    /\ IsFiniteSet({c \in Clients : crypto[c] # {}})
    /\ verifying \in ReadyClients \cup {NoClient}

Heard == injected \in [Clients -> Seq(Inputs)]

HostTypes == Flags /\ SessionKeys /\ Heard

(* A browser's promises: it encrypts once it has its key, under that key.  *)
Keyholding == {"running", "closed"}
Promised ==
    /\ sealing \in [Clients -> SUBSET (1..MaxInput)]
    /\ \A c \in Clients :
         sealing[c] # {} => clientKey[c] = OwnKey(c) /\ clientPc[c] \in Keyholding
    /\ opening \in [Clients -> Seq(Ciphers)]

(* A client: it has no key, or the one of its password.                    *)
ClientTypes ==
    /\ clientPc \in [Clients -> ClientState]
    /\ joinPw \in [Clients -> Passwords \cup {NoPassword}]
    /\ \A c \in Browsers : joinPw[c] = NoPassword
    /\ clientKey \in [Clients -> Keys \cup {NotReady}]
    /\ \A c \in Clients :
         /\ clientKey[c] = NotReady \/ clientKey[c] = OwnKey(c)
         /\ clientPc[c] = "running" => clientKey[c] = OwnKey(c)
         /\ clientPc[c] \in {"keygen", "deriving"} => c \in Browsers
         /\ clientPc[c] = "deriving" => peerPub[c] = HostPub(c)
    /\ DOMAIN peerPub = Clients
    /\ callback \in [Clients -> BOOLEAN]
    /\ typed \in [Clients -> 0..MaxInput]
    /\ shown \in [Clients -> Seq(Screen \cup Ciphers)]
    /\ Promised

(* A client's handler that has found a session writes to the host.         *)
Attached ==
    {"found", "acked", "added", "serving", "leaving", "removing", "notifying"}
Located == \A c \in Clients : pc[c] \in Attached => sess[c] = Me
Relaying == RelayTypeOK /\ Located

Inv == Relaying /\ Framed /\ HostTypes /\ ClientTypes

---------------------------------------------------------------------------
(* The frames are messages.                                                *)

LEMMA OneHostFacts ==
    /\ Me \in Hosts /\ Hosts = {Me} /\ Me \notin Clients /\ Me \in Conns
    /\ \A c \in Clients : c # Me /\ c \in Conns
    /\ \A x \in Conns : x = Me \/ x \in Clients
    /\ NoClient \notin Clients
  BY OneHost, MeIsHost, RolesDisjoint, NoClientFresh DEF Conns

LEMMA SharedKeyInKeys ==
    ASSUME NEW c \in Clients,
           NEW p \in Passwords \cup {NoPassword, HostPassword}
    PROVE  /\ SharedKey(c, p) \in Keys /\ SharedKey(c, p).password = p
           /\ IsReady(SharedKey(c, p))
           /\ Derive(ClientPub(c), HostPub(c), p) = SharedKey(c, p)
  <1>1. HostPub(c) \in Pubs /\ ClientPub(c) \in Pubs
    BY OneHostFacts DEF HostPub, ClientPub, Pubs
  <1>2. {HostPub(c), ClientPub(c)} \in {{q, r} : q \in Pubs, r \in Pubs}
    BY <1>1
  <1>3. SharedKey(c, p) = [pair |-> {HostPub(c), ClientPub(c)}, password |-> p]
    BY DEF SharedKey, Derive
  <1>4. {HostPub(c), ClientPub(c)} # {} /\ {ClientPub(c), HostPub(c)} = {HostPub(c), ClientPub(c)}
    OBVIOUS
  <1>5. SharedKey(c, p) \in Keys /\ SharedKey(c, p).password = p
    BY <1>2, <1>3, Z3 DEF Keys
  <1>6. SharedKey(c, p).pair # NotReady.pair
    BY <1>3, <1>4 DEF NotReady
  <1> QED BY <1>3, <1>4, <1>5, <1>6 DEF IsReady, Derive

LEMMA SealedPayload ==
    ASSUME NEW K, NEW S, NEW d \in Sealed(K, S)
    PROVE  /\ d.key \in K /\ d.plain \in S /\ "key" \in DOMAIN d
           /\ d = Seal(d.key, d.plain)
           /\ K \subseteq Keys /\ S \subseteq Plains => d \in Data
  <1>1. PICK k \in K, t \in S : d = Seal(k, t)
    BY DEF Sealed
  <1>2. d = [key |-> k, plain |-> t]
    BY <1>1 DEF Seal
  <1>3. d.key = k /\ d.plain = t /\ DOMAIN d = {"key", "plain"}
    BY <1>2
  <1>4. ASSUME K \subseteq Keys, S \subseteq Plains PROVE d \in Data
    <2>1. k \in Keys /\ t \in Plains
      BY <1>4
    <2>2. d \in [key : Keys, plain : Plains]
      BY <1>2, <2>1
    <2> QED BY <2>2, DataCarriesPayloads DEF Payloads, Ciphertexts
  <1> QED BY <1>1, <1>3, <1>4

LEMMA FramePayloads ==
    ASSUME NEW c \in Clients
    PROVE  /\ \A k \in Codes : k \in Data
           /\ NoData \in Data /\ HostPub(c) \in Data /\ ClientPub(c) \in Data
           /\ HostKeys(c) \subseteq Keys
           /\ ClientTypes => OwnKey(c) \in Keys
           /\ Inputs \subseteq Plains /\ Screen \subseteq Plains
           /\ Challenge \in Plains /\ [resize |-> TRUE] \in Plains
  <1>1. HostPub(c) \in Pubs /\ ClientPub(c) \in Pubs
    BY OneHostFacts DEF HostPub, ClientPub, Pubs
  <1>2. Codes \cup {NoData} \cup Pubs \subseteq Data
    BY DataCarriesPayloads DEF Payloads, Ciphertexts
  <1>3. HostKeys(c) \subseteq Keys
    BY SharedKeyInKeys DEF HostKeys
  <1>4. ClientTypes => OwnKey(c) \in Keys
    BY SharedKeyInKeys DEF OwnKey, ClientTypes
  <1>5. /\ Inputs \subseteq Plains /\ Screen \subseteq Plains
        /\ Challenge \in Plains /\ [resize |-> TRUE] \in Plains
    BY DEF Inputs, Outputs, Screen, Plains
  <1> QED BY <1>1, <1>2, <1>3, <1>4, <1>5

---------------------------------------------------------------------------
(* What the operators of Wire make of the queues.                          *)

LEMMA SaysStable ==
    ASSUME joinPw' = joinPw, NEW x
    PROVE  PeerSays(x)' = PeerSays(x) /\ RelaySays(x)' = RelaySays(x)
  <1>1. \A c : OwnKey(c)' = OwnKey(c)
    BY DEF OwnKey
  <1>2. \A c, m : ClientFrame(c, m)' <=> ClientFrame(c, m)
    BY <1>1 DEF ClientFrame
  <1>3. \A m : PeerFrame(x, m)' <=> PeerFrame(x, m)
    BY <1>2 DEF PeerFrame
  <1>4. \A m : RelayFrame(x, m)' <=> RelayFrame(x, m)
    BY <1>2 DEF RelayFrame
  <1> QED BY <1>3, <1>4 DEF PeerSays, RelaySays

LEMMA Untouched ==
    ASSUME Framed, joinPw' = joinPw
    PROVE  /\ link' = link => LinkTypes'
           /\ toRelay' = toRelay => ToRelayFramed'
           /\ toPeer' = toPeer => ToPeerFramed'
  <1>1. link' = link => LinkTypes'
    BY DEF Framed, LinkTypes
  <1>2. ASSUME toRelay' = toRelay PROVE ToRelayFramed'
    BY <1>2, SaysStable DEF Framed, ToRelayFramed
  <1>3. ASSUME toPeer' = toPeer PROVE ToPeerFramed'
    BY <1>3, SaysStable DEF Framed, ToPeerFramed
  <1> QED BY <1>1, <1>2, <1>3

LEMMA HeadIn ==
    ASSUME NEW S, NEW q \in Seq(S), q # << >>
    PROVE  Head(q) \in S /\ Tail(q) \in Seq(S)
  OBVIOUS

LEMMA TakeFramed ==
    ASSUME Framed, joinPw' = joinPw, NEW x \in Conns, Incoming(x)
    PROVE  Next1(x) \in PeerSays(x) /\ (Take(x) => ToRelayFramed')
  <1>1. toRelay[x] \in Seq(PeerSays(x)) /\ toRelay[x] # << >>
    BY DEF Framed, ToRelayFramed, Incoming
  <1>2. Head(toRelay[x]) \in PeerSays(x) /\ Tail(toRelay[x]) \in Seq(PeerSays(x))
    BY <1>1, HeadIn
  <1>3. ASSUME Take(x) PROVE ToRelayFramed'
    <2>1. toRelay' = [toRelay EXCEPT ![x] = Tail(toRelay[x])]
      BY <1>3 DEF Take
    <2>2. ASSUME NEW y \in Conns PROVE toRelay'[y] \in Seq(PeerSays(y))
      BY <1>2, <2>1 DEF Framed, ToRelayFramed
    <2> QED BY <2>1, <2>2, SaysStable DEF Framed, ToRelayFramed
  <1> QED BY <1>2, <1>3 DEF Next1

LEMMA GetFramed ==
    ASSUME Framed, joinPw' = joinPw, NEW x \in Conns, Arrived(x)
    PROVE  Got(x) \in RelaySays(x) /\ (Get(x) => ToPeerFramed')
  <1>1. toPeer[x] \in Seq(RelaySays(x)) /\ toPeer[x] # << >>
    BY DEF Framed, ToPeerFramed, Arrived
  <1>2. Head(toPeer[x]) \in RelaySays(x) /\ Tail(toPeer[x]) \in Seq(RelaySays(x))
    BY <1>1, HeadIn
  <1>3. ASSUME Get(x) PROVE ToPeerFramed'
    <2>1. toPeer' = [toPeer EXCEPT ![x] = Tail(toPeer[x])]
      BY <1>3 DEF Get
    <2> QED BY <1>2, <2>1, SaysStable DEF Framed, ToPeerFramed
  <1> QED BY <1>2, <1>3 DEF Got

LEMMA WriteFramed ==
    ASSUME Framed, joinPw' = joinPw, NEW S, NEW m,
           \A x \in Conns : x \in S => m \in RelaySays(x), Write(S, m)
    PROVE  ToPeerFramed'
  <1>1. ASSUME NEW x \in Conns PROVE toPeer'[x] \in Seq(RelaySays(x))
    <2>1. toPeer[x] \in Seq(RelaySays(x))
      BY DEF Framed, ToPeerFramed
    <2>2. CASE x \in S /\ link[x] \in Up
      <3>1. m \in RelaySays(x) /\ toPeer'[x] = Append(toPeer[x], m)
        BY <2>2 DEF Write
      <3> QED BY <2>1, <3>1, AppendProperties
    <2>3. CASE ~(x \in S /\ link[x] \in Up)
      <3>1. toPeer'[x] = toPeer[x]
        BY <2>3 DEF Write
      <3> QED BY <2>1, <3>1
    <2> QED BY <2>2, <2>3
  <1>2. toPeer' = [x \in Conns |-> toPeer'[x]]
    BY DEF Write
  <1> QED BY <1>1, <1>2, SaysStable DEF ToPeerFramed

LEMMA CloseFramed ==
    ASSUME Framed, joinPw' = joinPw, NEW S, Close(S)
    PROVE  LinkTypes' /\ ToRelayFramed'
  <1>1. LinkTypes'
    BY DEF Framed, LinkTypes, Close, LinkState
  <1>2. ASSUME NEW x \in Conns PROVE toRelay'[x] \in Seq(PeerSays(x))
    <2>1. toRelay[x] \in Seq(PeerSays(x))
      BY DEF Framed, ToRelayFramed
    <2>2. toRelay'[x] = << >> \/ toRelay'[x] = toRelay[x]
      BY DEF Close
    <2>3. \A T : << >> \in Seq(T)
      OBVIOUS
    <2> QED BY <2>1, <2>2, <2>3
  <1>3. toRelay' = [x \in Conns |-> toRelay'[x]]
    BY DEF Close
  <1> QED BY <1>1, <1>2, <1>3, SaysStable DEF ToRelayFramed

LEMMA SendFramed ==
    ASSUME Framed, joinPw' = joinPw, NEW x \in Conns, NEW m \in PeerSays(x), Send(x, m)
    PROVE  ToRelayFramed'
  <1>1. toRelay[x] \in Seq(PeerSays(x))
    BY DEF Framed, ToRelayFramed
  <1>2. Append(toRelay[x], m) \in Seq(PeerSays(x))
    BY <1>1, AppendProperties
  <1>3. \/ toRelay' = [toRelay EXCEPT ![x] = Append(toRelay[x], m)]
        \/ toRelay' = [toRelay EXCEPT ![x] = toRelay[x]]
    BY DEF Send
  <1> QED BY <1>1, <1>2, <1>3, SaysStable DEF Framed, ToRelayFramed

LEMMA HangupFramed ==
    ASSUME Framed, joinPw' = joinPw, NEW x \in Conns, Hangup(x)
    PROVE  LinkTypes' /\ ToPeerFramed'
  <1>1. LinkTypes'
    BY DEF Framed, LinkTypes, Hangup, LinkState
  <1>2. toPeer' = [toPeer EXCEPT ![x] = << >>]
    BY DEF Hangup
  <1>3. \A S : << >> \in Seq(S)
    OBVIOUS
  <1> QED BY <1>1, <1>2, <1>3, SaysStable DEF Framed, ToPeerFramed

(* What the relay writes of its own, and what it passes on.                *)
LEMMA RelayWrites ==
    /\ \A x \in Conns : Msg("error", NoClient, NoData) \in RelaySays(x)
    /\ \A k \in Codes : Msg("host_registered", NoClient, k) \in RelaySays(Me)
    /\ \A c \in Clients : /\ Msg("session_joined", c, NoData) \in RelaySays(c)
                          /\ Msg("joined", c, NoData) \in RelaySays(Me)
                          /\ Msg("left", c, NoData) \in RelaySays(Me)
  <1>1. \A t \in MsgType, c \in Clients \cup {NoClient}, d \in Data :
          /\ Msg(t, c, d) \in Message /\ Msg(t, c, d).type = t
          /\ Msg(t, c, d).client = c /\ Msg(t, c, d).data = d
    BY DEF Msg, Message
  <1>2. NoData \in Data /\ \A k \in Codes : k \in Data
    BY DataCarriesCodes
  <1>3. {"error", "host_registered", "session_joined", "joined", "left"} \subseteq MsgType
    BY DEF MsgType
  <1> QED BY <1>1, <1>2, <1>3, OneHostFacts DEF RelaySays, RelayFrame

LEMMA FromHost ==
    ASSUME NEW m \in PeerSays(Me), m.type \in HostForwards
    PROVE  m.client \in Clients /\ m \in RelaySays(m.client)
  <1>1. m \in Message /\ HostFrame(m)
    BY DEF PeerSays, PeerFrame
  <1>2. m.client \in Clients
    BY <1>1 DEF HostFrame, HostForwards
  <1> QED BY <1>1, <1>2, OneHostFacts DEF RelaySays, RelayFrame

LEMMA FromClient ==
    ASSUME NEW c \in Clients, NEW m \in PeerSays(c), m.type \in ClientForwards
    PROVE  Msg(m.type, c, m.data) \in RelaySays(Me)
  <1>1. m \in Message /\ PeerFrame(c, m) /\ c # Me
    BY OneHostFacts DEF PeerSays
  <1>2. ClientFrame(c, m)
    BY <1>1 DEF PeerFrame, ClientForwards
  <1> DEFINE n == Msg(m.type, c, m.data)
  <1>3. n \in Message /\ n.type = m.type /\ n.client = c /\ n.data = m.data
    BY <1>1 DEF Msg, Message
  <1> HIDE DEF n
  <1>4. ClientFrame(c, n)
    BY <1>2, <1>3 DEF ClientFrame
  <1>5. n \in RelaySays(Me)
    BY <1>3, <1>4 DEF RelaySays, RelayFrame
  <1> QED BY <1>5 DEF n

---------------------------------------------------------------------------
(* The steps of the relay.                                                 *)

LEMMA GotoLocated ==
    ASSUME Relaying, NEW x \in Conns, NEW from, NEW to, Goto(x, from, to), sess' = sess,
           x = Me \/ (to \in Attached => from \in Attached)
    PROVE  Located'
  <1>1. pc \in [Conns -> HandlerState] /\ pc[x] = from /\ pc' = [pc EXCEPT ![x] = to]
    BY DEF Relaying, RelayTypeOK, Goto
  <1> QED BY <1>1, OneHostFacts DEF Relaying, Located

LEMMA EitherHandlerKeeps ==
    ASSUME Relaying, Framed, joinPw' = joinPw, NEW x \in Conns,
           Accept(x) \/ FirstReadFails(x) \/ RejectFirst(x)
    PROVE  Relaying' /\ Framed'
  <1>1. CASE Accept(x)
    <2>1. Relaying'
      <3>1. Located'
        BY <1>1, GotoLocated, OneHostFacts DEF Accept, Attached, registry
      <3>2. RelayTypeOK'
        BY <1>1 DEF Accept, Goto, Relaying, RelayTypeOK, HandlerState, registry, shutdown
      <3> QED BY <3>1, <3>2 DEF Relaying
    <2>2. LinkTypes'
      BY <1>1 DEF Accept, Framed, LinkTypes, LinkState
    <2>3. ToRelayFramed' /\ ToPeerFramed'
      BY <1>1, Untouched DEF Accept
    <2> QED BY <2>1, <2>2, <2>3 DEF Framed
  <1>2. CASE FirstReadFails(x)
    <2>1. Relaying'
      <3>1. Located'
        BY <1>2, GotoLocated, OneHostFacts DEF FirstReadFails, Attached, registry
      <3>2. RelayTypeOK'
        BY <1>2 DEF FirstReadFails, Goto, Relaying, RelayTypeOK, HandlerState, registry, shutdown
      <3> QED BY <3>1, <3>2 DEF Relaying
    <2>2. LinkTypes' /\ ToRelayFramed'
      BY <1>2, CloseFramed DEF FirstReadFails
    <2>3. ToPeerFramed'
      BY <1>2, Untouched DEF FirstReadFails
    <2> QED BY <2>1, <2>2, <2>3 DEF Framed
  <1>3. CASE Refuse(x)
    <2>1. Relaying'
      <3>1. Located'
        BY <1>3, GotoLocated, OneHostFacts DEF Refuse, Attached, registry
      <3>2. RelayTypeOK'
        BY <1>3 DEF Refuse, Goto, Relaying, RelayTypeOK, HandlerState, registry, shutdown
      <3> QED BY <3>1, <3>2 DEF Relaying
    <2>2. LinkTypes' /\ ToRelayFramed'
      BY <1>3, CloseFramed DEF Refuse
    <2>3. ToPeerFramed'
      BY <1>3, WriteFramed, RelayWrites DEF Refuse
    <2> QED BY <2>1, <2>2, <2>3 DEF Framed
  <1> QED BY <1>1, <1>2, <1>3 DEF RejectFirst

LEMMA HostHandlerKeeps ==
    ASSUME Relaying, Framed, joinPw' = joinPw, HostHandler(Me)
    PROVE  Relaying' /\ Framed'
  <1>1. Me \in Hosts /\ Me \in Conns
    BY OneHostFacts
  <1>2. ASSUME First(Me, "host_register") PROVE Incoming(Me) /\ Next1(Me).data \in Codes
    <2>1. Incoming(Me) /\ Next1(Me) \in PeerSays(Me) /\ Next1(Me).type = "host_register"
      BY <1>1, <1>2, TakeFramed DEF First
    <2> QED BY <2>1 DEF PeerSays, PeerFrame, HostFrame
  <1>3. CASE FirstReadFails(Me) \/ RejectFirst(Me)
    BY <1>1, <1>3, EitherHandlerKeeps
  <1>4. CASE RegisterHost(Me)
    <2>1. Incoming(Me) /\ Next1(Me).data \in Codes
      BY <1>2, <1>4 DEF RegisterHost
    <2>2. Relaying'
      <3>1. Located'
        BY <1>1, <1>4, <2>1, GotoLocated, OneHostFacts DEF RegisterHost, Attached, registry
      <3>2. RelayTypeOK'
        BY <1>1, <1>4, <2>1 DEF RegisterHost, Goto, Relaying, RelayTypeOK, HandlerState, shutdown
      <3> QED BY <3>1, <3>2 DEF Relaying
    <2>3. LinkTypes' /\ ToRelayFramed'
      BY <1>1, <1>4, <2>1, Untouched, TakeFramed DEF RegisterHost
    <2>4. Write({Me}, Msg("host_registered", NoClient, Next1(Me).data))
      BY <1>4 DEF RegisterHost
    <2>5. ToPeerFramed'
      BY <2>1, <2>4, WriteFramed, RelayWrites
    <2> QED BY <2>2, <2>3, <2>5 DEF Framed
  <1>5. CASE RejectHost(Me)
    <2>1. Incoming(Me)
      BY <1>2, <1>5 DEF RejectHost
    <2>2. Relaying'
      <3>1. Located'
        BY <1>1, <1>5, GotoLocated, OneHostFacts DEF RejectHost, Attached, registry
      <3>2. RelayTypeOK'
        BY <1>1, <1>5 DEF RejectHost, Goto, Relaying, RelayTypeOK, HandlerState, registry, shutdown
      <3> QED BY <3>1, <3>2 DEF Relaying
    <2>3. LinkTypes' /\ ToRelayFramed'
      BY <1>1, <1>5, <2>1, Untouched, TakeFramed DEF RejectHost
    <2>4. ToPeerFramed'
      BY <1>5, WriteFramed, RelayWrites DEF RejectHost
    <2> QED BY <2>2, <2>3, <2>4 DEF Framed
  <1>6. CASE ForwardFromHost(Me)
    <2>1. Relaying' /\ Incoming(Me) /\ link' = link /\ Take(Me)
      BY <1>6 DEF ForwardFromHost, Relaying, RelayTypeOK, Located, Attached, relayVars
    <2>2. LinkTypes' /\ ToRelayFramed' /\ Next1(Me) \in PeerSays(Me)
      BY <1>1, <2>1, Untouched, TakeFramed
    <2>3. CASE Next1(Me).type \in HostForwards
      <3> DEFINE m == Next1(Me)
      <3>1. m.client \in Clients /\ m \in RelaySays(m.client)
        BY <2>2, <2>3, FromHost
      <3>2. Write(Targets(Me, m), m)
        BY <1>6, <2>3 DEF ForwardFromHost
      <3>3. Targets(Me, m) \subseteq {m.client}
        BY <3>1, NoClientFresh DEF Targets
      <3> HIDE DEF m
      <3>4. ToPeerFramed'
        BY <3>1, <3>2, <3>3, WriteFramed
      <3> QED BY <2>1, <2>2, <3>4 DEF Framed
    <2>4. CASE Next1(Me).type \notin HostForwards
      <3>1. ToPeerFramed'
        BY <1>6, <2>4, Untouched DEF ForwardFromHost
      <3> QED BY <2>1, <2>2, <3>1 DEF Framed
    <2> QED BY <2>3, <2>4
  <1>7. CASE Unregister(Me)
    <2>1. Relaying'
      <3>1. Located'
        BY <1>7, GotoLocated, OneHostFacts DEF Unregister, Attached, registry
      <3>2. RelayTypeOK'
        BY <1>7 DEF Unregister, Goto, Relaying, RelayTypeOK, HandlerState, shutdown
      <3> QED BY <3>1, <3>2 DEF Relaying
    <2>2. Framed'
      BY <1>7, Untouched DEF Unregister, wireVars, Framed
    <2> QED BY <2>1, <2>2
  <1>8. CASE CloseHostConn(Me)
    <2>1. Relaying'
      <3>1. Located'
        BY <1>8, GotoLocated, OneHostFacts DEF CloseHostConn, Attached, registry
      <3>2. RelayTypeOK'
        BY <1>8 DEF CloseHostConn, Goto, Relaying, RelayTypeOK, HandlerState, registry, shutdown
      <3> QED BY <3>1, <3>2 DEF Relaying
    <2>2. LinkTypes' /\ ToRelayFramed' /\ ToPeerFramed'
      BY <1>8, CloseFramed, Untouched DEF CloseHostConn
    <2> QED BY <2>1, <2>2 DEF Framed
  <1>9. CASE CloseMembers(Me)
    <2>1. Relaying'
      <3>1. Located'
        BY <1>9, GotoLocated, OneHostFacts DEF CloseMembers, Attached, registry
      <3>2. RelayTypeOK'
        BY <1>9 DEF CloseMembers, Goto, Relaying, RelayTypeOK, HandlerState, registry, shutdown
      <3> QED BY <3>1, <3>2 DEF Relaying
    <2>2. LinkTypes' /\ ToRelayFramed' /\ ToPeerFramed'
      BY <1>9, CloseFramed, Untouched DEF CloseMembers
    <2> QED BY <2>1, <2>2 DEF Framed
  <1> QED BY <1>3, <1>4, <1>5, <1>6, <1>7, <1>8, <1>9 DEF HostHandler

LEMMA ClientHandlerKeeps ==
    ASSUME Relaying, Framed, joinPw' = joinPw, NEW c \in Clients, ClientHandler(c)
    PROVE  Relaying' /\ Framed'
  <1>1. c \in Conns /\ c # Me /\ Me \in Conns /\ Hosts = {Me}
    BY OneHostFacts
  <1>2. ASSUME First(c, "client_join") PROVE Incoming(c) /\ Next1(c).data \in Codes
    <2>1. Incoming(c) /\ Next1(c) \in PeerSays(c) /\ Next1(c).type = "client_join"
      BY <1>1, <1>2, TakeFramed DEF First
    <2> QED BY <1>1, <2>1 DEF PeerSays, PeerFrame, ClientFrame
  <1>3. CASE FirstReadFails(c) \/ RejectFirst(c)
    BY <1>1, <1>3, EitherHandlerKeeps
  <1>4. CASE RateLimited(c) \/ SessionNotFound(c)
    <2>1. Refuse(c)
      BY <1>4 DEF RateLimited, SessionNotFound
    <2>2. Relaying'
      <3>1. Located'
        BY <2>1, GotoLocated, OneHostFacts DEF Refuse, Attached, registry
      <3>2. RelayTypeOK'
        BY <2>1 DEF Refuse, Goto, Relaying, RelayTypeOK, HandlerState, registry, shutdown
      <3> QED BY <3>1, <3>2 DEF Relaying
    <2>3. LinkTypes' /\ ToRelayFramed'
      BY <2>1, CloseFramed DEF Refuse
    <2>4. ToPeerFramed'
      BY <2>1, WriteFramed, RelayWrites DEF Refuse
    <2> QED BY <2>2, <2>3, <2>4 DEF Framed
  <1>5. CASE LookupSession(c)
    <2>1. Incoming(c) /\ Next1(c).data \in Codes
      BY <1>2, <1>5 DEF LookupSession
    <2>2. Relaying'
      <3>1. Located'
        <4>1. /\ sess' = [sess EXCEPT ![c] = sessions[Next1(c).data]]
              /\ pc' = [pc EXCEPT ![c] = "found"] /\ sessions[Next1(c).data] # NoHost
          BY <1>5 DEF LookupSession, Goto
        <4>2. sessions[Next1(c).data] = Me
          BY <1>1, <2>1, <4>1 DEF Relaying, RelayTypeOK
        <4>3. sess \in [Clients -> Hosts \cup {NoHost}] /\ pc \in [Conns -> HandlerState]
          BY DEF Relaying, RelayTypeOK
        <4>4. sess'[c] = Me
          BY <4>1, <4>2, <4>3
        <4>5. \A d \in Clients : d # c => sess'[d] = sess[d] /\ pc'[d] = pc[d]
          BY <4>1, <4>3, OneHostFacts
        <4> QED BY <4>4, <4>5 DEF Relaying, Located
      <3>2. RelayTypeOK'
        BY <1>5, <2>1 DEF LookupSession, Goto, Relaying, RelayTypeOK, HandlerState, registry, shutdown
      <3> QED BY <3>1, <3>2 DEF Relaying
    <2>3. LinkTypes' /\ ToRelayFramed' /\ ToPeerFramed'
      BY <1>1, <1>5, <2>1, Untouched, TakeFramed DEF LookupSession
    <2> QED BY <2>2, <2>3 DEF Framed
  <1>6. CASE AckJoin(c)
    <2>1. Relaying'
      <3>1. Located'
        BY <1>6, GotoLocated, OneHostFacts DEF AckJoin, Attached, registry
      <3>2. RelayTypeOK'
        BY <1>6 DEF AckJoin, Goto, Relaying, RelayTypeOK, HandlerState, registry, shutdown
      <3> QED BY <3>1, <3>2 DEF Relaying
    <2>2. LinkTypes' /\ ToRelayFramed'
      BY <1>6, Untouched DEF AckJoin
    <2>3. ToPeerFramed'
      BY <1>6, WriteFramed, RelayWrites DEF AckJoin
    <2> QED BY <2>1, <2>2, <2>3 DEF Framed
  <1>7. CASE AddClient(c)
    <2>1. Relaying'
      <3>1. Located'
        BY <1>7, GotoLocated, OneHostFacts DEF AddClient, Attached, registry
      <3>2. RelayTypeOK'
        BY <1>7 DEF AddClient, Goto, Relaying, RelayTypeOK, HandlerState, registry, shutdown
      <3> QED BY <3>1, <3>2 DEF Relaying
    <2>2. Framed'
      BY <1>7, Untouched DEF AddClient, wireVars, Framed
    <2> QED BY <2>1, <2>2
  <1>8. ASSUME pc[c] \in Attached, NEW m \in RelaySays(Me), Write({sess[c]}, m)
        PROVE  ToPeerFramed'
    BY <1>8, WriteFramed DEF Relaying, Located
  <1>9. CASE NotifyJoined(c)
    <2>1. Relaying'
      <3>1. Located'
        BY <1>9, GotoLocated, OneHostFacts DEF NotifyJoined, Attached, registry
      <3>2. RelayTypeOK'
        BY <1>9 DEF NotifyJoined, Goto, Relaying, RelayTypeOK, HandlerState, registry, shutdown
      <3> QED BY <3>1, <3>2 DEF Relaying
    <2>2. LinkTypes' /\ ToRelayFramed'
      BY <1>9, Untouched DEF NotifyJoined
    <2>3. ToPeerFramed'
      BY <1>8, <1>9, RelayWrites DEF NotifyJoined, Goto, Attached
    <2> QED BY <2>1, <2>2, <2>3 DEF Framed
  <1>10. CASE ForwardFromClient(c)
    <2>1. Relaying' /\ Incoming(c) /\ link' = link /\ Take(c)
      BY <1>10 DEF ForwardFromClient, Relaying, RelayTypeOK, Located, Attached, relayVars
    <2>2. LinkTypes' /\ ToRelayFramed' /\ Next1(c) \in PeerSays(c)
      BY <1>1, <2>1, Untouched, TakeFramed
    <2>3. CASE Next1(c).type \in ClientForwards
      <3>1. Msg(Next1(c).type, c, Next1(c).data) \in RelaySays(Me)
        BY <2>2, <2>3, FromClient
      <3>2. Write({sess[c]}, Msg(Next1(c).type, c, Next1(c).data))
        BY <1>10, <2>3 DEF ForwardFromClient
      <3>3. ToPeerFramed'
        BY <1>8, <1>10, <3>1, <3>2 DEF ForwardFromClient, Attached
      <3> QED BY <2>1, <2>2, <3>3 DEF Framed
    <2>4. CASE Next1(c).type \notin ClientForwards
      <3>1. ToPeerFramed'
        BY <1>10, <2>4, Untouched DEF ForwardFromClient
      <3> QED BY <2>1, <2>2, <3>1 DEF Framed
    <2> QED BY <2>3, <2>4
  <1>11. CASE ForwardFails(c)
    <2>1. Relaying'
      <3>1. Located'
        BY <1>11, GotoLocated, OneHostFacts DEF ForwardFails, Attached, registry
      <3>2. RelayTypeOK'
        BY <1>11 DEF ForwardFails, Goto, Relaying, RelayTypeOK, HandlerState, registry, shutdown
      <3> QED BY <3>1, <3>2 DEF Relaying
    <2>2. LinkTypes' /\ ToRelayFramed' /\ ToPeerFramed'
      BY <1>1, <1>11, Untouched, TakeFramed DEF ForwardFails
    <2> QED BY <2>1, <2>2 DEF Framed
  <1>12. CASE ClientReadFails(c)
    <2>1. Relaying'
      <3>1. Located'
        BY <1>12, GotoLocated, OneHostFacts DEF ClientReadFails, Attached, registry
      <3>2. RelayTypeOK'
        BY <1>12 DEF ClientReadFails, Goto, Relaying, RelayTypeOK, HandlerState, registry, shutdown
      <3> QED BY <3>1, <3>2 DEF Relaying
    <2>2. Framed'
      BY <1>12, Untouched DEF ClientReadFails, wireVars, Framed
    <2> QED BY <2>1, <2>2
  <1>13. CASE Disconnect(c)
    <2>1. Relaying'
      <3>1. Located'
        BY <1>13, GotoLocated, OneHostFacts DEF Disconnect, Attached, registry
      <3>2. RelayTypeOK'
        BY <1>13 DEF Disconnect, Goto, Relaying, RelayTypeOK, HandlerState, registry, shutdown
      <3> QED BY <3>1, <3>2 DEF Relaying
    <2>2. LinkTypes' /\ ToRelayFramed' /\ ToPeerFramed'
      BY <1>13, CloseFramed, Untouched DEF Disconnect
    <2> QED BY <2>1, <2>2 DEF Framed
  <1>14. CASE RemoveClient(c)
    <2>1. Relaying'
      <3>1. Located'
        BY <1>14, GotoLocated, OneHostFacts DEF RemoveClient, Attached, registry
      <3>2. RelayTypeOK'
        BY <1>14 DEF RemoveClient, Goto, Relaying, RelayTypeOK, HandlerState, registry, shutdown
      <3> QED BY <3>1, <3>2 DEF Relaying
    <2>2. Framed'
      BY <1>14, Untouched DEF RemoveClient, wireVars, Framed
    <2> QED BY <2>1, <2>2
  <1>15. CASE NotifyLeft(c)
    <2>1. Relaying'
      <3>1. Located'
        BY <1>15, GotoLocated, OneHostFacts DEF NotifyLeft, Attached, registry
      <3>2. RelayTypeOK'
        BY <1>15 DEF NotifyLeft, Goto, Relaying, RelayTypeOK, HandlerState, registry, shutdown
      <3> QED BY <3>1, <3>2 DEF Relaying
    <2>2. LinkTypes' /\ ToRelayFramed'
      BY <1>15, Untouched DEF NotifyLeft
    <2>3. ToPeerFramed'
      BY <1>8, <1>15, RelayWrites DEF NotifyLeft, Goto, Attached
    <2> QED BY <2>1, <2>2, <2>3 DEF Framed
  <1> QED BY <1>3, <1>4, <1>5, <1>6, <1>7, <1>9, <1>10, <1>11, <1>12, <1>13, <1>14,
             <1>15 DEF ClientHandler

---------------------------------------------------------------------------
(* The steps of a client.                                                  *)

LEMMA ClientSends ==
    ASSUME ClientTypes, NEW c \in Clients
    PROVE  /\ \A k \in Codes : Msg("client_join", NoClient, k) \in PeerSays(c)
           /\ Msg("key_exchange", NoClient, ClientPub(c)) \in PeerSays(c)
           /\ Msg("verify", NoClient, VerifyToken(OwnKey(c))) \in PeerSays(c)
           /\ \A t \in {"ping", "pong"} : Msg(t, NoClient, NoData) \in PeerSays(c)
           /\ \A n \in 1..MaxInput :
                Msg("input", NoClient, Seal(OwnKey(c), [input |-> n])) \in PeerSays(c)
  <1>1. \A t \in MsgType, d \in Data :
          /\ Msg(t, NoClient, d) \in Message /\ Msg(t, NoClient, d).type = t
          /\ Msg(t, NoClient, d).client = NoClient /\ Msg(t, NoClient, d).data = d
    BY DEF Msg, Message
  <1>2. {"client_join", "key_exchange", "verify", "input", "ping", "pong"} \subseteq MsgType
    BY DEF MsgType
  <1>3. ASSUME NEW t \in MsgType, NEW d \in Data,
               \/ t = "client_join" /\ d \in Codes
               \/ t \in {"ping", "pong"}
               \/ t = "key_exchange" /\ d = ClientPub(c)
               \/ t = "verify" /\ d \in Sealed({OwnKey(c)}, {Challenge})
               \/ t = "input" /\ d \in Sealed({OwnKey(c)}, Inputs)
        PROVE  Msg(t, NoClient, d) \in PeerSays(c)
    BY <1>1, <1>3, OneHostFacts DEF PeerSays, PeerFrame, ClientFrame
  <1>4. /\ \A k \in Codes : k \in Data
        /\ NoData \in Data /\ ClientPub(c) \in Data /\ {OwnKey(c)} \subseteq Keys
        /\ Inputs \subseteq Plains /\ {Challenge} \subseteq Plains
    BY FramePayloads
  <1>5. VerifyToken(OwnKey(c)) \in Sealed({OwnKey(c)}, {Challenge})
    BY DEF VerifyToken, Sealed
  <1>6. \A n \in 1..MaxInput :
          Seal(OwnKey(c), [input |-> n]) \in Sealed({OwnKey(c)}, Inputs)
    BY DEF Sealed, Inputs
  <1>7. VerifyToken(OwnKey(c)) \in Data
    BY <1>4, <1>5, SealedPayload
  <1>8. ASSUME NEW n \in 1..MaxInput PROVE Seal(OwnKey(c), [input |-> n]) \in Data
    <2>1. Seal(OwnKey(c), [input |-> n]) \in Sealed({OwnKey(c)}, Inputs)
      BY <1>6
    <2> QED BY <1>4, <2>1, SealedPayload
  <1> QED BY <1>2, <1>3, <1>4, <1>5, <1>6, <1>7, <1>8

LEMMA CiphersAre == ASSUME NEW c \in Clients PROVE Sealed(HostKeys(c), Screen) \subseteq Ciphers
  BY FramePayloads DEF Sealed, Ciphers

LEMMA RemoveAtSeq ==
    ASSUME NEW S, NEW s \in Seq(S), NEW i \in DOMAIN s PROVE RemoveAt(s, i) \in Seq(S)
  <1>1. /\ i \in 1..Len(s) /\ Len(s) \in Nat /\ i - 1 \in Nat
    OBVIOUS
  <1>2. SubSeq(s, 1, i - 1) \in Seq(S) /\ SubSeq(s, i + 1, Len(s)) \in Seq(S)
    BY <1>1
  <1>3. SubSeq(s, 1, i - 1) \o SubSeq(s, i + 1, Len(s)) \in Seq(S)
    BY <1>2
  <1> QED BY <1>3 DEF RemoveAt

LEMMA ClientGets ==
    ASSUME NEW c \in Clients, NEW m \in RelaySays(c)
    PROVE  /\ m.type = "key_exchange" => m.data = HostPub(c)
           /\ m.type = "output" => m.data \in Sealed(HostKeys(c), Screen)
  <1>1. RelayFrame(c, m) /\ c # Me
    BY OneHostFacts DEF RelaySays
  <1> QED BY <1>1 DEF RelayFrame, HostFrame

(* What a step may do to the program of one client.                        *)
ClientMoves(c) ==
    /\ joinPw' = joinPw
    /\ \E to \in ClientState :
         /\ clientPc' = [clientPc EXCEPT ![c] = to]
         /\ to = "running" => clientKey'[c] = OwnKey(c)
         /\ to \in {"keygen", "deriving"} => c \in Browsers
         /\ to = "deriving" => peerPub'[c] = HostPub(c)
         /\ clientPc[c] \in Keyholding => to \in Keyholding
    /\ clientKey' = clientKey \/ clientKey' = [clientKey EXCEPT ![c] = OwnKey(c)]
    /\ \/ peerPub' = peerPub
       \/ peerPub' = [peerPub EXCEPT ![c] = HostPub(c)]
    /\ \/ typed' = typed
       \/ typed[c] < MaxInput /\ typed' = [typed EXCEPT ![c] = typed[c] + 1]
    /\ callback' = callback \/ callback' = [callback EXCEPT ![c] = TRUE]
    /\ \/ shown' = shown
       \/ \E t \in Screen \cup Ciphers :
            shown' = [shown EXCEPT ![c] = Append(shown[c], t)]
    /\ \/ sealing' = sealing
       \/ \E S \in SUBSET (1..MaxInput) :
            /\ clientKey[c] = OwnKey(c) /\ clientPc[c] \in Keyholding
            /\ sealing' = [sealing EXCEPT ![c] = S]
    /\ \/ opening' = opening
       \/ \E s \in Seq(Ciphers) : opening' = [opening EXCEPT ![c] = s]

LEMMA MovesTo ==
    ASSUME NEW c, NEW from, NEW to \in ClientState, Move(c, from, to), joinPw' = joinPw,
           from \notin {"running", "closed"},
           to = "running" => clientKey'[c] = OwnKey(c),
           to \in {"keygen", "deriving"} => c \in Browsers,
           to = "deriving" => peerPub'[c] = HostPub(c),
           clientKey' = clientKey \/ clientKey' = [clientKey EXCEPT ![c] = OwnKey(c)],
           peerPub' = peerPub \/ peerPub' = [peerPub EXCEPT ![c] = HostPub(c)],
           typed' = typed, shown' = shown, UNCHANGED promises,
           callback' = callback \/ callback' = [callback EXCEPT ![c] = TRUE]
    PROVE  ClientMoves(c)
  BY DEF ClientMoves, Move, promises, Keyholding

LEMMA States ==
    {"joining", "exchanging", "verifying", "keygen", "deriving", "running"}
      \subseteq ClientState
  BY DEF ClientState

LEMMA ClientMovesKeep ==
    ASSUME ClientTypes, NEW c \in Clients, ClientMoves(c)
    PROVE  ClientTypes'
  <1>1. joinPw' = joinPw /\ \A d : OwnKey(d)' = OwnKey(d)
    BY DEF ClientMoves, OwnKey
  <1>2. PICK to \in ClientState :
          /\ clientPc' = [clientPc EXCEPT ![c] = to]
          /\ to = "running" => clientKey'[c] = OwnKey(c)
          /\ to \in {"keygen", "deriving"} => c \in Browsers
          /\ to = "deriving" => peerPub'[c] = HostPub(c)
          /\ clientPc[c] \in Keyholding => to \in Keyholding
    BY DEF ClientMoves
  <1>3. clientPc' \in [Clients -> ClientState] /\ clientPc'[c] = to
        /\ \A d \in Clients : d # c => clientPc'[d] = clientPc[d]
    BY <1>2 DEF ClientTypes
  <1>4. /\ clientKey' \in [Clients -> Keys \cup {NotReady}]
        /\ clientKey'[c] = clientKey[c] \/ clientKey'[c] = OwnKey(c)
        /\ \A d \in Clients : d # c => clientKey'[d] = clientKey[d]
    <2>1. OwnKey(c) \in Keys
      BY FramePayloads
    <2>2. clientKey \in [Clients -> Keys \cup {NotReady}]
      BY DEF ClientTypes
    <2>3. clientKey' = clientKey \/ clientKey' = [clientKey EXCEPT ![c] = OwnKey(c)]
      BY DEF ClientMoves
    <2> QED BY <2>1, <2>2, <2>3
  <1>5. DOMAIN peerPub' = Clients /\ \A d \in Clients : d # c => peerPub'[d] = peerPub[d]
    BY DEF ClientTypes, ClientMoves
  <1>6. ASSUME NEW d \in Clients
        PROVE  /\ clientKey'[d] = NotReady \/ clientKey'[d] = OwnKey(d)
               /\ clientPc'[d] = "running" => clientKey'[d] = OwnKey(d)
               /\ clientPc'[d] \in {"keygen", "deriving"} => d \in Browsers
               /\ clientPc'[d] = "deriving" => peerPub'[d] = HostPub(d)
    BY <1>2, <1>3, <1>4, <1>5 DEF ClientTypes
  <1>7. typed' \in [Clients -> 0..MaxInput]
    <2>1. typed \in [Clients -> 0..MaxInput] /\ MaxInput \in Nat
      BY ClientBoundsNat DEF ClientTypes
    <2>2. typed[c] < MaxInput => typed[c] + 1 \in 0..MaxInput
      BY <2>1
    <2>3. \/ typed' = typed
          \/ typed[c] < MaxInput /\ typed' = [typed EXCEPT ![c] = typed[c] + 1]
      BY DEF ClientMoves
    <2> QED BY <2>1, <2>2, <2>3
  <1>8. shown' \in [Clients -> Seq(Screen \cup Ciphers)]
    <2> DEFINE S == Screen \cup Ciphers
    <2>1. shown \in [Clients -> Seq(S)]
          /\ \/ shown' = shown
             \/ \E t \in S : shown' = [shown EXCEPT ![c] = Append(shown[c], t)]
      BY DEF ClientTypes, ClientMoves
    <2> HIDE DEF S
    <2>2. \A t \in S : Append(shown[c], t) \in Seq(S)
      BY <2>1
    <2>3. shown' \in [Clients -> Seq(S)]
      BY <2>1, <2>2
    <2> QED BY <2>3 DEF S
  <1>9. callback' \in [Clients -> BOOLEAN]
    <2>1. /\ callback \in [Clients -> BOOLEAN]
          /\ callback' = callback \/ callback' = [callback EXCEPT ![c] = TRUE]
      BY DEF ClientTypes, ClientMoves
    <2> QED BY <2>1
  <1>10. Promised'
    <2> DEFINE S == SUBSET (1..MaxInput)
               T == Seq(Ciphers)
    <2>1. /\ sealing \in [Clients -> S] /\ opening \in [Clients -> T]
          /\ \A d \in Clients :
               sealing[d] # {} => clientKey[d] = OwnKey(d) /\ clientPc[d] \in Keyholding
      BY DEF ClientTypes, Promised
    <2>2. /\ \/ sealing' = sealing
             \/ \E z \in S : /\ clientKey[c] = OwnKey(c) /\ clientPc[c] \in Keyholding
                              /\ sealing' = [sealing EXCEPT ![c] = z]
          /\ opening' = opening \/ \E z \in T : opening' = [opening EXCEPT ![c] = z]
      BY DEF ClientMoves
    <2> HIDE DEF S, T
    <2>3. sealing' \in [Clients -> S] /\ opening' \in [Clients -> T]
      BY <2>1, <2>2
    <2>4. ASSUME NEW d \in Clients, sealing'[d] # {}
          PROVE  clientKey'[d] = OwnKey(d) /\ clientPc'[d] \in Keyholding
      <3>1. CASE d = c
        <4>1. clientKey[c] = OwnKey(c) /\ clientPc[c] \in Keyholding
          BY <2>1, <2>2, <2>4, <3>1
        <4> QED BY <1>2, <1>3, <1>4, <3>1, <4>1
      <3>2. CASE d # c
        BY <1>3, <1>4, <2>1, <2>2, <2>4, <3>2
      <3> QED BY <3>1, <3>2
    <2> QED BY <1>1, <2>3, <2>4 DEF Promised, S, T
  <1> QED BY <1>1, <1>3, <1>4, <1>5, <1>6, <1>7, <1>8, <1>9, <1>10 DEF ClientTypes

LEMMA ClientUntouched == ASSUME ClientTypes, UNCHANGED clientVars PROVE ClientTypes'
  BY DEF ClientTypes, Promised, clientVars, promises, OwnKey

LEMMA ClientStepKeeps ==
    ASSUME ClientTypes, Framed, NEW c \in Clients, ClientStep(c)
    PROVE  joinPw' = joinPw /\ ClientTypes' /\ Framed'
  <1>1. c \in Conns
    BY OneHostFacts
  <1>2. joinPw' = joinPw
    BY DEF ClientStep, ClientHandshake, ClientReadLoop, Join, OnSessionJoined, OnHostKey,
           OnHostVerify, HandshakeFails, Fail, SetOnOutput, OnOutput, OnHostPing, OnOther,
           SendInput, LatencyPings, CloseClient, ReadLoopFails, BrowserJoined,
           KeyPairGenerated, BrowserKey, KeyDerived, BrowserUnawaited, BrowserTimeout,
           BrowserInput, InputEncrypted, BrowserOutput, OutputDecrypted, BrowserSettles,
           clientVars
  <1>3. clientPc \in [Clients -> ClientState]
        /\ clientPc = [clientPc EXCEPT ![c] = clientPc[c]]
    BY DEF ClientTypes
  <1>4. CASE Join(c)
    <2>1. ClientMoves(c)
      BY <1>4, MovesTo, States DEF Join
    <2>2. link' = link /\ toPeer' = toPeer
          /\ \E k \in Codes : Send(c, Msg("client_join", NoClient, k))
      BY <1>4 DEF Join
    <2>3. LinkTypes' /\ ToRelayFramed' /\ ToPeerFramed'
      BY <1>1, <1>2, <2>2, Untouched, SendFramed, ClientSends
    <2> QED BY <1>2, <2>1, <2>3, ClientMovesKeep DEF Framed
  <1>5. CASE OnSessionJoined(c)
    <2>1. ClientMoves(c)
      BY <1>5, MovesTo, States DEF OnSessionJoined
    <2>2. link' = link /\ Arrived(c) /\ Get(c)
          /\ Send(c, Msg("key_exchange", NoClient, ClientPub(c)))
      BY <1>5 DEF OnSessionJoined, ClientReads, SendKeyExchange
    <2>3. LinkTypes' /\ ToRelayFramed' /\ ToPeerFramed'
      BY <1>1, <1>2, <2>2, Untouched, SendFramed, ClientSends, GetFramed
    <2> QED BY <1>2, <2>1, <2>3, ClientMovesKeep DEF Framed
  <1>6. CASE OnHostKey(c)
    <2>1. link' = link /\ Arrived(c) /\ Get(c) /\ Got(c).type = "key_exchange"
      BY <1>6 DEF OnHostKey, ClientReads
    <2>2. ToPeerFramed' /\ Got(c).data = HostPub(c)
      BY <1>1, <1>2, <2>1, GetFramed, ClientGets
    <2>3. Derive(ClientPub(c), Got(c).data, joinPw[c]) = OwnKey(c)
      BY <2>2, SharedKeyInKeys DEF OwnKey, ClientTypes
    <2>4. clientKey' = [clientKey EXCEPT ![c] = OwnKey(c)]
          /\ Send(c, Msg("verify", NoClient, VerifyToken(OwnKey(c))))
      BY <1>6, <2>3 DEF OnHostKey
    <2>5. ClientMoves(c)
      BY <1>6, <2>4, MovesTo, States DEF OnHostKey
    <2>6. LinkTypes' /\ ToRelayFramed'
      BY <1>1, <1>2, <2>1, <2>4, Untouched, SendFramed, ClientSends
    <2> QED BY <1>2, <2>2, <2>5, <2>6, ClientMovesKeep DEF Framed
  <1>7. CASE OnHostVerify(c)
    <2>1. clientKey[c] = OwnKey(c)
      BY <1>7 DEF OnHostVerify, CheckVerify, IsReady, ClientTypes
    <2>2. ClientMoves(c)
      BY <1>7, <2>1, MovesTo, States DEF OnHostVerify
    <2>3. LinkTypes' /\ ToRelayFramed' /\ ToPeerFramed'
      BY <1>1, <1>2, <1>7, Untouched, GetFramed DEF OnHostVerify, ClientReads
    <2> QED BY <1>2, <2>2, <2>3, ClientMovesKeep DEF Framed
  <1>8. ASSUME NEW why \in Failures \cup {"closed"}, Fail(c, why),
               why = "closed" \/ clientPc[c] \notin Keyholding
        PROVE  ClientTypes' /\ Framed'
    <2>1. why \in ClientState /\ why \notin {"running", "keygen", "deriving"}
      BY DEF ClientState, Failures
    <2>2. ClientMoves(c)
      BY <1>8, <2>1 DEF Fail, ClientMoves, promises, Keyholding
    <2>3. LinkTypes' /\ ToRelayFramed' /\ ToPeerFramed'
      BY <1>1, <1>2, <1>8, Untouched, HangupFramed DEF Fail
    <2> QED BY <2>2, <2>3, ClientMovesKeep DEF Framed
  <1>9. CASE HandshakeFails(c)
    <2>1. clientPc[c] \notin Keyholding /\ \E why \in Failures : Fail(c, why)
      BY <1>9 DEF HandshakeFails, Failures, Keyholding
    <2> QED BY <1>2, <1>8, <2>1
  <1>10. CASE CloseClient(c) \/ ReadLoopFails(c)
    BY <1>2, <1>8, <1>10 DEF CloseClient, ReadLoopFails
  <1>11. CASE SetOnOutput(c)
    <2>1. ClientMoves(c)
      BY <1>3, <1>11 DEF SetOnOutput, ClientMoves, ClientTypes, promises
    <2>2. LinkTypes' /\ ToRelayFramed' /\ ToPeerFramed'
      BY <1>2, <1>11, Untouched DEF SetOnOutput, wireVars
    <2> QED BY <1>2, <2>1, <2>2, ClientMovesKeep DEF Framed
  <1>12. CASE OnOutput(c)
    <2>1. link' = link /\ toRelay' = toRelay /\ Arrived(c) /\ Get(c) /\ Got(c).type = "output"
      BY <1>12 DEF OnOutput, ClientReads
    <2>2. ToPeerFramed' /\ Got(c).data \in Sealed(HostKeys(c), Screen)
      BY <1>1, <1>2, <2>1, GetFramed, ClientGets
    <2>3. Got(c).data.plain \in Screen
      BY <2>2, SealedPayload
    <2>4. shown' = shown \/ shown' = [shown EXCEPT ![c] = Append(shown[c], Got(c).data.plain)]
      BY <1>12 DEF OnOutput
    <2>5. ClientMoves(c)
      BY <1>3, <1>12, <2>3, <2>4 DEF OnOutput, ClientMoves, ClientTypes, promises
    <2>6. LinkTypes' /\ ToRelayFramed'
      BY <1>2, <2>1, Untouched
    <2> QED BY <1>2, <2>2, <2>5, <2>6, ClientMovesKeep DEF Framed
  <1>13. CASE OnHostPing(c)
    <2>1. ClientTypes'
      BY <1>13, ClientUntouched DEF OnHostPing
    <2>2. LinkTypes' /\ ToRelayFramed' /\ ToPeerFramed'
      BY <1>1, <1>2, <1>13, Untouched, SendFramed, ClientSends, GetFramed
         DEF OnHostPing, ClientReads
    <2> QED BY <1>2, <2>1, <2>2 DEF Framed
  <1>14. CASE OnOther(c)
    <2>1. ClientTypes'
      BY <1>14, ClientUntouched DEF OnOther
    <2>2. LinkTypes' /\ ToRelayFramed' /\ ToPeerFramed'
      BY <1>1, <1>2, <1>14, Untouched, GetFramed DEF OnOther
    <2> QED BY <1>2, <2>1, <2>2 DEF Framed
  <1>15. CASE SendInput(c)
    <2>1. clientKey[c] = OwnKey(c) /\ typed[c] < MaxInput /\ typed[c] + 1 \in 1..MaxInput
      BY <1>15, ClientBoundsNat DEF SendInput, ClientTypes
    <2>2. ClientMoves(c)
      BY <1>3, <1>15, <2>1 DEF SendInput, ClientMoves, ClientTypes, promises
    <2>3. Send(c, Msg("input", NoClient, Seal(OwnKey(c), [input |-> typed[c] + 1])))
      BY <1>15, <2>1 DEF SendInput
    <2>4. LinkTypes' /\ ToRelayFramed' /\ ToPeerFramed'
      BY <1>1, <1>2, <1>15, <2>1, <2>3, Untouched, SendFramed, ClientSends DEF SendInput
    <2> QED BY <1>2, <2>2, <2>4, ClientMovesKeep DEF Framed
  <1>16. CASE LatencyPings(c)
    <2>1. ClientMoves(c)
      BY <1>3, <1>16 DEF LatencyPings, ClientMoves, ClientTypes, promises
    <2>2. LinkTypes' /\ ToRelayFramed' /\ ToPeerFramed'
      BY <1>1, <1>2, <1>16, Untouched, SendFramed, ClientSends DEF LatencyPings
    <2> QED BY <1>2, <2>1, <2>2, ClientMovesKeep DEF Framed
  <1>17. CASE BrowserJoined(c)
    <2>1. ClientMoves(c)
      BY <1>17, MovesTo, States DEF BrowserJoined
    <2>2. LinkTypes' /\ ToRelayFramed' /\ ToPeerFramed'
      BY <1>1, <1>2, <1>17, Untouched, GetFramed DEF BrowserJoined, ClientReads
    <2> QED BY <1>2, <2>1, <2>2, ClientMovesKeep DEF Framed
  <1>18. CASE KeyPairGenerated(c)
    <2>1. ClientMoves(c)
      BY <1>18, MovesTo, States DEF KeyPairGenerated
    <2>2. LinkTypes' /\ ToRelayFramed' /\ ToPeerFramed'
      BY <1>1, <1>2, <1>18, Untouched, SendFramed, ClientSends
         DEF KeyPairGenerated, SendKeyExchange
    <2> QED BY <1>2, <2>1, <2>2, ClientMovesKeep DEF Framed
  <1>19. CASE BrowserKey(c)
    <2>1. link' = link /\ toRelay' = toRelay /\ Arrived(c) /\ Get(c)
          /\ Got(c).type = "key_exchange"
      BY <1>19 DEF BrowserKey, ClientReads
    <2>2. ToPeerFramed' /\ Got(c).data = HostPub(c)
      BY <1>1, <1>2, <2>1, GetFramed, ClientGets
    <2>3. peerPub' = [peerPub EXCEPT ![c] = HostPub(c)] /\ peerPub'[c] = HostPub(c)
      BY <1>19, <2>2 DEF BrowserKey, ClientTypes
    <2>4. ClientMoves(c)
      BY <1>19, <2>3, MovesTo, States DEF BrowserKey
    <2>5. LinkTypes' /\ ToRelayFramed'
      BY <1>2, <2>1, Untouched
    <2> QED BY <1>2, <2>2, <2>4, <2>5, ClientMovesKeep DEF Framed
  <1>20. CASE KeyDerived(c)
    <2>1. peerPub[c] = HostPub(c) /\ joinPw[c] = NoPassword
      BY <1>20 DEF KeyDerived, Move, ClientTypes
    <2>2. Derive(ClientPub(c), peerPub[c], NoPassword) = OwnKey(c)
      BY <2>1, SharedKeyInKeys DEF OwnKey
    <2>3. clientKey' = [clientKey EXCEPT ![c] = OwnKey(c)] /\ clientKey'[c] = OwnKey(c)
      BY <1>20, <2>2 DEF KeyDerived, ClientTypes
    <2>4. ClientMoves(c)
      BY <1>20, <2>3, MovesTo, States DEF KeyDerived
    <2>5. LinkTypes' /\ ToRelayFramed' /\ ToPeerFramed'
      BY <1>2, <1>20, Untouched DEF KeyDerived, wireVars
    <2> QED BY <1>2, <2>4, <2>5, ClientMovesKeep DEF Framed
  <1>21. CASE BrowserUnawaited(c)
    <2>1. link' = link /\ toRelay' = toRelay /\ Arrived(c) /\ Get(c)
      BY <1>21 DEF BrowserUnawaited
    <2>2. LinkTypes' /\ ToRelayFramed' /\ ToPeerFramed' /\ Got(c) \in RelaySays(c)
      BY <1>1, <1>2, <2>1, Untouched, GetFramed
    <2>3. Got(c).type = "output" => Got(c).data \in Ciphers
      BY <2>2, ClientGets, CiphersAre
    <2>4. shown' = shown \/ \E t \in Screen \cup Ciphers :
                             shown' = [shown EXCEPT ![c] = Append(shown[c], t)]
      BY <1>21, <2>3 DEF BrowserUnawaited
    <2>5. ClientMoves(c)
      BY <1>3, <1>21, <2>4 DEF BrowserUnawaited, ClientMoves, ClientTypes, promises
    <2> QED BY <1>2, <2>2, <2>5, ClientMovesKeep DEF Framed
  <1>22. CASE BrowserTimeout(c)
    <2>1. ClientMoves(c)
      BY <1>22 DEF BrowserTimeout, ClientMoves, ClientState, Failures,
                               promises, Keyholding
    <2>2. LinkTypes' /\ ToRelayFramed' /\ ToPeerFramed'
      BY <1>2, <1>22, Untouched DEF BrowserTimeout, wireVars
    <2> QED BY <1>2, <2>1, <2>2, ClientMovesKeep DEF Framed
  <1>23. CASE BrowserInput(c)
    <2>1. clientKey[c] = OwnKey(c) /\ typed[c] < MaxInput /\ typed[c] + 1 \in 1..MaxInput
      BY <1>23, ClientBoundsNat DEF BrowserInput, ClientTypes
    <2>2. sealing[c] \cup {typed[c] + 1} \in SUBSET (1..MaxInput)
      BY <2>1 DEF ClientTypes, Promised
    <2>3. ClientMoves(c)
      BY <1>3, <1>23, <2>1, <2>2 DEF BrowserInput, ClientMoves, ClientTypes, Keyholding
    <2>4. LinkTypes' /\ ToRelayFramed' /\ ToPeerFramed'
      BY <1>2, <1>23, Untouched DEF BrowserInput, wireVars
    <2> QED BY <1>2, <2>3, <2>4, ClientMovesKeep DEF Framed
  <1>24. CASE InputEncrypted(c)
    <2>1. PICK n \in sealing[c] :
            /\ sealing' = [sealing EXCEPT ![c] = sealing[c] \ {n}]
            /\ Send(c, Msg("input", NoClient, Seal(clientKey[c], [input |-> n])))
      BY <1>24 DEF InputEncrypted
    <2>2. /\ clientKey[c] = OwnKey(c) /\ n \in 1..MaxInput /\ clientPc[c] \in Keyholding
          /\ sealing[c] \ {n} \in SUBSET (1..MaxInput)
      BY <2>1 DEF ClientTypes, Promised
    <2>3. ClientMoves(c)
      BY <1>3, <1>24, <2>1, <2>2 DEF InputEncrypted, ClientMoves, ClientTypes
    <2>4. LinkTypes' /\ ToRelayFramed' /\ ToPeerFramed'
      BY <1>1, <1>2, <1>24, <2>1, <2>2, Untouched, SendFramed, ClientSends
         DEF InputEncrypted
    <2> QED BY <1>2, <2>3, <2>4, ClientMovesKeep DEF Framed
  <1>25. CASE BrowserOutput(c)
    <2>1. link' = link /\ toRelay' = toRelay /\ Arrived(c) /\ Get(c) /\ Got(c).type = "output"
      BY <1>25 DEF BrowserOutput, ClientReads
    <2>2. LinkTypes' /\ ToRelayFramed' /\ ToPeerFramed' /\ Got(c) \in RelaySays(c)
      BY <1>1, <1>2, <2>1, Untouched, GetFramed
    <2>3. Got(c).data \in Ciphers
      BY <2>1, <2>2, ClientGets, CiphersAre
    <2>4. \E s \in Seq(Ciphers) : opening' = [opening EXCEPT ![c] = s]
      <3> DEFINE S == Ciphers
      <3>1. opening[c] \in Seq(S) /\ Got(c).data \in S
        BY <2>3 DEF ClientTypes, Promised
      <3> HIDE DEF S
      <3>2. Append(opening[c], Got(c).data) \in Seq(S)
        BY <3>1
      <3> QED BY <1>25, <3>2 DEF BrowserOutput, S
    <2>5. ClientMoves(c)
      BY <1>3, <1>25, <2>4 DEF BrowserOutput, ClientMoves, ClientTypes
    <2> QED BY <1>2, <2>2, <2>5, ClientMovesKeep DEF Framed
  <1>26. CASE OutputDecrypted(c)
    <2>1. PICK i \in DOMAIN opening[c] :
            /\ opening' = [opening EXCEPT ![c] = RemoveAt(opening[c], i)]
            /\ shown' = IF Opens(clientKey[c], opening[c][i])
                          THEN [shown EXCEPT ![c] = Append(shown[c], opening[c][i].plain)]
                          ELSE shown
      BY <1>26 DEF OutputDecrypted
    <2>2. opening[c] \in Seq(Ciphers)
      BY DEF ClientTypes, Promised
    <2>3. opening[c][i] \in Ciphers
      BY <2>1, <2>2, ElementOfSeq
    <2>4. opening[c][i].plain \in Screen
      BY <2>3, SealedPayload DEF Ciphers
    <2>5. RemoveAt(opening[c], i) \in Seq(Ciphers)
      BY <2>2, <2>1, RemoveAtSeq
    <2>6. ClientMoves(c)
      <3>1. \E s \in Seq(Ciphers) : opening' = [opening EXCEPT ![c] = s]
        BY <2>1, <2>5
      <3>2. shown' = shown \/ \E t \in Screen \cup Ciphers :
                                shown' = [shown EXCEPT ![c] = Append(shown[c], t)]
        BY <2>1, <2>4
      <3>3. UNCHANGED <<joinPw, clientPc, clientKey, peerPub, typed, callback, sealing>>
        BY <1>26 DEF OutputDecrypted
      <3>4. clientPc[c] \in ClientState /\ clientPc' = [clientPc EXCEPT ![c] = clientPc[c]]
            /\ \A t \in {"running", "keygen", "deriving"} :
                 clientPc[c] = t => /\ t = "running" => clientKey'[c] = OwnKey(c)
                                    /\ t \in {"keygen", "deriving"} => c \in Browsers
                                    /\ t = "deriving" => peerPub'[c] = HostPub(c)
        BY <1>3, <3>3 DEF ClientTypes
      <3> QED BY <3>1, <3>2, <3>3, <3>4 DEF ClientMoves
    <2>7. LinkTypes' /\ ToRelayFramed' /\ ToPeerFramed'
      BY <1>2, <1>26, Untouched DEF OutputDecrypted, wireVars
    <2> QED BY <1>2, <2>6, <2>7, ClientMovesKeep DEF Framed
  <1> QED BY <1>4, <1>5, <1>6, <1>7, <1>9, <1>10, <1>11, <1>12, <1>13, <1>14, <1>15,
             <1>16, <1>17, <1>18, <1>19, <1>20, <1>21, <1>22, <1>23, <1>24, <1>25, <1>26
          DEF ClientStep, ClientHandshake, ClientReadLoop, BrowserSettles

---------------------------------------------------------------------------
(* The steps of the host.                                                  *)

LEMMA HostUntouched ==
    ASSUME joinPw' = joinPw
    PROVE  /\ Flags /\ UNCHANGED <<hostPc, password, keyReady, sized, budget>> => Flags'
           /\ SessionKeys /\ UNCHANGED <<crypto, verifying>> => SessionKeys'
           /\ Heard /\ UNCHANGED injected => Heard'
  <1>1. Flags /\ UNCHANGED <<hostPc, password, keyReady, sized, budget>> => Flags'
    BY DEF Flags
  <1>2. SessionKeys /\ UNCHANGED <<crypto, verifying>> => SessionKeys'
    BY DEF SessionKeys, ReadyClients, HasSession, KeyOf
  <1>3. Heard /\ UNCHANGED injected => Heard'
    BY DEF Heard
  <1> QED BY <1>1, <1>2, <1>3

LEMMA KeyHeld ==
    ASSUME SessionKeys, NEW c \in Clients
    PROVE  /\ HasSession(c) => /\ crypto[c] = {KeyOf(c)}
                               /\ KeyOf(c) \in HostKeys(c) \cup {NotReady}
           /\ c \in ReadyClients => HasSession(c) /\ KeyOf(c) \in HostKeys(c)
  <1>1. ASSUME HasSession(c)
        PROVE  crypto[c] = {KeyOf(c)} /\ KeyOf(c) \in HostKeys(c) \cup {NotReady}
    <2>1. PICK k \in HostKeys(c) \cup {NotReady} : crypto[c] = {k}
      BY <1>1 DEF SessionKeys, OneKey, HasSession
    <2>2. KeyOf(c) = k
      BY <2>1 DEF KeyOf
    <2> QED BY <2>1, <2>2
  <1>2. c \in ReadyClients => HasSession(c) /\ KeyOf(c) # NotReady
    BY DEF ReadyClients, IsReady
  <1> QED BY <1>1, <1>2

LEMMA ReadyFinite ==
    ASSUME SessionKeys PROVE IsFiniteSet(ReadyClients) /\ ReadyClients \subseteq Clients
  <1>1. ReadyClients \subseteq {c \in Clients : crypto[c] # {}}
    BY DEF ReadyClients, HasSession
  <1>2. IsFiniteSet({c \in Clients : crypto[c] # {}})
    BY DEF SessionKeys
  <1> QED BY <1>1, <1>2, FS_Subset

(* A session is opened, completed or ended while no verify token is due.   *)
LEMMA SessionSet ==
    ASSUME SessionKeys, NEW c \in Clients, NEW keys, OneKey(c, keys),
           crypto' = [crypto EXCEPT ![c] = keys], verifying = NoClient,
           \/ verifying' = NoClient
           \/ verifying' = c /\ \E k \in HostKeys(c) : keys = {k}
    PROVE  SessionKeys'
  <1>1. crypto' = [d \in Clients |-> crypto'[d]] /\ crypto'[c] = keys
        /\ \A d \in Clients : d # c => crypto'[d] = crypto[d]
    BY DEF SessionKeys
  <1>2. \A d \in Clients : OneKey(d, crypto'[d])
    BY <1>1 DEF SessionKeys
  <1>3. IsFiniteSet({d \in Clients : crypto'[d] # {}})
    <2> DEFINE S == {d \in Clients : crypto[d] # {}}
    <2>1. IsFiniteSet(S \cup {c})
      BY FS_AddElement DEF SessionKeys
    <2>2. {d \in Clients : crypto'[d] # {}} \subseteq S \cup {c}
      BY <1>1
    <2> QED BY <2>1, <2>2, FS_Subset
  <1>4. ASSUME verifying' = c, NEW k \in HostKeys(c), keys = {k} PROVE c \in ReadyClients'
    <2>1. KeyOf(c)' = k
      BY <1>1, <1>4 DEF KeyOf
    <2>2. IsReady(k)
      BY <1>4, SharedKeyInKeys DEF HostKeys
    <2> QED BY <1>1, <1>4, <2>1, <2>2 DEF ReadyClients, HasSession
  <1>5. verifying' \in ReadyClients' \cup {NoClient}
    BY <1>4
  <1> QED BY <1>1, <1>2, <1>3, <1>5 DEF SessionKeys, OneKey, HostKeys

LEMMA HostSends ==
    ASSUME NEW c \in Clients
    PROVE  /\ Msg("key_exchange", c, HostPub(c)) \in PeerSays(Me)
           /\ \A t \in {"ping", "pong"} : Msg(t, c, NoData) \in PeerSays(Me)
           /\ \A k \in HostKeys(c) :
                /\ Msg("verify", c, VerifyToken(k)) \in PeerSays(Me)
                /\ Msg("resize", c, Seal(k, [resize |-> TRUE])) \in PeerSays(Me)
                /\ \A t \in Screen : Msg("output", c, Seal(k, t)) \in PeerSays(Me)
  <1>1. \A t \in MsgType, d \in Data, e \in {c, NoClient} :
          /\ Msg(t, e, d) \in Message /\ Msg(t, e, d).type = t
          /\ Msg(t, e, d).client = e /\ Msg(t, e, d).data = d
    BY DEF Msg, Message
  <1>2. {"host_register", "key_exchange", "verify", "resize", "output", "ping", "pong"}
          \subseteq MsgType
    BY DEF MsgType
  <1>3. ASSUME NEW t \in MsgType, NEW d \in Data,
               \/ t \in {"ping", "pong"}
               \/ t = "key_exchange" /\ d = HostPub(c)
               \/ t = "verify" /\ d \in Sealed(HostKeys(c), {Challenge})
               \/ t = "resize" /\ d \in Sealed(HostKeys(c), {[resize |-> TRUE]})
               \/ t = "output" /\ d \in Sealed(HostKeys(c), Screen)
        PROVE  Msg(t, c, d) \in PeerSays(Me)
    BY <1>1, <1>3 DEF PeerSays, PeerFrame, HostFrame
  <1>4. /\ NoData \in Data /\ HostPub(c) \in Data /\ HostKeys(c) \subseteq Keys
        /\ Screen \subseteq Plains /\ {Challenge} \subseteq Plains
        /\ {[resize |-> TRUE]} \subseteq Plains
    BY FramePayloads
  <1>5. ASSUME NEW k \in HostKeys(c) PROVE Msg("verify", c, VerifyToken(k)) \in PeerSays(Me)
    <2>1. VerifyToken(k) \in Sealed(HostKeys(c), {Challenge})
      BY DEF VerifyToken, Sealed
    <2>2. VerifyToken(k) \in Data
      BY <1>4, <2>1, SealedPayload
    <2> QED BY <1>2, <1>3, <2>1, <2>2
  <1>6. ASSUME NEW k \in HostKeys(c)
        PROVE  Msg("resize", c, Seal(k, [resize |-> TRUE])) \in PeerSays(Me)
    <2> DEFINE sizes == {[resize |-> TRUE]}
               d == Seal(k, [resize |-> TRUE])
    <2>1. d \in Sealed(HostKeys(c), sizes) /\ sizes \subseteq Plains
      BY <1>4 DEF Sealed
    <2>2. \A e \in Data : e \in Sealed(HostKeys(c), sizes)
            => Msg("resize", c, e) \in PeerSays(Me)
      BY <1>2, <1>3
    <2> HIDE DEF d, sizes
    <2>3. d \in Data
      BY <1>4, <2>1, SealedPayload
    <2>4. Msg("resize", c, d) \in PeerSays(Me)
      BY <2>1, <2>2, <2>3
    <2> QED BY <2>4 DEF d
  <1>7. ASSUME NEW k \in HostKeys(c), NEW t \in Screen
        PROVE  Msg("output", c, Seal(k, t)) \in PeerSays(Me)
    <2>1. Seal(k, t) \in Sealed(HostKeys(c), Screen)
      BY DEF Sealed
    <2>2. Seal(k, t) \in Data
      BY <1>4, <2>1, SealedPayload
    <2> QED BY <1>2, <1>3, <2>1, <2>2
  <1> QED BY <1>2, <1>3, <1>4, <1>5, <1>6, <1>7

LEMMA HostGets ==
    ASSUME NEW m \in RelaySays(Me),
           m.type \in {"joined", "left", "key_exchange", "verify", "input", "ping", "pong"}
    PROVE  /\ m.client \in Clients
           /\ m.type = "key_exchange" => m.data = ClientPub(m.client)
           /\ m.type = "input" => m.data \in Sealed({OwnKey(m.client)}, Inputs)
  BY DEF RelaySays, RelayFrame, ClientFrame

(* A write of the host that appends several frames.                        *)
LEMMA AppendsFramed ==
    ASSUME Framed, joinPw' = joinPw, NEW t \in Seq(PeerSays(Me)),
           toRelay' = [toRelay EXCEPT ![Me] =
                         IF link[Me] \in Up THEN toRelay[Me] \o t ELSE toRelay[Me]]
    PROVE  ToRelayFramed'
  <1>1. Me \in Conns /\ toRelay[Me] \in Seq(PeerSays(Me))
    BY OneHostFacts DEF Framed, ToRelayFramed
  <1>2. toRelay[Me] \o t \in Seq(PeerSays(Me))
    BY <1>1, ConcatProperties
  <1>3. \/ toRelay' = [toRelay EXCEPT ![Me] = toRelay[Me] \o t]
        \/ toRelay' = [toRelay EXCEPT ![Me] = toRelay[Me]]
    OBVIOUS
  <1>4. ASSUME NEW x \in Conns PROVE toRelay'[x] \in Seq(PeerSays(x))
    BY <1>1, <1>2, <1>3 DEF Framed, ToRelayFramed
  <1> QED BY <1>3, <1>4, SaysStable DEF Framed, ToRelayFramed

LEMMA SendEachFramed ==
    ASSUME Framed, joinPw' = joinPw, NEW frame, IsFiniteSet(DOMAIN frame),
           \A c \in DOMAIN frame : frame[c] \in PeerSays(Me), SendEach(frame)
    PROVE  ToRelayFramed'
  <1>1. PICK order \in SetToSeqs(DOMAIN frame) :
          toRelay' = [toRelay EXCEPT ![Me] =
            IF link[Me] \in Up
              THEN toRelay[Me] \o [i \in DOMAIN order |-> frame[order[i]]]
              ELSE toRelay[Me]]
    BY DEF SendEach
  <1> DEFINE n == Cardinality(DOMAIN frame)
             t == [i \in DOMAIN order |-> frame[order[i]]]
             P == PeerSays(Me)
  <1>2. n \in Nat
    BY FS_CardinalityType
  <1>3. order \in [1..n -> DOMAIN frame]
    BY <1>1 DEF SetToSeqs
  <1>4. \A i \in 1..n : t[i] \in P
    BY <1>3
  <1>5. t = [i \in 1..n |-> t[i]]
    BY <1>3
  <1> HIDE DEF t, n, P
  <1>6. t \in Seq(P)
    BY <1>2, <1>4, <1>5
  <1> QED BY <1>1, <1>6, AppendsFramed DEF t, P

LEMMA RegisterSays == \A k \in Codes : Msg("host_register", NoClient, k) \in PeerSays(Me)
  BY DataCarriesCodes DEF Msg, Message, MsgType, PeerSays, PeerFrame, HostFrame

(* A read of the host, and the frame it finds.                             *)
LEMMA HostReadsFrame ==
    ASSUME Framed, joinPw' = joinPw, NEW t, HostReads(t),
           t \in {"joined", "left", "key_exchange", "verify", "input", "ping", "pong"}
    PROVE  /\ verifying = NoClient /\ Got(Me).type = t /\ Got(Me).client \in Clients
           /\ t = "key_exchange" => Got(Me).data = ClientPub(Got(Me).client)
           /\ t = "input" => Got(Me).data \in Sealed({OwnKey(Got(Me).client)}, Inputs)
           /\ ToPeerFramed'
  <1>1. /\ verifying = NoClient /\ Got(Me).type = t /\ Arrived(Me) /\ Get(Me)
        /\ Me \in Conns
    BY OneHostFacts DEF HostReads, Reading
  <1>2. Got(Me) \in RelaySays(Me) /\ ToPeerFramed'
    BY <1>1, GetFramed
  <1> QED BY <1>1, <1>2, HostGets

LEMMA SpendTyped ==
    ASSUME Flags, NEW what, NEW max,
           \/ what = "output" /\ max = MaxOutput
           \/ what = "resize" /\ max = MaxResizes
           \/ what = "ping" /\ max = MaxHostPings,
           Spend(what, max)
    PROVE  /\ budget' \in [output : 0..MaxOutput, resize : 0..MaxResizes,
                           ping : 0..MaxHostPings]
           /\ what = "output" => budget.output + 1 \in 1..MaxOutput
  <1>1. /\ budget \in [output : 0..MaxOutput, resize : 0..MaxResizes,
                       ping : 0..MaxHostPings]
        /\ budget[what] < max /\ budget' = [budget EXCEPT ![what] = budget[what] + 1]
    BY DEF Flags, Spend
  <1>2. /\ budget.output \in 0..MaxOutput /\ budget.resize \in 0..MaxResizes
        /\ budget.ping \in 0..MaxHostPings
    BY <1>1
  <1>3. CASE what = "output"
    <2>1. budget.output + 1 \in 0..MaxOutput /\ budget.output + 1 \in 1..MaxOutput
      BY <1>1, <1>2, <1>3, HostBoundsNat
    <2> QED BY <1>1, <1>3, <2>1
  <1>4. CASE what = "resize"
    <2>1. budget.resize + 1 \in 0..MaxResizes
      BY <1>1, <1>2, <1>4, HostBoundsNat
    <2> QED BY <1>1, <1>4, <2>1
  <1>5. CASE what = "ping"
    <2>1. budget.ping + 1 \in 0..MaxHostPings
      BY <1>1, <1>2, <1>5, HostBoundsNat
    <2> QED BY <1>1, <1>5, <2>1
  <1> QED BY <1>3, <1>4, <1>5

(* The frames of the session of a client whose key is known.               *)
LEMMA ReadySends ==
    ASSUME SessionKeys, NEW c \in ReadyClients
    PROVE  /\ c \in Clients /\ KeyOf(c) \in HostKeys(c)
           /\ Resize(c) \in PeerSays(Me) /\ Banner(c) \in PeerSays(Me)
           /\ Msg("verify", c, VerifyToken(KeyOf(c))) \in PeerSays(Me)
           /\ \A t \in Screen : Msg("output", c, Seal(KeyOf(c), t)) \in PeerSays(Me)
  <1>1. c \in Clients /\ KeyOf(c) \in HostKeys(c)
    BY KeyHeld, ReadyFinite
  <1>2. /\ Msg("verify", c, VerifyToken(KeyOf(c))) \in PeerSays(Me)
        /\ Msg("resize", c, Seal(KeyOf(c), [resize |-> TRUE])) \in PeerSays(Me)
        /\ \A t \in Screen : Msg("output", c, Seal(KeyOf(c), t)) \in PeerSays(Me)
    BY <1>1, HostSends
  <1>3. [banner |-> TRUE] \in Screen
    BY DEF Screen
  <1> QED BY <1>1, <1>2, <1>3 DEF Resize, Banner

LEMMA HostStepKeeps ==
    ASSUME HostTypes, ClientTypes, Framed, joinPw' = joinPw, HostStep
    PROVE  HostTypes' /\ Framed'
  <1>1. Me \in Conns /\ Flags /\ SessionKeys /\ Heard
    BY OneHostFacts DEF HostTypes
  <1>3. CASE HostRegister
    <2>1. Flags' /\ SessionKeys' /\ Heard'
      BY <1>1, <1>3, HostUntouched DEF HostRegister, Flags, HostState
    <2>2. LinkTypes' /\ ToPeerFramed' /\ \E k \in Codes : Send(Me, Msg("host_register", NoClient, k))
      BY <1>3, Untouched DEF HostRegister
    <2>3. ToRelayFramed'
      <3>1. \A k \in Codes : Msg("host_register", NoClient, k) \in PeerSays(Me)
        BY RegisterSays
      <3> QED BY <1>1, <2>2, <3>1, SendFramed
    <2> QED BY <2>1, <2>2, <2>3 DEF HostTypes, Framed
  <1>4. CASE HostRegistered
    <2>1. Flags' /\ SessionKeys' /\ Heard'
      BY <1>1, <1>4, HostUntouched DEF HostRegistered, Flags, HostState
    <2>2. LinkTypes' /\ ToRelayFramed' /\ ToPeerFramed'
      BY <1>1, <1>4, Untouched, GetFramed DEF HostRegistered
    <2> QED BY <2>1, <2>2 DEF HostTypes, Framed
  <1>5. CASE HostRefused
    <2>1. Flags' /\ SessionKeys' /\ Heard'
      BY <1>1, <1>5, HostUntouched DEF HostRefused, Flags, HostState
    <2>2. LinkTypes' /\ ToRelayFramed' /\ ToPeerFramed'
      BY <1>1, <1>5, Untouched, HangupFramed DEF HostRefused
    <2> QED BY <2>1, <2>2 DEF HostTypes, Framed
  <1>6. CASE SetPassword
    <2>1. Flags' /\ SessionKeys' /\ Heard'
      BY <1>1, <1>6, HostUntouched DEF SetPassword, Flags
    <2>2. LinkTypes' /\ ToRelayFramed' /\ ToPeerFramed'
      BY <1>6, Untouched DEF SetPassword, wireVars
    <2> QED BY <2>1, <2>2 DEF HostTypes, Framed
  <1>7. CASE OnJoined
    <2> DEFINE c == Got(Me).client
    <2>1. HostReads("joined") /\ link' = link
          /\ crypto' = [crypto EXCEPT ![c] = {NotReady}] /\ verifying' = verifying
          /\ Send(Me, Msg("key_exchange", c, HostPub(c)))
      BY <1>7 DEF OnJoined
    <2>2. verifying = NoClient /\ c \in Clients /\ ToPeerFramed'
      BY <2>1, HostReadsFrame
    <2> HIDE DEF c
    <2>3. OneKey(c, {NotReady})
      BY DEF OneKey
    <2>4. SessionKeys'
      BY <1>1, <2>1, <2>2, <2>3, SessionSet
    <2>5. Flags' /\ Heard'
      BY <1>1, <1>7, HostUntouched DEF OnJoined
    <2>6. LinkTypes' /\ ToRelayFramed'
      BY <1>1, <2>1, <2>2, Untouched, SendFramed, HostSends
    <2> QED BY <2>2, <2>4, <2>5, <2>6 DEF HostTypes, Framed
  <1>8. CASE OnLeft
    <2> DEFINE c == Got(Me).client
    <2>1. HostReads("left") /\ link' = link /\ toRelay' = toRelay
          /\ crypto' = [crypto EXCEPT ![c] = {}] /\ verifying' = verifying
      BY <1>8 DEF OnLeft
    <2>2. verifying = NoClient /\ c \in Clients /\ ToPeerFramed'
      BY <2>1, HostReadsFrame
    <2> HIDE DEF c
    <2>3. OneKey(c, {})
      BY DEF OneKey
    <2>4. SessionKeys'
      BY <1>1, <2>1, <2>2, <2>3, SessionSet
    <2>5. Flags' /\ Heard'
      BY <1>1, <1>8, HostUntouched DEF OnLeft
    <2>6. LinkTypes' /\ ToRelayFramed'
      BY <2>1, Untouched
    <2> QED BY <2>2, <2>4, <2>5, <2>6 DEF HostTypes, Framed
  <1>9. CASE OnKeyExchange
    <2> DEFINE c == Got(Me).client
    <2>1. HostReads("key_exchange") /\ link' = link /\ toRelay' = toRelay
      BY <1>9 DEF OnKeyExchange
    <2>2. verifying = NoClient /\ c \in Clients /\ Got(Me).data = ClientPub(c) /\ ToPeerFramed'
      BY <2>1, HostReadsFrame
    <2>3. \/ crypto' = [crypto EXCEPT ![c] = {SharedKey(c, password)}] /\ verifying' = c
          \/ UNCHANGED <<crypto, verifying>>
      BY <1>9, <2>2 DEF OnKeyExchange, Completed, SharedKey
    <2>4. SharedKey(c, password) \in HostKeys(c)
      BY <1>1 DEF HostKeys, Flags
    <2> HIDE DEF c
    <2>5. ASSUME crypto' = [crypto EXCEPT ![c] = {SharedKey(c, password)}], verifying' = c
          PROVE  SessionKeys'
      <3>1. OneKey(c, {SharedKey(c, password)})
        BY <2>4 DEF OneKey
      <3> QED BY <1>1, <2>2, <2>4, <2>5, <3>1, SessionSet
    <2>6. SessionKeys'
      BY <1>1, <2>3, <2>5, HostUntouched
    <2>7. Flags' /\ Heard'
      BY <1>1, <1>9, HostUntouched DEF OnKeyExchange
    <2>8. LinkTypes' /\ ToRelayFramed'
      BY <2>1, Untouched
    <2> QED BY <2>2, <2>6, <2>7, <2>8 DEF HostTypes, Framed
  <1>10. CASE WriteVerify
    <2>1. verifying \in ReadyClients
      BY <1>1, <1>10 DEF WriteVerify, SessionKeys
    <2>2. Msg("verify", verifying, VerifyToken(KeyOf(verifying))) \in PeerSays(Me)
      BY <1>1, <2>1, ReadySends
    <2>3. LinkTypes' /\ ToRelayFramed' /\ ToPeerFramed'
      BY <1>1, <1>10, <2>2, Untouched, SendFramed DEF WriteVerify
    <2>4. SessionKeys'
      BY <1>1, <1>10 DEF WriteVerify, SessionKeys
    <2>5. Flags' /\ Heard'
      BY <1>1, <1>10, HostUntouched DEF WriteVerify
    <2> QED BY <2>3, <2>4, <2>5 DEF HostTypes, Framed
  <1>11. CASE OnVerify
    <2> DEFINE c == Got(Me).client
               right == CheckVerify(KeyOf(c), Got(Me).data)
    <2>1. HostReads("verify") /\ link' = link /\ verifying' = verifying
          /\ (crypto' = [crypto EXCEPT ![c] = {}] \/ crypto' = crypto)
      BY <1>11 DEF OnVerify
    <2>2. verifying = NoClient /\ c \in Clients /\ ToPeerFramed'
      BY <2>1, HostReadsFrame
    <2>3. SessionKeys'
      <3> HIDE DEF c
      <3>1. OneKey(c, {})
        BY DEF OneKey
      <3>2. CASE crypto' = [crypto EXCEPT ![c] = {}]
        BY <1>1, <2>1, <2>2, <3>1, <3>2, SessionSet
      <3> QED BY <1>1, <2>1, <3>2, HostUntouched
    <2>4. Flags' /\ Heard'
      <3>1. UNCHANGED <<hostPc, password, sized, budget, injected>>
            /\ keyReady' = Readied(c, right)
        BY <1>11 DEF OnVerify
      <3>2. keyReady' \in BOOLEAN
        BY <1>1, <3>1 DEF Readied, HasSession, Flags
      <3> QED BY <1>1, <3>1, <3>2, HostUntouched DEF Flags
    <2>5. ToRelayFramed'
      <3>1. CASE HasSession(c) /\ right
        <4>1. c \in ReadyClients
          BY <2>2, <3>1 DEF CheckVerify, ReadyClients
        <4>2. Resize(c) \in PeerSays(Me) /\ Banner(c) \in PeerSays(Me)
          BY <1>1, <4>1, ReadySends
        <4> DEFINE s == IF sized THEN <<Resize(c)>> ELSE << >>
                   b == IF HasOutput THEN << >> ELSE <<Banner(c)>>
        <4>3. toRelay' = [toRelay EXCEPT ![Me] =
                 IF link[Me] \in Up THEN (toRelay[Me] \o s) \o b ELSE toRelay[Me]]
          BY <1>11, <3>1 DEF OnVerify
        <4>4. \A S : << >> \in Seq(S) /\ \A x \in S : <<x>> \in Seq(S)
          OBVIOUS
        <4>5. s \in Seq(PeerSays(Me)) /\ b \in Seq(PeerSays(Me))
          BY <4>2, <4>4
        <4>6. toRelay[Me] \in Seq(PeerSays(Me))
          BY <1>1 DEF Framed, ToRelayFramed
        <4> HIDE DEF s, b
        <4>7. s \o b \in Seq(PeerSays(Me))
          BY <4>5, ConcatProperties
        <4>8. (toRelay[Me] \o s) \o b = toRelay[Me] \o (s \o b)
          <5> DEFINE q == toRelay[Me]
                     S == PeerSays(Me)
          <5>1. q \in Seq(S) /\ s \in Seq(S) /\ b \in Seq(S)
            BY <4>5, <4>6
          <5> HIDE DEF q, S
          <5>2. (q \o s) \o b = q \o (s \o b)
            BY <5>1, ConcatAssociative
          <5> QED BY <5>2 DEF q
        <4> QED BY <4>3, <4>7, <4>8, AppendsFramed
      <3>2. CASE ~(HasSession(c) /\ right)
        <4>1. toRelay' = toRelay
          BY <1>11, <3>2 DEF OnVerify
        <4> QED BY <4>1, Untouched
      <3> QED BY <3>1, <3>2
    <2>6. LinkTypes'
      BY <2>1, Untouched
    <2> QED BY <2>2, <2>3, <2>4, <2>5, <2>6 DEF HostTypes, Framed
  <1>12. CASE OnInput
    <2> DEFINE c == Got(Me).client
               d == Got(Me).data
    <2>1. HostReads("input") /\ link' = link
      BY <1>12 DEF OnInput
    <2>2. verifying = NoClient /\ c \in Clients /\ d \in Sealed({OwnKey(c)}, Inputs)
          /\ ToPeerFramed'
      BY <2>1, HostReadsFrame
    <2>3. d.key = OwnKey(c) /\ d.plain \in Inputs
      BY <2>2, SealedPayload
    <2>4. Flags' /\ SessionKeys'
      BY <1>1, <1>12, HostUntouched DEF OnInput
    <2>5. ASSUME c \in ReadyClients, Opens(KeyOf(c), d) PROVE Heard' /\ ToRelayFramed'
      <3>1. injected' = [injected EXCEPT ![c] = Append(injected[c], d.plain)]
            /\ (toRelay' = toRelay \/ SendEach([e \in ReadyClients |->
                                Msg("output", e, Seal(KeyOf(e), d.plain))]))
        BY <1>12, <2>5 DEF OnInput
      <3>3. Heard'
        <4> DEFINE S == Inputs
                   e == d.plain
        <4>1. injected \in [Clients -> Seq(S)] /\ e \in S /\ c \in Clients
          BY <1>1, <2>2, <2>3 DEF Heard
        <4>2. injected' = [injected EXCEPT ![c] = Append(injected[c], e)]
          BY <3>1
        <4>3. \A b \in Clients : b # c =>
                injected'[b] = injected[b] \/ injected'[b] = Append(injected[c], e)
          BY <4>1, <4>2
        <4>4. \A b \in Clients : b # c => injected'[b] = injected[b]
          BY <4>1, <4>2
        <4> HIDE DEF S, e, c
        <4>5. Append(injected[c], e) \in Seq(S)
          BY <4>1
        <4>6. injected' \in [Clients -> Seq(S)]
          BY <4>1, <4>2, <4>5
        <4> QED BY <4>6 DEF Heard, S
      <3>4. ToRelayFramed'
        <4> DEFINE f == [e \in ReadyClients |-> Msg("output", e, Seal(KeyOf(e), d.plain))]
        <4>1. d.plain \in Screen
          BY <2>3 DEF Screen
        <4>2. \A e \in ReadyClients : f[e] \in PeerSays(Me)
          BY <1>1, <4>1, ReadySends
        <4>3. DOMAIN f = ReadyClients /\ IsFiniteSet(DOMAIN f)
          BY <1>1, ReadyFinite
        <4>4. toRelay' = toRelay \/ SendEach(f)
          BY <3>1
        <4> HIDE DEF f
        <4> QED BY <4>2, <4>3, <4>4, Untouched, SendEachFramed
      <3> QED BY <3>3, <3>4
    <2>6. ASSUME ~(c \in ReadyClients /\ Opens(KeyOf(c), d)) PROVE Heard' /\ ToRelayFramed'
      <3>1. injected' = injected /\ toRelay' = toRelay
        BY <1>12, <2>6 DEF OnInput
      <3> QED BY <1>1, <3>1, HostUntouched, Untouched
    <2>7. LinkTypes'
      BY <2>1, Untouched
    <2> QED BY <2>2, <2>4, <2>5, <2>6, <2>7 DEF HostTypes, Framed
  <1>13. CASE OnPing
    <2>1. HostReads("ping") /\ link' = link /\ UNCHANGED hostVars
          /\ Send(Me, Msg("pong", Got(Me).client, NoData))
      BY <1>13 DEF OnPing
    <2>2. Got(Me).client \in Clients /\ ToPeerFramed'
      BY <2>1, HostReadsFrame
    <2>3. LinkTypes' /\ ToRelayFramed'
      BY <1>1, <2>1, <2>2, Untouched, SendFramed, HostSends
    <2>4. Flags' /\ SessionKeys' /\ Heard'
      BY <1>1, <2>1, HostUntouched DEF hostVars
    <2> QED BY <2>2, <2>3, <2>4 DEF HostTypes, Framed
  <1>14. CASE OnPong
    <2>1. HostReads("pong") /\ link' = link /\ toRelay' = toRelay /\ UNCHANGED hostVars
      BY <1>14 DEF OnPong
    <2>2. LinkTypes' /\ ToRelayFramed' /\ ToPeerFramed'
      BY <2>1, Untouched, HostReadsFrame
    <2>3. Flags' /\ SessionKeys' /\ Heard'
      BY <1>1, <2>1, HostUntouched DEF hostVars
    <2> QED BY <2>2, <2>3 DEF HostTypes, Framed
  <1>15. CASE HostReadFails
    <2>1. Flags' /\ SessionKeys' /\ Heard'
      BY <1>1, <1>15, HostUntouched DEF HostReadFails, Flags, HostState
    <2>2. LinkTypes' /\ ToRelayFramed' /\ ToPeerFramed'
      BY <1>15, Untouched DEF HostReadFails, wireVars
    <2> QED BY <2>1, <2>2 DEF HostTypes, Framed
  <1>16. ASSUME NEW frame, DOMAIN frame = ReadyClients,
                \A c \in ReadyClients : frame[c] \in PeerSays(Me), SendEach(frame)
         PROVE  ToRelayFramed'
    BY <1>1, <1>16, ReadyFinite, SendEachFramed
  <1>17. CASE ReadOutput
    <2> DEFINE f == [c \in ReadyClients |->
                 Msg("output", c, Seal(KeyOf(c), [output |-> budget.output + 1]))]
    <2>1. Spend("output", MaxOutput) /\ SendEach(f) /\ DOMAIN f = ReadyClients
      BY <1>17 DEF ReadOutput
    <2>2. budget.output + 1 \in 1..MaxOutput
          /\ budget' \in [output : 0..MaxOutput, resize : 0..MaxResizes,
                          ping : 0..MaxHostPings]
      BY <1>1, <2>1, SpendTyped
    <2>3. [output |-> budget.output + 1] \in Screen
      BY <2>2 DEF Screen, Outputs
    <2>4. \A c \in ReadyClients : f[c] \in PeerSays(Me)
      BY <1>1, <2>3, ReadySends
    <2> HIDE DEF f
    <2>5. LinkTypes' /\ ToRelayFramed' /\ ToPeerFramed'
      BY <1>16, <1>17, <2>1, <2>4, Untouched DEF ReadOutput
    <2>6. Flags' /\ SessionKeys' /\ Heard'
      BY <1>1, <1>17, <2>2, HostUntouched DEF ReadOutput, Flags
    <2> QED BY <2>5, <2>6 DEF HostTypes, Framed
  <1>18. CASE LatencyPing
    <2> DEFINE f == [c \in ReadyClients |-> Msg("ping", c, NoData)]
    <2>1. Spend("ping", MaxHostPings) /\ SendEach(f) /\ DOMAIN f = ReadyClients
      BY <1>18 DEF LatencyPing
    <2>2. budget' \in [output : 0..MaxOutput, resize : 0..MaxResizes,
                       ping : 0..MaxHostPings]
      BY <1>1, <2>1, SpendTyped
    <2>3. \A c \in ReadyClients : f[c] \in PeerSays(Me)
      BY <1>1, ReadyFinite, HostSends
    <2> HIDE DEF f
    <2>4. LinkTypes' /\ ToRelayFramed' /\ ToPeerFramed'
      BY <1>16, <1>18, <2>1, <2>3, Untouched DEF LatencyPing
    <2>5. Flags' /\ SessionKeys' /\ Heard'
      BY <1>1, <1>18, <2>2, HostUntouched DEF LatencyPing, Flags
    <2> QED BY <2>4, <2>5 DEF HostTypes, Framed
  <1>19. CASE UpdateTermSize
    <2> DEFINE f == [c \in ReadyClients |-> Resize(c)]
    <2>1. Spend("resize", MaxResizes) /\ SendEach(f) /\ DOMAIN f = ReadyClients
      BY <1>19 DEF UpdateTermSize
    <2>2. budget' \in [output : 0..MaxOutput, resize : 0..MaxResizes,
                       ping : 0..MaxHostPings]
      BY <1>1, <2>1, SpendTyped
    <2>3. \A c \in ReadyClients : f[c] \in PeerSays(Me)
      BY <1>1, ReadySends
    <2> HIDE DEF f
    <2>4. LinkTypes' /\ ToRelayFramed' /\ ToPeerFramed'
      BY <1>16, <1>19, <2>1, <2>3, Untouched DEF UpdateTermSize
    <2>5. Flags' /\ SessionKeys' /\ Heard'
      BY <1>1, <1>19, <2>2, HostUntouched DEF UpdateTermSize, Flags
    <2> QED BY <2>4, <2>5 DEF HostTypes, Framed
  <1>20. CASE CloseHost
    <2>1. Flags' /\ Heard'
      BY <1>1, <1>20, HostUntouched DEF CloseHost, Flags, HostState
    <2>2. SessionKeys'
      BY <1>1, <1>20 DEF CloseHost, SessionKeys
    <2>3. LinkTypes' /\ ToRelayFramed' /\ ToPeerFramed'
      BY <1>1, <1>20, Untouched, HangupFramed DEF CloseHost
    <2> QED BY <2>1, <2>2, <2>3 DEF HostTypes, Framed
  <1> QED BY <1>3, <1>4, <1>5, <1>6, <1>7, <1>8, <1>9, <1>10, <1>11, <1>12, <1>13,
             <1>14, <1>15, <1>17, <1>18, <1>19, <1>20 DEF HostStep, HostReadLoop

---------------------------------------------------------------------------
(* The invariant of the whole system.                                      *)

LEMMA InitInv == Init => Inv
  <1> SUFFICES ASSUME Init PROVE Inv
    OBVIOUS
  <1>1. \A S : << >> \in Seq(S)
    OBVIOUS
  <1>2. Relaying
    BY DEF Init, RelayInit, Relaying, RelayTypeOK, HandlerState, Located, Attached, Conns
  <1>3. Framed
    <2>1. /\ link = [x \in Conns |-> "none"]
          /\ toRelay = [x \in Conns |-> << >>] /\ toPeer = [x \in Conns |-> << >>]
      BY DEF Init, WireInit
    <2>2. LinkTypes
      BY <2>1 DEF LinkTypes, LinkState
    <2>3. \A x \in Conns : toRelay[x] = << >> /\ toPeer[x] = << >>
      BY <2>1
    <2>4. toRelay = [x \in Conns |-> toRelay[x]] /\ toPeer = [x \in Conns |-> toPeer[x]]
      BY <2>1
    <2>5. ASSUME NEW x \in Conns
          PROVE  toRelay[x] \in Seq(PeerSays(x)) /\ toPeer[x] \in Seq(RelaySays(x))
      <3>1. << >> \in Seq(PeerSays(x)) /\ << >> \in Seq(RelaySays(x))
        BY <1>1
      <3> QED BY <2>3, <3>1
    <2> QED BY <2>2, <2>4, <2>5 DEF Framed, ToRelayFramed, ToPeerFramed
  <1>4. HostTypes
    <2>1. Flags
      <3>1. 0 \in 0..MaxOutput /\ 0 \in 0..MaxResizes /\ 0 \in 0..MaxHostPings
        BY HostBoundsNat
      <3>2. budget \in [output : 0..MaxOutput, resize : 0..MaxResizes,
                        ping : 0..MaxHostPings]
        BY <3>1 DEF Init, HostInit
      <3> QED BY <3>2 DEF Init, HostInit, Flags, HostState
    <2>2. SessionKeys
      <3>1. crypto = [c \in Clients |-> {}] /\ verifying = NoClient
        BY DEF Init, HostInit
      <3>2. {c \in Clients : crypto[c] # {}} = {}
        BY <3>1
      <3> QED BY <3>1, <3>2, FS_EmptySet DEF SessionKeys, OneKey
    <2>3. Heard
      BY <1>1 DEF Init, HostInit, Heard
    <2> QED BY <2>1, <2>2, <2>3 DEF HostTypes
  <1>5. ClientTypes
    <2>1. /\ clientPc = [c \in Clients |-> "start"]
          /\ joinPw \in [Clients -> Passwords \cup {NoPassword}]
          /\ \A c \in Browsers : joinPw[c] = NoPassword
          /\ clientKey = [c \in Clients |-> NotReady]
          /\ DOMAIN peerPub = Clients
          /\ typed = [c \in Clients |-> 0] /\ shown = [c \in Clients |-> << >>]
          /\ callback \in [Clients -> BOOLEAN]
          /\ sealing = [c \in Clients |-> {}] /\ opening = [c \in Clients |-> << >>]
      BY DEF Init, ClientInit
    <2>2. clientPc \in [Clients -> ClientState]
      BY <2>1 DEF ClientState
    <2>3. typed \in [Clients -> 0..MaxInput]
      BY <2>1, ClientBoundsNat
    <2>4. shown \in [Clients -> Seq(Screen \cup Ciphers)]
      BY <1>1, <2>1
    <2>5. Promised
      BY <1>1, <2>1 DEF Promised
    <2> QED BY <2>1, <2>2, <2>3, <2>4, <2>5 DEF ClientTypes
  <1> QED BY <1>2, <1>3, <1>4, <1>5 DEF Inv

LEMMA RelayUntouched == ASSUME Relaying, UNCHANGED relayVars PROVE Relaying'
  BY DEF Relaying, RelayTypeOK, Located, relayVars

LEMMA ProgramsUntouched ==
    ASSUME HostTypes, ClientTypes, UNCHANGED <<hostVars, clientVars>>
    PROVE  joinPw' = joinPw /\ HostTypes' /\ ClientTypes'
  <1>1. joinPw' = joinPw /\ ClientTypes'
    BY ClientUntouched DEF clientVars
  <1>2. HostTypes'
    BY <1>1, HostUntouched DEF HostTypes, hostVars
  <1> QED BY <1>1, <1>2

LEMMA NextInv == Inv /\ [Next]_vars => Inv'
  <1> SUFFICES ASSUME Inv, [Next]_vars PROVE Inv'
    OBVIOUS
  <1>1. Relaying /\ Framed /\ HostTypes /\ ClientTypes
    BY DEF Inv
  <1>2. CASE UNCHANGED vars
    <2>1. Relaying' /\ HostTypes' /\ ClientTypes' /\ joinPw' = joinPw
      BY <1>1, <1>2, RelayUntouched, ProgramsUntouched DEF vars
    <2>2. Framed'
      BY <1>1, <1>2, <2>1, Untouched DEF vars, wireVars, Framed
    <2> QED BY <2>1, <2>2 DEF Inv
  <1>3. CASE RelayStep
    <2>1. HostTypes' /\ ClientTypes' /\ joinPw' = joinPw
      BY <1>1, <1>3, ProgramsUntouched DEF RelayStep
    <2>2. Relaying' /\ Framed'
      BY <1>1, <1>3, <2>1, EitherHandlerKeeps, HostHandlerKeeps, ClientHandlerKeeps
         DEF RelayStep
    <2> QED BY <2>1, <2>2 DEF Inv
  <1>4. CASE HostStep /\ UNCHANGED <<relayVars, clientVars>>
    <2>1. Relaying' /\ ClientTypes' /\ joinPw' = joinPw
      BY <1>1, <1>4, RelayUntouched, ClientUntouched DEF clientVars
    <2>2. HostTypes' /\ Framed'
      BY <1>1, <1>4, <2>1, HostStepKeeps
    <2> QED BY <2>1, <2>2 DEF Inv
  <1>5. ASSUME NEW c \in Clients, ClientStep(c), UNCHANGED <<relayVars, hostVars>>
        PROVE  Inv'
    <2>1. joinPw' = joinPw /\ ClientTypes' /\ Framed'
      BY <1>1, <1>5, ClientStepKeeps
    <2>2. Relaying' /\ HostTypes'
      BY <1>1, <1>5, <2>1, RelayUntouched, HostUntouched DEF HostTypes, hostVars
    <2> QED BY <2>1, <2>2 DEF Inv
  <1>6. ASSUME NEW x \in Conns, Lost(x) PROVE Inv'
    <2>1. HostTypes' /\ ClientTypes' /\ joinPw' = joinPw /\ Relaying'
      BY <1>1, <1>6, RelayUntouched, ProgramsUntouched DEF Lost
    <2>2. ToRelayFramed'
      BY <1>1, <1>6, <2>1, Untouched DEF Lost
    <2>3. LinkTypes' /\ ToPeerFramed'
      <3>1. CASE Hangup(x)
        BY <1>1, <2>1, <3>1, HangupFramed
      <3>2. CASE link' = [link EXCEPT ![x] = "expired"] /\ UNCHANGED toPeer
        BY <1>1, <2>1, <3>2, Untouched DEF Framed, LinkTypes, LinkState
      <3> QED BY <1>6, <3>1, <3>2 DEF Lost
    <2> QED BY <2>1, <2>2, <2>3 DEF Inv, Framed
  <1> QED BY <1>2, <1>3, <1>4, <1>5, <1>6 DEF Next, ProgramStep

LEMMA InvAlways == Spec => []Inv
  BY InitInv, NextInv, PTL DEF Spec

LEMMA SeqWider == ASSUME NEW S, NEW T, S \subseteq T PROVE Seq(S) \subseteq Seq(T)
  OBVIOUS

(* Every variable of the system keeps its type, however the relay, the     *)
(* host and any number of clients interleave and lose their connections.   *)
THEOREM TypeCorrect == Spec => []TypeOK
  <1>1. ASSUME Inv PROVE TypeOK
    <2>1. Relaying /\ Framed /\ HostTypes /\ ClientTypes
      BY <1>1 DEF Inv
    <2>2. WireTypeOK
      <3>1. \A x : Seq(PeerSays(x)) \subseteq Seq(Message)
        BY SeqWider DEF PeerSays
      <3>2. \A x : Seq(RelaySays(x)) \subseteq Seq(Message)
        BY SeqWider DEF RelaySays
      <3>3. link \in [Conns -> LinkState]
        BY <2>1 DEF Framed, LinkTypes
      <3>4. toRelay \in [Conns -> Seq(Message)]
        <4> DEFINE S == Seq(Message)
        <4>1. toRelay = [x \in Conns |-> toRelay[x]] /\ \A x \in Conns : toRelay[x] \in S
          BY <2>1, <3>1 DEF Framed, ToRelayFramed
        <4> HIDE DEF S
        <4>2. toRelay \in [Conns -> S]
          BY <4>1
        <4> QED BY <4>2 DEF S
      <3>5. toPeer \in [Conns -> Seq(Message)]
        <4> DEFINE S == Seq(Message)
        <4>1. toPeer = [x \in Conns |-> toPeer[x]] /\ \A x \in Conns : toPeer[x] \in S
          BY <2>1, <3>2 DEF Framed, ToPeerFramed
        <4> HIDE DEF S
        <4>2. toPeer \in [Conns -> S]
          BY <4>1
        <4> QED BY <4>2 DEF S
      <3> QED BY <3>3, <3>4, <3>5 DEF WireTypeOK
    <2>3. ASSUME NEW c \in Clients
          PROVE  Cardinality(crypto[c]) <= 1 /\ crypto[c] \in SUBSET (Keys \cup {NotReady})
      <3>1. OneKey(c, crypto[c]) /\ HostKeys(c) \subseteq Keys
        BY <2>1, FramePayloads DEF HostTypes, SessionKeys
      <3>2. CASE crypto[c] = {}
        BY <3>2, FS_EmptySet
      <3>3. CASE \E k \in HostKeys(c) \cup {NotReady} : crypto[c] = {k}
        <4>1. PICK k \in HostKeys(c) \cup {NotReady} : crypto[c] = {k}
          BY <3>3
        <4>2. Cardinality(crypto[c]) = 1
          BY <4>1, FS_Singleton
        <4>3. crypto[c] \in SUBSET (Keys \cup {NotReady})
          BY <3>1, <4>1
        <4> QED BY <4>2, <4>3
      <3> QED BY <3>1, <3>2, <3>3 DEF OneKey
    <2>4. crypto \in [Clients -> SUBSET (Keys \cup {NotReady})]
      BY <2>1, <2>3 DEF HostTypes, SessionKeys
    <2>5. verifying \in Clients \cup {NoClient}
      BY <2>1, ReadyFinite DEF HostTypes, SessionKeys
    <2>6. /\ injected \in [Clients -> Seq(Plains)]
          /\ shown \in [Clients -> Seq(Plains \cup Ciphertexts)]
          /\ opening \in [Clients -> Seq(Ciphertexts)]
      <3> DEFINE S == Seq(Inputs)
                 T == Seq(Screen \cup Ciphers)
                 U == Seq(Ciphers)
                 P == Seq(Plains)
                 Q == Seq(Plains \cup Ciphertexts)
                 R == Seq(Ciphertexts)
      <3>1. Inputs \subseteq Plains /\ Screen \subseteq Plains
        BY DEF Inputs, Outputs, Screen, Plains
      <3>2. Ciphers \subseteq Ciphertexts
        BY <3>1 DEF Ciphers, Sealed, Seal, Ciphertexts
      <3>3. S \subseteq P /\ T \subseteq Q /\ U \subseteq R
        BY <3>1, <3>2, SeqWider
      <3>4. /\ injected \in [Clients -> S] /\ shown \in [Clients -> T]
            /\ opening \in [Clients -> U]
        BY <2>1 DEF HostTypes, Heard, ClientTypes, Promised
      <3> HIDE DEF S, T, U, P, Q, R
      <3>5. /\ injected \in [Clients -> P] /\ shown \in [Clients -> Q]
            /\ opening \in [Clients -> R]
        BY <3>3, <3>4
      <3> QED BY <3>5 DEF P, Q, R
    <2>7. RelayTypeOK
      BY <2>1 DEF Relaying
    <2> QED BY <2>1, <2>2, <2>3, <2>4, <2>5, <2>6, <2>7
            DEF TypeOK, HostTypes, Flags, ClientTypes, Promised
  <1> QED BY <1>1, InvAlways, PTL

(* The steps that change a session or inject something, for one client.    *)
LEMMA NotAdmitted ==
    ASSUME NEW c \in Clients, joinPw' = joinPw,
           \/ crypto'[c] = {} \/ crypto'[c] = {NotReady}
           \/ crypto'[c] = {SharedKey(c, password)} /\ joinPw[c] # password
    PROVE  ~Admitted(c)'
  <1>1. ASSUME NEW k, crypto'[c] = {k} PROVE KeyOf(c)' = k
    BY <1>1 DEF KeyOf
  <1>2. CASE crypto'[c] = {}
    BY <1>2 DEF Admitted, ReadyClients, HasSession
  <1>3. CASE crypto'[c] = {NotReady}
    BY <1>1, <1>3 DEF Admitted, ReadyClients, IsReady
  <1>4. CASE crypto'[c] = {SharedKey(c, password)} /\ joinPw[c] # password
    <2>1. KeyOf(c)' = SharedKey(c, password)
      BY <1>1, <1>4
    <2>2. SharedKey(c, password).password = password
          /\ Derive(HostPub(c), ClientPub(c), joinPw[c]).password = joinPw[c]
      BY DEF SharedKey, Derive
    <2> QED BY <1>4, <2>1, <2>2 DEF Admitted
  <1> QED BY <1>2, <1>3, <1>4

LEMMA SameAdmitted ==
    ASSUME NEW c \in Clients, joinPw' = joinPw, crypto'[c] = crypto[c], ~Admitted(c)
    PROVE  ~Admitted(c)'
  BY DEF Admitted, ReadyClients, HasSession, KeyOf

(* No step lets a client in whose password is not the one the host has at  *)
(* that moment, nor injects a keystroke of one that is not in: however     *)
(* late the host sets its password, whatever connections are lost, and for *)
(* any number of clients.                                                  *)
THEOREM PasswordAlways == Spec => PasswordDemanded
  <1>1. ASSUME Inv, [Next]_vars, NEW c \in Clients, joinPw[c] # password, ~Admitted(c)
        PROVE  ~Admitted(c)' /\ injected'[c] = injected[c]
    <2>1. Framed /\ SessionKeys /\ Heard /\ ClientTypes
      BY <1>1 DEF Inv, HostTypes
    <2>2. joinPw' = joinPw
      <3>1. ASSUME NEW d \in Clients, ClientStep(d) PROVE joinPw' = joinPw
        BY <2>1, <3>1, ClientStepKeeps
      <3> QED BY <1>1, <3>1 DEF Next, ProgramStep, RelayStep, Lost, vars, clientVars
    <2>3. CASE UNCHANGED hostVars
      BY <1>1, <2>2, <2>3, SameAdmitted DEF hostVars
    <2>4. CASE UNCHANGED <<crypto, injected>>
      BY <1>1, <2>2, <2>4, SameAdmitted
    <2>5. CASE OnJoined \/ OnLeft
      <3> DEFINE d == Got(Me).client
      <3>1. /\ injected' = injected
            /\ \E k \in {{}, {NotReady}} : crypto' = [crypto EXCEPT ![d] = k]
        BY <2>5 DEF OnJoined, OnLeft
      <3>2. crypto'[c] = crypto[c] \/ crypto'[c] \in {{}, {NotReady}}
        BY <2>1, <3>1 DEF SessionKeys
      <3> QED BY <1>1, <2>2, <3>1, <3>2, SameAdmitted, NotAdmitted
    <2>6. CASE OnVerify
      <3>1. /\ injected' = injected
            /\ crypto' = crypto \/ crypto' = [crypto EXCEPT ![Got(Me).client] = {}]
        BY <2>6 DEF OnVerify
      <3>2. crypto'[c] = crypto[c] \/ crypto'[c] = {}
        BY <2>1, <3>1 DEF SessionKeys
      <3> QED BY <1>1, <2>2, <3>1, <3>2, SameAdmitted, NotAdmitted
    <2>7. CASE OnKeyExchange
      <3> DEFINE d == Got(Me).client
      <3>1. d \in Clients /\ Got(Me).data = ClientPub(d)
        BY <2>1, <2>2, <2>7, HostReadsFrame DEF OnKeyExchange
      <3>2. /\ injected' = injected
            /\ \/ crypto' = crypto
               \/ crypto' = [crypto EXCEPT ![d] = {SharedKey(d, password)}]
        BY <2>7, <3>1 DEF OnKeyExchange, Completed, SharedKey
      <3> HIDE DEF d
      <3>3. crypto'[c] = crypto[c] \/ crypto'[c] = {SharedKey(c, password)}
        BY <2>1, <3>1, <3>2 DEF SessionKeys
      <3> QED BY <1>1, <2>2, <3>2, <3>3, SameAdmitted, NotAdmitted
    <2>8. CASE OnInput
      <3> DEFINE d == Got(Me).client
                 m == Got(Me).data
      <3>1. d \in Clients /\ m \in Sealed({OwnKey(d)}, Inputs)
        BY <2>1, <2>2, <2>8, HostReadsFrame DEF OnInput
      <3>2. m.key = OwnKey(d)
        BY <3>1, SealedPayload
      <3>3. /\ crypto' = crypto
            /\ \/ injected' = injected
               \/ /\ d \in ReadyClients /\ Opens(KeyOf(d), m)
                  /\ injected' = [injected EXCEPT ![d] = Append(injected[d], m.plain)]
        BY <2>8 DEF OnInput
      <3>4. CASE injected' = injected
        BY <1>1, <2>2, <3>3, <3>4, SameAdmitted
      <3>5. CASE /\ d \in ReadyClients /\ Opens(KeyOf(d), m)
                 /\ injected' = [injected EXCEPT ![d] = Append(injected[d], m.plain)]
        <4>1. Admitted(d)
          BY <3>2, <3>5 DEF Admitted, Opens, OwnKey, SharedKey
        <4>2. d # c
          BY <1>1, <4>1
        <4> HIDE DEF d, m
        <4>3. injected'[c] = injected[c]
          BY <2>1, <3>5, <4>2 DEF Heard
        <4> QED BY <1>1, <2>2, <3>3, <4>3, SameAdmitted
      <3> QED BY <3>3, <3>4, <3>5
    <2>9. HostStep \/ UNCHANGED hostVars
      BY <1>1 DEF Next, ProgramStep, RelayStep, Lost, vars
    <2>10. HostStep =>
             \/ OnJoined \/ OnLeft \/ OnVerify \/ OnKeyExchange \/ OnInput
             \/ UNCHANGED <<crypto, injected>>
      BY DEF HostStep, HostReadLoop, HostRegister, HostRegistered, HostRefused, SetPassword,
             WriteVerify, OnPing, OnPong, HostReadFails, ReadOutput, LatencyPing,
             UpdateTermSize, CloseHost, hostVars
    <2> QED BY <2>3, <2>4, <2>5, <2>6, <2>7, <2>8, <2>9, <2>10
  <1>2. ASSUME Inv, [Next]_vars
        PROVE  [\A c \in Clients : joinPw[c] # password /\ ~Admitted(c)
                   => ~Admitted(c)' /\ injected'[c] = injected[c]]_vars
    BY <1>1, <1>2
  <1> QED BY <1>2, InvAlways, PTL DEF Spec, PasswordDemanded

(* No keystroke, piece of output or window size is in the clear on any     *)
(* connection: every frame that carries one carries a ciphertext.          *)
THEOREM NothingInClear == Spec => []OnlyCiphertext
  <1>1. ASSUME NEW K, NEW S, NEW d \in Sealed(K, S) PROVE "key" \in DOMAIN d
    BY SealedPayload
  <1>2. ASSUME NEW x, NEW m, PeerFrame(x, m) \/ RelayFrame(x, m),
               m.type \in {"input", "output", "resize"}
        PROVE  "key" \in DOMAIN m.data
    BY <1>1, <1>2 DEF PeerFrame, RelayFrame, HostFrame, ClientFrame
  <1>3. ASSUME Inv, NEW x \in Conns, NEW q \in {toRelay[x], toPeer[x]}, NEW i \in DOMAIN q,
               q[i].type \in {"input", "output", "resize"}
        PROVE  "key" \in DOMAIN q[i].data
    <2>1. toRelay[x] \in Seq(PeerSays(x)) /\ toPeer[x] \in Seq(RelaySays(x))
      BY <1>3 DEF Inv, Framed, ToRelayFramed, ToPeerFramed
    <2>2. CASE q \in Seq(PeerSays(x))
      <3>1. q[i] \in PeerSays(x)
        BY <1>3, <2>2, ElementOfSeq
      <3> QED BY <1>2, <1>3, <3>1 DEF PeerSays
    <2>3. CASE q \in Seq(RelaySays(x))
      <3>1. q[i] \in RelaySays(x)
        BY <1>3, <2>3, ElementOfSeq
      <3> QED BY <1>2, <1>3, <3>1 DEF RelaySays
    <2> QED BY <1>3, <2>1, <2>2, <2>3
  <1>4. Inv => OnlyCiphertext
    BY <1>3 DEF OnlyCiphertext
  <1> QED BY <1>4, InvAlways, PTL

=============================================================================
