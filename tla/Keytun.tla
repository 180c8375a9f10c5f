------------------------------- MODULE Keytun -------------------------------
(***************************************************************************)
(* The whole system: the relay, one host program and its clients, composed *)
(* over the connections of Wire.  The network may drop a connection, and   *)
(* the relay's read deadline may pass, when Lossy holds.                   *)
(***************************************************************************)
EXTENDS Relay, Host, Client

CONSTANT Lossy

ASSUME LossyBoolean == Lossy \in BOOLEAN
ASSUME OneHost == Hosts = {Me}

vars == <<wireVars, relayVars, hostVars, clientVars>>

Init ==
    /\ WireInit
    /\ RelayInit
    /\ HostInit
    /\ ClientInit

RelayStep ==
    /\ \/ \E x \in Conns : Accept(x)
       \/ HostHandler(Me)
       \/ \E c \in Clients : ClientHandler(c)
    /\ UNCHANGED <<hostVars, clientVars>>

Lost(x) ==
    /\ Lossy
    /\ link[x] = "open"
    /\ \/ Hangup(x)
       \/ link' = [link EXCEPT ![x] = "expired"] /\ UNCHANGED toPeer
    /\ UNCHANGED <<toRelay, relayVars, hostVars, clientVars>>

ProgramStep ==
    \/ RelayStep
    \/ HostStep /\ UNCHANGED <<relayVars, clientVars>>
    \/ \E c \in Clients : ClientStep(c) /\ UNCHANGED <<relayVars, hostVars>>

Next == ProgramStep \/ \E x \in Conns : Lost(x)

Spec == Init /\ [][Next]_vars

(* The goroutines of the three programs are scheduled, a program that is   *)
(* started connects and shakes hands, and a browser's promises settle.     *)
(* Nobody is obliged to type, to produce output, to resize or to leave.    *)
Fairness ==
    /\ \A x \in Conns :
         WF_vars(Accept(x) /\ UNCHANGED <<hostVars, clientVars>>)
    /\ WF_vars(HostHandler(Me) /\ UNCHANGED <<hostVars, clientVars>>)
    /\ \A c \in Clients :
         /\ WF_vars(ClientHandler(c) /\ UNCHANGED <<hostVars, clientVars>>)
         /\ WF_vars((Join(c) \/ ClientHandshake(c))
                      /\ UNCHANGED <<relayVars, hostVars>>)
         /\ WF_vars(ClientReadLoop(c) /\ UNCHANGED <<relayVars, hostVars>>)
         /\ WF_vars(BrowserSettles(c) /\ UNCHANGED <<relayVars, hostVars>>)
    /\ WF_vars((HostRegister \/ HostRegistered \/ HostRefused \/ HostReadLoop)
                 /\ UNCHANGED <<relayVars, clientVars>>)

FairSpec == Spec /\ Fairness

---------------------------------------------------------------------------
(* What the frames carry: a code, a public key, a ciphertext, or nothing.  *)
Pubs == [pub : Conns, client : Clients]
Keys == [pair : {{p, q} : p \in Pubs, q \in Pubs},
         password : Passwords \cup {NoPassword, HostPassword}]
Plains == {Challenge, [resize |-> TRUE], [banner |-> TRUE]}
            \cup [input : 1..MaxInput] \cup [output : 1..MaxOutput]
Ciphertexts == [key : Keys, plain : Plains]
Payloads == Codes \cup {NoData} \cup Pubs \cup Ciphertexts

ASSUME DataCarriesPayloads == Payloads \subseteq Data

TypeOK ==
    /\ WireTypeOK
    /\ RelayTypeOK
    /\ hostPc \in HostState
    /\ password \in {NoPassword, HostPassword}
    /\ \A c \in Clients : Cardinality(crypto[c]) <= 1
    /\ crypto \in [Clients -> SUBSET (Keys \cup {NotReady})]
    /\ keyReady \in BOOLEAN /\ sized \in BOOLEAN
    /\ verifying \in Clients \cup {NoClient}
    /\ injected \in [Clients -> Seq(Plains)]
    /\ clientPc \in [Clients -> ClientState]
    /\ clientKey \in [Clients -> Keys \cup {NotReady}]
    /\ typed \in [Clients -> 0..MaxInput]
    /\ callback \in [Clients -> BOOLEAN]
    /\ sealing \in [Clients -> SUBSET (1..MaxInput)]
    /\ opening \in [Clients -> Seq(Ciphertexts)]
    /\ shown \in [Clients -> Seq(Plains \cup Ciphertexts)]

(* The two ends of a finished handshake hold the same key.  A session that *)
(* is replaced or completed twice would break it.                          *)
KeyAgreement ==
    \A c \in Clients \ Browsers :
        clientPc[c] = "running" /\ c \in ReadyClients => KeyOf(c) = clientKey[c]

(* A key_exchange or verify frame finds the session that "joined" created: *)
(* the host drops a frame of a client it has no session for, so one that   *)
(* overtook the notification would leave the client waiting for ever.      *)
SessionBeforeKey ==
    Reading /\ Arrived(Me) /\ Got(Me).type \in {"key_exchange", "verify"}
        => HasSession(Got(Me).client)

(* A client gets in, and its keystrokes reach the terminal, only by the    *)
(* password the host has at that time; once in, it stays in.  A client     *)
(* without a password is let in until SetPassword has run (cmd/host.go:114 *)
(* starts the read loop first), although cmd/host.go:62 says of the        *)
(* password that "clients must provide it to join".                        *)
Admitted(c) ==
    /\ c \in ReadyClients
    /\ KeyOf(c) = Derive(HostPub(c), ClientPub(c), joinPw[c])

PasswordDemanded ==
    [][\A c \in Clients : joinPw[c] # password /\ ~Admitted(c)
           => ~Admitted(c)' /\ injected'[c] = injected[c]]_vars

(* Keystrokes, output and window sizes are ciphertext on every connection: *)
(* what sends them goes by the sessions that are ready (host.go:185, 463). *)
OnlyCiphertext ==
    \A x \in Conns : \A q \in {toRelay[x], toPeer[x]} : \A i \in DOMAIN q :
        q[i].type \in {"input", "output", "resize"}
            => "key" \in DOMAIN q[i].data

(* client.go:51, of New: "Returns an error if the session doesn't exist or *)
(* the password is wrong."  Apart from failures of the network, nothing    *)
(* else ends a handshake.                                                  *)
NoProtocolFailure == \A c \in Clients : clientPc[c] # "protocol"

(* A handshake that is begun ends, with a session or an error, without     *)
(* waiting for a deadline.                                                 *)
HandshakeEnds ==
    \A c \in Clients : clientPc[c] = "joining"
        ~> clientPc[c] \in {"running", "closed"} \cup Failures

(* keytun-client.js:102, of connect(): "Connect to the relay and complete  *)
(* the key exchange. Resolves when the encrypted session is ready."  A     *)
(* client that has sent its key gets the host's, unless an end of the      *)
(* tunnel is lost.                                                         *)
ExchangeEnds ==
    \A c \in Clients : clientPc[c] = "exchanging"
        ~> clientPc[c] # "exchanging" \/ link[c] # "open" \/ link[Me] # "open"

(* host.go:435: KeyReady "returns a channel that is closed when the first  *)
(* client key exchange completes".  The terminal's output waits for it.    *)
KeyReadyCloses ==
    \A c \in Clients : c \in ReadyClients
        ~> keyReady \/ c \notin ReadyClients \/ hostPc # "running"

(* A keystroke is injected unless an end of the tunnel is lost.            *)
InputArrives ==
    \A c \in Clients \ Browsers, n \in 1..MaxInput :
        typed[c] = n ~> \/ Len(injected[c]) >= n
                        \/ link[c] # "open"
                        \/ link[Me] # "open"

---------------------------------------------------------------------------
(* The tunnel each command-line client sees, end to end, beside any number *)
(* of browsers.                                                            *)
Terminals == Clients \ Browsers
Tunnels == INSTANCE Tunnel WITH
    Clients  <- Terminals,
    sent     <- [c \in Terminals |-> typed[c]],
    injected <- [c \in Terminals |-> injected[c]],
    produced <- budget.output,
    shown    <- [c \in Terminals |-> shown[c]]
TunnelSpec == Tunnels!Spec

(* What is left of it for a browser, in terminal mode.  It does not wait   *)
(* for one encryption or decryption before it begins the next              *)
(* (keytun-client.js:136, 196), so keystrokes and output may change their  *)
(* order; but no keystroke is injected twice, no output is shown twice,    *)
(* none is missing between two others unless it is being decrypted, and    *)
(* what came before the key (199) is shown first, as ciphertext.           *)
Pieces(c) == [i \in DOMAIN (shown[c] \o opening[c]) |->
                LET d == (shown[c] \o opening[c])[i] IN
                IF d \in Ciphertexts THEN d.plain.output ELSE d.output]


=============================================================================
