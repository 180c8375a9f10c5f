-------------------------------- MODULE Host --------------------------------
(***************************************************************************)
(* The host program (src/internal/host/host.go, driven by src/cmd/host.go) *)
(* on the connection Me: the read loop, the goroutine that forwards the    *)
(* terminal's output, the latency pinger and the window-size callback.     *)
(* All of them write to one connection under connMu, one frame at a time.  *)
(***************************************************************************)
EXTENDS Wire, Crypto, SequencesExt

CONSTANTS
    Me,            \* the host's connection
    HostPassword,  \* what --password sets, NoPassword if it is not given
    HasOutput,     \* terminal mode (PTY) rather than system mode
    MaxOutput,     \* bound on the chunks of output the terminal produces
    MaxResizes,    \* bound on the window-size changes
    MaxHostPings,  \* bound on the ticks of a latency pinger
    HostDeadlines  \* whether the host's read deadline may pass on a live link

ASSUME MeIsHost == Me \in Hosts
ASSUME ModeBoolean == HasOutput \in BOOLEAN /\ HostDeadlines \in BOOLEAN
ASSUME HostBoundsNat ==
    MaxOutput \in Nat /\ MaxResizes \in Nat /\ MaxHostPings \in Nat

VARIABLES
    hostPc,    \* where the host program is
    password,  \* h.password
    crypto,    \* h.cryptoSessions: the key of each session; {} if there is none
    keyReady,  \* whether the keyReady channel is closed
    verifying, \* the client whose verify token the read loop is about to send
    sized,     \* whether h.termCols and h.termRows are known
    budget,    \* outputs produced, resizes and pings done so far
    injected   \* what has been injected for each client

hostVars == <<hostPc, password, crypto, keyReady, verifying, sized, budget,
              injected>>

HostState == {"start", "registering", "running", "deaf", "failed", "closed"}

(* cryptoSessions[c] as a set: empty, or the one session's key.            *)
HasSession(c) == crypto[c] # {}
KeyOf(c) == CHOOSE k \in crypto[c] : TRUE
ReadyClients == {c \in Clients : HasSession(c) /\ IsReady(KeyOf(c))}

HostPub(c) == [pub |-> Me, client |-> c]

HostInit ==
    /\ hostPc = "start"
    /\ password = NoPassword
    /\ crypto = [c \in Clients |-> {}]
    /\ keyReady = FALSE
    /\ verifying = NoClient
    /\ sized = FALSE
    /\ budget = [output |-> 0, resize |-> 0, ping |-> 0]
    /\ injected = [c \in Clients |-> << >>]

(* A frame for each of some clients, in the order the map is iterated.  The  *)
(* map is locked against changes meanwhile; a frame that another goroutine *)
(* writes in between could as well come before or after, since each frame  *)
(* has one addressee and every addressee has one of these.                 *)
SendEach(frame) ==
    \E order \in SetToSeqs(DOMAIN frame) :
        toRelay' = [toRelay EXCEPT ![Me] =
            IF link[Me] \in Up
              THEN @ \o [i \in DOMAIN order |-> frame[order[i]]]
              ELSE @]

Spend(what, max) ==
    /\ budget[what] < max
    /\ budget' = [budget EXCEPT ![what] = @ + 1]

---------------------------------------------------------------------------
(* New                                                                     *)

HostRegister ==
    /\ hostPc = "start"
    /\ link[Me] = "open"
    /\ hostPc' = "registering"
    /\ \E k \in Codes : Send(Me, Msg("host_register", NoClient, k))
    /\ UNCHANGED <<link, toPeer, password, crypto, keyReady, verifying, sized,
                   budget, injected>>

HostRegistered ==
    /\ hostPc = "registering"
    /\ Arrived(Me)
    /\ Got(Me).type = "host_registered"
    /\ hostPc' = "running"
    /\ Get(Me)
    /\ UNCHANGED <<link, toRelay, password, crypto, keyReady, verifying, sized,
                   budget, injected>>

HostRefused ==
    /\ hostPc = "registering"
    /\ \/ Arrived(Me) /\ Got(Me).type # "host_registered"
       \/ ~Arrived(Me) /\ link[Me] \notin Up
    /\ hostPc' = "failed"
    /\ Hangup(Me)
    /\ UNCHANGED <<toRelay, password, crypto, keyReady, verifying, sized, budget,
                   injected>>

(* The read loop is running by the time the command sets the password.     *)
SetPassword ==
    /\ hostPc \in {"running", "deaf"}
    /\ password = NoPassword
    /\ HostPassword # NoPassword
    /\ password' = HostPassword
    /\ UNCHANGED <<wireVars, hostPc, crypto, keyReady, verifying, sized, budget,
                   injected>>

---------------------------------------------------------------------------
(* readRelayMessages: one action for each case, and the error return       *)

Reading == hostPc = "running" /\ verifying = NoClient
HostReads(t) == Reading /\ Arrived(Me) /\ Got(Me).type = t /\ Get(Me)

OnJoined ==
    LET c == Got(Me).client IN
    /\ HostReads("joined")
    /\ crypto' = [crypto EXCEPT ![c] = {NotReady}]
    /\ Send(Me, Msg("key_exchange", c, HostPub(c)))
    /\ UNCHANGED <<link, hostPc, password, keyReady, verifying, sized, budget,
                   injected>>

OnLeft ==
    /\ HostReads("left")
    /\ crypto' = [crypto EXCEPT ![Got(Me).client] = {}]
    /\ UNCHANGED <<link, toRelay, hostPc, password, keyReady, verifying, sized,
                   budget, injected>>

BugSessionAdded(c, peer) ==  \* beside the one that is there
    [crypto EXCEPT ![c] = @ \cup {Derive(HostPub(c), peer, password)}]
BugNoPassword(c, peer) ==  \* the password set meanwhile is not read
    [crypto EXCEPT ![c] = {Derive(HostPub(c), peer, NoPassword)}]
Completed(c, peer) ==
    [crypto EXCEPT ![c] = {Derive(HostPub(c), peer, password)}]

(* Complete runs under cryptoMu; the lock is released before the verify    *)
(* token is written, and from then on the session is ready for everybody.  *)
OnKeyExchange ==
    LET c == Got(Me).client IN
    /\ HostReads("key_exchange")
    /\ IF HasSession(c)
         THEN crypto' = Completed(c, Got(Me).data) /\ verifying' = c
         ELSE UNCHANGED <<crypto, verifying>>
    /\ UNCHANGED <<link, toRelay, hostPc, password, keyReady, sized, budget,
                   injected>>

BugVerifyUnsent ==  \* the write is missing
    /\ verifying # NoClient
    /\ verifying' = NoClient
    /\ UNCHANGED <<wireVars, hostPc, password, crypto, keyReady, sized, budget,
                   injected>>

WriteVerify ==
    /\ verifying # NoClient
    /\ Send(Me, Msg("verify", verifying, VerifyToken(KeyOf(verifying))))
    /\ verifying' = NoClient
    /\ UNCHANGED <<link, toPeer, hostPc, password, crypto, keyReady, sized,
                   budget, injected>>

Resize(c) ==
    Msg("resize", c, IF c \in ReadyClients THEN Seal(KeyOf(c), [resize |-> TRUE])
                                           ELSE [resize |-> TRUE])
Banner(c) == Msg("output", c, Seal(KeyOf(c), [banner |-> TRUE]))

BugNeverReady(c, right) == keyReady  \* the close is missing
Readied(c, right) == keyReady \/ (HasSession(c) /\ right)

(* A client's verify token: a wrong one ends its session; the right one    *)
(* opens keyReady and is answered with the window size, and with a banner  *)
(* in system mode.                                                         *)
OnVerify ==
    LET m == Got(Me)
        c == m.client
        right == CheckVerify(KeyOf(c), m.data)
    IN
    /\ HostReads("verify")
    /\ crypto' = IF HasSession(c) /\ ~right THEN [crypto EXCEPT ![c] = {}]
                                            ELSE crypto
    /\ keyReady' = Readied(c, right)
    /\ IF HasSession(c) /\ right
         THEN toRelay' = [toRelay EXCEPT ![Me] =
                IF link[Me] \in Up
                  THEN @ \o (IF sized THEN <<Resize(c)>> ELSE << >>)
                         \o (IF HasOutput THEN << >> ELSE <<Banner(c)>>)
                  ELSE @]
         ELSE UNCHANGED toRelay
    /\ UNCHANGED <<link, hostPc, password, verifying, sized, budget, injected>>

(* Input that the sender's session opens is injected; in system mode it is *)
(* echoed to every ready client.                                           *)
OnInput ==
    LET m == Got(Me)
        c == m.client
        accepted == c \in ReadyClients /\ Opens(KeyOf(c), m.data)
    IN
    /\ HostReads("input")
    /\ IF accepted
         THEN /\ injected' = [injected EXCEPT ![c] = Append(@, m.data.plain)]
              /\ IF HasOutput THEN UNCHANGED toRelay
                              ELSE SendEach([d \in ReadyClients |->
                                Msg("output", d, Seal(KeyOf(d), m.data.plain))])
         ELSE UNCHANGED <<injected, toRelay>>
    /\ UNCHANGED <<link, hostPc, password, crypto, keyReady, verifying, sized,
                   budget>>

OnPing ==
    /\ HostReads("ping")
    /\ Send(Me, Msg("pong", Got(Me).client, NoData))
    /\ UNCHANGED <<link, hostVars>>

(* The round-trip time that is computed there is left out.                 *)
OnPong ==
    /\ HostReads("pong")
    /\ UNCHANGED <<link, toRelay, hostVars>>

(* The loop returns; the other goroutines go on, and done stays open.      *)
HostReadFails ==
    /\ Reading
    /\ ~Arrived(Me)
    /\ link[Me] \notin Up \/ HostDeadlines
    /\ hostPc' = "deaf"
    /\ UNCHANGED <<wireVars, password, crypto, keyReady, verifying, sized,
                   budget, injected>>

---------------------------------------------------------------------------
(* The other goroutines                                                    *)

Working == hostPc \in {"running", "deaf"}

BugSentTwice ==  \* a write is repeated
    LET Out(c) == Msg("output", c, Seal(KeyOf(c), [output |-> budget.output + 1]))
    IN
    /\ Working /\ HasOutput /\ keyReady
    /\ Spend("output", MaxOutput)
    /\ \E order \in SetToSeqs(ReadyClients) :
         toRelay' = [toRelay EXCEPT ![Me] =
             @ \o [i \in DOMAIN order |-> Out(order[i])]
               \o [i \in DOMAIN order |-> Out(order[i])]]
    /\ UNCHANGED <<link, toPeer, hostPc, password, crypto, keyReady, verifying,
                   sized, injected>>

(* readOutput waits for keyReady, then broadcasts every chunk it reads.    *)
ReadOutput ==
    /\ Working /\ HasOutput /\ keyReady
    /\ Spend("output", MaxOutput)
    /\ SendEach([c \in ReadyClients |->
         Msg("output", c, Seal(KeyOf(c), [output |-> budget.output + 1]))])
    /\ UNCHANGED <<link, toPeer, hostPc, password, crypto, keyReady, verifying,
                   sized, injected>>

LatencyPing ==
    /\ Working /\ keyReady
    /\ Spend("ping", MaxHostPings)
    /\ SendEach([c \in ReadyClients |-> Msg("ping", c, NoData)])
    /\ UNCHANGED <<link, toPeer, hostPc, password, crypto, keyReady, verifying,
                   sized, injected>>

BugResizeEverybody ==  \* sessions that are not ready are not skipped
    /\ Working /\ HasOutput
    /\ Spend("resize", MaxResizes)
    /\ sized' = TRUE
    /\ SendEach([c \in {d \in Clients : HasSession(d)} |-> Resize(c)])
    /\ UNCHANGED <<link, toPeer, hostPc, password, crypto, keyReady, verifying,
                   injected>>

UpdateTermSize ==
    /\ Working /\ HasOutput
    /\ Spend("resize", MaxResizes)
    /\ sized' = TRUE
    /\ SendEach([c \in ReadyClients |-> Resize(c)])
    /\ UNCHANGED <<link, toPeer, hostPc, password, crypto, keyReady, verifying,
                   injected>>

(* Close: the user ends the session; every goroutine stops.                *)
CloseHost ==
    /\ Working
    /\ hostPc' = "closed"
    /\ Hangup(Me)
    /\ verifying' = NoClient
    /\ UNCHANGED <<toRelay, password, crypto, keyReady, sized, budget, injected>>

HostReadLoop ==
    \/ OnJoined \/ OnLeft \/ OnKeyExchange \/ WriteVerify \/ OnVerify
    \/ OnInput \/ OnPing \/ OnPong \/ HostReadFails

HostStep ==
    \/ HostRegister \/ HostRegistered \/ HostRefused \/ SetPassword
    \/ HostReadLoop
    \/ ReadOutput \/ LatencyPing \/ UpdateTermSize
    \/ CloseHost

=============================================================================
