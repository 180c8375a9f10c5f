------------------------------- MODULE Client -------------------------------
(***************************************************************************)
(* The clients: the command-line client (src/internal/client/client.go,    *)
(* driven by src/cmd/join.go), and for the connections in Browsers the web *)
(* client (src/website/src/scripts/keytun-client.js).                      *)
(***************************************************************************)
EXTENDS Wire, Crypto, SequencesExt

CONSTANTS
    Browsers,       \* the clients that run in a browser
    Passwords,      \* what the command-line clients may be given as --password
    MaxInput,       \* bound on the keystrokes a client types
    MaxClientPings, \* bound on the ticks of a latency pinger
    Deadlines       \* whether the 5 s deadlines of the handshake may pass

ASSUME BrowsersAreClients == Browsers \subseteq Clients
ASSUME DeadlinesBoolean == Deadlines \in BOOLEAN
ASSUME ClientBoundsNat == MaxInput \in Nat /\ MaxClientPings \in Nat

VARIABLES
    clientPc,  \* where each client program is
    joinPw,    \* the password it derives its key with
    clientKey, \* its session key
    peerPub,   \* a browser: the host's key, while it derives
    callback,  \* whether a callback for output is set
    typed,     \* keystrokes sent so far
    shown,     \* what the callback was given: output, or its ciphertext
    sealing,   \* a browser: the keystrokes being encrypted
    opening,   \* a browser: the output being decrypted
    pinged     \* latency pings sent so far

promises == <<sealing, opening>>
clientVars == <<clientPc, joinPw, clientKey, peerPub, callback, typed, shown,
                promises, pinged>>

(* What New returns an error for: the relay refused, the host's verify     *)
(* token did not open, a frame of another type arrived, a read failed or   *)
(* its deadline passed.                                                    *)
Failures == {"refused", "wrongPassword", "protocol", "lost", "timeout"}

ClientState ==
    {"start", "joining", "exchanging", "verifying",  \* New
     "keygen", "deriving",                           \* a browser's awaits
     "running", "closed"} \cup Failures

ClientInit ==
    /\ clientPc = [c \in Clients |-> "start"]
    /\ joinPw \in {f \in [Clients -> Passwords \cup {NoPassword}] :
                     \A c \in Browsers : f[c] = NoPassword}
    /\ clientKey = [c \in Clients |-> NotReady]
    /\ peerPub = [c \in Clients |-> NoData]
    /\ callback \in {f \in [Clients -> BOOLEAN] :
                       \A c \in Clients \ Browsers : ~f[c]}
    /\ typed = [c \in Clients |-> 0]
    /\ shown = [c \in Clients |-> << >>]
    /\ sealing = [c \in Clients |-> {}]
    /\ opening = [c \in Clients |-> << >>]
    /\ pinged = [c \in Clients |-> 0]

ClientPub(c) == [pub |-> c, client |-> c]

Move(c, from, to) ==
    /\ clientPc[c] = from
    /\ clientPc' = [clientPc EXCEPT ![c] = to]

ClientReads(c, t) == Arrived(c) /\ Got(c).type = t /\ Get(c)

---------------------------------------------------------------------------
(* New: a fixed sequence of reads, and any other frame ends it             *)

Join(c) ==
    /\ Move(c, "start", "joining")
    /\ link[c] = "open"
    /\ \E k \in Codes : Send(c, Msg("client_join", NoClient, k))
    /\ UNCHANGED <<link, toPeer, joinPw, clientKey, peerPub, callback, typed,
                   shown, promises, pinged>>

SendKeyExchange(c) == Send(c, Msg("key_exchange", NoClient, ClientPub(c)))

OnSessionJoined(c) ==
    /\ c \notin Browsers
    /\ Move(c, "joining", "exchanging")
    /\ ClientReads(c, "session_joined")
    /\ SendKeyExchange(c)
    /\ UNCHANGED <<link, joinPw, clientKey, peerPub, callback, typed, shown,
                   promises, pinged>>

OnHostKey(c) ==
    /\ c \notin Browsers
    /\ Move(c, "exchanging", "verifying")
    /\ ClientReads(c, "key_exchange")
    /\ LET key == Derive(ClientPub(c), Got(c).data, joinPw[c]) IN
         /\ clientKey' = [clientKey EXCEPT ![c] = key]
         /\ Send(c, Msg("verify", NoClient, VerifyToken(key)))
    /\ UNCHANGED <<link, joinPw, peerPub, callback, typed, shown, promises, pinged>>

BugVerifyUnchecked(c) ==  \* any token will do
    /\ c \notin Browsers
    /\ Move(c, "verifying", "running")
    /\ ClientReads(c, "verify")
    /\ UNCHANGED <<link, toRelay, joinPw, clientKey, peerPub, callback, typed,
                   shown, promises, pinged>>

OnHostVerify(c) ==
    /\ c \notin Browsers
    /\ Move(c, "verifying", "running")
    /\ ClientReads(c, "verify")
    /\ CheckVerify(clientKey[c], Got(c).data)
    /\ UNCHANGED <<link, toRelay, joinPw, clientKey, peerPub, callback, typed,
                   shown, promises, pinged>>

Expected(c) ==
    CASE clientPc[c] = "joining"    -> "session_joined"
      [] clientPc[c] = "exchanging" -> "key_exchange"
      [] clientPc[c] = "verifying"  -> "verify"

(* Every error return of New closes the connection.                        *)
Fail(c, why) ==
    /\ clientPc' = [clientPc EXCEPT ![c] = why]
    /\ Hangup(c)
    /\ UNCHANGED <<toRelay, joinPw, clientKey, peerPub, callback, typed, shown,
                   promises, pinged>>

HandshakeFails(c) ==
    /\ c \notin Browsers
    /\ clientPc[c] \in {"joining", "exchanging", "verifying"}
    /\ \/ /\ Arrived(c)
          /\ \/ /\ Got(c).type # Expected(c)
                /\ Fail(c, IF Got(c).type = "error" THEN "refused" ELSE "protocol")
             \/ /\ clientPc[c] = "verifying"
                /\ Got(c).type = "verify"
                /\ ~CheckVerify(clientKey[c], Got(c).data)
                /\ Fail(c, "wrongPassword")
       \/ ~Arrived(c) /\ link[c] \notin Up /\ Fail(c, "lost")
       \/ Deadlines /\ Fail(c, "timeout")

---------------------------------------------------------------------------
(* The goroutines that New starts, and the caller                          *)

SetOnOutput(c) ==
    /\ c \notin Browsers
    /\ clientPc[c] = "running"
    /\ ~callback[c]
    /\ callback' = [callback EXCEPT ![c] = TRUE]
    /\ UNCHANGED <<wireVars, clientPc, joinPw, clientKey, peerPub, typed, shown,
                   promises, pinged>>

(* Output is shown if a callback is set and the session opens it.          *)
OnOutput(c) ==
    /\ c \notin Browsers
    /\ clientPc[c] = "running"
    /\ ClientReads(c, "output")
    /\ LET d == Got(c).data IN
         shown' = IF callback[c] /\ Opens(clientKey[c], d)
                    THEN [shown EXCEPT ![c] = Append(@, d.plain)]
                    ELSE shown
    /\ UNCHANGED <<link, toRelay, clientPc, joinPw, clientKey, peerPub, callback,
                   typed, promises, pinged>>

OnHostPing(c) ==
    /\ c \notin Browsers
    /\ clientPc[c] = "running"
    /\ ClientReads(c, "ping")
    /\ Send(c, Msg("pong", NoClient, NoData))
    /\ UNCHANGED <<link, clientVars>>

(* A pong (its round-trip time is left out) and what nobody handles.       *)
OnOther(c) ==
    /\ clientPc[c] = "running"
    /\ Arrived(c)
    /\ Got(c).type \notin {"output"} \cup IF c \in Browsers THEN {} ELSE {"ping"}
    /\ Get(c)
    /\ UNCHANGED <<link, toRelay, clientVars>>

SendInput(c) ==
    /\ c \notin Browsers
    /\ clientPc[c] = "running"
    /\ typed[c] < MaxInput
    /\ typed' = [typed EXCEPT ![c] = @ + 1]
    /\ Send(c, Msg("input", NoClient, Seal(clientKey[c], [input |-> typed[c] + 1])))
    /\ UNCHANGED <<link, toPeer, clientPc, joinPw, clientKey, peerPub, callback,
                   shown, promises, pinged>>

LatencyPings(c) ==
    /\ c \notin Browsers
    /\ clientPc[c] = "running"
    /\ pinged[c] < MaxClientPings
    /\ pinged' = [pinged EXCEPT ![c] = @ + 1]
    /\ Send(c, Msg("ping", NoClient, NoData))
    /\ UNCHANGED <<link, toPeer, clientPc, joinPw, clientKey, peerPub, callback,
                   typed, shown, promises>>

(* The user disconnects, or the read loop meets an error.                  *)
CloseClient(c) ==
    /\ clientPc[c] = "running"
    /\ Fail(c, "closed")

ReadLoopFails(c) ==
    /\ clientPc[c] = "running"
    /\ ~Arrived(c)
    /\ link[c] \notin Up
    /\ Fail(c, "closed")

---------------------------------------------------------------------------
(* The browser: messages are handled whenever connect() is at an await.  A *)
(* page sets its callback when its first connect() has returned, so that a *)
(* connection that replaces a lost one begins with the callback set.       *)

BrowserJoined(c) ==
    /\ c \in Browsers
    /\ Move(c, "joining", "keygen")
    /\ ClientReads(c, "session_joined")
    /\ UNCHANGED <<link, toRelay, joinPw, clientKey, peerPub, callback, typed,
                   shown, promises, pinged>>

KeyPairGenerated(c) ==
    /\ Move(c, "keygen", "exchanging")
    /\ SendKeyExchange(c)
    /\ UNCHANGED <<link, toPeer, joinPw, clientKey, peerPub, callback, typed,
                   shown, promises, pinged>>

BrowserKey(c) ==
    /\ c \in Browsers
    /\ Move(c, "exchanging", "deriving")
    /\ ClientReads(c, "key_exchange")
    /\ peerPub' = [peerPub EXCEPT ![c] = Got(c).data]
    /\ UNCHANGED <<link, toRelay, joinPw, clientKey, callback, typed, shown,
                   promises, pinged>>

KeyDerived(c) ==
    /\ Move(c, "deriving", "running")
    /\ clientKey' = [clientKey EXCEPT ![c] =
                       Derive(ClientPub(c), peerPub[c], NoPassword)]
    /\ callback' = [callback EXCEPT ![c] = TRUE]
    /\ UNCHANGED <<wireVars, joinPw, peerPub, typed, shown, promises, pinged>>

(* A message no waiter is registered for goes to the callbacks: output is  *)
(* shown as it came while there is no key, a key_exchange is dropped.      *)
BrowserUnawaited(c) ==
    /\ c \in Browsers
    /\ clientPc[c] \in {"joining", "keygen", "exchanging", "deriving", "timeout"}
    /\ Arrived(c)
    /\ ~(clientPc[c] = "joining" /\ Got(c).type = "session_joined")
    /\ ~(clientPc[c] = "exchanging" /\ Got(c).type = "key_exchange")
    /\ shown' = IF Got(c).type = "output" /\ callback[c]
                  THEN [shown EXCEPT ![c] = Append(@, Got(c).data)]
                  ELSE shown
    /\ Get(c)
    /\ UNCHANGED <<link, toRelay, clientPc, joinPw, clientKey, peerPub, callback,
                   typed, promises, pinged>>

(* connect() throws after waiting in vain; the connection stays open.      *)
BrowserTimeout(c) ==
    /\ c \in Browsers
    /\ Deadlines
    /\ clientPc[c] \in {"joining", "exchanging"}
    /\ clientPc' = [clientPc EXCEPT ![c] = "timeout"]
    /\ UNCHANGED <<wireVars, joinPw, clientKey, peerPub, callback, typed, shown,
                   promises, pinged>>

(* sendInput and the message handler start an encryption or a decryption   *)
(* and go on; these promises settle in any order.                          *)
BrowserInput(c) ==
    /\ c \in Browsers
    /\ clientPc[c] = "running"
    /\ typed[c] < MaxInput
    /\ typed' = [typed EXCEPT ![c] = @ + 1]
    /\ sealing' = [sealing EXCEPT ![c] = @ \cup {typed[c] + 1}]
    /\ UNCHANGED <<wireVars, clientPc, joinPw, clientKey, peerPub, callback, shown,
                   opening, pinged>>


InputEncrypted(c) ==
    /\ c \in Browsers
    /\ \E n \in sealing[c] :
         /\ sealing' = [sealing EXCEPT ![c] = @ \ {n}]
         /\ Send(c, Msg("input", NoClient, Seal(clientKey[c], [input |-> n])))
    /\ UNCHANGED <<link, toPeer, clientPc, joinPw, clientKey, peerPub, callback,
                   typed, shown, opening, pinged>>

BrowserOutput(c) ==
    /\ c \in Browsers
    /\ clientPc[c] = "running"
    /\ ClientReads(c, "output")
    /\ opening' = [opening EXCEPT ![c] = Append(@, Got(c).data)]
    /\ UNCHANGED <<link, toRelay, clientPc, joinPw, clientKey, peerPub, callback,
                   typed, shown, sealing, pinged>>

OutputDecrypted(c) ==
    /\ c \in Browsers
    /\ \E i \in DOMAIN opening[c] :
         /\ opening' = [opening EXCEPT ![c] = RemoveAt(@, i)]
         /\ shown' = IF Opens(clientKey[c], opening[c][i])
                       THEN [shown EXCEPT ![c] = Append(@, opening[c][i].plain)]
                       ELSE shown
    /\ UNCHANGED <<wireVars, clientPc, joinPw, clientKey, peerPub, callback, typed,
                   sealing, pinged>>

ClientReadLoop(c) ==
    OnOutput(c) \/ BrowserOutput(c) \/ OnHostPing(c) \/ OnOther(c) \/ ReadLoopFails(c)

ClientHandshake(c) ==
    \/ OnSessionJoined(c) \/ OnHostKey(c) \/ OnHostVerify(c) \/ HandshakeFails(c)
    \/ BrowserJoined(c) \/ KeyPairGenerated(c) \/ BrowserKey(c) \/ KeyDerived(c)
    \/ BrowserUnawaited(c) \/ BrowserTimeout(c)

BrowserSettles(c) == InputEncrypted(c) \/ OutputDecrypted(c)

ClientStep(c) ==
    \/ Join(c) \/ ClientHandshake(c) \/ SetOnOutput(c) \/ ClientReadLoop(c)
    \/ SendInput(c) \/ BrowserInput(c) \/ BrowserSettles(c)
    \/ LatencyPings(c) \/ CloseClient(c)

=============================================================================
