--------------------------- MODULE BrowserSession ---------------------------
(***************************************************************************)
(* The connections of one KeytunClient in a browser (keytun-client.js):    *)
(* connect() and its reconnections.  Attempt 1 is connect(), the others    *)
(* are runs of _attemptReconnect; attempt a opens socket a.  An event      *)
(* handler runs to its end, with the continuation of the await it          *)
(* resolves, before the next event; between two awaits anything may        *)
(* happen.  All attempts share this._ws, the waiters and the key.          *)
(*                                                                         *)
(* A socket may be closed at any moment, the relay may answer with an      *)
(* error, and answers come too early, late or never.                       *)
(***************************************************************************)
EXTENDS Naturals, Sequences, FiniteSets

CONSTANT MaxAttempts  \* bound on the attempts, connect() included

ASSUME AttemptsPositive == MaxAttempts \in Nat \ {0}

Attempts == 1..MaxAttempts
None == 0

VARIABLES
    pc,           \* where each attempt is
    ws,           \* this._ws: the socket of the latest attempt
    sock,         \* the state of each socket
    handled,      \* _setupMessageHandler has been applied to the socket
    at,           \* what the relay and the host have done with the socket
    hostKey,      \* the attempt whose public key the host got last on it
    inbox,        \* the frames on their way to the browser
    waiters,      \* _messageWaiters: the type awaited, and by which attempt
    from,         \* the socket each attempt got the host's key from
    aesKey,       \* the attempt whose key is _aesKey
    intentional,  \* _intentionalClose
    timer,        \* a timer runs that _reconnectTimer refers to
    loose,        \* how many run that it does not refer to
    input,        \* what sendInput is encrypting: its key and this._ws then
    mixed,        \* history: an attempt began beside another or a live socket
    dropped       \* history: the socket disconnect() was last called on

attempt == <<pc, from>>
socket == <<sock, handled>>
peer == <<at, hostKey>>
timers == <<timer, loose>>

history == <<mixed, dropped>>

vars == <<attempt, ws, socket, peer, inbox, waiters, aesKey, intentional,
          timers, input, history>>

NoInput == [key |-> None, on |-> None]

AttemptState == {"none", "opening", "joining", "generating", "exchanging",
                 "deriving", "done", "failed"}
SocketState == {"none", "connecting", "open", "closing", "closed"}

Init ==
    /\ pc = [a \in Attempts |-> IF a = 1 THEN "opening" ELSE "none"]
    /\ ws = 1
    /\ sock = [a \in Attempts |-> IF a = 1 THEN "connecting" ELSE "none"]
    /\ handled = [a \in Attempts |-> FALSE]
    /\ at = [a \in Attempts |-> "new"]
    /\ hostKey = [a \in Attempts |-> None]
    /\ inbox = [a \in Attempts |-> << >>]
    /\ waiters = << >>
    /\ from = [a \in Attempts |-> None]
    /\ aesKey = None
    /\ intentional = FALSE
    /\ timer = FALSE /\ loose = 0
    /\ input = NoInput
    /\ mixed = FALSE /\ dropped = None

Underway == {a \in Attempts : pc[a] \notin {"none", "done", "failed"}}

InUse == {w \in Attempts : sock[w] \in {"connecting", "open"}}

Goto(a, to) == pc' = [pc EXCEPT ![a] = to]

---------------------------------------------------------------------------
(* Timers and failures.                                                    *)

(* _scheduleReconnect: the new timer takes the place of the one that       *)
(* _reconnectTimer refers to, which keeps running.                         *)
ScheduleReconnect ==
    IF intentional THEN UNCHANGED timers
    ELSE /\ timer' = TRUE
         /\ loose' = IF timer THEN loose + 1 ELSE loose

NonRetryable(err) == err \in {"session not found", "no such session"}

BugNoRetry(a, err) ==
    Goto(a, "failed") /\ UNCHANGED <<intentional, timers>>

BugRetriesFirst(a, err) ==
    Goto(a, "failed") /\ UNCHANGED intentional /\ ScheduleReconnect

(* The catch clause of an attempt, err being the message of the exception; *)
(* connect() passes it on to the page, which shows it.                     *)
Fail(a, err) ==
    /\ Goto(a, "failed")
    /\ IF a # 1 /\ NonRetryable(err)
         THEN intentional' = TRUE /\ UNCHANGED timers
         ELSE /\ UNCHANGED intentional
              /\ IF a = 1 THEN UNCHANGED timers ELSE ScheduleReconnect

(* A timer fires; _reconnectTimer = null makes the client forget the other *)
(* one if it was not the one it refers to.                                 *)
TimerFires ==
    /\ \/ timer /\ UNCHANGED loose
       \/ loose > 0 /\ loose' = IF timer THEN loose ELSE loose - 1
    /\ timer' = FALSE

OpenWebSocket(a) ==
    /\ pc[a] = "none" /\ \A b \in Attempts : b < a => pc[b] # "none"
    /\ Goto(a, "opening")
    /\ sock' = [sock EXCEPT ![a] = "connecting"]
    /\ ws' = a

BugKeepsKey(a) ==
    /\ TimerFires /\ OpenWebSocket(a)
    /\ waiters' = << >>
    /\ mixed' = (mixed \/ Underway \cup InUse # {})
    /\ UNCHANGED <<from, handled, peer, inbox, aesKey, intentional, input, dropped>>

(* _attemptReconnect, up to its first await.                               *)
AttemptReconnect(a) ==
    /\ TimerFires /\ OpenWebSocket(a)
    /\ aesKey' = None
    /\ waiters' = << >>
    /\ mixed' = (mixed \/ Underway \cup InUse # {})
    /\ UNCHANGED <<from, handled, peer, inbox, intentional, input, dropped>>

---------------------------------------------------------------------------
(* The steps of an attempt.                                                *)

Wait(a, type) == waiters' = Append(waiters, [type |-> type, by |-> a])

(* The socket of the attempt is open.  The handlers are set on, and the    *)
(* join is sent to, this._ws: another socket if another attempt has begun  *)
(* meanwhile.  send() throws while a socket is connecting, and drops the   *)
(* frame when it is closing or closed.                                     *)
Opened(a) ==
    /\ pc[a] = "opening" /\ sock[a] = "connecting"
    /\ sock' = [sock EXCEPT ![a] = "open"]
    /\ handled' = [handled EXCEPT ![ws] = TRUE]
    /\ IF sock'[ws] = "connecting"
         THEN /\ Fail(a, "InvalidStateError")
              /\ UNCHANGED <<at, waiters>>
         ELSE /\ Goto(a, "joining")
              /\ Wait(a, "session_joined")
              /\ at' = IF sock'[ws] = "open" /\ at[ws] = "new"
                         THEN [at EXCEPT ![ws] = "asked"] ELSE at
              /\ UNCHANGED <<intentional, timers>>
    /\ UNCHANGED <<ws, from, hostKey, inbox, aesKey, input, history>>

OpenFails(a) ==
    /\ pc[a] = "opening" /\ sock[a] \in {"connecting", "closing"}
    /\ sock' = [sock EXCEPT ![a] = "closing"]
    /\ Fail(a, "ConnectionFailed")
    /\ UNCHANGED <<ws, handled, from, peer, inbox, waiters, aesKey, input,
                   history>>

KeyPairGenerated(a) ==
    /\ pc[a] = "generating"
    /\ IF sock[ws] = "connecting"
         THEN /\ Fail(a, "InvalidStateError")
              /\ UNCHANGED <<hostKey, waiters>>
         ELSE /\ Goto(a, "exchanging")
              /\ Wait(a, "key_exchange")
              /\ hostKey' = IF sock[ws] = "open"
                              THEN [hostKey EXCEPT ![ws] = a] ELSE hostKey
              /\ UNCHANGED <<intentional, timers>>
    /\ UNCHANGED <<ws, socket, from, at, inbox, aesKey, input, history>>

KeyDerived(a) ==
    /\ pc[a] = "deriving"
    /\ Goto(a, "done")
    /\ aesKey' = a
    /\ UNCHANGED <<ws, socket, from, peer, inbox, waiters, intentional, timers,
                   input, history>>

(* generateKeyPair or deriveSharedKey is rejected, or the host's key is    *)
(* not one.                                                                *)
CryptoFails(a) ==
    /\ pc[a] \in {"generating", "deriving"}
    /\ Fail(a, "OperationError")
    /\ UNCHANGED <<ws, socket, from, peer, inbox, waiters, aesKey, input,
                   history>>

(* The timer of a waiter: it takes the first waiter of its type out of the *)
(* list, which may be that of another attempt.                             *)
Awaited(a) == IF pc[a] = "joining" THEN "session_joined" ELSE "key_exchange"

BugNotSpliced(s, i) == s

Without(s, i) == SubSeq(s, 1, i - 1) \o SubSeq(s, i + 1, Len(s))

OfType(type) == {i \in DOMAIN waiters : waiters[i].type = type}

BugJoinOnly(a) ==
    /\ pc[a] = "joining"
    /\ waiters' = << >>
    /\ Fail(a, "TimedOut")
    /\ UNCHANGED <<ws, socket, from, peer, inbox, aesKey, input, history>>

HandshakeTimeout(a) ==
    /\ pc[a] \in {"joining", "exchanging"}
    /\ waiters' =
         IF OfType(Awaited(a)) = {} THEN waiters
         ELSE Without(waiters, CHOOSE i \in OfType(Awaited(a)) :
                                 \A j \in OfType(Awaited(a)) : i <= j)
    /\ Fail(a, "TimedOut")
    /\ UNCHANGED <<ws, socket, from, peer, inbox, aesKey, input, history>>

---------------------------------------------------------------------------
(* Events of a socket.                                                     *)

(* onmessage: the newest waiter of the type gets the frame, which is lost  *)
(* if that waiter has timed out; a frame nobody waits for is dropped (an   *)
(* error is shown).                                                        *)
Resolve(a, type, w) ==
    CASE pc[a] = "joining" /\ type = "session_joined" ->
           Goto(a, "generating") /\ UNCHANGED from
      [] pc[a] = "exchanging" /\ type = "key_exchange" ->
           Goto(a, "deriving") /\ from' = [from EXCEPT ![a] = w]
      [] OTHER -> UNCHANGED attempt

OnMessage(w) ==
    /\ sock[w] = "open" /\ inbox[w] # << >>
    /\ inbox' = [inbox EXCEPT ![w] = Tail(@)]
    /\ LET type == Head(inbox[w])
           i == CHOOSE i \in OfType(type) : \A j \in OfType(type) : i >= j
       IN IF OfType(type) = {} THEN UNCHANGED <<attempt, waiters>>
          ELSE /\ waiters' = Without(waiters, i)
               /\ Resolve(waiters[i].by, type, w)
    /\ UNCHANGED <<ws, socket, peer, aesKey, intentional, timers, input,
                   history>>

(* onclose, after close() or when the other end or the network closed it.  *)
OnClose(w) ==
    /\ \/ sock[w] = "closing" /\ pc[w] # "opening"
       \/ sock[w] = "open"
    /\ sock' = [sock EXCEPT ![w] = "closed"]
    /\ IF handled[w] THEN ScheduleReconnect ELSE UNCHANGED timers
    /\ UNCHANGED <<attempt, ws, handled, peer, inbox, waiters, aesKey,
                   intentional, input, history>>

BugKeepsTimer ==
    /\ pc[1] = "done"
    /\ intentional' = TRUE
    /\ sock' = [sock EXCEPT ![ws] =
                  IF @ \in {"connecting", "open"} THEN "closing" ELSE @]
    /\ dropped' = ws
    /\ UNCHANGED <<attempt, ws, handled, peer, inbox, waiters, aesKey, timers,
                   input, mixed>>

BugKeepsSocket ==
    /\ pc[1] = "done"
    /\ intentional' = TRUE
    /\ timer' = FALSE
    /\ dropped' = ws
    /\ UNCHANGED <<attempt, ws, socket, peer, inbox, waiters, aesKey, loose,
                   input, mixed>>

(* disconnect(): the page calls it once connect() has resolved.            *)
Disconnect ==
    /\ pc[1] = "done"
    /\ intentional' = TRUE
    /\ timer' = FALSE
    /\ sock' = [sock EXCEPT ![ws] =
                  IF @ \in {"connecting", "open"} THEN "closing" ELSE @]
    /\ dropped' = ws
    /\ UNCHANGED <<attempt, ws, handled, peer, inbox, waiters, aesKey, loose,
                   input, mixed>>

---------------------------------------------------------------------------
(* sendInput, of which one call is followed at a time: it takes the key,   *)
(* awaits the encryption and sends on this._ws as it is then.  What goes   *)
(* to an open socket reaches the host of that connection; otherwise it is  *)
(* dropped, or send() throws.                                              *)

SendInput ==
    /\ aesKey # None /\ input = NoInput
    /\ input' = [key |-> aesKey, on |-> ws]
    /\ UNCHANGED <<attempt, ws, socket, peer, inbox, waiters, aesKey,
                   intentional, timers, history>>

InputEncrypted ==
    /\ input # NoInput
    /\ input' = NoInput
    /\ UNCHANGED <<attempt, ws, socket, peer, inbox, waiters, aesKey,
                   intentional, timers, history>>

---------------------------------------------------------------------------
(* The relay answers a join, or refuses it and closes the connection; the  *)
(* host sends its key as soon as it is told of the client.                 *)

Answer(w, state, frame) ==
    /\ sock[w] = "open"
    /\ at' = [at EXCEPT ![w] = state]
    /\ inbox' = [inbox EXCEPT ![w] = Append(@, frame)]
    /\ UNCHANGED <<attempt, ws, socket, hostKey, waiters, aesKey, intentional,
                   timers, input, history>>

Accepted(w) ==
    at[w] = "asked" /\ Answer(w, "joined", "session_joined")

Refused(w) ==
    at[w] = "asked" /\ Answer(w, "refused", "error")

HostKey(w) ==
    at[w] = "joined" /\ Answer(w, "keyed", "key_exchange")

---------------------------------------------------------------------------
Step(a) ==
    Opened(a) \/ OpenFails(a) \/ KeyPairGenerated(a) \/ KeyDerived(a)
        \/ CryptoFails(a) \/ HandshakeTimeout(a)

Next ==
    \/ \E a \in Attempts : AttemptReconnect(a) \/ Step(a)
    \/ \E w \in Attempts :
         OnMessage(w) \/ OnClose(w) \/ Accepted(w) \/ Refused(w) \/ HostKey(w)
    \/ Disconnect \/ SendInput \/ InputEncrypted

Spec == Init /\ [][Next]_vars

(* The browser settles its promises, fires its timers and delivers the     *)
(* close event of a socket it is closing; the handshake timer ends an      *)
(* await that nothing else ends.                                           *)
Fairness ==
    \A a \in Attempts :
        /\ WF_vars(Opened(a) \/ OpenFails(a))
        /\ WF_vars(KeyPairGenerated(a)) /\ WF_vars(KeyDerived(a))
        /\ WF_vars(HandshakeTimeout(a))
        /\ WF_vars(OnMessage(a)) /\ WF_vars(Accepted(a)) /\ WF_vars(HostKey(a))
        /\ WF_vars(sock[a] = "closing" /\ OnClose(a))

FairSpec == Spec /\ Fairness

---------------------------------------------------------------------------
Answers == {"session_joined", "key_exchange"}
TypeOK ==
    /\ pc \in [Attempts -> AttemptState]
    /\ ws \in Attempts
    /\ sock \in [Attempts -> SocketState]
    /\ handled \in [Attempts -> BOOLEAN]
    /\ at \in [Attempts -> {"new", "asked", "joined", "refused", "keyed"}]
    /\ hostKey \in [Attempts -> Attempts \cup {None}]
    /\ inbox \in [Attempts -> Seq(Answers \cup {"error"})]
    /\ waiters \in Seq([type : Answers, by : Attempts])
    /\ \A i, j \in DOMAIN waiters : waiters[i].by = waiters[j].by => i = j
    /\ from \in [Attempts -> Attempts \cup {None}]
    /\ aesKey \in Attempts \cup {None}
    /\ intentional \in BOOLEAN /\ timer \in BOOLEAN
    /\ loose \in Nat
    /\ input \in [key : Attempts, on : Attempts] \cup {NoInput}
    /\ mixed \in BOOLEAN /\ dropped \in Attempts \cup {None}

(* Attempts do not multiply by themselves: there are never more chains of  *)
(* attempts, each with an attempt under way or a timer, than established   *)
(* sockets have been closed.  There may be several: the close of a socket  *)
(* and the failure of the attempt that uses it both schedule another.      *)
Chains ==
    Cardinality(Underway \ {1}) + (IF timer THEN 1 ELSE 0) + loose

LostSockets == {w \in Attempts : sock[w] = "closed" /\ handled[w]}

ChainsBounded == Chains <= Cardinality(LostSockets)

(* What is typed reaches the host encrypted with a key the host has for    *)
(* the connection it is sent on, in all but two cases: an attempt began    *)
(* while it was being encrypted, or attempts have overlapped before.       *)
KeyOfSocket ==
    input # NoInput /\ sock[ws] = "open" =>
        \/ input.on # ws
        \/ mixed
        \/ input.key = ws /\ from[ws] = ws /\ hostKey[ws] = ws

(* Once connected, and until disconnect() is called, the client has an     *)
(* open socket with handlers and a key, or is on its way to one, whatever  *)
(* fails on the way and however the attempts get mixed up.                 *)
NeverStranded ==
    pc[1] = "done" /\ ~intentional =>
        \/ Underway # {} \/ timer \/ loose > 0
        \/ aesKey # None /\ sock[ws] = "open" /\ handled[ws]

(* After disconnect() no timer is set, and an attempt begins only by one   *)
(* of the timers that another had replaced, which cannot be cleared; each  *)
(* of them starts one attempt at most.                                     *)
LastAttempts ==
    [][intentional =>
         /\ ~timer' /\ loose' <= loose
         /\ (\E a \in Attempts : pc[a] = "none" /\ pc'[a] # "none")
              => loose' < loose]_vars

(* Every attempt ends, also when the host's key arrives before the browser *)
(* waits for it and is dropped, and when another attempt takes its waiter. *)
AttemptEnds ==
    \A a \in Attempts : pc[a] = "opening" ~> pc[a] \in {"done", "failed"}

(* keytun-client.js:141, of disconnect(): "Close the WebSocket             *)
(* connection."  The socket that is this._ws at the call is closed in the  *)
(* end, also one that is just being opened; earlier ones are not touched.  *)
DisconnectCloses ==
    \A w \in Attempts : dropped = w ~> sock[w] = "closed"

=============================================================================
