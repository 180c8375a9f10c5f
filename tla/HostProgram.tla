---------------------------- MODULE HostProgram ----------------------------
(***************************************************************************)
(* The command `keytun host` (cmd/host.go) and the goroutines it starts:   *)
(* those of host.New (internal/host/host.go) and of the shell's PTY        *)
(* (internal/inject/pty.go).  Host models what they say to the relay; this *)
(* module is about where they block, which locks they hold meanwhile, and  *)
(* how the program ends.                                                   *)
(*                                                                         *)
(* A goroutine is the sequence of the steps it has still to make before it *)
(* is back at the top of its loop.  Locks held over a few assignments only *)
(* (latencyMu, termMu, inputMu, outputMu) are left out; a write to stdout, *)
(* which localOutMu covers, is taken not to block.  Left out as well are    *)
(* the spinner, the goroutine that waits for SIGWINCH, and signals that    *)
(* end the process in terminal mode without a line of it being run.        *)
(***************************************************************************)
EXTENDS Sequences, FiniteSets, Naturals

CONSTANTS
    MaxClients,  \* bound on the sessions the host has at a time
    MaxBusy      \* bound on the goroutines that have work at a time

ASSUME BoundsNat == MaxClients \in Nat /\ MaxBusy \in Nat

VARIABLES
    mode,     \* --mode, "terminal" or "system"
    at,       \* where runTerminalMode or runSystemMode is
    running,  \* the goroutines that have not returned
    todo,     \* the steps each of them has yet to make
    readers,  \* the goroutines that hold cryptoMu for reading
    connMu,   \* the goroutine that holds connMu, or Nobody
    conn,     \* the connection to the relay
    done, keyReady, joined,  \* whether each of the channels is closed
    sessions, \* how many sessions there are
    shell,    \* "none", "running", or "exited" and waited for
    ptyOpen,  \* the master side of the PTY is open
    stdin,    \* "open", or "closed" after the exit of the shell
    screen,   \* the host's terminal: "cooked", "raw" or "restored"
    late      \* for checking: who wrote to it after it was restored

command == <<mode, at>>
threads == <<running, todo>>
locks == <<readers, connMu>>
host == <<conn, done, keyReady, joined, sessions>>
pty == <<shell, ptyOpen>>
tty == <<stdin, screen, late>>
vars == <<command, threads, locks, host, pty, tty>>

Nobody == "nobody"

(* The goroutines that Close waits for, and the rest.                      *)
HostLoops == {"pingLoop", "activityPulse", "latencyPingLoop", "readOutput",
              "readRelayMessages"}
Goroutines == HostLoops \cup {"main", "exitWatcher"}

Init ==
    /\ mode \in {"terminal", "system"} /\ at = "start"
    /\ running = {"main"} /\ todo = [t \in Goroutines |-> << >>]
    /\ readers = {} /\ connMu = Nobody
    /\ conn = "none"
    /\ done = FALSE /\ keyReady = FALSE /\ joined = FALSE
    /\ sessions = 0
    /\ shell = "none" /\ ptyOpen = FALSE
    /\ stdin = "open" /\ screen = "cooked" /\ late = {}

---------------------------------------------------------------------------
(* Steps, and sequences of them.  "lock" asks for cryptoMu, and the next   *)
(* step, one of Exclusive, runs under it: a writer that waits keeps new    *)
(* readers out.  "peek" looks into cryptoSessions and holds nothing when it *)
(* is over; "title" looks and writes the title of the terminal.            *)
Exclusive == {"add", "delete", "complete"}
WriteMessage == <<"connLock", "write">>

AllSteps ==
    Exclusive \cup
    {"peek", "rlock", "runlock", "lock", "connLock", "write", "control", "print",
     "title", "pause", "read", "receive", "inject", "keyReady", "clientJoined",
     "stdin.Read", "pty.Write", "close(done)", "conn.Close", "kill", "<-p.done",
     "wg.Wait", "restore"}

(* A frame for each ready session, all of them under the read lock.        *)
Frames(n) == [i \in 1..(2 * n) |-> IF i % 2 = 1 THEN "connLock" ELSE "write"]

Broadcasts ==
    {<<"peek">>} \cup {<<"rlock">> \o Frames(ready) \o <<"runlock">> :
                         ready \in 1..sessions}

At(t, step) == t \in running /\ todo[t] # << >> /\ Head(todo[t]) = step
Idle(t) == t \in running /\ todo[t] = << >>
Does(t, steps) == todo' = [todo EXCEPT ![t] = steps] /\ UNCHANGED running
Proceeds(t) == Does(t, Tail(todo[t]))
Returns(t) ==
    /\ running' = running \ {t}
    /\ todo' = [todo EXCEPT ![t] = << >>]

(* Work a goroutine takes up, when fewer than MaxBusy others have some.  A *)
(* select that finds done closed and its ticker ready may choose either;   *)
(* the tick is then taken to have come first.                              *)
Busy == {t \in running \ {"main"} :
           todo[t] # << >> /\ Head(todo[t]) \notin {"read", "receive"}}
TakesUp(t, work) ==
    /\ ~done
    /\ Cardinality(Busy) < MaxBusy
    /\ \E steps \in work : Does(t, steps)

ToScreen(t) == late' = IF screen = "restored" THEN late \cup {t} ELSE late

RLock(t) ==
    /\ \A u \in running, x \in Exclusive : ~At(u, x)
    /\ \/ At(t, "rlock") /\ readers' = readers \cup {t} /\ UNCHANGED late
       \/ At(t, "peek") /\ UNCHANGED <<readers, late>>
       \/ At(t, "title") /\ ToScreen(t) /\ UNCHANGED readers
    /\ Proceeds(t)
    /\ UNCHANGED <<command, connMu, host, pty, stdin, screen>>

RUnlock(t) ==
    /\ At(t, "runlock")
    /\ readers' = readers \ {t}
    /\ Proceeds(t)
    /\ UNCHANGED <<command, connMu, host, pty, tty>>

Lock(t) ==
    /\ At(t, "lock")
    /\ Proceeds(t)
    /\ UNCHANGED <<command, locks, host, pty, tty>>

BugDropsOne(t) ==
    /\ readers = {}
    /\ \/ At(t, "add") /\ sessions' = sessions + 1
       \/ At(t, "delete") /\ sessions' = sessions - 1
       \/ At(t, "complete") /\ UNCHANGED sessions
    /\ Proceeds(t)
    /\ UNCHANGED <<command, locks, conn, done, keyReady, joined, pty, tty>>

Update(t) ==
    /\ readers = {}
    /\ \/ At(t, "add") /\ sessions' = sessions + 1
       \/ At(t, "delete") /\ sessions' \in {sessions - 1, sessions} \cap Nat
       \/ At(t, "complete") /\ UNCHANGED sessions
    /\ Proceeds(t)
    /\ UNCHANGED <<command, locks, conn, done, keyReady, joined, pty, tty>>

ConnLock(t) ==
    /\ At(t, "connLock")
    /\ connMu = Nobody
    /\ connMu' = t
    /\ Proceeds(t)
    /\ UNCHANGED <<command, readers, host, pty, tty>>

(* A blocking write: it returns when the relay takes the frame or the      *)
(* connection is gone.                                                     *)
Written(t) ==
    /\ At(t, "write")
    /\ connMu' = Nobody
    /\ Proceeds(t)
    /\ UNCHANGED <<command, readers, host, pty, tty>>

WriteFails(t) == conn # "open" /\ Written(t)
RelayTakes == conn = "open" /\ \E t \in Goroutines : Written(t)

WriteScreen(t) ==
    /\ At(t, "print")
    /\ ToScreen(t)
    /\ Proceeds(t)
    /\ UNCHANGED <<command, locks, host, pty, stdin, screen>>

(* The shell's side of the PTY: a write blocks until the shell takes it.   *)
ShellGone == shell = "exited" \/ ~ptyOpen

Injected(t) ==
    /\ At(t, "inject")
    /\ Proceeds(t)
    /\ UNCHANGED <<command, locks, host, pty, tty>>

InjectReturns(t) == (mode = "system" \/ ShellGone) /\ Injected(t)

---------------------------------------------------------------------------
(* The goroutines of host.New                                              *)

BugSleepsOn(t) ==
    /\ done
    /\ t \in HostLoops /\ Idle(t)
    /\ t \in {"latencyPingLoop", "readOutput"} => keyReady
    /\ Returns(t)
    /\ UNCHANGED <<command, locks, host, pty, tty>>

(* The selects on h.done, those that wait for keyReady among them.         *)
SeesDone(t) ==
    /\ done
    /\ \/ t \in HostLoops /\ Idle(t)
       \/ t = "activityPulse" /\ At(t, "pause")
    /\ Returns(t)
    /\ UNCHANGED <<command, locks, host, pty, tty>>

PingTick ==
    /\ Idle("pingLoop")
    /\ TakesUp("pingLoop", {<<"connLock", "control">>})
    /\ UNCHANGED <<command, locks, host, pty, tty>>

(* The pinger's write has a deadline, and its failure ends the pinger.     *)
ControlReturns ==
    /\ At("pingLoop", "control")
    /\ connMu' = Nobody
    /\ \/ conn = "open" /\ Proceeds("pingLoop")
       \/ Returns("pingLoop")
    /\ UNCHANGED <<command, readers, host, pty, tty>>

(* For a signal on activityCh, which has no effect without clients.        *)
Pulse ==
    /\ Idle("activityPulse")
    /\ TakesUp("activityPulse", {<<"title", "pause">>})
    /\ UNCHANGED <<command, locks, host, pty, tty>>

PulseFades ==
    /\ At("activityPulse", "pause")
    /\ Does("activityPulse", <<"title">>)
    /\ UNCHANGED <<command, locks, host, pty, tty>>

LatencyTick ==
    /\ Idle("latencyPingLoop")
    /\ keyReady
    /\ TakesUp("latencyPingLoop", Broadcasts)
    /\ UNCHANGED <<command, locks, host, pty, tty>>

StartRead ==
    /\ Idle("readOutput")
    /\ keyReady /\ ~done
    /\ Does("readOutput", <<"read">>)
    /\ UNCHANGED <<command, locks, host, pty, tty>>

ShellPrints ==
    /\ At("readOutput", "read")
    /\ ptyOpen
    /\ TakesUp("readOutput", {<<"print">> \o steps : steps \in Broadcasts})
    /\ UNCHANGED <<command, locks, host, pty, tty>>

ReadFails ==
    /\ At("readOutput", "read")
    /\ ShellGone
    /\ Returns("readOutput")
    /\ UNCHANGED <<command, locks, host, pty, tty>>

StartReceive ==
    /\ Idle("readRelayMessages")
    /\ ~done
    /\ Does("readRelayMessages", <<"receive">>)
    /\ UNCHANGED <<command, locks, host, pty, tty>>

(* What readRelayMessages may do for a frame, until it reads the next one. *)
OnInput ==
    {<<"peek">>} \cup
    {<<"peek", "inject">> \o echo :
        echo \in IF mode = "system" THEN Broadcasts ELSE {<< >>}}

OnKeyExchange ==
    {<<"lock", "complete">> \o reply : reply \in {<< >>, WriteMessage}}

OnVerify ==
    {<<"peek">>, <<"peek", "lock", "delete", "print">>} \cup
    {<<"peek", "keyReady", "print">> \o sizeOrBanner :
        sizeOrBanner \in {<<"peek">> \o WriteMessage}
                           \cup IF mode = "terminal" THEN {<< >>} ELSE {}}

OnPing == {WriteMessage}

OnPong == {<<"title">>}

OnPeerEvent ==
    {<<"lock", "delete", "print">>}
      \cup {<<"clientJoined", "lock", "add">> \o WriteMessage \o <<"print">> :
              s \in (sessions + 1)..MaxClients}

Receive ==
    /\ At("readRelayMessages", "receive")
    /\ conn = "open"
    /\ TakesUp("readRelayMessages",
               OnInput \cup OnKeyExchange \cup OnVerify \cup OnPing \cup OnPong
                 \cup OnPeerEvent)
    /\ UNCHANGED <<command, locks, host, pty, tty>>

ReceiveFails ==
    /\ At("readRelayMessages", "receive")
    /\ conn # "open"
    /\ Returns("readRelayMessages")
    /\ UNCHANGED <<command, locks, host, pty, tty>>

CloseChannel ==
    /\ \/ At("readRelayMessages", "keyReady") /\ keyReady' = TRUE /\ UNCHANGED joined
       \/ At("readRelayMessages", "clientJoined") /\ joined' = TRUE /\ UNCHANGED keyReady
    /\ Proceeds("readRelayMessages")
    /\ UNCHANGED <<command, locks, conn, done, sessions, pty, tty>>

---------------------------------------------------------------------------
(* runTerminalMode and runSystemMode                                       *)

CloseInjector == IF mode = "terminal" THEN <<"kill", "<-p.done">> ELSE << >>

BugNoWait == <<"close(done)", "conn.Close">> \o CloseInjector

CloseHost == <<"close(done)", "conn.Close">> \o CloseInjector \o <<"wg.Wait">>

(* The title, the mode of the terminal, and the summary.  The deferred     *)
(* Close calls that follow find everything closed.                         *)
EndTerminal == CloseHost \o <<"print", "restore", "print">>

EndSystem == <<"print">> \o CloseHost

Leave(steps) == at' = "leaving" /\ Does("main", steps) /\ UNCHANGED mode

StartInjector ==
    /\ at = "start"
    /\ \/ /\ at' = "injector"
          /\ IF mode = "terminal" THEN shell' = "running" /\ ptyOpen' = TRUE
                                  ELSE UNCHANGED pty
          /\ UNCHANGED <<mode, threads>>
       \/ Leave(<< >>) /\ UNCHANGED pty
    /\ UNCHANGED <<locks, host, tty>>

StartHost ==
    /\ at = "injector"
    /\ \/ /\ at' = "host"
          /\ conn' = "open"
          /\ running' = running \cup
               IF mode = "terminal" THEN HostLoops ELSE HostLoops \ {"readOutput"}
          /\ UNCHANGED <<mode, todo>>
       \/ Leave(CloseInjector) /\ UNCHANGED conn
    /\ UNCHANGED <<locks, done, keyReady, joined, sessions, pty, tty>>

(* In terminal mode the window size, if there is one, is sent at once.     *)
Share ==
    /\ at = "host"
    /\ IF mode = "terminal"
         THEN /\ at' = "sizing"
              /\ UNCHANGED running
              /\ \E steps \in Broadcasts \cup {<< >>} :
                   todo' = [todo EXCEPT !["main"] = steps]
         ELSE /\ at' = "waiting"
              /\ UNCHANGED threads
    /\ UNCHANGED <<mode, locks, host, pty, tty>>

RawMode ==
    /\ at = "sizing" /\ Idle("main")
    /\ \/ /\ at' = "stdin"
          /\ screen' = "raw"
          /\ running' = running \cup {"exitWatcher"}
          /\ UNCHANGED <<mode, todo>>
       \/ Leave(CloseHost) /\ UNCHANGED screen
    /\ UNCHANGED <<locks, host, pty, stdin, late>>

ReadStdin ==
    /\ at = "stdin" /\ Idle("main")
    /\ IF stdin = "closed"
         THEN Leave(EndTerminal)
         ELSE Does("main", <<"stdin.Read">>) /\ UNCHANGED command
    /\ UNCHANGED <<locks, host, pty, tty>>

(* Ctrl+C ends the program until a client has joined.                      *)
Typed ==
    /\ At("main", "stdin.Read")
    /\ \/ ~joined /\ Leave(EndTerminal)
       \/ Does("main", <<"pty.Write">>) /\ UNCHANGED command
    /\ UNCHANGED <<locks, host, pty, tty>>

(* Closing a blocking descriptor need not interrupt a read in progress.    *)
StdinEnds ==
    /\ At("main", "stdin.Read")
    /\ Leave(EndTerminal)
    /\ UNCHANGED <<locks, host, pty, tty>>

PtyWriteReturns ==
    /\ At("main", "pty.Write")
    /\ ShellGone
    /\ \/ Leave(EndTerminal)
       \/ Proceeds("main") /\ UNCHANGED command
    /\ UNCHANGED <<locks, host, pty, tty>>

(* The shell takes what was typed here or injected.                        *)
ShellReads ==
    /\ shell = "running"
    /\ \/ Injected("readRelayMessages")
       \/ /\ At("main", "pty.Write")
          /\ Proceeds("main")
          /\ UNCHANGED <<command, locks, host, pty, tty>>

Interrupted ==
    /\ at = "waiting"
    /\ Leave(EndSystem)
    /\ UNCHANGED <<locks, host, pty, tty>>

(* The steps of host.Close and of the injector's Close.                    *)
CloseStep ==
    /\ \/ At("main", "close(done)") /\ done' = TRUE /\ UNCHANGED <<conn, pty>>
       \/ At("main", "conn.Close") /\ conn' = "closed" /\ UNCHANGED <<done, pty>>
       \/ /\ At("main", "kill")
          /\ ptyOpen' = FALSE
          /\ shell' = "exited"
          /\ UNCHANGED <<done, conn>>
       \/ /\ At("main", "<-p.done") /\ shell = "exited"
          /\ UNCHANGED <<done, conn, pty>>
       \/ /\ At("main", "wg.Wait") /\ running \cap HostLoops = {}
          /\ UNCHANGED <<done, conn, pty>>
    /\ Proceeds("main")
    /\ UNCHANGED <<command, locks, keyReady, joined, sessions, tty>>

Restore ==
    /\ At("main", "restore")
    /\ screen' = "restored"
    /\ Proceeds("main")
    /\ UNCHANGED <<command, locks, host, pty, stdin, late>>

(* The process is over, and with it every goroutine.                       *)
Exit ==
    /\ at = "leaving" /\ Idle("main")
    /\ at' = "exited"
    /\ running' = {}
    /\ todo' = [t \in Goroutines |-> << >>]
    /\ UNCHANGED <<mode, locks, host, pty, tty>>

---------------------------------------------------------------------------
(* The other goroutines of the command, and what happens around it         *)

CloseStdin ==
    /\ Idle("exitWatcher")
    /\ shell = "exited"
    /\ stdin' = "closed"
    /\ Returns("exitWatcher")
    /\ UNCHANGED <<command, locks, host, pty, screen, late>>

(* The goroutine of NewPTY waits for the shell and closes p.done.          *)
ShellExits ==
    /\ at # "exited"
    /\ shell = "running"
    /\ shell' = "exited"
    /\ UNCHANGED <<command, threads, locks, host, ptyOpen, tty>>

ConnLost ==
    /\ at # "exited"
    /\ conn = "open"
    /\ conn' = "lost"
    /\ UNCHANGED <<command, threads, locks, done, keyReady, joined, sessions, pty,
                   tty>>

---------------------------------------------------------------------------
(* What a goroutine does of its own accord, once it is not held up.        *)
Continue(t) ==
    \/ RLock(t) \/ RUnlock(t) \/ Lock(t) \/ Update(t)
    \/ ConnLock(t) \/ WriteFails(t)
    \/ WriteScreen(t) \/ InjectReturns(t)
    \/ SeesDone(t)

GoroutineStep ==
    \/ \E t \in Goroutines \ {"main"} : Continue(t)
    \/ StartRead \/ ReadFails \/ StartReceive \/ ReceiveFails \/ CloseChannel
    \/ ControlReturns \/ PulseFades \/ CloseStdin

MainStep ==
    \/ Continue("main")
    \/ StartInjector \/ StartHost \/ Share \/ RawMode \/ ReadStdin
    \/ PtyWriteReturns \/ CloseStep \/ Restore \/ Exit

(* What depends on users, the shell, the relay and the clock.              *)
Environment ==
    \/ PingTick \/ Pulse \/ LatencyTick
    \/ ShellPrints \/ ShellReads \/ ShellExits
    \/ Receive \/ RelayTakes \/ ConnLost
    \/ Typed \/ StdinEnds \/ Interrupted

Next == GoroutineStep \/ MainStep \/ Environment

Spec == Init /\ [][Next]_vars

(* Goroutines are scheduled.  It takes no more for the program to end: once *)
(* done is closed no work is taken up, so that none can hold up another.   *)
Fairness ==
    /\ WF_vars(at = "leaving" /\ MainStep)
    /\ WF_vars(done /\ GoroutineStep)

FairSpec == Spec /\ Fairness

---------------------------------------------------------------------------
TypeOK ==
    /\ mode \in {"terminal", "system"}
    /\ at \in {"start", "injector", "host", "sizing", "stdin", "waiting",
               "leaving", "exited"}
    /\ running \subseteq Goroutines
    /\ todo \in [Goroutines -> Seq(AllSteps)]
    /\ readers \subseteq Goroutines
    /\ connMu \in Goroutines \cup {Nobody}
    /\ conn \in {"none", "open", "lost", "closed"}
    /\ done \in BOOLEAN /\ keyReady \in BOOLEAN /\ joined \in BOOLEAN
    /\ sessions \in 0..MaxClients
    /\ shell \in {"none", "running", "exited"} /\ ptyOpen \in BOOLEAN
    /\ stdin \in {"open", "closed"}
    /\ screen \in {"cooked", "raw", "restored"} /\ late \subseteq Goroutines

(* cmd/host.go:197: "Close host first so goroutines stop writing to        *)
(* stdout, then restore the terminal".  Whatever they were doing, none of  *)
(* the host's goroutines writes to the terminal once it is restored.       *)
QuietAfterRestore == late \cap HostLoops = {}

(* Once the command is leaving it exits, whatever its goroutines are       *)
(* blocked in: the relay may have stopped reading, the shell may not take  *)
(* its input, a lock may be held.  And however it ends, at a key, with the *)
(* shell or with an error on the way, it leaves no shell behind.           *)
CloseReturns == at = "leaving" ~> at = "exited" /\ shell # "running"

=============================================================================
