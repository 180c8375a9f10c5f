------------------------------- MODULE Tunnel -------------------------------
(***************************************************************************)
(* What keytun promises a user, without relay, handshake or encryption:    *)
(* the keystrokes of each client reach the terminal once each and in the   *)
(* order they were typed, with none missing in between; and the output a   *)
(* client is shown is a run of consecutive pieces of what the terminal     *)
(* produced, from the moment it starts watching.                           *)
(***************************************************************************)
EXTENDS Naturals, Sequences

CONSTANT Clients

VARIABLES
    sent,      \* how many keystrokes each client has typed
    injected,  \* the keystrokes of each client given to the terminal
    produced,  \* how many pieces of output the terminal has produced
    shown      \* the pieces each client has been shown

Init ==
    /\ sent = [c \in Clients |-> 0]
    /\ injected = [c \in Clients |-> << >>]
    /\ produced = 0
    /\ shown = [c \in Clients |-> << >>]

Type(c) ==
    /\ sent' = [sent EXCEPT ![c] = @ + 1]
    /\ UNCHANGED <<injected, produced, shown>>

Inject(c) ==
    LET next == Len(injected[c]) + 1 IN
    /\ next <= sent[c]
    /\ injected' = [injected EXCEPT ![c] = Append(@, [input |-> next])]
    /\ UNCHANGED <<sent, produced, shown>>

Produce ==
    /\ produced' = produced + 1
    /\ UNCHANGED <<sent, injected, shown>>

Show(c) ==
    /\ \E n \in 1..produced :
         /\ shown[c] # << >> => n = shown[c][Len(shown[c])].output + 1
         /\ shown' = [shown EXCEPT ![c] = Append(@, [output |-> n])]
    /\ UNCHANGED <<sent, injected, produced>>

Next == Produce \/ \E c \in Clients : Type(c) \/ Inject(c) \/ Show(c)

Spec == Init /\ [][Next]_<<sent, injected, produced, shown>>

=============================================================================
