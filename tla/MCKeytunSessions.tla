-------------------------- MODULE MCKeytunSessions --------------------------
(***************************************************************************)
(* Instances of Keytun side by side.  With a command-line client alone, or *)
(* a browser alone, everything happens that can; with both, the host has   *)
(* no password, no connection is lost, and the budgets are smaller.        *)
(***************************************************************************)
EXTENDS MCKeytun

VARIABLE scenario

Alone ==
    /\ scenario = "alone"
    /\ \A c \in Browsers : link[c] = "none"
    /\ budget.output <= 1
    /\ \A c \in Clients \ Browsers :
         typed[c] + budget.output + 2 * (budget.resize + budget.ping) <= 3

Browser ==
    /\ scenario = "browser"
    /\ \A c \in Clients \ Browsers : link[c] = "none"
    /\ budget.resize = 0 /\ budget.ping = 0

Pair ==
    /\ scenario = "pair"
    /\ password = NoPassword /\ \A c \in Clients : joinPw[c] = NoPassword
    /\ budget.resize = 0 /\ budget.ping = 0 /\ hostPc # "deaf"
    /\ \A c \in Clients : typed[c] <= 1
    /\ budget.output <= 1 /\ typed[c1] + typed[c2] + budget.output <= 2

MCInit == Init /\ scenario \in {"alone", "browser", "pair"}
          /\ (Alone \/ Browser \/ Pair)

MCNext ==
    /\ \/ ProgramStep
       \/ scenario # "pair" /\ \E x \in Conns : Lost(x)
    /\ UNCHANGED scenario
    /\ Alone' \/ Browser' \/ Pair'

MCSpec == MCInit /\ [][MCNext]_<<vars, scenario>>

=============================================================================
