------------------------------- MODULE Roster -------------------------------
(***************************************************************************)
(* What the relay promises, without connections, goroutines or frames: a   *)
(* session code has one owner at a time and an owner has one code; a host  *)
(* sees each client arrive at most once, leave at most once and only after *)
(* it arrived; and no client is ever seen by two hosts.                    *)
(***************************************************************************)
CONSTANTS Hosts, Clients, Codes, NoHost

VARIABLES
    owner,     \* the host a code is registered to
    presence   \* what each host knows of each client

Init ==
    /\ owner = [k \in Codes |-> NoHost]
    /\ presence = [h \in Hosts |-> [c \in Clients |-> "new"]]

Claim(h, k) ==
    /\ owner[k] = NoHost
    /\ \A j \in Codes : owner[j] # h
    /\ owner' = [owner EXCEPT ![k] = h]
    /\ UNCHANGED presence

Release(k) ==
    /\ owner[k] # NoHost
    /\ owner' = [owner EXCEPT ![k] = NoHost]
    /\ UNCHANGED presence

Arrive(h, c) ==
    /\ \A g \in Hosts : presence[g][c] = "new"
    /\ presence' = [presence EXCEPT ![h][c] = "present"]
    /\ UNCHANGED owner

Leave(h, c) ==
    /\ presence[h][c] = "present"
    /\ presence' = [presence EXCEPT ![h][c] = "gone"]
    /\ UNCHANGED owner

Next ==
    \/ \E h \in Hosts, k \in Codes : Claim(h, k)
    \/ \E k \in Codes : Release(k)
    \/ \E h \in Hosts, c \in Clients : Arrive(h, c) \/ Leave(h, c)

Spec == Init /\ [][Next]_<<owner, presence>>

=============================================================================
