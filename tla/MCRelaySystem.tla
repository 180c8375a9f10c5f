--------------------------- MODULE MCRelaySystem ---------------------------
(***************************************************************************)
(* Instances of RelaySystem for TLC.                                       *)
(***************************************************************************)
EXTENDS RelaySystem, TLC

CONSTANTS h1, h2, c1, c2, k1

OneHost == {h1}
TwoHosts == {h1, h2}
OneClient == {c1}
TwoClients == {c1, c2}
OneCode == {k1}

RelayData == Codes \cup Conns \cup {NoData}

Symmetric == Permutations(Hosts) \cup Permutations(Clients)
===========================================================================
