------------------------------ MODULE MCKeytun ------------------------------
(***************************************************************************)
(* Instances of Keytun for TLC.                                            *)
(***************************************************************************)
EXTENDS Keytun

CONSTANTS h1, c1, c2, k1, secret, wrong

MyHosts == {h1}
OneClient == {c1}
TwoClients == {c1, c2}
OneCode == {k1}

=============================================================================
