------------------------------ MODULE MCBridge ------------------------------
(* Three bridge nodes, one of them with nothing to subscribe to.           *)
EXTENDS Bridge

CONSTANTS n1, n2, n3

MCNodes       == {n1, n2, n3}
MCSubscribing == {n1, n2}
MCSaved       == {n2, n3}
=============================================================================
