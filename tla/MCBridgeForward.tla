-------------------------- MODULE MCBridgeForward ---------------------------
(* Two bridge nodes.  Items share only the connections: one item and two   *)
(* messages show every order of the copies of one message, and of two      *)
(* messages, at the aio.                                                   *)
EXTENDS BridgeForward

CONSTANTS n1, n2

MCNodes  == {n1, n2}
MCRoutes == {<<>>, <<n1>>, <<n1, n1>>, <<n1, n2>>, <<n1, n2, n2>>}
=============================================================================
