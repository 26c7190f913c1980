----------------------------- MODULE MCServerCb -----------------------------
(* A broker item and an item of any kind, two client connections of which  *)
(* one has a will.                                                         *)
EXTENDS ServerCb

CONSTANTS w1, w2, c1, c2

MCWorks == {w1, w2}
MCBroker == {w1}
MCConns == {c1, c2}
MCWill  == {c1}
=============================================================================
