----------------------------- MODULE MCWebHook ------------------------------
(* A queue of initial capacity 2, and enough events to grow it to 13 and to *)
(* shrink it again: 2, 3, 4, 6, 9, 13.                                     *)
EXTENDS WebHook
=============================================================================
