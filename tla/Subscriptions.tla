--------------------------- MODULE Subscriptions ----------------------------
(***************************************************************************)
(* What the subscription database promises, told in whole packets: each    *)
(* open pipe has a set of topics, a SUBSCRIBE adds the topics it names, an *)
(* UNSUBSCRIBE removes them, and a pipe that is closed takes all of its    *)
(* topics with it, so that a later pipe with the same id starts with none. *)
(***************************************************************************)

CONSTANTS Pipes, Topics

VARIABLES
    open, \* the pipes that are open
    subs  \* the topics each pipe is subscribed to

vars == <<open, subs>>

Init == open = {} /\ subs = [p \in Pipes |-> {}]

Open(p) ==
    /\ p \notin open
    /\ subs[p] = {}
    /\ open' = open \cup {p}
    /\ UNCHANGED subs

Subscribe(p, T) ==
    /\ p \in open
    /\ subs' = [subs EXCEPT ![p] = @ \cup T]
    /\ UNCHANGED open

Unsubscribe(p, T) ==
    /\ p \in open
    /\ subs' = [subs EXCEPT ![p] = @ \ T]
    /\ UNCHANGED open

Close(p) ==
    /\ p \in open
    /\ open' = open \ {p}
    /\ subs' = [subs EXCEPT ![p] = {}]

Next ==
    \E p \in Pipes :
        \/ Open(p) \/ Close(p)
        \/ \E T \in SUBSET Topics : Subscribe(p, T) \/ Unsubscribe(p, T)

Spec == Init /\ [][Next]_vars
=============================================================================
