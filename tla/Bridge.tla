------------------------------- MODULE Bridge -------------------------------
(***************************************************************************)
(* The bridge clients: bridge_client, bridge_tcp_client and                *)
(* bridge_connect_cb of bridge.c.  Every bridge node of the configuration  *)
(* has a dialer of its own that connects, and connects again after every   *)
(* loss, to an upstream broker; the CONNACK callback then subscribes to    *)
(* the topics of the node.                                                 *)
(*                                                                         *)
(* The dialer, the MQTT client that carries the SUBSCRIBE and the upstream *)
(* broker are outside this repository.  They are modelled from how         *)
(* bridge.c uses them and from what clean_start asks the upstream to do.   *)
(***************************************************************************)

CONSTANTS
    Nodes,       \* the enabled bridge nodes
    CleanStart,  \* the nodes configured with clean_start = true
    Subscribing  \* the nodes with at least one topic to subscribe to

ASSUME BridgeAssumption ==
    /\ CleanStart \subseteq Nodes
    /\ Subscribing \subseteq Nodes

\* A connection attempt ends in a CONNACK that accepts or refuses; the
\* callback runs later, on a thread of the MQTT client.
Conns == {"down", "accepted", "refused", "up", "rejected"}

VARIABLES
    conn,    \* the connection of a node: down, CONNACK received (its callback
             \* has not run yet), or what the callback left
    session, \* the nodes whose topics the upstream broker has in its session
    pending, \* the nodes whose SUBSCRIBE is with the MQTT client
    kept     \* session_is_kept_tcp, one variable for all the nodes

vars == <<conn, session, pending, kept>>

-----------------------------------------------------------------------------
(* The upstream broker and the MQTT client *)

\* The dialer reaches the upstream.  A clean start discards the session.
Accept(n) ==
    /\ conn[n] = "down"
    /\ conn' = [conn EXCEPT ![n] = "accepted"]
    /\ session' = IF n \in CleanStart THEN session \ {n} ELSE session
    /\ UNCHANGED <<pending, kept>>

Refuse(n) ==
    /\ conn[n] = "down"
    /\ conn' = [conn EXCEPT ![n] = "refused"]
    /\ UNCHANGED <<session, pending, kept>>

\* The SUBSCRIBE reaches the upstream and its SUBACK comes back:
\* send_callback only logs it.
SubscribeArrives(n) ==
    /\ conn[n] = "up" /\ n \in pending
    /\ session' = session \cup {n}
    /\ pending' = pending \ {n}
    /\ UNCHANGED <<conn, kept>>

\* The connection is lost; disconnect_cb only logs it.  A SUBSCRIBE under way
\* is lost with it or stays with the client for the next connection.
Lose(n, lost) ==
    /\ conn[n] # "down"
    /\ conn' = [conn EXCEPT ![n] = "down"]
    /\ pending' = IF lost THEN pending \ {n} ELSE pending
    /\ UNCHANGED <<session, kept>>

\* The upstream drops a session nobody is connected to (a restart, an expiry).
Expire(n) ==
    /\ conn[n] = "down"
    /\ session' = session \ {n}
    /\ UNCHANGED <<conn, pending, kept>>

-----------------------------------------------------------------------------
(* bridge_connect_cb.  It runs once per CONNACK; the callbacks of two nodes *)
(* may run at the same time, but its only shared access is one read of     *)
(* session_is_kept_tcp followed by one write of 1.                         *)

\* What the reason code of the CONNACK makes of the connection.
Outcome(n) == IF conn[n] = "accepted" THEN "up" ELSE "rejected"

\* The nng_mqtt_subscribe_async call: reason == 0 and sub_count > 0.
Subscribes(n) ==
    pending' = IF conn[n] = "accepted" /\ n \in Subscribing THEN pending \cup {n} ELSE pending

\* Mutant: the flag is set whatever clean_start says.
MutAlwaysKept(n) ==
    /\ conn[n] \in {"accepted", "refused"}
    /\ conn' = [conn EXCEPT ![n] = Outcome(n)]
    /\ IF kept THEN UNCHANGED <<pending, kept>> ELSE Subscribes(n) /\ kept' = TRUE
    /\ UNCHANGED session

\* Mutant: the topics are collected but never sent.
MutNoSubscribe(n) ==
    /\ conn[n] \in {"accepted", "refused"}
    /\ conn' = [conn EXCEPT ![n] = Outcome(n)]
    /\ kept' = (kept \/ n \notin CleanStart)
    /\ UNCHANGED <<session, pending>>

\* With the flag set there is nothing to do: "Session is saved in mqtt
\* broker".  Else an accepted connection subscribes to the topics of its node,
\* and a node that asks for no clean start sets the flag, accepted or not.
ConnectCb(n) ==
    /\ conn[n] \in {"accepted", "refused"}
    /\ conn' = [conn EXCEPT ![n] = Outcome(n)]
    /\ IF kept THEN UNCHANGED <<pending, kept>>
       ELSE Subscribes(n) /\ kept' = (n \notin CleanStart)
    /\ UNCHANGED session

-----------------------------------------------------------------------------
(* The specification *)

\* bridge_tcp_client has started the dialers.
Init ==
    /\ conn = [n \in Nodes |-> "down"]
    /\ session = {}
    /\ pending = {}
    /\ kept = FALSE

Upstream(n) ==
    \/ Accept(n) \/ Refuse(n) \/ Expire(n)
    \/ \E lost \in BOOLEAN : Lose(n, lost)

Next == \E n \in Nodes : ConnectCb(n) \/ SubscribeArrives(n) \/ Upstream(n)

\* The client library runs its callbacks and sends what it was given; the
\* upstream and the network owe nothing.
Fairness == \A n \in Nodes : WF_vars(ConnectCb(n)) /\ WF_vars(SubscribeArrives(n))

Spec     == Init /\ [][Next]_vars
FairSpec == Spec /\ Fairness

-----------------------------------------------------------------------------
(* Properties *)

\* Type invariant: a connection is in one of the five states.
TypeOK ==
    /\ conn \in [Nodes -> Conns]
    /\ session \subseteq Nodes
    /\ pending \subseteq Nodes
    /\ kept \in BOOLEAN

\* A node that is connected, and whose callback has run, gets its topics: the
\* upstream has them in the session, or the SUBSCRIBE is on its way.  The
\* early return of bridge_connect_cb relies on the first: "Session is saved in
\* mqtt broker".
ConnectedIsSubscribed ==
    \A n \in Subscribing : conn[n] = "up" => n \in session \cup pending

\* After every accepted connection the upstream gets to know the topics of the
\* node, unless the connection is lost first.
Resubscribes ==
    \A n \in Subscribing : (conn[n] = "accepted") ~> (n \in session \/ conn[n] = "down")
=============================================================================
