--------------------------- MODULE BridgeForward ----------------------------
(***************************************************************************)
(* Forwarding to the bridge nodes: bridge_handler, which state WAIT of     *)
(* server_cb calls for every PUBLISH, on top of the bridge clients.        *)
(*                                                                         *)
(* A message gets a copy (a reference) per matching entry of the forwards  *)
(* lists, node by node.  An item has one bridge_aio for all its sends, to  *)
(* whatever node: the next copy finds it idle only if the previous send    *)
(* has completed.  A send completes while the node is connected, or fails  *)
(* after three seconds; bridge_send_cb does nothing in both cases, so that *)
(* only the client library can have freed the message of a failed send.    *)
(***************************************************************************)
EXTENDS Bridge, Integers, Sequences

CONSTANTS
    Works,  \* the work items
    Msgs,   \* the messages forwarded, each of them once
    Routes, \* the nodes a topic can match: one entry per matching entry of
            \* the forwards lists, in the order of the configuration
    NoMsg, NoSend

ASSUME BridgeForwardAssumption ==
    /\ Routes \subseteq Seq(Nodes)
    /\ NoMsg \notin Msgs
    /\ NoSend \notin Nodes \X Msgs

VARIABLES
    smsg,    \* the message of an item that is in bridge_handler
    route,   \* the nodes it still has to look at
    aio,     \* bridge_aio: a node and a message while a send is in flight
    taken,   \* the messages that were or are forwarded
    late,    \* the ones whose item came with its bridge_aio still busy
    refs,    \* references to a message
    orphans, \* the ones that nobody will give up
    wanted,  \* the messages that some node is to get a copy of
    tried    \* the ones of which a copy was handed to the aio

items    == <<smsg, route, aio>>
messages == <<taken, late, refs, orphans, wanted, tried>>
fvars    == <<vars, items, messages>>

-----------------------------------------------------------------------------
(* Helpers *)

Add(f, m, d) == [f EXCEPT ![m] = @ + d]

Busy(w)  == aio[w] # NoSend
Looks(w) == smsg[w] # NoMsg /\ route[w] # <<>>
Goes(w)  == route' = [route EXCEPT ![w] = Tail(@)]

-----------------------------------------------------------------------------
(* bridge_handler *)

\* bridge_publish_msg makes the message from the packet.
Begin(w, m, rt) ==
    /\ smsg[w] = NoMsg /\ m \notin taken
    /\ smsg' = [smsg EXCEPT ![w] = m]
    /\ route' = [route EXCEPT ![w] = rt]
    /\ taken' = taken \cup {m}
    /\ late' = IF Busy(w) THEN late \cup {m} ELSE late
    /\ refs' = Add(refs, m, 1)
    /\ wanted' = IF rt # <<>> THEN wanted \cup {m} ELSE wanted
    /\ UNCHANGED <<vars, aio, orphans, tried>>

\* Mutant: the copy is not freed.
MutKeepsCopy(w) ==
    /\ Looks(w) /\ Busy(w)
    /\ refs' = Add(refs, smsg[w], 1)
    /\ Goes(w)
    /\ UNCHANGED <<vars, smsg, aio, taken, late, orphans, wanted, tried>>

\* "bridging aio busy! msg lost!": the copy is freed again.
FindsBusy(w) ==
    /\ Looks(w) /\ Busy(w)
    /\ Goes(w)
    /\ UNCHANGED <<vars, smsg, aio, taken, late, refs, orphans, wanted, tried>>

\* Mutant: an idle aio is taken for a busy one.
MutNeverIdle(w) ==
    /\ Looks(w) /\ ~Busy(w)
    /\ Goes(w)
    /\ UNCHANGED <<vars, smsg, aio, taken, late, refs, orphans, wanted, tried>>

\* The copy goes to the socket of the node.
StartsSend(w) ==
    /\ Looks(w) /\ ~Busy(w)
    /\ refs' = Add(refs, smsg[w], 1)
    /\ aio' = [aio EXCEPT ![w] = <<Head(route[w]), smsg[w]>>]
    /\ tried' = tried \cup {smsg[w]}
    /\ Goes(w)
    /\ UNCHANGED <<vars, smsg, taken, late, orphans, wanted>>

\* The item gives up its own reference.
Release(w) ==
    /\ smsg[w] # NoMsg /\ route[w] = <<>>
    /\ refs' = Add(refs, smsg[w], -1)
    /\ smsg' = [smsg EXCEPT ![w] = NoMsg]
    /\ UNCHANGED <<vars, route, aio, taken, late, orphans, wanted, tried>>

-----------------------------------------------------------------------------
(* The client library *)

\* The send completes, the library has freed the copy.
SendDone(w) ==
    /\ Busy(w) /\ conn[aio[w][1]] = "up"
    /\ refs' = Add(refs, aio[w][2], -1)
    /\ aio' = [aio EXCEPT ![w] = NoSend]
    /\ UNCHANGED <<vars, smsg, route, taken, late, orphans, wanted, tried>>

\* Mutant: the send has no timeout.
MutNoTimeout(w, freed) ==
    /\ Busy(w) /\ conn[aio[w][1]] = "up"
    /\ aio' = [aio EXCEPT ![w] = NoSend]
    /\ IF freed THEN refs' = Add(refs, aio[w][2], -1) /\ UNCHANGED orphans
                ELSE orphans' = Add(orphans, aio[w][2], 1) /\ UNCHANGED refs
    /\ UNCHANGED <<vars, smsg, route, taken, late, wanted, tried>>

\* The three seconds are over, or the connection is lost.  "nanosdk deal with
\* fail send": the library frees the copy, or nobody does.
SendFails(w, freed) ==
    /\ Busy(w)
    /\ aio' = [aio EXCEPT ![w] = NoSend]
    /\ IF freed THEN refs' = Add(refs, aio[w][2], -1) /\ UNCHANGED orphans
                ELSE orphans' = Add(orphans, aio[w][2], 1) /\ UNCHANGED refs
    /\ UNCHANGED <<vars, smsg, route, taken, late, wanted, tried>>

-----------------------------------------------------------------------------
(* The specification *)

ForwardInit ==
    /\ Init
    /\ smsg = [w \in Works |-> NoMsg]
    /\ route = [w \in Works |-> <<>>]
    /\ aio = [w \in Works |-> NoSend]
    /\ taken = {} /\ late = {} /\ wanted = {} /\ tried = {}
    /\ refs = [m \in Msgs |-> 0]
    /\ orphans = [m \in Msgs |-> 0]

Handler(w) == FindsBusy(w) \/ StartsSend(w) \/ Release(w)
Timeout(w) == \E freed \in BOOLEAN : SendFails(w, freed)

ForwardNext ==
    \/ Next /\ UNCHANGED <<items, messages>>
    \/ \E w \in Works :
           \/ \E m \in Msgs, rt \in Routes : Begin(w, m, rt)
           \/ Handler(w) \/ SendDone(w) \/ Timeout(w)

\* A callback that has started runs to its end, and a timer fires.
ForwardFairness ==
    /\ \A n \in Nodes : WF_fvars(ConnectCb(n) /\ UNCHANGED <<items, messages>>)
    /\ \A n \in Nodes : WF_fvars(SubscribeArrives(n) /\ UNCHANGED <<items, messages>>)
    /\ \A w \in Works : WF_fvars(Handler(w)) /\ WF_fvars(Timeout(w))

ForwardSpec == ForwardInit /\ [][ForwardNext]_fvars /\ ForwardFairness

-----------------------------------------------------------------------------
(* Properties *)

\* Type invariant: an aio in flight has a node and a message of this item's.
ForwardTypeOK ==
    /\ smsg \in [Works -> taken \cup {NoMsg}]
    /\ route \in [Works -> Seq(Nodes)]
    /\ aio \in [Works -> (Nodes \X taken) \cup {NoSend}]
    /\ taken \subseteq Msgs /\ late \subseteq taken
    /\ wanted \subseteq taken /\ tried \subseteq taken
    /\ refs \in [Msgs -> Int] /\ orphans \in [Msgs -> Nat]

Held(m)   == IF \E w \in Works : smsg[w] = m THEN 1 ELSE 0
Flying(m) == IF \E w \in Works : Busy(w) /\ aio[w][2] = m THEN 1 ELSE 0

\* Every reference to a forwarded message has an owner: the item in
\* bridge_handler, the aio, or nobody after a send that failed and that the
\* library did not clean up.  Dropped copies leave nothing behind, and the
\* library never frees a message the item still uses.
ForwardRefsExact == \A m \in Msgs : refs[m] = Held(m) + Flying(m) + orphans[m]

\* Of the copies of a message whose item came with an idle bridge_aio at least
\* one is handed to a node, however many nodes share the aio and whatever the
\* connections do; the copies of a message are lost altogether only behind the
\* send of an earlier message.
NeverAllDropped == \A m \in wanted \ late : Held(m) = 0 => m \in tried

\* The forwarding of a message comes to an end, in any outage of the upstream
\* brokers: bridge_handler gets through the nodes, every send completes or
\* times out, and the item, the aio and the library give up their references,
\* with at least one copy handed over if the aio was idle at first.  Only the
\* copies of failed sends that nobody frees stay behind.
ForwardedReleased ==
    \A m \in Msgs : m \in taken
                    ~> refs[m] = orphans[m] /\ (m \in wanted \ late => m \in tried)
=============================================================================
