------------------------------- MODULE SubDb --------------------------------
(***************************************************************************)
(* The subscription database: sub_ctx_handle, sub_ctx_del,                 *)
(* unsub_ctx_handle and destroy_sub_client, called by the work items in    *)
(* state RECV.                                                             *)
(*                                                                         *)
(* A subscription is kept twice: in the topic tree (dbtree), which a       *)
(* PUBLISH is matched against, and in the topic queue of the pipe          *)
(* (dbhash), which says what to remove from the tree when the pipe goes.   *)
(* Every call into one of them is atomic (each has its own lock); nothing  *)
(* makes two calls atomic.  Both are part of nng's nanolib, outside this   *)
(* repository, and are modelled as sets from how they are used.            *)
(***************************************************************************)

CONSTANTS
    Works,  \* the work items
    Pipes,  \* pipe ids
    Topics, \* topic filters
    NoTopic,\* no topic is being handled
    Serial  \* does the protocol layer hold back the next message of a pipe
            \* until an item is done with the previous one?

ASSUME SubDbAssumption ==
    /\ NoTopic \notin Topics
    /\ Serial \in BOOLEAN

Kinds == {"idle", "sub", "unsub", "disc"}
Steps == {"next", "tree", "hash"}

VARIABLES
    tree, \* dbtree: pairs of a pipe and a topic
    hash, \* dbhash: pairs of a pipe and a topic
    up,   \* the pipes the protocol layer has open
    kind, \* what the item is doing: a SUBSCRIBE, an UNSUBSCRIBE, a disconnect
    pipe, \* work->pid
    todo, \* the topics of the packet (or of the pipe's queue) still to come
    step, \* between which calls on the current topic the item is
    cur   \* the current topic

db    == <<tree, hash>>
job   == <<kind, pipe>>
place == <<todo, step, cur>>
vars  == <<db, up, job, place>>

-----------------------------------------------------------------------------
(* Helpers *)

\* The topics of pipe p in one of the two databases.
Of(d, p) == {t \in Topics : <<p, t>> \in d}

BusyWith(p) == {w \in Works : kind[w] # "idle" /\ pipe[w] = p}

\* Item w is handed a message of pipe p.
Starts(w, p, k, T) ==
    /\ kind[w] = "idle"
    /\ Serial => BusyWith(p) = {}
    /\ kind' = [kind EXCEPT ![w] = k]
    /\ pipe' = [pipe EXCEPT ![w] = p]
    /\ todo' = [todo EXCEPT ![w] = T]
    /\ step' = [step EXCEPT ![w] = "next"]
    /\ cur' = [cur EXCEPT ![w] = NoTopic]
    /\ UNCHANGED db

\* The item goes on with topic t, at step s.
On(w, s, t) ==
    /\ step' = [step EXCEPT ![w] = s]
    /\ cur' = [cur EXCEPT ![w] = t]

\* The item is done with topic t.
Done(w, t) ==
    /\ todo' = [todo EXCEPT ![w] = @ \ {t}]
    /\ On(w, "next", NoTopic)

At(w, k, s) == kind[w] = k /\ step[w] = s

\* The item has answered and leaves the database.
Leaves(w) ==
    /\ kind' = [kind EXCEPT ![w] = "idle"]
    /\ UNCHANGED <<db, up, pipe, place>>

-----------------------------------------------------------------------------
(* The protocol layer *)

\* A new connection gets a pipe id that no open pipe has.
Open(p) ==
    /\ p \notin up /\ BusyWith(p) = {}
    /\ up' = up \cup {p}
    /\ UNCHANGED <<db, job, place>>

\* A SUBSCRIBE or UNSUBSCRIBE packet that decodes.  Topics that are skipped
\* (empty, or not UTF-8) are not counted, so none may be left.
RecvSubscribe(w, p, T) ==
    /\ p \in up /\ Starts(w, p, "sub", T)
    /\ UNCHANGED up

RecvUnsubscribe(w, p, T) ==
    /\ p \in up /\ Starts(w, p, "unsub", T)
    /\ UNCHANGED up

\* The pipe is closed and its disconnect event handed to an item.
RecvDisconnect(w, p) ==
    /\ p \in up /\ Starts(w, p, "disc", {})
    /\ up' = up \ {p}

-----------------------------------------------------------------------------
(* sub_ctx_handle.  What it does with retained messages leaves the two    *)
(* databases alone and is not part of this module.                         *)

\* Mutant: the loop does not move on past a topic that already exists.
MutExistsStays(w, t) ==
    /\ At(w, "sub", "next") /\ t \in todo[w]
    /\ <<pipe[w], t>> \in hash
    /\ On(w, "next", NoTopic)
    /\ UNCHANGED <<db, up, job, todo>>

\* dbhash_check_topic finds the topic: only the options change.
TopicExists(w, t) ==
    /\ At(w, "sub", "next") /\ t \in todo[w]
    /\ <<pipe[w], t>> \in hash
    /\ Done(w, t)
    /\ UNCHANGED <<db, up, job>>

\* Mutant: the topic is not kept for the two inserts.
MutForgetsTopic(w, t) ==
    /\ At(w, "sub", "next") /\ t \in todo[w]
    /\ <<pipe[w], t>> \notin hash
    /\ On(w, "tree", NoTopic)
    /\ UNCHANGED <<db, up, job, todo>>

\* dbhash_check_topic does not find it.
TopicIsNew(w, t) ==
    /\ At(w, "sub", "next") /\ t \in todo[w]
    /\ <<pipe[w], t>> \notin hash
    /\ On(w, "tree", t)
    /\ UNCHANGED <<db, up, job, todo>>

\* dbtree_insert_client
InsertClient(w) ==
    /\ At(w, "sub", "tree")
    /\ tree' = tree \cup {<<pipe[w], cur[w]>>}
    /\ On(w, "hash", cur[w])
    /\ UNCHANGED <<hash, up, job, todo>>

\* Mutant: the topic is not recorded in the queue of the pipe.
MutNoInsertTopic(w) ==
    /\ At(w, "sub", "hash")
    /\ Done(w, cur[w])
    /\ UNCHANGED <<db, up, job>>

\* dbhash_insert_topic
InsertTopic(w) ==
    /\ At(w, "sub", "hash")
    /\ hash' = hash \cup {<<pipe[w], cur[w]>>}
    /\ Done(w, cur[w])
    /\ UNCHANGED <<tree, up, job>>

\* Every topic is handled: the SUBACK is sent.
SubAck(w) ==
    /\ At(w, "sub", "next") /\ todo[w] = {}
    /\ Leaves(w)

-----------------------------------------------------------------------------
(* unsub_ctx_handle and sub_ctx_del *)

\* Mutant: the client stays in the tree.
MutKeepsClient(w, t) ==
    /\ At(w, "unsub", "next") /\ t \in todo[w]
    /\ On(w, "hash", t)
    /\ UNCHANGED <<db, up, job, todo>>

\* dbtree_delete_client
DeleteClient(w, t) ==
    /\ At(w, "unsub", "next") /\ t \in todo[w]
    /\ tree' = tree \ {<<pipe[w], t>>}
    /\ On(w, "hash", t)
    /\ UNCHANGED <<hash, up, job, todo>>

\* dbhash_del_topic
DelTopic(w) ==
    /\ At(w, "unsub", "hash")
    /\ hash' = hash \ {<<pipe[w], cur[w]>>}
    /\ Done(w, cur[w])
    /\ UNCHANGED <<tree, up, job>>

UnsubAck(w) ==
    /\ At(w, "unsub", "next") /\ todo[w] = {}
    /\ Leaves(w)

-----------------------------------------------------------------------------
(* The disconnect event: dbhash_check_id and destroy_sub_client *)

\* The pipe has no topic queue: there is nothing to destroy.
NoQueue(w) ==
    /\ At(w, "disc", "next") /\ Of(hash, pipe[w]) = {}
    /\ Leaves(w)

\* dbhash_del_topic_queue walks over the queue of the pipe.
WalkQueue(w) ==
    /\ At(w, "disc", "next") /\ Of(hash, pipe[w]) # {}
    /\ todo' = [todo EXCEPT ![w] = Of(hash, pipe[w])]
    /\ On(w, "tree", NoTopic)
    /\ UNCHANGED <<db, up, job>>

\* destroy_sub_client_cb, for one topic.
DestroyTopic(w, t) ==
    /\ At(w, "disc", "tree") /\ t \in todo[w]
    /\ tree' = tree \ {<<pipe[w], t>>}
    /\ todo' = [todo EXCEPT ![w] = @ \ {t}]
    /\ UNCHANGED <<hash, up, job, step, cur>>

\* Mutant: the queue is deleted before the walk over it is over.
MutStopsEarly(w) ==
    /\ At(w, "disc", "tree")
    /\ hash' = {x \in hash : x[1] # pipe[w]}
    /\ kind' = [kind EXCEPT ![w] = "idle"]
    /\ UNCHANGED <<tree, up, pipe, place>>

\* The queue itself is deleted.
DeleteQueue(w) ==
    /\ At(w, "disc", "tree") /\ todo[w] = {}
    /\ hash' = {x \in hash : x[1] # pipe[w]}
    /\ kind' = [kind EXCEPT ![w] = "idle"]
    /\ UNCHANGED <<tree, up, pipe, place>>

-----------------------------------------------------------------------------
(* The specification *)

Init ==
    /\ tree = {} /\ hash = {} /\ up = {}
    /\ kind = [w \in Works |-> "idle"]
    /\ pipe \in [Works -> Pipes]
    /\ todo = [w \in Works |-> {}]
    /\ step = [w \in Works |-> "next"]
    /\ cur = [w \in Works |-> NoTopic]

Arrives(w) ==
    \E p \in Pipes :
        \/ RecvDisconnect(w, p)
        \/ \E T \in SUBSET Topics : RecvSubscribe(w, p, T) \/ RecvUnsubscribe(w, p, T)

Handles(w) ==
    \/ \E t \in Topics : \/ TopicExists(w, t) \/ TopicIsNew(w, t)
                         \/ DeleteClient(w, t) \/ DestroyTopic(w, t)
    \/ InsertClient(w) \/ InsertTopic(w) \/ SubAck(w)
    \/ DelTopic(w) \/ UnsubAck(w)
    \/ NoQueue(w) \/ WalkQueue(w) \/ DeleteQueue(w)

Next ==
    \/ \E p \in Pipes : Open(p)
    \/ \E w \in Works : Arrives(w) \/ Handles(w)

\* A callback that has started runs to its end.
Spec     == Init /\ [][Next]_vars
FairSpec == Spec /\ \A w \in Works : WF_vars(Handles(w))

-----------------------------------------------------------------------------
(* Properties *)

\* Type invariant: the databases relate pipes and topics, and an item between
\* two calls on a topic knows which topic that is.
TypeOK ==
    /\ tree \subseteq Pipes \X Topics
    /\ hash \subseteq Pipes \X Topics
    /\ up \subseteq Pipes
    /\ kind \in [Works -> Kinds]
    /\ pipe \in [Works -> Pipes]
    /\ todo \in [Works -> SUBSET Topics]
    /\ step \in [Works -> Steps]
    /\ cur \in [Works -> Topics \cup {NoTopic}]
    /\ \A w \in Works : kind[w] \in {"sub", "unsub"} /\ step[w] # "next" => cur[w] \in todo[w]

\* Between messages of a pipe the tree and the queue of the pipe agree: a
\* topic only in the tree survives the pipe, one only in the queue makes the
\* next SUBSCRIBE to it a silent no-op that is acknowledged all the same.
TreeAndQueueAgree ==
    \A p \in Pipes : BusyWith(p) = {} => Of(tree, p) = Of(hash, p)

\* destroy_sub_client: "if disconnect, delete all node which this pipe
\* subscribed on tree and topic_queue".  A pipe that is gone, and whose
\* disconnect event has been handled, is in neither.
GonePipesLeaveNothing ==
    \A p \in Pipes \ up : BusyWith(p) = {} => Of(tree, p) = {} /\ Of(hash, p) = {}

\* What a pipe is subscribed to, counting the packet in progress as done.
Pending(p, k) == UNION {todo[w] : w \in {v \in BusyWith(p) : kind[v] = k}}
Subscribed(p) ==
    IF p \in up THEN (Of(tree, p) \cup Pending(p, "sub")) \ Pending(p, "unsub") ELSE {}

Abstract == INSTANCE Subscriptions WITH open <- up, subs <- [p \in Pipes |-> Subscribed(p)]

\* The database implements Subscriptions: seen packet by packet, a pipe has
\* exactly the topics it subscribed to, whatever the other pipes do.
ImplementsSubscriptions == Abstract!Spec

\* Every packet and every disconnect event is handled to its end: the loops
\* over the topics of a packet and over the queue of a pipe terminate.
EveryPacketHandled == \A w \in Works : (kind[w] # "idle") ~> (kind[w] = "idle")
=============================================================================
