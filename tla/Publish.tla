------------------------------ MODULE Publish -------------------------------
(***************************************************************************)
(* The way of a message through the broker: handle_pub (topic alias, match *)
(* against the subscriptions, retained messages), the delivery loop of     *)
(* state WAIT, and the retained messages a SUBSCRIBE collects and sends.   *)
(*                                                                         *)
(* A message is one nng_msg with a reference count: what the retained tree *)
(* stores, what WAIT sends to every client and what a SUBSCRIBE sends are  *)
(* the same object, and the pipe a send goes to is a field of that object. *)
(* Steps are the calls on shared state; between two of them the callbacks  *)
(* of other work items run, as the task queue has several threads.         *)
(*                                                                         *)
(* A filter is the set of topics it matches.  The trees, nng_msg and the   *)
(* socket belong to nng and are modelled from how they are used: the       *)
(* memory of a freed message is not used for another one.                  *)
(***************************************************************************)
EXTENDS Integers, FiniteSets

CONSTANTS
    Works,    \* the work items
    Pipes,    \* the clients, by pipe id
    Topics,
    Filters,  \* the topic filters clients subscribe to
    Msgs,     \* the PUBLISH packets that arrive, each of them once
    Expiring, \* the ones with a message expiry interval
    Aliasing, \* bound: do packets come with a topic alias, or without, or both
    Options,  \* bound: the values of the retain handling option clients use
    NoTopic, NoMsg, NoPipe

ASSUME PublishAssumption ==
    /\ IsFiniteSet(Works) /\ IsFiniteSet(Topics) /\ IsFiniteSet(Pipes)
    /\ Filters \subseteq SUBSET Topics
    /\ Expiring \subseteq Msgs /\ Aliasing \subseteq BOOLEAN /\ Options \subseteq 0..2
    /\ NoTopic \notin Topics /\ NoMsg \notin Msgs /\ NoPipe \notin Pipes

\* Where a callback is: in handle_pub before dbtree_find_clients and before
\* handle_pub_retain, waiting for state WAIT, in its loop, between set_pipe and
\* send; in sub_ctx_handle before dbtree_find_retain, in the loop over msg_ret,
\* before its send.
Places    == {"idle", "match", "retain", "wait", "loop", "send", "find", "rloop", "rsend"}
Sending   == {"send", "rsend"}
Kinds     == {"plain", "retain", "clear"} \* retain flag, and an empty payload
NoSub     == 3

VARIABLES
    sub,      \* the retain handling of every subscription in dbtree, or NoSub
    retained, \* db_ret: the message of every topic
    alias,    \* the topic every client registered for its alias
    used,     \* the messages that have arrived
    kind, wire, expired, \* of a message: retain flag; is its topic on the wire,
                         \* or its alias, or half of it; was it found expired
    refs, mpipe,         \* of a message: reference count and pipe
    at, pid,             \* where an item is, work->pid
    msg, topic, infos,   \* work->msg, its topic, work->pipe_ct->msg_infos
    filter, list,        \* the topics a SUBSCRIBE asks for the retained messages
                         \* of, and work->msg_ret
    got,      \* which client was sent which message
    lost      \* which client was kept from which message, by a race with another
              \* callback or by a message that has expired

trees   == <<sub, retained, alias>>
about   == <<used, kind, wire, expired>>
shared  == <<refs, mpipe>>
publish == <<topic, infos>>
search  == <<filter, list>>
sent    == <<got, lost>>
vars    == <<trees, about, shared, at, pid, msg, publish, search, sent>>

-----------------------------------------------------------------------------
(* Helpers *)

Subscribers(t) == {p \in Pipes : \E F \in Filters : t \in F /\ sub[<<p, F>>] # NoSub}

Moves(w, a) == at' = [at EXCEPT ![w] = a]

\* The item receives again: its pid and its packet have no meaning any more.
Leaves(w) ==
    /\ Moves(w, "idle")
    /\ pid' = [pid EXCEPT ![w] = NoPipe]
    /\ topic' = [topic EXCEPT ![w] = NoTopic]

\* nng_msg_clone and nng_msg_free.
Clone(m)   == refs' = [refs EXCEPT ![m] = @ + 1]
Dropped(m) == [refs EXCEPT ![m] = @ - 1]

\* The socket sends work->msg to the pipe the message has at that moment: if
\* another callback has set it since, the client it was meant for loses it.
Delivers(w) ==
    /\ got' = got \cup {<<mpipe[msg[w]], msg[w]>>}
    /\ lost' = IF mpipe[msg[w]] = pid[w] THEN lost ELSE lost \cup {<<pid[w], msg[w]>>}

-----------------------------------------------------------------------------
(* PUBLISH: handle_pub in state RECV *)

\* The topic of the packet, or the one registered for its alias.
Resolve(p, t, a) ==
    IF t # NoTopic THEN t ELSE IF a THEN alias[p] ELSE NoTopic

\* Mutant: a packet without a topic is handled like any other.
MutNoTopicGoesOn(t) == "match"

\* Without a topic handle_pub is done: it returns success, and WAIT finds
\* nobody to send the message to.
Continue(t) == IF t = NoTopic THEN "wait" ELSE "match"

\* Decoding (a packet that does not decode is closed or dropped by server_cb,
\* in ServerCb), and the alias: registered if it comes with a topic, looked up
\* if it comes without.  The client list of the previous packet is forgotten.
HandlePub(w, p, m, t, a, k) ==
    /\ at[w] = "idle" /\ m \notin used
    /\ used' = used \cup {m}
    /\ kind' = [kind EXCEPT ![m] = k]
    /\ wire' = [wire EXCEPT ![m] = IF t = NoTopic THEN "alias" ELSE "topic"]
    /\ refs' = [refs EXCEPT ![m] = 1]
    /\ mpipe' = [mpipe EXCEPT ![m] = p]
    /\ pid' = [pid EXCEPT ![w] = p]
    /\ msg' = [msg EXCEPT ![w] = m]
    /\ alias' = IF a /\ t # NoTopic THEN [alias EXCEPT ![p] = t] ELSE alias
    /\ LET tp == Resolve(p, t, a) IN
        /\ topic' = [topic EXCEPT ![w] = tp]
        /\ Moves(w, Continue(tp))
    /\ infos' = [infos EXCEPT ![w] = {}]
    /\ UNCHANGED <<sub, retained, expired, search, sent>>

\* dbtree_find_clients and foreach_client: the clients that match.
Match(w) ==
    /\ at[w] = "match"
    /\ infos' = [infos EXCEPT ![w] = Subscribers(topic[w])]
    /\ Moves(w, "retain")
    /\ UNCHANGED <<trees, about, shared, pid, msg, topic, search, sent>>

\* Mutant: a packet without retain flag is stored as well.
MutRetainsAll(w) ==
    /\ at[w] = "retain"
    /\ LET m == msg[w]
           old == retained[topic[w]]
       IN  /\ retained' = [retained EXCEPT ![topic[w]] = m]
           /\ refs' = [n \in Msgs |-> IF n = m THEN refs[n] + 1
                                      ELSE IF n = old THEN refs[n] - 1 ELSE refs[n]]
    /\ Moves(w, "wait")
    /\ UNCHANGED <<sub, alias, about, mpipe, pid, msg, publish, search, sent>>

\* Mutant: the retained tree does not take a reference of its own.
MutNoClone(w) ==
    /\ at[w] = "retain" /\ kind[msg[w]] = "retain"
    /\ LET old == retained[topic[w]] IN
        /\ retained' = [retained EXCEPT ![topic[w]] = msg[w]]
        /\ refs' = IF old = NoMsg THEN refs ELSE Dropped(old)
    /\ Moves(w, "wait")
    /\ UNCHANGED <<sub, alias, about, mpipe, pid, msg, publish, search, sent>>

\* handle_pub_retain: the message takes the place of the one the topic had,
\* an empty one removes it; the old one loses its reference.
RetainStores(w) ==
    /\ at[w] = "retain" /\ kind[msg[w]] = "retain"
    /\ LET m == msg[w]
           old == retained[topic[w]]
       IN  /\ retained' = [retained EXCEPT ![topic[w]] = m]
           /\ refs' = [n \in Msgs |-> IF n = m THEN refs[n] + 1
                                      ELSE IF n = old THEN refs[n] - 1 ELSE refs[n]]
    /\ Moves(w, "wait")
    /\ UNCHANGED <<sub, alias, about, mpipe, pid, msg, publish, search, sent>>

RetainClears(w) ==
    /\ at[w] = "retain" /\ kind[msg[w]] = "clear"
    /\ LET old == retained[topic[w]] IN
        /\ retained' = [retained EXCEPT ![topic[w]] = NoMsg]
        /\ refs' = IF old = NoMsg THEN refs ELSE Dropped(old)
    /\ Moves(w, "wait")
    /\ UNCHANGED <<sub, alias, about, mpipe, pid, msg, publish, search, sent>>

\* No retain flag, or no memory for the entry of the tree.
RetainSkips(w) ==
    /\ at[w] = "retain" /\ kind[msg[w]] \in {"plain", "retain"}
    /\ Moves(w, "wait")
    /\ UNCHANGED <<trees, about, shared, pid, msg, publish, search, sent>>

-----------------------------------------------------------------------------
(* PUBLISH: state WAIT *)

\* Mutant: the message is sent as it came in.
MutNoEncode(w) ==
    /\ at[w] = "wait"
    /\ Moves(w, "loop")
    /\ UNCHANGED <<trees, about, shared, pid, msg, publish, search, sent>>

\* encode_pub_message writes the message anew, with its topic, when there is
\* somebody to send it to.
Encode(w) ==
    /\ at[w] = "wait"
    /\ wire' = IF infos[w] = {} THEN wire ELSE [wire EXCEPT ![msg[w]] = "topic"]
    /\ Moves(w, "loop")
    /\ UNCHANGED <<trees, used, kind, expired, shared, pid, msg, publish, search, sent>>

\* encode_properties fails: the message has been cleared already, and nobody
\* gets it.
EncodeFails(w) ==
    /\ at[w] = "wait" /\ infos[w] # {}
    /\ wire' = [wire EXCEPT ![msg[w]] = "torn"]
    /\ infos' = [infos EXCEPT ![w] = {}]
    /\ Moves(w, "loop")
    /\ UNCHANGED <<trees, used, kind, expired, shared, pid, msg, topic, search, sent>>

\* Mutant: the loop does not move on to the next client.
MutSameClient(w, p) ==
    /\ at[w] = "loop" /\ p \in infos[w]
    /\ pid' = [pid EXCEPT ![w] = p]
    /\ Clone(msg[w])
    /\ mpipe' = [mpipe EXCEPT ![msg[w]] = p]
    /\ Moves(w, "send")
    /\ UNCHANGED <<trees, about, msg, publish, search, sent>>

\* The message is pointed at the next client,
SetPipe(w, p) ==
    /\ at[w] = "loop" /\ p \in infos[w]
    /\ infos' = [infos EXCEPT ![w] = @ \ {p}]
    /\ pid' = [pid EXCEPT ![w] = p]
    /\ Clone(msg[w])
    /\ mpipe' = [mpipe EXCEPT ![msg[w]] = p]
    /\ Moves(w, "send")
    /\ UNCHANGED <<trees, about, msg, topic, search, sent>>

\* and sent to the client it then points at.  The reference goes along.
Send(w) ==
    /\ at[w] = "send"
    /\ Delivers(w)
    /\ refs' = Dropped(msg[w])
    /\ Moves(w, "loop")
    /\ UNCHANGED <<trees, about, mpipe, pid, msg, publish, search>>

\* The item is done with the message.
FreeMsg(w) ==
    /\ at[w] = "loop" /\ infos[w] = {}
    /\ refs' = Dropped(msg[w])
    /\ msg' = [msg EXCEPT ![w] = NoMsg]
    /\ Leaves(w)
    /\ UNCHANGED <<trees, about, mpipe, infos, search, sent>>

-----------------------------------------------------------------------------
(* SUBSCRIBE, with one topic filter *)

\* Mutant: the retained messages are asked for when the filter is known.
MutLooksWhenKnown(w, p, F, rh) ==
    /\ at[w] = "idle"
    /\ sub' = [sub EXCEPT ![<<p, F>>] = rh]
    /\ pid' = [pid EXCEPT ![w] = p]
    /\ filter' = [filter EXCEPT ![w] = IF rh = 0 /\ sub[<<p, F>>] # NoSub THEN F ELSE {}]
    /\ Moves(w, "find")
    /\ UNCHANGED <<retained, alias, about, shared, msg, publish, list, sent>>

\* sub_ctx_handle: the client is in the tree from here on.
SubCtxHandle(w, p, F, rh) ==
    /\ at[w] = "idle"
    /\ sub' = [sub EXCEPT ![<<p, F>>] = rh]
    /\ pid' = [pid EXCEPT ![w] = p]
    /\ filter' = [filter EXCEPT ![w] =
                     IF rh = 0 \/ (rh = 1 /\ sub[<<p, F>>] = NoSub) THEN F ELSE {}]
    /\ Moves(w, "find")
    /\ UNCHANGED <<retained, alias, about, shared, msg, publish, list, sent>>

\* The messages that are matched, without this client, and not yet stored: a
\* SUBSCRIBE that looks now finds them neither here nor there.
Between(w) ==
    {msg[v] : v \in {u \in Works : /\ at[u] = "retain" /\ topic[u] \in filter[w]
                                   /\ pid[w] \notin infos[u]}}

\* dbtree_find_retain: msg_ret gets the messages, but no references.
FindRetain(w) ==
    /\ at[w] = "find"
    /\ lost' = lost \cup ({pid[w]} \X Between(w))
    /\ list' = [list EXCEPT ![w] = {retained[t] : t \in filter[w]} \ {NoMsg}]
    /\ filter' = [filter EXCEPT ![w] = {}]
    /\ Moves(w, "rloop")
    /\ UNCHANGED <<trees, about, shared, pid, msg, publish, got>>

\* The loop over msg_ret: check_msg_exp, clone, set_pipe,
SetPipeRetained(w, m) ==
    /\ at[w] = "rloop" /\ m \in list[w] /\ m \notin expired
    /\ list' = [list EXCEPT ![w] = @ \ {m}]
    /\ msg' = [msg EXCEPT ![w] = m]
    /\ Clone(m)
    /\ mpipe' = [mpipe EXCEPT ![m] = pid[w]]
    /\ Moves(w, "rsend")
    /\ UNCHANGED <<trees, about, pid, publish, filter, sent>>

\* and send.
SendRetained(w) ==
    /\ at[w] = "rsend"
    /\ Delivers(w)
    /\ refs' = Dropped(msg[w])
    /\ msg' = [msg EXCEPT ![w] = NoMsg]
    /\ Moves(w, "rloop")
    /\ UNCHANGED <<trees, about, mpipe, pid, publish, search>>

\* The first message that has expired ends the loop: the client gets neither
\* it nor the ones after it.  A message expires at any time, and for good; it
\* is looked at here only.
StopAtExpired(w, m) ==
    /\ at[w] = "rloop" /\ m \in list[w] \cap Expiring
    /\ expired' = expired \cup {m}
    /\ list' = [list EXCEPT ![w] = {}]
    /\ lost' = lost \cup ({pid[w]} \X list[w])
    /\ UNCHANGED <<trees, used, kind, wire, shared, at, pid, msg, publish, filter, got>>

\* The SUBACK is sent.
SubAck(w) ==
    /\ at[w] = "rloop" /\ list[w] = {}
    /\ Leaves(w)
    /\ UNCHANGED <<trees, about, shared, msg, infos, search, sent>>

-----------------------------------------------------------------------------
(* The specification *)

Init ==
    /\ sub = [x \in Pipes \X Filters |-> NoSub]
    /\ retained = [t \in Topics |-> NoMsg]
    /\ alias = [p \in Pipes |-> NoTopic]
    /\ used = {} /\ expired = {} /\ got = {} /\ lost = {}
    /\ kind = [m \in Msgs |-> "plain"]
    /\ wire = [m \in Msgs |-> "topic"]
    /\ refs = [m \in Msgs |-> 0]
    /\ mpipe = [m \in Msgs |-> NoPipe]
    /\ at = [w \in Works |-> "idle"]
    /\ pid = [w \in Works |-> NoPipe]
    /\ msg = [w \in Works |-> NoMsg]
    /\ topic = [w \in Works |-> NoTopic]
    /\ infos = [w \in Works |-> {}]
    /\ filter = [w \in Works |-> {}]
    /\ list = [w \in Works |-> {}]

Arrives(w) ==
    \E p \in Pipes :
        \/ \E m \in Msgs, t \in Topics \cup {NoTopic}, a \in Aliasing, k \in Kinds :
               HandlePub(w, p, m, t, a, k)
        \/ \E F \in Filters, rh \in Options : SubCtxHandle(w, p, F, rh)

Handles(w) ==
    \/ Match(w) \/ RetainStores(w) \/ RetainClears(w) \/ RetainSkips(w)
    \/ Encode(w) \/ EncodeFails(w) \/ (\E p \in Pipes : SetPipe(w, p)) \/ Send(w) \/ FreeMsg(w)
    \/ FindRetain(w) \/ (\E m \in Msgs : SetPipeRetained(w, m)) \/ SendRetained(w)
    \/ (\E m \in Msgs : StopAtExpired(w, m)) \/ SubAck(w)

Next == \E w \in Works : Arrives(w) \/ Handles(w)

Spec == Init /\ [][Next]_vars

-----------------------------------------------------------------------------
(* Properties *)

\* Type invariant: an item that publishes has a message and, if it matched
\* anybody, a topic; what it works on has arrived and points at a client.
TypeOK ==
    /\ sub \in [Pipes \X Filters -> Options \cup {NoSub}]
    /\ retained \in [Topics -> used \cup {NoMsg}]
    /\ alias \in [Pipes -> Topics \cup {NoTopic}]
    /\ used \subseteq Msgs /\ expired \subseteq Msgs
    /\ kind \in [Msgs -> Kinds]
    /\ wire \in [Msgs -> {"topic", "alias", "torn"}]
    /\ refs \in [Msgs -> Int]
    /\ mpipe \in [Msgs -> Pipes \cup {NoPipe}]
    /\ at \in [Works -> Places]
    /\ pid \in [Works -> Pipes \cup {NoPipe}]
    /\ msg \in [Works -> used \cup {NoMsg}]
    /\ topic \in [Works -> Topics \cup {NoTopic}]
    /\ infos \in [Works -> SUBSET Pipes]
    /\ filter \in [Works -> SUBSET Topics]
    /\ list \in [Works -> SUBSET used]
    /\ got \subseteq Pipes \X Msgs /\ lost \subseteq Pipes \X Msgs
    /\ \A w \in Works : msg[w] # NoMsg <=> at[w] \in {"match", "retain", "wait", "loop", "send", "rsend"}
    /\ \A w \in Works : at[w] \in {"match", "retain"} => topic[w] # NoTopic
    /\ \A w \in Works : at[w] # "idle" => pid[w] \in Pipes
    /\ \A m \in used : mpipe[m] \in Pipes

\* The items that own a reference to m as work->msg, and the ones that have
\* cloned one for a send.
Owners(m)  == {w \in Works : msg[w] = m /\ at[w] # "rsend"}
Senders(m) == {w \in Works : msg[w] = m /\ at[w] \in Sending}

\* Every reference is accounted for, whatever the callbacks do to the message
\* they share: one for the retained tree, one for the item that received it,
\* one for every send in progress.  None leaks and none is given up twice.
ReferencesExact ==
    \A m \in Msgs :
        refs[m] = Cardinality({t \in Topics : retained[t] = m})
                    + Cardinality(Owners(m)) + Cardinality(Senders(m))

\* Callbacks that run at the same time can send a message to the wrong client
\* only if it is one of the retained tree, which they share: any other
\* message belongs to one item until it is sent.
OnlyRetainedGoAstray ==
    \A w \in Works :
        at[w] \in Sending /\ kind[msg[w]] # "retain" => mpipe[msg[w]] = pid[w]

\* What WAIT sends has its topic on the wire, even if it came with an alias
\* only: the alias means nothing to the client that gets the message.
SentWithTopic == \A w \in Works : at[w] = "send" => wire[msg[w]] = "topic"

\* Client p will still get m from item w.
Pending(w, p, m) ==
    \/ msg[w] = m /\ at[w] \in {"retain", "wait", "loop", "send"} /\ p \in infos[w]
    \/ msg[w] = m /\ at[w] \in Sending /\ pid[w] = p
    \/ at[w] \in {"rloop", "rsend"} /\ pid[w] = p /\ m \in list[w]
    \/ at[w] = "find" /\ pid[w] = p /\ \E t \in filter[w] : retained[t] = m

\* A client that subscribes with retain handling 0 gets the retained message
\* of every topic that matches: as a retained message, or because it was in
\* the tree when the message was published.  With any number of threads it
\* misses one only if it looked between the match and the store of the message,
\* if the send for it went to the client of another callback, if it or one sent
\* before it has expired (these three are lost), or if the message could not be
\* encoded again (it is sent to nobody).
NoRetainedMissed ==
    \A p \in Pipes, F \in Filters : \A t \in F :
        sub[<<p, F>>] = 0 /\ retained[t] # NoMsg /\ wire[retained[t]] # "torn"
            => \/ <<p, retained[t]>> \in got \cup lost
               \/ \E w \in Works : Pending(w, p, retained[t])

\* How many steps an item is from receiving again, at most.
StepsLeft(w) ==
    CASE at[w] = "match"  -> 2 * Cardinality(Pipes) + 4
      [] at[w] = "retain" -> 2 * Cardinality(infos[w]) + 3
      [] at[w] = "wait"   -> 2 * Cardinality(infos[w]) + 2
      [] at[w] = "send"   -> 2 * Cardinality(infos[w]) + 2
      [] at[w] = "loop"   -> 2 * Cardinality(infos[w]) + 1
      [] at[w] = "find"   -> 2 * Cardinality(filter[w]) + 2
      [] at[w] = "rsend"  -> 2 * Cardinality(list[w]) + 2
      [] at[w] = "rloop"  -> 2 * Cardinality(list[w]) + 1
      [] OTHER            -> 0

\* Every PUBLISH and every SUBSCRIBE is handled to its end, with messages that
\* expire while they are sent: each step of an item takes it nearer to
\* receiving again, and no step of another item takes it back.
HandlingTerminates ==
    [][\A w \in Works : at[w] # "idle" =>
           StepsLeft(w)' < StepsLeft(w) \/ UNCHANGED <<at[w], infos[w], filter[w], list[w]>>]_vars
=============================================================================
