# A TLA+ model of the NanoMQ broker (SylixOS port)

This directory holds a specification of the broker in `src/nanomq`: TLA+ modules
for its components, TLC configurations that check them on small instances, and
proofs, checked by TLAPS, of what holds for every instance. Paths below are
relative to `src/nanomq/src/nanomq/` unless they start with `src/`.

## 1. The system

NanoMQ is an MQTT broker on top of nng. `broker()` opens the sockets, creates a
fixed number of *work items* and calls `server_cb` once for each; from then on the
program is a set of callbacks that the nng task queue runs on several threads.
`src/nng` is an empty submodule here: nng, its MQTT protocol layer and *nanolib*
(topic tree `dbtree`, topic queues `dbhash`, message queue `lmq`, reference counted
`conn_param`) are external and are modelled from how this repository calls them.
`src/SylixOS-Base` is the vendored operating system and is not modelled.

| component | source | state | operations | what is hard |
|---|---|---|---|---|
| request loop | `apps/broker.c` `server_cb` | per work item: state, aio, flag, code, `cparam`, `msg`, `pub_packet`, `msg_infos` | one callback per state: INIT, RECV, WAIT, SEND, END, CLOSE | who owns what in which state; reference counts; callbacks on several threads; one item serves many clients in turn |
| subscription database | `sub_handler.c`, `unsub_handler.c` | topic tree, topic queue per pipe | subscribe, unsubscribe, destroy a client | two databases, each with its own lock; items working on the same pipe; pipe ids used again |
| publish path | `pub_handler.c` | retained tree, alias table, statistics | decode, match, store retained, encode, send | lists and pointers that are stale when used |
| bridge clients | `bridge.c` | connection per node, one shared session flag | connect, reconnect, subscribe | lost connections, lost SUBSCRIBEs, a flag shared by all nodes |
| bridge forwarding | `apps/broker.c` `bridge_handler` | `bridge_aio` per item | send a message to every node whose filter matches | one aio for all nodes, busy while a send is in flight; sends that fail |
| packet codecs | `sub_handler.c`, `unsub_handler.c`, `pub_handler.c` | list of topic nodes, reason codes, `msg_ret` | decode, handle and acknowledge a SUBSCRIBE or UNSUBSCRIBE | packets refused half way; memory read unset or freed |
| webhook | `webhook_post.c`, `webhook_inproc.c` | queue per pool item | push an event, queue it, post it | unlocked reads, resizing under load |
| REST server | `web_server.c` | job free list, workers | HTTP request to job to worker and back | many error paths, late replies |
| REST API | `rest_api.c` | one REQ socket for all workers; configuration and databases (mostly read) | routing, authorization, publish, subscribe over HTTP | workers cancel each other's sends; a publish fails half way; a client table that does not exist |
| hash map | `hashmap.c` | open addressing table | put, get, remove, rehash | never created (`cid_table` is always NULL) |
| start and stop | `apps/broker.c`, `process.c`, `nanomq.c` | pid file, command line | start, stop, restart | operating system calls |
| rule engine | `pub_handler.c`, `rest_api.c` | | | not compiled (`SUPP_RULE_ENGINE`) |

How they interact: the protocol layer completes the aio of a work item with a
message; `server_cb` decodes it, calls the subscription database or `handle_pub`,
sends to the pipes of the matched clients, forwards to bridge nodes, pushes an
event to the webhook socket, and receives again. Bridge items receive from the
socket of a bridge client, HTTP items from an inproc socket that the REST workers
send to. `PROJECT.json` lists the components with their status and, under
`hazards`, every place where an order, a failure or a limit decides.

What makes each component correct:

* request loop: nothing leaked, nothing freed twice, every conn_param freed exactly
  once per clone, a client is only punished for its own packet, no item is lost;
* subscription database: tree and queues agree, a closed pipe leaves nothing, seen
  from outside it is a set of topics per pipe;
* publish path: references exact, every message to the client it is meant for, no
  retained message missed by a new subscriber (with several threads the code keeps the
  first for all messages, the second for those that are not retained, and the third up to
  the exceptions of `NoRetainedMissed`);
* bridge clients: a connected node is subscribed;
* bridge forwarding: references exact, copies lost only to a busy aio, every forwarded
  message let go of in the end;
* packet codecs: the acknowledgement says what became of each topic, a refused packet
  has no effect, the client gets the retained messages it asks for;
* webhook: bounded, in order, nothing lost without a reason, always drained;
* REST server: every request answered exactly once and with its own reply, no job shared;
* REST API: the code of a publish request says what the broker received.

## 2. The modules

| module | models | composed with |
|---|---|---|
| `ServerCb` | `server_cb` and the sockets around it | |
| `SubDb` | the calls `server_cb` makes into the subscription database | implements `Subscriptions` |
| `Subscriptions` | the promise: a set of topics per open pipe | |
| `Publish` | `handle_pub`, retained messages, the delivery loops | |
| `SubPacket` | one SUBSCRIBE or UNSUBSCRIBE packet from its bytes to its acknowledgement | |
| `Bridge` | `bridge.c`, dialer, upstream broker | |
| `BridgeForward` | `bridge_handler`, `bridge_send_cb` | extends `Bridge`: sends complete on its connections |
| `WebHook` | one pool item of `webhook_inproc.c` | |
| `RestServer` | `web_server.c` | |
| `RestApi` | the requests of `rest_api.c` that reach the broker | extends `RestServer`: what a worker does between a request and its reply |
| `MC*` | the instances TLC checks | |
| `*_proofs` | theorems | |

`PROJECT.json` maps every definition to the lines it stands for.

**ServerCb.** One record of variables per work item, named after the fields of
`struct work`. `op` is what the aio does: receive on `work->ctx` or on
`work->extra_ctx`, send an HTTP reply, or have its callback queued. Every branch
of `server_cb` is one action, and each is a whole callback, with one exception:
state END queues the item and *then* runs `conn_param_free(work->cparam)`, so its
last line is an action of its own (`EndTail`). The constant `Overlap` says whether
another callback of the item may run before it. A received message is a type, a
connection and whether it decodes; matching yields no client or some. `refs` counts
the references of each `conn_param`; HTTP items have one of their own, the bridge
has one for its connection. `fatal()` ends the process (`exited`). An HTTP item decodes
what it receives into a message of its own: one that is not a PUBLISH is never freed
(`HttpDrop`, recorded in `leaked`), and without memory for it the branch follows a NULL
pointer (`DecodeNoMemory`).

The reference counts the protocol layer hands over follow from the calls in
`server_cb`: it frees once for SUBSCRIBE, UNSUBSCRIBE, PUBLISH and CONNACK, and
twice for a disconnect event, of which the connection's own reference is one.

**SubDb.** One action per call into `dbtree` or `dbhash`, with `todo`, `step` and
`cur` for the place in the loops. The constant `Serial` says whether the protocol
layer lets two messages of a pipe be with two items at once. Nothing under `src/`
enforces it, so both are checked.

**Publish.** A message is one object: `refs` is its count, `mpipe` its pipe, `wire`
what it looks like on the wire. The retained tree, the item that received it and
every send have a reference each. Steps are accesses to shared state: match, store,
encode, point at a client (`SetPipe`), send, and for a SUBSCRIBE insert, look, point,
send. A send goes where the message points *then*. Between any two steps the callbacks of
other items run: `num_taskq_thread` is 0 in `src/nanomq/etc/nanomq.conf:23`, which asks for
as many threads as the machine suggests. `got` records who was sent what, `lost` who was
kept from what: by looking between the match and the store of a PUBLISH, by a send that
another callback has redirected, or by an expired message that ends the loop.
A filter is the set of topics it matches; the order of the
retained messages is left open. The memory of a freed message is not used again, so
a use after free shows as a message with no reference. `Publish` has one topic per
SUBSCRIBE (`SubPacket` has several), no UNSUBSCRIBE and no disconnect (see `SubDb` for
those).

**SubPacket.** A packet is a sequence of topics as the decoder meets them, each with its
options. Decoding and handling are two loops over the list of nodes, and the model has an
action per node in each, because they fail differently: decoding stops at the first topic
it refuses (SUBSCRIBE: the client is closed; UNSUBSCRIBE: nothing is handled and the
UNSUBACK is written all the same), handling skips what has no topic. A reason code nobody
has written is `Unset`. `r` is the pointer of `sub_ctx_handle`, which keeps pointing at the
vector freed for an earlier topic: reading it again crashes the broker or collects the
messages a second time, and the model has both. How far the decoder moves over a topic
that is not UTF-8 is decided inside nng's `copy_utf8_str`; the packet is what it finds
there. Allocation failures are left out. Only one client is modelled: `SubDb` and
`Publish` have the interleavings.

**Bridge.** `conn` per node, `session` for what the upstream remembers, `pending`
for a SUBSCRIBE under way, `kept` for the static flag. The callback is one action:
its only shared access is one read and one write of the flag, and the write is of
a constant.

**BridgeForward.** `smsg` and `route` are the locals of a `bridge_handler` under way, `aio`
what its item's `bridge_aio` has in flight. A node gets a copy, that is a reference, or
finds the aio busy. A send completes while its node is connected, or fails; after a
failure the library has freed the copy or nobody has (`orphans`), since the callback says
"nanosdk deal with fail send" and does nothing. `late` and `tried` record what
`NeverAllDropped` is about.

**WebHook.** The queue is a sequence of event numbers. Every unlocked read of
`thread_cb` is an action of its own, so what it read may be stale one step later.
Pool items share only the pull socket, so one item is modelled.

**RestServer.** A job is in one place (free list, handler, SEND_REQ, RECV_REP);
every allocation, send and receive may fail. The request is with the REP socket as
soon as it is sent, so a worker may take it before the SEND_REQ callback runs, and
may still work on it after the job was recycled. `rest_handle` opens a context for every
request and `rest_recycle_job` closes it: `ctx` is the one a job opened last, closed or not,
`open` those that are open, `via` the one a request was sent on. A reply goes to the context
of its request if that is still open, and waits there. nng also matches replies by request
id; the model does not rely on it, so it is the contexts that keep a late reply from the
next request of the job.

**RestApi.** The worker's step from request to reply becomes several: one per topic of
every JSON object of a publish request. `nng_sendmsg` on a REQ socket waits until a pipe
takes the message, and a second send on the same socket cancels the one that waits;
`waiting` is the worker in it. A batch goes on after an object that failed. An object that
lacks a parameter (`Broken`) is refused before anything is sent; one whose "topics" has
nothing between its commas has zero topics, sends nothing and succeeds. Without memory for
its reply a worker ends the process (`NoReplyMemory`). A subscribe or
unsubscribe request with a client id reads the table of `get_hashmap`, which is NULL, and
ends the process. Requests that are refused or only read are answered without effect.

## 3. The runs

| run | instance | result |
|---|---|---|
| `servercb` | a broker item and an item of any kind, two connections, one with a will; `Overlap = FALSE` | all properties hold |
| `servercb_overlap` | the same, `Overlap = TRUE` | `CParamBalanced` violated |
| `servercb_hook` | the same, `Overlap = FALSE` | `NoHookForEvents` violated |
| `subdb` | two items, two pipes, two topics, `Serial = TRUE` | all hold, and `SubDb` implements `Subscriptions` |
| `subdb_ghost` | the same, `Serial = FALSE` | `GonePipesLeaveNothing` violated |
| `publish` | two items, clients, topics and messages, one filter, several threads | all hold |
| `bridge` | two nodes with clean start and topics; one item that forwards two messages, with one, two or three copies or none | all hold |
| `bridge_kept` | three nodes, one of them without clean start | `ConnectedIsSubscribed` violated |
| `webhook` | initial capacity 2, 18 events, one failing resize | all hold |
| `rest` | two publish requests, one a batch with an object that is broken and one without topics, and a subscribe request; two jobs, two workers | all hold |
| `subpacket` | two topics, one with retained messages; every packet of up to three topics | all hold |
| `unsuback_found` | the same, packets of up to two topics | `SuccessMeansFound` violated |

Bounds. Two work items are enough for every pair of callbacks to meet, and two
connections for a message of one client to follow, on the same item, a message of
another; nothing in `server_cb` looks at a third. In `SubDb` two items meet on one
pipe or on two, with packets of none to two topics. `WebHook` needs a queue that
has grown to more than twice a length that is more than twice the initial
capacity: from 2 it grows to 3, 4, 6, 9 and 13, and 18 events reach the shrink and
overrun it. `RestServer` has more requests than jobs, so that jobs are used again
and run out, and two workers, so that one cancels the other at each of its topics.
`BridgeForward` has two messages, so that the second finds the aio busy with the first,
and two nodes, so that one is down while the other is up. `SubPacket` has three topics
per packet: one that finds retained messages, one that reads the freed vector, and one
before, between or after them; there is no fourth role. `Publish` has two messages, so that a
retained message is replaced while it is sent, two clients to mix up, and two topics under
one filter, so that an expired message is in the way of another. Clients ask with retain
handling 0, for which `NoRetainedMissed` is stated; the values 1 and 2 are in `SubPacket`.
Items, clients, topics and messages are symmetric there, which is sound for the invariants
and the action property of that run. In `ServerCb`
an item has at most one unfinished END callback.
Deadlock checking is off where `fatal()` ends the process or a bounded supply of
events or requests is used up.

Fairness. A queued callback runs and returns, a thread is scheduled, an HTTP reply
is sent or fails, a SUBSCRIBE given to the client library is sent while the
connection lasts: weak fairness on those actions, which the nng task queue and the
timeouts in `send_msg` justify. Clients, networks and upstream brokers owe nothing:
they may stay silent forever. A send of `bridge_aio` ends
after its three seconds (`nng_aio_set_timeout`) even if the node is never connected
again, and the pipe to the broker takes what the REQ socket has for it, because the
HTTP items receive again (`ReceivesAgain`). That a PUBLISH or SUBSCRIBE is handled to its
end needs no fairness: `HandlingTerminates` says that every step of an item lowers
`StepsLeft`, a number computed from its place in the code, the clients and the retained
messages it still has to go through, and that no step of another item raises it. Only
the arrival of a packet does.

What several threads can do. With callbacks of different items interleaved, TLC reaches
states of `Publish` in which a message in `msg_ret` has no reference any more (a PUBLISH has
replaced it), in which a retained message is about to be sent to the client of another
callback, and in which a SUBSCRIBE that fell between match and store of a PUBLISH gets
neither copy. Nothing in the repository promises otherwise, so there is no text for a run
to refute; they are hazards, and the properties of `publish` say exactly what remains. The
counts are exact; only retained messages go astray; and `NoRetainedMissed` names every way
in which a subscriber can miss a retained message. The second and the third case, and
expiry, are such ways. That the first one sends freed memory is covered by no property.

What the violations show (details under `findings`):

* `servercb_overlap`: the last line of END reads `work->cparam` after the item was
  queued again; on another thread it frees the conn_param of the next message.
* `servercb_hook`: `webhook_entry` clears the flag "Do not let online event msg
  trigger webhook", but is called before the flag is set.
* `subdb_ghost`: a SUBSCRIBE and the disconnect event of one pipe, on two items,
  leave a subscription the next owner of the pipe id inherits.
* `bridge_kept`: one node without clean start keeps the others from subscribing.
* `unsuback_found`: the branch "not find the topic" of `unsub_ctx_handle` is never taken,
  because `sub_ctx_del` always returns 0: an UNSUBACK reports success for topics the client
  never had. `UnsubackTellsTruth` states what the codes do mean.

## 4. The proofs

All theorems hold for every value of the constants that satisfies the `ASSUME` of
the module.

* `ServerCb_proofs`: `TypeCorrect`; `NothingLeakedOrFreedTwice`, `OwnContext` and
  `GoodPackets`. The inductive invariant `ItemInv` adds to `Ownership` the control
  facts it rests on (`Control`): which states an item of each kind can be in, what
  its aio does there, that only a message that failed leaves a reason code behind.
  Without it `ListensOnOwnCtx` is not inductive: WAIT and CLOSE re-arm `work->ctx`
  untested, and only the fact that HTTP and bridge items never get there saves them.
* `ServerCbRefs_proofs`: `ParamsBalanced`, the count of every conn_param, under
  `~Overlap`. The argument is local: a step of one item changes the claims of that
  item on one conn_param by exactly what it adds to or takes from the count
  (`LocallyBalanced`); two counting lemmas (`StacksSplit`, `StacksStep`) turn this into
  a statement about the cardinality of all claims. `TailInv` says that an unfinished
  END still has the conn_param it started with, which is what `Overlap` breaks.
* `SubDb_proofs`: `TypeCorrect`, `DatabasesAgree`, `NothingInherited` and `Implements`, the
  last three under `Serial`. `DbInv` says that one item at most works on a pipe
  (`Solo`), what the databases of that pipe may differ by while it does (`JobInv`), that
  they agree otherwise (`AgreeInv`), and that a closed pipe has nothing (`GoneInv`). The
  refinement mapping counts a packet as done when it is received.
* `Publish_proofs`, on any number of threads: `TypeCorrect`; `PlainArrive`, with the
  invariant `PrivateInv` that a message without retain flag is in no shared place and
  with one item only; `TopicOnTheWire` and `ReferencesKept`, with `OwnerInv`: an item owns
  the message it received alone until it frees it, a message still to be retained is not in
  the tree, and WAIT has written the topic before it sends (what a SUBSCRIBE sends from the
  retained tree may still have none, see the hazard at `pub_handler.c:1165`). `ReferencesExact` is then
  inductive, because every step moves one element in or out of one of the three sets a
  reference can belong to, and `Counted`, `OneMore` and their companions turn that into
  cardinalities. `PacketsAreFinished` proves the measure `StepsLeft`: the loops of WAIT and
  of SUBSCRIBE end. `RetainedNotMissed` needs no assumption on threads either: a step that
  takes a message from a subscriber's `Pending` puts it in `got` or `lost`, and a step that
  stores a message finds every subscriber in the list of its PUBLISH, or still before its own
  look at the tree, or in `lost` (`MatchedInv`).
* `Bridge_proofs`: `TypeCorrect`; `CleanNodesSubscribe` when all nodes ask for a clean
  start, with the invariant that the shared flag stays 0. `ForwardKeepsClients` shows that
  every behaviour of `BridgeForward` is one of `Bridge`, so both carry over. `ForwardTypes`,
  `ForwardBalanced` and `ForwardedOnce` rest on `ForwardInv`: a message is with one item at
  most, its send too is with that item, and a message that was not handed to
  the aio yet still has nodes to go to and an idle aio for them (`UntriedInv`). Without the
  first part a reference could be counted for two items; without the last the route could
  end, or the aio be busy, before the first copy was sent.
* `WebHook_proofs`: `TypeCorrect`, `QueueBounded`, `EventsInOrder`, `NoOtherLoss`. `ReadInv`
  records what the thread read: a length over twice the initial capacity, a capacity
  over twice that length. Halving such a capacity is safe whatever has happened since.

* `RestServer_proofs`: `TypeCorrect`, `NoSecondAnswer`, `OneRequestPerJob` and
  `NothingLeftInJobs`. The three properties are inductive together (`JobInv`) once
  `HandlerInv` says that a request with a handler has no aio in flight and no answer. The
  free list is reasoned about as a list without duplicates of the idle jobs, which popping
  and pushing preserve. `NoForeignReply` rests on `CtxInv`: a job in flight has the context named
  after its request, a request was sent on its own context or not at all, a context is open
  exactly while its job is in flight, and the one an idle job has kept belongs to a request
  that is answered. That closing the context a job kept from
  an earlier request hurts nobody follows from it. `ApiKeepsJobs` shows that every behaviour of `RestApi` is one of
  `RestServer`: the steps of a publish are stutters, or the worker's one step from request to
  reply. `PublishReportsTrue` rests on `ApiInv`: a request is sent once and received by one
  worker (`RequestInv`), the broker has of the object a worker is at exactly the topics that
  worker has sent, only a worker with a topic left waits for the socket
  (`WorkerProgress`), and of objects no worker has reached the broker has nothing
  (`NothingAhead`). Without the second part the sends that another worker cancels could not
  be told from those that arrived.
* `SubPacket_proofs`: `TypeCorrect`, `SubackTrue`, `RefusedHasNoEffect`, `RetainedInOrder`,
  `FreedReadByThesePackets` and `UnsubackTrue`, for packets of any length. The invariant ties
  every node to the topic of the packet at its place (`SubList`, `UnsubLoop`) and says what
  the loop of `sub_ctx_handle` has done after n topics (`Loop`): the client has exactly
  these topics more, `r` is freed exactly if the last lookup found messages, a freed
  vector was read exactly if one of the pairs of `Exposes` lies behind, and otherwise
  what was collected is the hits so far. That is an induction over the steps of the
  loop, so no induction over sequences is needed: "in their order and once per topic" is an
  increasing function from the list into the packet (`Collects`), which every hit extends
  by one.

Only model-checked: everything under fairness (`ReceivesAgain`, `EveryPacketHandled`,
`Resubscribes`, `EveryEventLeaves`, `EveryRequestAnswered`, `ForwardedReleased`), which is
out of the prover's reach. Every invariant of a passing run is stated by a theorem. For
the five runs that expect a violation there is nothing to prove: `CParamBalanced`,
`GonePipesLeaveNothing` and `ConnectedIsSubscribed` are proved under the condition those
runs drop, and `NoHookForEvents` and `SuccessMeansFound` are false of the code as it is.

## 5. What reading the packets and the REST API turned up

Behaviour the models reproduce and the properties state as it is. Where a text in the
repository says otherwise, it is named:

* every topic that decodes is granted QoS 2, whatever QoS was asked for
  (`sub_handler.c:73`);
* a packet in which a topic with retain handling 2 (or 1, already subscribed) follows one
  that found retained messages reads and frees memory that is freed
  (`sub_handler.c:262-270`); `FreedReadExactly` says that no other packet does;
* an UNSUBSCRIBE that does not decode is acknowledged, with reason codes nobody wrote
  (`unsub_handler.c:61`, `apps/broker.c:396-401`); if its properties do not, the list
  pointer itself was not written;
* two REST workers that publish at once make one of the requests fail, possibly after some
  of its topics were published; the code it is answered with is true
  (`PublishedAsReported`);
* a batch is answered with SUCCEED at the top whatever became of its objects
  (`rest_api.c:2800`); only the codes of the objects tell, and only they are modelled;
* a publish request whose "topics" holds no topic publishes nothing and is answered with
  SUCCEED (`rest_api.c:2562-2571`);
* a subscribe request over HTTP with a client id ends the process (`rest_api.c:2671`),
  although `rest_api.c:146-149` offers the request as "Subscribe a topic";
* an UNSUBACK reports success for a topic the client never subscribed to, against the
  comments at `unsub_handler.c:193-196` (run `unsuback_found`);
* an HTTP item never frees a decoded message that is not a PUBLISH, and follows a NULL
  pointer when `decode_common_mqtt_msg` finds no memory (`apps/broker.c:305-311`);
* a REST worker writes its reply into a message whose allocation it does not check
  (`web_server.c:408`).

## 6. Not modelled, and the plan

Next, in this order:

1. Proofs: how the components' results combine, beginning with an abstract specification
   of what a client of the REST server sees, and of what a subscriber sees of `Publish`.
2. The configuration requests of the REST API: they rewrite the configuration file key by
   key while another worker may do the same.
3. `decode_pub_message` and the properties of version 5: their positions on bounded
   packets against a reference definition.

Left out, and why:

* the hash map: nothing creates a table or calls put and remove; what the broker can reach
  of it is one lookup in a table that is NULL (`RestApi`);
* broker control over HTTP: it starts the command line program again, an operating
  system call, like the command line, the pid file and the signals;
* the JSON of requests and answers, the JSON of webhook events, logging and statistics;
* the rule engine and the AWS, QUIC and SQLite code: not compiled;
* `src/SylixOS-Base`: the operating system, C library, OpenSSL and SQLite that NanoMQ is
  ported to. These are third-party sources of almost two million lines, next to which
  the broker's own nine thousand are a fraction of a percent; no definition here stands for
  any of them;
* `src/nng`: an empty submodule. Its sockets, aios and databases are modelled as far as the
  broker's calls show what they do.
