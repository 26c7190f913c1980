------------------------------ MODULE ServerCb ------------------------------
(***************************************************************************)
(* The request loop of the broker: server_cb() of apps/broker.c, run by    *)
(* the nng task queue once per completed aio of every work item.           *)
(*                                                                         *)
(* A work item (struct work) is a small state machine.  Between two calls  *)
(* of server_cb it owns what its fields point to: the message, the decoded *)
(* publish packet, the list of matched clients, and references on the      *)
(* conn_param of the connection the message came from.  The model keeps    *)
(* exactly these ownership facts, the control flow between the states, and *)
(* where the item is re-armed; message contents are abstracted to a packet *)
(* type and to whether the packet decodes.                                 *)
(*                                                                         *)
(* The sockets (nmq_mqtt, the MQTT client, rep0) and the conn_param        *)
(* reference counts live in nng, which is not part of this repository;     *)
(* they are modelled from the calls server_cb makes.                       *)
(***************************************************************************)
EXTENDS Integers, FiniteSets

CONSTANTS
    Works,      \* the work items (nanomq_conf->parallel and the extra ones)
    BrokerWorks,\* the items known to serve the broker socket
    Conns,      \* client connections of the broker socket
    BridgeConn, \* the conn_param of the upstream bridge connection
    WillConns,  \* the connections that registered a will message
    Overlap     \* may a queued callback of an item start before the callback
                \* that queued it has returned? (several taskq threads)

ASSUME ServerCbAssumption ==
    /\ IsFiniteSet(Works)
    /\ BrokerWorks \subseteq Works
    /\ Works \cap Conns = {}
    /\ BridgeConn \notin Works \cup Conns
    /\ WillConns \subseteq Conns
    /\ Overlap \in BOOLEAN

\* Every conn_param: one per connection, the bridge's, and the private one
\* that decode_common_mqtt_msg creates for a message of an HTTP work item.
CParams == Conns \cup {BridgeConn} \cup Works

Protos == {"BROKER", "BRIDGE", "HTTP"}

\* What nng_ctx_recv hands over: packet types, "OTHER" for PUBACK, PUBREL,
\* PUBCOMP and the remaining ones, a receive error, or no message.
PacketTypes == {"SUBSCRIBE", "UNSUBSCRIBE", "PUBLISH", "CONNACK",
                "DISCONNECT_EV", "OTHER"}
EventTypes  == PacketTypes \cup {"ERROR", "NULLMSG", "NONE"}

\* work->msg: NULL, a message the item owns, or one it gave to the socket.
\* "NOTIFY" is an online/offline event, "WILL" a composed will message: both
\* have the wire type PUBLISH, as PublishTyped says.
MsgTypes     == {"NULL", "SENT", "NOTIFY", "WILL"} \cup PacketTypes
PublishTyped == {"PUBLISH", "NOTIFY", "WILL"}

States == {"INIT", "RECV", "WAIT", "SEND", "END", "CLOSE"}
Ops    == {"ctx", "extra", "rep", "fired", "failed"}
Codes  == {"SUCCESS", "ERROR"}
Owned  == {"NULL", "live"}

VARIABLES
    proto,  \* work->proto
    state,  \* work->state
    op,     \* what work->aio does: receive on a context, send an HTTP reply,
            \* or have its callback queued (after an error: "failed")
    flag,   \* work->flag
    code,   \* work->code
    cp,     \* work->cparam
    msg,    \* work->msg
    pub,    \* work->pub_packet
    infos,  \* work->pipe_ct->msg_infos
    tail,   \* a callback of the item in END has its last line still to run
    evType, evConn, evGood, \* the received message server_cb has not looked at:
                            \* its type, its conn_param, does it decode
    refs,   \* the reference count of every conn_param
    up,     \* the connections whose pipe is open in the protocol layer
    hook,   \* config->web_hook.enable
    exited, \* fatal(), or a crash, has ended the process
    leaked  \* the HTTP items that lost a decoded message without freeing it

ctl   == <<state, op>>
req   == <<flag, code, cp>>
held  == <<msg, pub, infos>>
event == <<evType, evConn, evGood>>
env   == <<proto, up, hook, exited, leaked>>
vars  == <<ctl, req, held, event, tail, refs, env>>

-----------------------------------------------------------------------------
(* Helpers *)

\* Mutant: items that are not broker items have no context to receive on.
MutNoExtraCtx(w) == IF proto[w] = "BROKER" THEN "ctx" ELSE "none"

\* The context server_cb receives on: work->ctx for broker items, the extra
\* one (bridge socket or inproc rep0 socket) for the others.
OwnCtx(w) == IF proto[w] = "BROKER" THEN "ctx" ELSE "extra"

\* conn_param_free and conn_param_clone.  A count never goes below zero: what
\* a free of freed memory does is not described further.
CParamFree(c)  == refs' = [refs EXCEPT ![c] = IF @ > 0 THEN @ - 1 ELSE 0]
CParamClone(c) == refs' = [refs EXCEPT ![c] = @ + 1]

\* A callback of w can run now in state s.  Without Overlap the item's
\* previous callback has returned first.
Runs(w, s) ==
    /\ ~exited
    /\ state[w] = s
    /\ op[w] = "fired"
    /\ tail[w] => Overlap

Goto(w, s, o) ==
    /\ state' = [state EXCEPT ![w] = s]
    /\ op' = [op EXCEPT ![w] = o]

\* The request fields: work->flag, work->code, work->cparam.
Request(w, f, k, c) ==
    /\ flag' = [flag EXCEPT ![w] = f]
    /\ code' = [code EXCEPT ![w] = k]
    /\ cp' = [cp EXCEPT ![w] = c]

\* What the item holds: work->msg, work->pub_packet, msg_infos.
Hold(w, m, p, i) ==
    /\ msg' = [msg EXCEPT ![w] = m]
    /\ pub' = [pub EXCEPT ![w] = p]
    /\ infos' = [infos EXCEPT ![w] = i]

Event(w, t, c, g) ==
    /\ evType' = [evType EXCEPT ![w] = t]
    /\ evConn' = [evConn EXCEPT ![w] = c]
    /\ evGood' = [evGood EXCEPT ![w] = g]

\* The received message has been taken out of the aio.
Taken(w) == Event(w, "NONE", BridgeConn, TRUE)

\* handle_pub allocates the packet and forgets the client list it finds; when
\* the packet decodes and its topic matches clients, foreach_client collects
\* them in a new msg_infos.
MatchResults == {"none", "some"}

Matches(matched) == IF matched = "some" THEN "live" ELSE "NULL"

-----------------------------------------------------------------------------
(* The environment: the sockets *)

\* An aio completes with a message (or an error) for the item.
Completes(w, t, c, g) ==
    /\ op' = [op EXCEPT ![w] = "fired"]
    /\ Event(w, t, c, g)
    /\ UNCHANGED <<state, req, held, tail, proto, hook, exited, leaked>>

\* A client connects: the protocol layer keeps one reference and hands the
\* CONNACK to an item with a second one.
Connect(w, c) ==
    /\ ~exited /\ op[w] = "ctx"
    /\ c \notin up /\ refs[c] = 0
    /\ up' = up \cup {c}
    /\ refs' = [refs EXCEPT ![c] = 2]
    /\ Completes(w, "CONNACK", c, TRUE)

\* A packet of an open connection reaches an item.  Packets that server_cb
\* answers or forwards carry a reference on the conn_param.
Packet(w, c, t, g) ==
    /\ ~exited /\ op[w] = "ctx"
    /\ c \in up
    /\ IF t = "OTHER" THEN UNCHANGED refs ELSE CParamClone(c)
    /\ Completes(w, t, c, g)
    /\ UNCHANGED up

\* A connection is closed, by its client, a timeout or the broker: its
\* reference travels with the disconnect event, next to the event's own.
Disconnect(w, c) ==
    /\ ~exited /\ op[w] = "ctx"
    /\ c \in up
    /\ up' = up \ {c}
    /\ CParamClone(c)
    /\ Completes(w, "DISCONNECT_EV", c, TRUE)

\* The bridge socket and the inproc socket of the HTTP items.  Only the
\* CONNACK of the bridge brings a reference of its own.
Extra(w, t, g) ==
    /\ ~exited /\ op[w] = "extra"
    /\ IF proto[w] = "BRIDGE" /\ t = "CONNACK" THEN CParamClone(BridgeConn)
       ELSE UNCHANGED refs
    /\ Completes(w, t, IF proto[w] = "BRIDGE" THEN BridgeConn ELSE w, g)
    /\ UNCHANGED up

\* A receive completes with an error.
RecvFails(w) ==
    /\ ~exited /\ op[w] \in {"ctx", "extra"}
    /\ Completes(w, "ERROR", BridgeConn, TRUE)
    /\ UNCHANGED <<refs, up>>

\* The bridge client reports NNG_ECONNSHUT, with no message to look at.  (With
\* a message, server_cb goes on as if it had received it: Extra.)
BridgeShut(w) ==
    /\ ~exited /\ op[w] = "extra" /\ proto[w] = "BRIDGE"
    /\ Completes(w, "NULLMSG", BridgeConn, TRUE)
    /\ UNCHANGED <<refs, up>>

\* The reply of an HTTP item is sent, or fails.
HttpReply(w, o) ==
    /\ ~exited /\ op[w] = "rep"
    /\ op' = [op EXCEPT ![w] = o]
    /\ UNCHANGED <<state, req, held, event, tail, refs, env>>

-----------------------------------------------------------------------------
(* server_cb, state INIT and state RECV *)

InitCb(w) ==
    /\ Runs(w, "INIT")
    /\ Goto(w, "RECV", OwnCtx(w))
    /\ UNCHANGED <<req, held, event, tail, refs, env>>

Receives(w, t) == Runs(w, "RECV") /\ evType[w] = t

\* An aio error: receive again.
RecvError(w) ==
    /\ Receives(w, "ERROR")
    /\ Goto(w, "RECV", OwnCtx(w)) /\ Taken(w)
    /\ UNCHANGED <<req, held, tail, refs, env>>

\* fatal("RECV NULL MSG")
RecvNull(w) ==
    /\ Receives(w, "NULLMSG")
    /\ exited' = TRUE
    /\ UNCHANGED <<ctl, req, held, event, tail, refs, proto, up, hook, leaked>>

\* The bridge accepts only CONNACK and PUBLISH from upstream; the rest is freed
\* and the item receives again.
RecvDrop(w) ==
    /\ Receives(w, "OTHER") /\ proto[w] = "BRIDGE"
    /\ Goto(w, "RECV", "extra") /\ Taken(w)
    /\ UNCHANGED <<req, held, tail, refs, env>>

\* An HTTP item decodes what it gets into a message with a conn_param of its
\* own, and goes on only with a PUBLISH: of any other message it frees the
\* conn_param and never the message.
HttpDrop(w) ==
    /\ Runs(w, "RECV") /\ proto[w] = "HTTP" /\ evType[w] \in {"OTHER", "CONNACK"}
    /\ Goto(w, "RECV", "extra") /\ Taken(w)
    /\ leaked' = leaked \cup {w}
    /\ UNCHANGED <<req, held, tail, refs, proto, up, hook, exited>>

\* decode_common_mqtt_msg cannot allocate: decode_msg is still NULL when the
\* same branch asks for its conn_param, which ends the process.
DecodeNoMemory(w) ==
    /\ Runs(w, "RECV") /\ proto[w] = "HTTP" /\ evType[w] \in PacketTypes
    /\ exited' = TRUE
    /\ UNCHANGED <<ctl, req, held, event, tail, refs, proto, up, hook, leaked>>

\* SUBSCRIBE.  A failing decode_sub_msg or sub_ctx_handle sets the reason
\* code, and the code, whoever set it, decides whether the client is closed.
SubCode(w) == IF evGood[w] THEN code[w] ELSE "ERROR"

SubscribeFails(w) ==
    /\ Receives(w, "SUBSCRIBE") /\ SubCode(w) # "SUCCESS"
    /\ Request(w, "SUBSCRIBE", SubCode(w), evConn[w])
    /\ Hold(w, "SUBSCRIBE", pub[w], infos[w])
    /\ Goto(w, "CLOSE", "fired") /\ Taken(w)
    /\ CParamFree(evConn[w])
    /\ UNCHANGED <<tail, env>>

\* The retained messages and the SUBACK are sent; SEND frees the conn_param.
SubscribeAcked(w) ==
    /\ Receives(w, "SUBSCRIBE") /\ SubCode(w) = "SUCCESS"
    /\ Request(w, "SUBSCRIBE", code[w], evConn[w])
    /\ Hold(w, "NULL", pub[w], infos[w])
    /\ Goto(w, "SEND", "fired") /\ Taken(w)
    /\ UNCHANGED <<tail, refs, env>>

\* UNSUBSCRIBE.  Errors are only logged: the client always gets its UNSUBACK.
RecvUnsubscribe(w) ==
    /\ Receives(w, "UNSUBSCRIBE")
    /\ Request(w, "UNSUBSCRIBE", code[w], evConn[w])
    /\ Hold(w, "NULL", pub[w], infos[w])
    /\ Goto(w, "SEND", "fired") /\ Taken(w)
    /\ UNCHANGED <<tail, refs, env>>

\* The conn_param of a PUBLISH: a broker message brings a reference, the
\* bridge clones one here, an HTTP message has a conn_param of its own.
PublishParam(w) ==
    IF proto[w] = "BROKER" THEN UNCHANGED refs ELSE CParamClone(evConn[w])

\* PUBLISH that decodes.  An HTTP item waits for its reply to be sent.
RecvPublish(w, matched) ==
    /\ Receives(w, "PUBLISH") /\ evGood[w]
    /\ Request(w, "PUBLISH", "SUCCESS", evConn[w])
    /\ Hold(w, "PUBLISH", "live", Matches(matched))
    /\ Goto(w, "WAIT", IF proto[w] = "HTTP" THEN "rep" ELSE "fired")
    /\ PublishParam(w) /\ Taken(w)
    /\ UNCHANGED <<tail, env>>

\* Mutant: a bad PUBLISH closes the connection whatever the item serves.
MutClosesAny(w) ==
    /\ Receives(w, "PUBLISH") /\ ~evGood[w]
    /\ Request(w, "PUBLISH", "ERROR", evConn[w])
    /\ Hold(w, "PUBLISH", "NULL", "NULL")
    /\ Goto(w, "CLOSE", "fired") /\ Taken(w)
    /\ UNCHANGED <<tail, refs, env>>

\* Mutant: the packet of a bad PUBLISH is kept when the client is closed.
MutCloseLeaks(w) ==
    /\ Receives(w, "PUBLISH") /\ ~evGood[w] /\ proto[w] = "BROKER"
    /\ Request(w, "PUBLISH", "ERROR", evConn[w])
    /\ Hold(w, "PUBLISH", "live", "NULL")
    /\ Goto(w, "CLOSE", "fired") /\ Taken(w)
    /\ CParamFree(evConn[w])
    /\ UNCHANGED <<tail, env>>

\* PUBLISH of a client that does not decode: everything of the message is
\* freed, then the client is closed.
BadPublishCloses(w) ==
    /\ Receives(w, "PUBLISH") /\ ~evGood[w] /\ proto[w] = "BROKER"
    /\ Request(w, "PUBLISH", "ERROR", evConn[w])
    /\ Hold(w, "PUBLISH", "NULL", "NULL")
    /\ Goto(w, "CLOSE", "fired") /\ Taken(w)
    /\ CParamFree(evConn[w])
    /\ UNCHANGED <<tail, env>>

\* The same from an extra context: the message is dropped in SEND, where an
\* HTTP item gets after its reply is sent.
BadPublishDropped(w) ==
    /\ Receives(w, "PUBLISH") /\ ~evGood[w] /\ proto[w] # "BROKER"
    /\ Request(w, "PUBLISH", "ERROR", evConn[w])
    /\ Hold(w, "PUBLISH", "live", "NULL")
    /\ Goto(w, "SEND", IF proto[w] = "HTTP" THEN "rep" ELSE "fired") /\ Taken(w)
    /\ CParamClone(evConn[w])
    /\ UNCHANGED <<tail, env>>

\* CONNACK: sent to the client, then turned into an online event that is
\* published like a message.
RecvConnack(w, matched) ==
    /\ Receives(w, "CONNACK") /\ proto[w] # "HTTP"
    /\ Request(w, "PUBLISH", code[w], evConn[w])
    /\ Hold(w, "NOTIFY", "live", Matches(matched))
    /\ Goto(w, "WAIT", "fired") /\ Taken(w)
    /\ UNCHANGED <<tail, refs, env>>

\* The disconnect event is published as an offline event.  Without a will one
\* of its two references goes here; a will message is left to state END.
DisconnectEv(w, matched, s) ==
    /\ Receives(w, "DISCONNECT_EV")
    /\ Request(w, "PUBLISH", code[w], evConn[w])
    /\ Hold(w, "NOTIFY", "live", Matches(matched))
    /\ Goto(w, s, "fired") /\ Taken(w)
    /\ UNCHANGED <<tail, env>>

DisconnectNoWill(w, matched) ==
    /\ DisconnectEv(w, matched, "WAIT")
    /\ evConn[w] \notin WillConns
    /\ CParamFree(evConn[w])

DisconnectWill(w, matched) ==
    /\ DisconnectEv(w, matched, "END")
    /\ evConn[w] \in WillConns
    /\ UNCHANGED refs

\* Everything else the broker socket hands over goes to WAIT as it is.
RecvOther(w) ==
    /\ Receives(w, "OTHER") /\ proto[w] = "BROKER"
    /\ Request(w, "OTHER", code[w], evConn[w])
    /\ Hold(w, "OTHER", pub[w], infos[w])
    /\ Goto(w, "WAIT", "fired") /\ Taken(w)
    /\ UNCHANGED <<tail, refs, env>>

-----------------------------------------------------------------------------
(* server_cb, the other states *)

\* A failed reply is fatal in WAIT and in SEND.
ReplyFatal(w) ==
    /\ ~exited /\ op[w] = "failed"
    /\ exited' = TRUE
    /\ UNCHANGED <<ctl, req, held, event, tail, refs, proto, up, hook, leaked>>

\* Mutant: the state is not advanced before the aio is finished.
MutHookLoops(w) ==
    /\ Runs(w, "WAIT") /\ msg[w] \in PublishTyped /\ hook
    /\ Goto(w, "WAIT", "fired")
    /\ UNCHANGED <<req, held, event, tail, refs, env>>

\* WAIT: the message goes to every matched client (and to the bridges); with
\* the webhook enabled the item keeps everything for SEND, else it is freed.
WaitHook(w) ==
    /\ Runs(w, "WAIT") /\ msg[w] \in PublishTyped /\ hook
    /\ Goto(w, "SEND", "fired")
    /\ UNCHANGED <<req, held, event, tail, refs, env>>

WaitDone(w) ==
    /\ Runs(w, "WAIT") /\ msg[w] \in PublishTyped /\ ~hook
    /\ Goto(w, "RECV", OwnCtx(w))
    /\ Hold(w, "NULL", "NULL", "NULL")
    /\ CParamFree(cp[w])
    /\ UNCHANGED <<req, event, tail, env>>

\* WAIT: any other message is freed; receiving resumes on work->ctx.
WaitOther(w) ==
    /\ Runs(w, "WAIT") /\ msg[w] \notin PublishTyped
    /\ Goto(w, "RECV", "ctx")
    /\ Hold(w, "NULL", pub[w], infos[w])
    /\ UNCHANGED <<req, event, tail, refs, env>>

\* Mutant: SEND frees the conn_param only of items that still own a message.
MutSendKeepsParam(w) ==
    /\ Runs(w, "SEND")
    /\ Goto(w, "RECV", OwnCtx(w))
    /\ Request(w, "0", code[w], cp[w])
    /\ Hold(w, "NULL", "NULL", "NULL")
    /\ IF msg[w] = "NULL" THEN UNCHANGED refs ELSE CParamFree(cp[w])
    /\ UNCHANGED <<event, tail, env>>

\* SEND: the webhook sees the packet, then everything the item holds goes.
Send(w) ==
    /\ Runs(w, "SEND")
    /\ Goto(w, "RECV", OwnCtx(w))
    /\ Request(w, "0", code[w], cp[w])
    /\ Hold(w, "NULL", "NULL", "NULL")
    /\ CParamFree(cp[w])
    /\ UNCHANGED <<event, tail, env>>

\* END: the offline event goes out and is freed, the will message takes its
\* place and the item is queued again for WAIT; the callback has its last
\* line, conn_param_free(work->cparam), still to run.  (Bound: an item has
\* one unfinished END callback at a time.)
End(w, matched) ==
    /\ Runs(w, "END") /\ ~tail[w]
    /\ Goto(w, "WAIT", "fired")
    /\ Hold(w, "WILL", "live", Matches(matched))
    /\ tail' = [tail EXCEPT ![w] = TRUE]
    /\ UNCHANGED <<req, event, refs, env>>

\* The last line of END reads work->cparam when it runs.
EndTail(w) ==
    /\ ~exited /\ tail[w]
    /\ tail' = [tail EXCEPT ![w] = FALSE]
    /\ CParamFree(cp[w])
    /\ UNCHANGED <<ctl, req, held, event, env>>

\* Mutant: CLOSE leaves the reason code for the next message.
MutCloseKeepsCode(w) ==
    /\ Runs(w, "CLOSE")
    /\ Goto(w, "RECV", "ctx")
    /\ Hold(w, "SENT", pub[w], infos[w])
    /\ UNCHANGED <<req, event, tail, refs, env>>

\* CLOSE: the message is freed, a DISCONNECT takes its place and is given to
\* the socket; the reason code is cleared for the next message.
Close(w) ==
    /\ Runs(w, "CLOSE")
    /\ Goto(w, "RECV", "ctx")
    /\ Request(w, flag[w], "SUCCESS", cp[w])
    /\ Hold(w, "SENT", pub[w], infos[w])
    /\ UNCHANGED <<event, tail, refs, env>>

-----------------------------------------------------------------------------
(* The specification *)

Init ==
    /\ proto \in [Works -> Protos]
    /\ \A w \in BrokerWorks : proto[w] = "BROKER"
    /\ state = [w \in Works |-> "INIT"]
    /\ op = [w \in Works |-> "fired"]
    /\ flag = [w \in Works |-> "0"]
    /\ code = [w \in Works |-> "SUCCESS"]
    /\ cp = [w \in Works |-> BridgeConn]
    /\ msg = [w \in Works |-> "NULL"]
    /\ pub = [w \in Works |-> "NULL"]
    /\ infos = [w \in Works |-> "NULL"]
    /\ tail = [w \in Works |-> FALSE]
    /\ evType = [w \in Works |-> "NONE"]
    /\ evConn = [w \in Works |-> BridgeConn]
    /\ evGood = [w \in Works |-> TRUE]
    /\ refs = [c \in CParams |-> IF c = BridgeConn THEN 1 ELSE 0]
    /\ up = {}
    /\ hook \in BOOLEAN
    /\ exited = FALSE
    /\ leaked = {}

\* The callbacks of one item.
Callback(w) ==
    \/ InitCb(w)
    \/ RecvError(w) \/ RecvNull(w) \/ RecvDrop(w) \/ HttpDrop(w) \/ DecodeNoMemory(w)
    \/ SubscribeFails(w) \/ SubscribeAcked(w) \/ RecvUnsubscribe(w)
    \/ BadPublishCloses(w) \/ BadPublishDropped(w) \/ RecvOther(w)
    \/ \E m \in MatchResults : \/ RecvPublish(w, m) \/ RecvConnack(w, m)
                          \/ DisconnectNoWill(w, m) \/ DisconnectWill(w, m)
                          \/ End(w, m)
    \/ ReplyFatal(w)
    \/ WaitHook(w) \/ WaitDone(w) \/ WaitOther(w) \/ Send(w) \/ Close(w)

\* What the sockets do with one item.  Whether a packet is well-formed matters
\* only where server_cb looks at the result of decoding it.
Socket(w) ==
    \/ \E c \in Conns : Connect(w, c) \/ Disconnect(w, c)
    \/ \E c \in Conns, g \in BOOLEAN, t \in {"SUBSCRIBE", "PUBLISH"} : Packet(w, c, t, g)
    \/ \E c \in Conns, t \in {"UNSUBSCRIBE", "OTHER"} : Packet(w, c, t, TRUE)
    \/ \E g \in BOOLEAN : Extra(w, "PUBLISH", g)
    \/ \E t \in {"CONNACK", "OTHER"} : Extra(w, t, TRUE)
    \/ RecvFails(w) \/ BridgeShut(w)

Replied(w) == \E o \in {"fired", "failed"} : HttpReply(w, o)

Next == \E w \in Works : Callback(w) \/ EndTail(w) \/ Socket(w) \/ Replied(w)

\* The task queue runs every queued callback to its end, and a reply is sent
\* or fails.  The sockets owe nothing: a client may stay silent forever.
Fairness == \A w \in Works : WF_vars(Callback(w)) /\ WF_vars(EndTail(w)) /\ WF_vars(Replied(w))

Spec     == Init /\ [][Next]_vars
FairSpec == Spec /\ Fairness

-----------------------------------------------------------------------------
(* Properties *)

\* Type invariant: the fields of every item hold the values server_cb gives
\* them, and a conn_param count is a natural number.
TypeOK ==
    /\ proto \in [Works -> Protos]
    /\ state \in [Works -> States]
    /\ op \in [Works -> Ops]
    /\ flag \in [Works -> {"0"} \cup PacketTypes]
    /\ code \in [Works -> Codes]
    /\ cp \in [Works -> CParams]
    /\ msg \in [Works -> MsgTypes]
    /\ pub \in [Works -> Owned]
    /\ infos \in [Works -> Owned]
    /\ tail \in [Works -> BOOLEAN]
    /\ evType \in [Works -> EventTypes]
    /\ evConn \in [Works -> CParams]
    /\ evGood \in [Works -> BOOLEAN]
    /\ refs \in [CParams -> Nat]
    /\ up \in SUBSET Conns
    /\ hook \in BOOLEAN
    /\ exited \in BOOLEAN
    /\ leaked \subseteq {w \in Works : proto[w] = "HTTP"}

\* The conn_param_free calls an item has still to make on work->cparam, or on
\* the conn_param of the message it has not looked at yet.
OwedForEvent(w) ==
    CASE evType[w] = "DISCONNECT_EV" -> 2
      [] evType[w] \in {"SUBSCRIBE", "UNSUBSCRIBE"} -> 1
      [] evType[w] = "PUBLISH" -> IF proto[w] = "BROKER" THEN 1 ELSE 0
      [] evType[w] = "CONNACK" -> IF proto[w] = "HTTP" THEN 0 ELSE 1
      [] OTHER -> 0

Owed(w) ==
    CASE state[w] = "RECV" -> OwedForEvent(w)
      [] state[w] = "WAIT" -> IF msg[w] \in PublishTyped THEN 1 ELSE 0
      [] state[w] = "SEND" -> 1
      [] state[w] = "END"  -> 2
      [] OTHER             -> 0

\* The conn_param those calls are for.
Target(w) == IF state[w] = "RECV" THEN evConn[w] ELSE cp[w]

\* The claims an item has on a conn_param: one per free it still owes, the
\* one of an unfinished END callback included.
OwedOn(w, c) == IF Target(w) = c THEN Owed(w) ELSE 0
TailOn(w, c) == IF tail[w] /\ cp[w] = c THEN 1 ELSE 0
Due(w, c)    == OwedOn(w, c) + TailOn(w, c)

Claims(c) == {x \in Works \X (1..3) : x[2] <= Due(x[1], c)}

\* The reference the protocol layer holds.
Base(c) == IF c \in up \cup {BridgeConn} THEN 1 ELSE 0

\* Every conn_param is freed exactly when its last user is done: its count is
\* the number of frees the items still owe, plus the reference the protocol
\* layer holds for an open connection.  Fewer frees than clones leak it, more
\* free it under another item (the conn_param_free calls of RECV, WAIT, SEND
\* and END, "free conn_param due to clone in protocol layer").
CParamBalanced ==
    \A c \in CParams : refs[c] = Cardinality(Claims(c)) + Base(c)

\* Who owns msg, pub_packet and msg_infos in each state: an item that waits
\* for its next message holds nothing that the next message would overwrite
\* (a leak), states that free the message unconditionally own one, and SEND
\* never frees one that CLOSE gave to the socket.
Ownership(w) ==
    /\ state[w] \in {"INIT", "RECV", "CLOSE"} => pub[w] = "NULL" /\ infos[w] = "NULL"
    /\ state[w] \in {"INIT", "RECV"} => msg[w] \in {"NULL", "SENT"}
    /\ state[w] \in {"WAIT", "END", "CLOSE"} => msg[w] \notin {"NULL", "SENT"}
    /\ state[w] \in {"WAIT", "END"} => (msg[w] \in PublishTyped <=> pub[w] = "live")
    /\ state[w] = "SEND" => msg[w] # "SENT"
    /\ infos[w] = "live" => pub[w] = "live"

OwnsWhatItFrees == \A w \in Works : Ownership(w)

\* An item listens on the context it was created for, and only in state RECV:
\* WAIT and CLOSE re-arm work->ctx without looking at work->proto.
ListensOnOwnCtx ==
    \A w \in Works : op[w] \in {"ctx", "extra"} => state[w] = "RECV" /\ op[w] = OwnCtx(w)

\* A well-formed packet never gets its client disconnected: RECV tests
\* work->code, which an earlier message of another client may have set.
ClosesOnlyBad ==
    \A w \in Works : state[w] = "RECV" /\ state'[w] = "CLOSE" => ~evGood[w]

GoodPacketsKeepClient == [][ClosesOnlyBad]_vars

\* Whatever an item received, it comes back to receive the next message, or
\* the process has ended: no path through the states forgets to finish or
\* re-arm the aio.
ReceivesAgain ==
    \A w \in Works : (op[w] \notin {"ctx", "extra"})
                     ~> (op[w] \in {"ctx", "extra"} \/ exited)

\* webhook_post.c: "Do not let online event msg trigger webhook".  In SEND the
\* webhook posts a publish event exactly when the flag is CMD_PUBLISH.
NoHookForEvents ==
    \A w \in Works : state[w] = "SEND" /\ msg[w] = "NOTIFY" => flag[w] # "PUBLISH"
=============================================================================
