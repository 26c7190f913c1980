----------------------------- MODULE SubPacket ------------------------------
(***************************************************************************)
(* One SUBSCRIBE or UNSUBSCRIBE packet after the other, of one client:     *)
(* decode_sub_msg, sub_ctx_handle, encode_suback_msg, and the same for     *)
(* UNSUBSCRIBE, as state RECV of server_cb calls them.                     *)
(*                                                                         *)
(* A packet is decoded into a list of topic nodes first; then the list is  *)
(* walked to subscribe, to unsubscribe and to collect retained messages,   *)
(* and walked again to write one reason code per node.  Every node of an   *)
(* UNSUBSCRIBE, and the packet itself, is allocated and not cleared: what  *)
(* nobody has written is Unset.  The pointer r to the retained messages    *)
(* found for a topic outlives the topic, and the memory it points to.      *)
(*                                                                         *)
(* What other clients do to the databases is the subject of SubDb and      *)
(* Publish.                                                                *)
(***************************************************************************)
EXTENDS Naturals, Sequences

CONSTANTS
    Topics,       \* the topic filters
    Retained,     \* the ones that retained messages match
    NoTopic,      \* in a packet: an empty topic
    NotUtf8,      \* in a packet: a topic that is not UTF-8
    SubPackets,   \* the payloads of the SUBSCRIBE packets
    UnsubPackets  \* the payloads of the UNSUBSCRIBE packets

\* The options of a topic: retain handling 0, 1, 2 or an invalid one, and a
\* shared subscription with the no local bit and retain handling 0.
Options == {"always", "new", "never", "invalid", "noLocal"}
Entries == [topic : Topics \cup {NoTopic, NotUtf8}, opt : Options]
Codes   == {"granted", "success", "error", "Unset"}

ASSUME SubPacketAssumption ==
    /\ Retained \subseteq Topics
    /\ NoTopic \notin Topics /\ NotUtf8 \notin Topics
    /\ SubPackets \subseteq Seq(Entries) \ {<<>>}
    /\ UnsubPackets \subseteq Seq(Topics \cup {NoTopic, NotUtf8}) \ {<<>>}

VARIABLES
    subs,   \* the topics the client is subscribed to
    at,     \* idle; decoding; in the loop over the nodes; writing the reply;
            \* the reply is sent; the client is closed; the broker has crashed
    kind,   \* which packet it is
    v5,     \* the protocol version of the client
    packet, \* its payload, or nothing if that is never looked at
    nodes,  \* sub_pkt->node or unsub_pkt->node: the topic, the options, the code
    tn,     \* the node the loop is at
    r,      \* the retained messages found: NULL, a vector, a freed vector
    found,  \* the topic they were found for
    ret,    \* work->msg_ret, by the topic of the messages
    reply,  \* the reason codes of the SUBACK or UNSUBACK
    before, \* the subscriptions when the packet arrived
    stale   \* a freed vector was read

input  == <<kind, v5, packet, before>>
search == <<r, found, ret, stale>>
vars   == <<subs, at, input, nodes, tn, search, reply>>

-----------------------------------------------------------------------------
(* Helpers *)

\* The options byte is refused: PROTOCOL_ERROR.
Refused(e) == e.opt = "invalid" \/ (e.opt = "noLocal" /\ v5)

\* dbtree_find_retain is called for a topic that does or does not exist.
LooksUp(opt, exists) == opt \in {"always", "noLocal"} \/ (opt = "new" /\ ~exists)

Decoding(k) == at = "decode" /\ kind = k
Handling(k) == at = "handle" /\ kind = k /\ tn <= Len(nodes)
Handled(k)  == at = "handle" /\ kind = k /\ tn > Len(nodes)

\* A packet arrives in state RECV.
Arrives(k, v, pk, a) ==
    /\ at = "idle"
    /\ at' = a
    /\ kind' = k /\ v5' = v /\ packet' = pk /\ before' = subs
    /\ nodes' = <<>> /\ tn' = 1
    /\ r' = "null" /\ found' = NoTopic /\ ret' = <<>> /\ stale' = FALSE
    /\ reply' = <<>>
    /\ UNCHANGED subs

\* A node is added to the list, and the next topic decoded, or the list
\* handled.
Append1(node) ==
    /\ nodes' = Append(nodes, node)
    /\ IF tn < Len(packet) THEN tn' = tn + 1 /\ UNCHANGED at
                           ELSE tn' = 1 /\ at' = "handle"

\* The list of nodes is freed.
sub_pkt_free   == nodes' = <<>>
unsub_pkt_free == nodes' = <<>>

-----------------------------------------------------------------------------
(* SUBSCRIBE *)

\* The packet id is not zero, and the properties are correct.
RecvSubscribe(v, pk) == Arrives("sub", v, pk, "decode")

\* PROTOCOL_ERROR before the payload is looked at: the client is closed.
RecvBadSubscribe(v) == Arrives("sub", v, <<>>, "close")

\* Mutant: the node of an unusable topic keeps the default code.
MutDefaultCode ==
    /\ Decoding("sub")
    /\ packet[tn].topic \notin Topics
    /\ Append1([topic |-> NoTopic, opt |-> "never", code |-> "granted"])
    /\ UNCHANGED <<subs, input, search, reply>>

\* decode_sub_msg: a topic that is empty or not UTF-8 gets an error code, its
\* options are not looked at.
DecodeBadTopic ==
    /\ Decoding("sub")
    /\ packet[tn].topic \notin Topics
    /\ Append1([topic |-> NoTopic, opt |-> "never", code |-> "error"])
    /\ UNCHANGED <<subs, input, search, reply>>

\* Mutant: a topic is subscribed to as soon as it is decoded.
MutSubscribesEarly ==
    /\ Decoding("sub")
    /\ packet[tn].topic \in Topics /\ ~Refused(packet[tn])
    /\ Append1([topic |-> packet[tn].topic, opt |-> packet[tn].opt, code |-> "granted"])
    /\ subs' = subs \cup {packet[tn].topic}
    /\ UNCHANGED <<input, search, reply>>

\* decode_sub_msg: a topic, granted QoS 2 whatever was asked for.
DecodeTopic ==
    /\ Decoding("sub")
    /\ packet[tn].topic \in Topics /\ ~Refused(packet[tn])
    /\ Append1([topic |-> packet[tn].topic, opt |-> packet[tn].opt, code |-> "granted"])
    /\ UNCHANGED <<subs, input, search, reply>>

\* decode_sub_msg returns PROTOCOL_ERROR in the middle of the list: the nodes
\* are freed, the client is closed.
RefuseOptions ==
    /\ Decoding("sub")
    /\ packet[tn].topic \in Topics /\ Refused(packet[tn])
    /\ at' = "close"
    /\ sub_pkt_free
    /\ UNCHANGED <<subs, input, tn, search, reply>>

\* sub_ctx_handle: a node without a topic.
SkipNode ==
    /\ Handling("sub")
    /\ nodes[tn].topic = NoTopic
    /\ tn' = tn + 1
    /\ UNCHANGED <<subs, at, input, nodes, search, reply>>

\* Mutant: retain handling 1 sends the messages to every subscriber.
MutLooksUpAgain ==
    /\ Handling("sub")
    /\ nodes[tn].topic \in Topics
    /\ nodes[tn].opt # "never"
    /\ subs' = subs \cup {nodes[tn].topic}
    /\ IF nodes[tn].topic \in Retained
         THEN r' = "freed" /\ found' = nodes[tn].topic /\ ret' = Append(ret, nodes[tn].topic)
         ELSE r' = "null" /\ UNCHANGED <<found, ret>>
    /\ tn' = tn + 1
    /\ UNCHANGED <<at, input, nodes, stale, reply>>

\* sub_ctx_handle: the topic is inserted if it is new, the retained messages
\* it matches are collected, the vector they came in is freed.
HandleTopic ==
    /\ Handling("sub")
    /\ nodes[tn].topic \in Topics
    /\ LooksUp(nodes[tn].opt, nodes[tn].topic \in subs)
    /\ subs' = subs \cup {nodes[tn].topic}
    /\ IF nodes[tn].topic \in Retained
         THEN r' = "freed" /\ found' = nodes[tn].topic /\ ret' = Append(ret, nodes[tn].topic)
         ELSE r' = "null" /\ UNCHANGED <<found, ret>>
    /\ tn' = tn + 1
    /\ UNCHANGED <<at, input, nodes, stale, reply>>

\* The same when the retained messages are not asked for: r is what the
\* previous topics left in it.
HandleTopicNoLookup ==
    /\ Handling("sub")
    /\ nodes[tn].topic \in Topics
    /\ ~LooksUp(nodes[tn].opt, nodes[tn].topic \in subs)
    /\ r = "null"
    /\ subs' = subs \cup {nodes[tn].topic}
    /\ tn' = tn + 1
    /\ UNCHANGED <<at, input, nodes, search, reply>>

\* Mutant: r is set to NULL for every topic.
MutResetsR(crashes) ==
    /\ Handling("sub")
    /\ nodes[tn].topic \in Topics
    /\ ~LooksUp(nodes[tn].opt, nodes[tn].topic \in subs)
    /\ r = "freed"
    /\ subs' = subs \cup {nodes[tn].topic}
    /\ tn' = tn + 1
    /\ UNCHANGED <<at, input, nodes, search, reply>>

\* The previous topics left a freed vector: it is read and freed again.  The
\* broker crashes, or the memory still holds the messages and they are
\* collected a second time.
ReadFreed(crashes) ==
    /\ Handling("sub")
    /\ nodes[tn].topic \in Topics
    /\ ~LooksUp(nodes[tn].opt, nodes[tn].topic \in subs)
    /\ r = "freed"
    /\ stale' = TRUE
    /\ IF crashes THEN at' = "crash" /\ UNCHANGED <<subs, tn, ret>>
       ELSE /\ subs' = subs \cup {nodes[tn].topic}
            /\ ret' = Append(ret, found)
            /\ tn' = tn + 1
            /\ UNCHANGED at
    /\ UNCHANGED <<input, nodes, r, found, reply>>

\* encode_suback_msg, then the messages of msg_ret and the SUBACK are sent.
SendSuback ==
    /\ Handled("sub")
    /\ reply' = [i \in DOMAIN nodes |-> nodes[i].code]
    /\ sub_pkt_free
    /\ at' = "sent"
    /\ UNCHANGED <<subs, input, tn, search>>

-----------------------------------------------------------------------------
(* UNSUBSCRIBE *)

RecvUnsubscribe(v, pk) == Arrives("unsub", v, pk, "decode")

\* decode_unsub_msg does not accept the properties, which only a client of
\* version 5 sends, and leaves unsub_pkt->node as it was allocated.
\* encode_unsuback_msg follows that pointer: the broker crashes, or it is
\* NULL, and the reply has no codes (and the packet is not freed).
RecvBadUnsubscribe(crashes) ==
    Arrives("unsub", TRUE, <<>>, IF crashes THEN "crash" ELSE "sent")

\* decode_unsub_msg: a topic that may be empty.  Nobody writes the code.
DecodeUnsubTopic ==
    /\ Decoding("unsub")
    /\ packet[tn] # NotUtf8
    /\ Append1([topic |-> packet[tn], opt |-> "never", code |-> "Unset"])
    /\ UNCHANGED <<subs, input, search, reply>>

\* Mutant: an undecodable topic ends the list, what precedes it is handled.
MutHandlesRest ==
    /\ Decoding("unsub")
    /\ packet[tn] = NotUtf8
    /\ nodes' = Append(nodes, [topic |-> NoTopic, opt |-> "never", code |-> "error"])
    /\ tn' = 1 /\ at' = "handle"
    /\ UNCHANGED <<subs, input, search, reply>>

\* decode_unsub_msg returns PROTOCOL_ERROR, unsub_ctx_handle is not called,
\* and the reply is written all the same.
DecodeNotUtf8 ==
    /\ Decoding("unsub")
    /\ packet[tn] = NotUtf8
    /\ nodes' = Append(nodes, [topic |-> NoTopic, opt |-> "never", code |-> "error"])
    /\ tn' = Len(nodes) + 2 /\ at' = "handle"
    /\ UNCHANGED <<subs, input, search, reply>>

\* Mutant: the loop moves on twice.
MutSkipsTwice ==
    /\ Handling("unsub")
    /\ nodes[tn].topic = NoTopic
    /\ tn' = tn + 2
    /\ UNCHANGED <<subs, at, input, nodes, search, reply>>

\* unsub_ctx_handle: an empty topic.
SkipUnsubNode ==
    /\ Handling("unsub")
    /\ nodes[tn].topic = NoTopic
    /\ tn' = tn + 1
    /\ UNCHANGED <<subs, at, input, nodes, search, reply>>

\* unsub_ctx_handle: sub_ctx_del always returns 0.
HandleUnsubTopic ==
    /\ Handling("unsub")
    /\ nodes[tn].topic \in Topics
    /\ subs' = subs \ {nodes[tn].topic}
    /\ nodes' = [nodes EXCEPT ![tn].code = "success"]
    /\ tn' = tn + 1
    /\ UNCHANGED <<at, input, search, reply>>

\* encode_unsuback_msg: only version 5 has reason codes.
SendUnsuback ==
    /\ Handled("unsub")
    /\ reply' = IF v5 THEN [i \in DOMAIN nodes |-> nodes[i].code] ELSE <<>>
    /\ unsub_pkt_free
    /\ at' = "sent"
    /\ UNCHANGED <<subs, input, tn, search>>

-----------------------------------------------------------------------------
(* The specification *)

\* The item receives again.  A client that was closed has lost its
\* subscriptions when its pipe id comes back.
Resume ==
    /\ at \in {"sent", "close"}
    /\ at' = "idle"
    /\ subs' = IF at = "close" THEN {} ELSE subs
    /\ packet' = <<>> /\ before' = {} /\ kind' = "none" /\ v5' = FALSE
    /\ nodes' = <<>> /\ tn' = 1
    /\ r' = "null" /\ found' = NoTopic /\ ret' = <<>> /\ stale' = FALSE
    /\ reply' = <<>>

Init ==
    /\ subs = {} /\ before = {}
    /\ at = "idle" /\ kind = "none" /\ v5 = FALSE
    /\ packet = <<>> /\ nodes = <<>> /\ tn = 1
    /\ r = "null" /\ found = NoTopic /\ ret = <<>> /\ stale = FALSE
    /\ reply = <<>>

Receive ==
    \/ \E v \in BOOLEAN, pk \in SubPackets : RecvSubscribe(v, pk)
    \/ \E v \in BOOLEAN : RecvBadSubscribe(v)
    \/ \E v \in BOOLEAN, pk \in UnsubPackets : RecvUnsubscribe(v, pk)
    \/ \E c \in BOOLEAN : RecvBadUnsubscribe(c)

Subscribe ==
    \/ DecodeBadTopic \/ DecodeTopic \/ RefuseOptions
    \/ SkipNode \/ HandleTopic \/ HandleTopicNoLookup
    \/ \E c \in BOOLEAN : ReadFreed(c)
    \/ SendSuback

Unsubscribe ==
    \/ DecodeUnsubTopic \/ DecodeNotUtf8
    \/ SkipUnsubNode \/ HandleUnsubTopic
    \/ SendUnsuback

Next == Receive \/ Subscribe \/ Unsubscribe \/ Resume

Spec == Init /\ [][Next]_vars

-----------------------------------------------------------------------------
(* Properties *)

Nodes == [topic : Topics \cup {NoTopic}, opt : Options, code : Codes]

\* Type invariant: the loops end at the end of the list.
TypeOK ==
    /\ subs \subseteq Topics /\ before \subseteq Topics
    /\ at \in {"idle", "decode", "handle", "sent", "close", "crash"}
    /\ kind \in {"none", "sub", "unsub"} /\ v5 \in BOOLEAN /\ stale \in BOOLEAN
    /\ packet \in SubPackets \cup UnsubPackets \cup {<<>>}
    /\ nodes \in Seq(Nodes) /\ tn \in 1..(Len(packet) + 1)
    /\ r \in {"null", "freed"} /\ found \in Topics \cup {NoTopic}
    /\ ret \in Seq(Topics) /\ reply \in Seq(Codes)

Acked(k) == at = "sent" /\ kind = k

\* A SUBACK has one reason code per topic of the packet, in its order, and a
\* code grants the subscription exactly to the topics the client is now
\* subscribed to because of the packet.
SubackTellsTruth ==
    Acked("sub") =>
        /\ Len(reply) = Len(packet)
        /\ \A i \in DOMAIN packet : reply[i] = "granted" <=> packet[i].topic \in subs
        /\ subs = before \cup {packet[i].topic : i \in {j \in DOMAIN packet : reply[j] = "granted"}}

\* A packet one of whose topics is refused subscribes to none of them, those
\* that precede it included: nothing is left to undo when the client is closed.
RefusedChangesNothing == at = "close" => subs = before /\ ret = <<>>

\* What the retain handling of the topics of a packet asks for: the i-th topic
\* is looked up among the retained messages.
Asks(i) ==
    /\ packet[i].topic \in Topics
    /\ \/ packet[i].opt \in {"always", "noLocal"}
       \/ /\ packet[i].opt = "new"
          /\ packet[i].topic \notin before
          /\ \A j \in 1..(i - 1) : packet[j].topic # packet[i].topic

\* It is, and messages are found.
Hit(i) == Asks(i) /\ packet[i].topic \in Retained

\* The topics from the i-th on that neither are looked up nor skipped read
\* the vector found by the i-th.
Exposes(i, j) ==
    /\ Hit(i)
    /\ packet[j].topic \in Topics
    /\ \A k \in (i + 1)..j : ~Asks(k)

\* The messages collected are those of the hits among the first n topics, in
\* their order and once per topic: the k-th entry of ret is of topic f[k].
Collects(n) ==
    \E f \in [1..Len(ret) -> 1..n] :
        /\ \A j, k \in 1..Len(ret) : j < k => f[j] < f[k]
        /\ {f[k] : k \in 1..Len(ret)} = {i \in 1..n : Hit(i)}
        /\ \A k \in 1..Len(ret) : ret[k] = packet[f[k]].topic

\* The client gets the retained messages of the topics it asks for, in their
\* order and once per topic, unless a freed vector was read.
RetainedAsAsked == Acked("sub") /\ ~stale => Collects(Len(packet))

\* A freed vector is read exactly for the packets in which a topic that does
\* not ask for retained messages follows one for which some were found, with
\* no further lookup in between: no other packet meets that memory.
FreedReadExactly ==
    /\ Acked("sub") => (stale <=> \E i, j \in DOMAIN packet : i < j /\ Exposes(i, j))
    /\ at = "crash" /\ kind = "sub" => \E i, j \in DOMAIN packet : i < j /\ Exposes(i, j)

Decodes == \A i \in DOMAIN packet : packet[i] # NotUtf8

\* An UNSUBSCRIBE is carried out for all its topics or, if one of them is not
\* UTF-8, for none of them, and acknowledged in both cases.  The reason code is
\* success for every topic of a packet that is carried out, whether or not the
\* client was subscribed to it (sub_ctx_del does not say), and for no other,
\* and it is one that nobody has written exactly for empty topics and for the
\* topics that precede one that is not UTF-8.
UnsubackTellsTruth ==
    Acked("unsub") =>
        /\ subs = IF Decodes THEN before \ {packet[i] : i \in DOMAIN packet} ELSE before
        /\ v5 /\ Decodes => Len(reply) = Len(packet)
        /\ \A i \in DOMAIN reply :
              /\ reply[i] = "success" <=> Decodes /\ packet[i] \in Topics
              /\ reply[i] = "Unset" <=>
                     /\ packet[i] # NotUtf8
                     /\ packet[i] = NoTopic \/ \E j \in DOMAIN packet : i < j /\ packet[j] = NotUtf8

\* What the comments of unsub_ctx_handle say of the two codes it writes ("find
\* the topic" for 0x00, "not find the topic" for 0x11): success means that the
\* client had a subscription to the topic, which the code ended.
SuccessMeansFound ==
    Acked("unsub") =>
        \A i \in DOMAIN reply : reply[i] = "success" => packet[i] \in before
=============================================================================
