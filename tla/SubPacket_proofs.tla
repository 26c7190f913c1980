-------------------------- MODULE SubPacket_proofs --------------------------
(***************************************************************************)
(* Proofs about SubPacket, for packets of any length and any topics.       *)
(***************************************************************************)
EXTENDS SubPacket, TLAPS, SequenceTheorems

-----------------------------------------------------------------------------
(* The inductive invariant *)

UnsubTopics == Topics \cup {NoTopic, NotUtf8}

\* While a packet is decoded nothing has been done; r is a vector only for a
\* topic that was found.
PacketInv ==
    /\ kind = "sub" => packet \in Seq(Entries)
    /\ kind = "unsub" => packet \in Seq(UnsubTopics)
    /\ at \in {"decode", "handle"} => kind \in {"sub", "unsub"} /\ Len(nodes) <= Len(packet)
    /\ at = "decode" => /\ tn <= Len(packet) /\ Len(nodes) = tn - 1
                        /\ subs = before /\ ret = <<>> /\ r = "null" /\ ~stale
    /\ r = "freed" => found \in Topics

\* The node a topic of a SUBSCRIBE is decoded into.
SubNode(e) ==
    IF e.topic \in Topics THEN [topic |-> e.topic, opt |-> e.opt, code |-> "granted"]
                          ELSE [topic |-> NoTopic, opt |-> "never", code |-> "error"]

\* The list has a node per topic, in the order of the packet.
SubList ==
    kind = "sub" =>
        /\ at \in {"decode", "handle"} => \A i \in 1..Len(nodes) : nodes[i] = SubNode(packet[i])
        /\ at = "handle" => Len(nodes) = Len(packet)

\* The client has the topics before tn.
Subscribed(n) == before \cup {x \in Topics : \E i \in 1..n : packet[i].topic = x}

\* The loop of sub_ctx_handle after n topics: r is what the last lookup has
\* left.
Loop(n) ==
    /\ subs = Subscribed(n)
    /\ r = "freed" <=> \E i \in 1..n : Hit(i) /\ \A k \in (i + 1)..n : ~Asks(k)
    /\ stale <=> \E i, j \in 1..n : i < j /\ Exposes(i, j)
    /\ ~stale => Collects(n)

SubLoop == kind = "sub" /\ at = "handle" => Loop(tn - 1)

\* The loop of unsub_ctx_handle, which is not entered for a packet with a topic
\* that is not UTF-8: that topic is the last node.
UnsubNode(x, c) == [topic |-> x, opt |-> "never", code |-> c]

UnsubLoop ==
    kind = "unsub" =>
        /\ at = "decode" =>
              \A i \in 1..Len(nodes) : packet[i] # NotUtf8 /\ nodes[i] = UnsubNode(packet[i], "Unset")
        /\ at = "handle" /\ Decodes =>
              /\ Len(nodes) = Len(packet) /\ subs = before \ {packet[i] : i \in 1..(tn - 1)}
              /\ \A i \in 1..Len(nodes) :
                    nodes[i] = UnsubNode(packet[i], IF i < tn /\ packet[i] \in Topics THEN "success" ELSE "Unset")
        /\ at = "handle" /\ ~Decodes =>
              /\ Len(nodes) > 0 /\ tn = Len(nodes) + 1 /\ subs = before
              /\ packet[Len(nodes)] = NotUtf8 /\ nodes[Len(nodes)].code = "error"
              /\ \A i \in 1..(Len(nodes) - 1) : packet[i] # NotUtf8 /\ nodes[i].code = "Unset"

Truth == SubackTellsTruth /\ RefusedChangesNothing /\ RetainedAsAsked /\ FreedReadExactly /\ UnsubackTellsTruth

Inv == TypeOK /\ PacketInv /\ SubList /\ SubLoop /\ UnsubLoop /\ Truth

-----------------------------------------------------------------------------
(* Facts about packets and lists *)

LEMMA Lengths ==
  ASSUME TypeOK
  PROVE  /\ Len(packet) \in Nat /\ Len(nodes) \in Nat /\ tn \in Nat \ {0} /\ tn <= Len(packet) + 1
         /\ Len(ret) \in Nat /\ DOMAIN packet = 1..Len(packet) /\ DOMAIN nodes = 1..Len(nodes)
<1>1. packet \in Seq(Entries) \cup Seq(UnsubTopics)
  BY SubPacketAssumption, EmptySeq DEF TypeOK, UnsubTopics
<1>2. Len(packet) \in Nat /\ DOMAIN packet = 1..Len(packet)
  BY <1>1, LenProperties
<1> QED
  BY <1>2, LenProperties DEF TypeOK

\* What is said of the reply, of a closed client and of a crash does not
\* concern a packet that is being handled.
LEMMA NothingToTell ==
  ASSUME at' \in {"idle", "decode", "handle"}
  PROVE  Truth'
  BY DEF Truth, SubackTellsTruth, RefusedChangesNothing, RetainedAsAsked, FreedReadExactly, UnsubackTellsTruth, Acked

LEMMA Empties ==
  <<>> \in Seq(Nodes) /\ <<>> \in Seq(Topics) /\ <<>> \in Seq(Codes) /\ Len(<<>>) = 0
  BY EmptySeq

LEMMA InvInit == Init => Inv
<1> SUFFICES ASSUME Init PROVE Inv
  OBVIOUS
<1> USE DEF Init
<1>1. TypeOK
  <2>1. v5 \in BOOLEAN /\ stale \in BOOLEAN
    OBVIOUS
  <2> QED
    BY <2>1, Empties DEF TypeOK
<1>2. PacketInv /\ SubList /\ SubLoop /\ UnsubLoop
  BY DEF PacketInv, SubList, SubLoop, UnsubLoop
<1>3. Truth
  BY DEF Truth, SubackTellsTruth, RefusedChangesNothing, RetainedAsAsked, FreedReadExactly, UnsubackTellsTruth, Acked
<1> QED
  BY <1>1, <1>2, <1>3 DEF Inv

LEMMA InvReceive ==
  ASSUME Inv, Receive
  PROVE  Inv'
<1>a. TypeOK
  BY DEF Inv
<1>1. ASSUME NEW k \in {"sub", "unsub"}, NEW v \in BOOLEAN, NEW pk \in SubPackets \cup UnsubPackets,
             k = "sub" => pk \in SubPackets, k = "unsub" => pk \in UnsubPackets, Arrives(k, v, pk, "decode")
      PROVE  Inv'
  <2>1. /\ pk \in Seq(Entries) \cup Seq(UnsubTopics) /\ pk # <<>>
        /\ k = "sub" => pk \in Seq(Entries)
        /\ k = "unsub" => pk \in Seq(UnsubTopics)
    BY <1>1, SubPacketAssumption DEF UnsubTopics
  <2>2. Len(pk) \in Nat \ {0}
    BY <2>1, EmptySeq
  <2>3. TypeOK'
    <3>1. v5' \in BOOLEAN /\ stale' \in BOOLEAN
      BY <1>1 DEF Arrives
    <3> QED
      BY <1>1, <1>a, <2>2, <3>1, Empties DEF Arrives, TypeOK
  <2>4. Len(nodes') = 0
    BY <1>1, EmptySeq DEF Arrives
  <2>5. PacketInv'
    BY <1>1, <2>1, <2>2, <2>4 DEF Arrives, PacketInv
  <2>6. SubList' /\ SubLoop' /\ UnsubLoop'
    BY <1>1, <2>4 DEF Arrives, SubList, SubLoop, UnsubLoop
  <2>7. Truth'
    BY <1>1, NothingToTell DEF Arrives
  <2> QED
    BY <2>3, <2>5, <2>6, <2>7 DEF Inv
<1>2. ASSUME NEW k \in {"sub", "unsub"}, NEW v \in BOOLEAN, NEW a \in {"close", "crash", "sent"},
             Arrives(k, v, <<>>, a), k = "sub" <=> a = "close"
      PROVE  Inv'
  <2>1. TypeOK'
    <3>1. v5' \in BOOLEAN /\ stale' \in BOOLEAN
      BY <1>2 DEF Arrives
    <3> QED
      BY <1>2, <1>a, <3>1, Empties DEF Arrives, TypeOK
  <2>2. PacketInv'
    BY <1>2, EmptySeq DEF Arrives, PacketInv
  <2>3. SubList' /\ SubLoop' /\ UnsubLoop'
    BY <1>2 DEF Arrives, SubList, SubLoop, UnsubLoop
  <2>4. Truth'
    <3>1. /\ packet' = <<>> /\ reply' = <<>> /\ ret' = <<>> /\ subs' = before'
          /\ kind' = k /\ at' = a
      BY <1>2 DEF Arrives
    <3>2. DOMAIN packet' = {} /\ DOMAIN reply' = {}
      BY <3>1
    <3>3. UnsubackTellsTruth'
      BY <3>1, <3>2 DEF UnsubackTellsTruth, Decodes
    <3> QED
      BY <1>2, <3>1, <3>3
      DEF Truth, SubackTellsTruth, RefusedChangesNothing, RetainedAsAsked, FreedReadExactly, Acked
  <2> QED
    BY <2>1, <2>2, <2>3, <2>4 DEF Inv
<1> QED
  BY <1>1, <1>2 DEF Receive, RecvSubscribe, RecvBadSubscribe, RecvUnsubscribe, RecvBadUnsubscribe

LEMMA InvResume ==
  ASSUME Inv, Resume
  PROVE  Inv'
<1>1. TypeOK'
  <2>1. v5' \in BOOLEAN /\ stale' \in BOOLEAN
    BY DEF Resume
  <2> QED
    BY <2>1, Empties DEF Inv, Resume, TypeOK
<1>2. PacketInv' /\ SubList' /\ SubLoop' /\ UnsubLoop'
  BY DEF Resume, PacketInv, SubList, SubLoop, UnsubLoop
<1>3. Truth'
  BY NothingToTell DEF Resume
<1> QED
  BY <1>1, <1>2, <1>3 DEF Inv

-----------------------------------------------------------------------------
(* Decoding *)

\* A node is added to the list.
LEMMA ListGrows ==
  ASSUME TypeOK, PacketInv, at = "decode", NEW node \in Nodes, Append1(node),
         UNCHANGED <<subs, input, search, reply>>
  PROVE  /\ TypeOK' /\ PacketInv'
         /\ Len(nodes') = tn /\ nodes'[tn] = node /\ tn \in 1..Len(packet)
         /\ \A i \in 1..Len(nodes) : nodes'[i] = nodes[i]
         /\ Len(nodes) = tn - 1 /\ Len(packet) \in Nat
         /\ \/ at' = "decode" /\ tn < Len(packet)
            \/ at' = "handle" /\ tn = Len(packet) /\ tn' = 1
<1>1. /\ Len(packet) \in Nat /\ Len(nodes) \in Nat /\ tn \in Nat \ {0} /\ tn <= Len(packet)
      /\ Len(nodes) = tn - 1
  BY Lengths DEF PacketInv
<1>2. /\ nodes' \in Seq(Nodes) /\ Len(nodes') = Len(nodes) + 1 /\ nodes'[Len(nodes) + 1] = node
      /\ \A i \in 1..Len(nodes) : nodes'[i] = nodes[i]
  BY AppendProperties DEF Append1, TypeOK
<1>3. \/ at' = "decode" /\ tn < Len(packet) /\ tn' = tn + 1
      \/ at' = "handle" /\ tn = Len(packet) /\ tn' = 1
  BY <1>1 DEF Append1
<1>4. tn' \in 1..(Len(packet) + 1)
  BY <1>1, <1>3
<1>5. TypeOK'
  BY <1>2, <1>3, <1>4 DEF TypeOK, input, search
<1>6. PacketInv'
  BY <1>1, <1>2, <1>3 DEF PacketInv, input, search
<1> QED
  BY <1>1, <1>2, <1>3, <1>5, <1>6

LEMMA InputSame ==
  ASSUME UNCHANGED input
  PROVE  /\ \A i : (Asks(i)' <=> Asks(i)) /\ (Hit(i)' <=> Hit(i))
         /\ \A i, j : Exposes(i, j)' <=> Exposes(i, j)
         /\ Decodes' <=> Decodes
  BY DEF input, Asks, Hit, Exposes, Decodes

\* The loop begins with nothing done.
LEMMA LoopBegins ==
  ASSUME TypeOK, PacketInv, at = "decode", UNCHANGED <<subs, input, search>>
  PROVE  Loop(0)'
<1>1. subs' = before' /\ r' = "null" /\ ~stale' /\ ret' = <<>>
  BY DEF PacketInv, input, search
<1>2. Subscribed(0)' = before'
  BY DEF Subscribed
<1>3. Collects(0)'
  <2>1. 1..Len(ret') = {} /\ 1..0 = {}
    BY <1>1, Empties
  <2>2. [k \in {} |-> 0] \in [{} -> {}]
    OBVIOUS
  <2> QED
    BY <2>1, <2>2 DEF Collects
<1> QED
  BY <1>1, <1>2, <1>3 DEF Loop

LEMMA InvDecodeSub ==
  ASSUME Inv, DecodeBadTopic \/ DecodeTopic
  PROVE  Inv'
<1>a. TypeOK /\ PacketInv /\ SubList /\ at = "decode" /\ kind = "sub" /\ kind' = "sub"
  BY DEF Inv, DecodeBadTopic, DecodeTopic, Decoding, input
<1>b. UNCHANGED <<subs, input, search, reply>>
  BY DEF DecodeBadTopic, DecodeTopic
<1>1. packet[tn] \in Entries
  <2>1. packet \in Seq(Entries) /\ tn \in 1..Len(packet)
    BY <1>a, Lengths DEF PacketInv
  <2> QED
    BY <2>1, ElementOfSeq
<1>2. SubNode(packet[tn]) \in Nodes /\ Append1(SubNode(packet[tn]))
  BY <1>1 DEF DecodeBadTopic, DecodeTopic, SubNode, Nodes, Entries, Options, Codes
<1>3. /\ TypeOK' /\ PacketInv'
      /\ Len(nodes') = tn /\ nodes'[tn] = SubNode(packet[tn]) /\ tn \in 1..Len(packet)
      /\ \A i \in 1..Len(nodes) : nodes'[i] = nodes[i]
      /\ Len(nodes) = tn - 1 /\ Len(packet) \in Nat
      /\ \/ at' = "decode" /\ tn < Len(packet)
         \/ at' = "handle" /\ tn = Len(packet) /\ tn' = 1
  BY <1>a, <1>b, <1>2, ListGrows
<1>4. SubList'
  <2>1. packet' = packet
    BY <1>b DEF input
  <2>2. ASSUME NEW i \in 1..Len(nodes') PROVE nodes'[i] = SubNode(packet[i])
    <3>1. i \in 1..Len(nodes) \/ i = tn
      BY <1>3
    <3> QED
      BY <1>a, <1>3, <3>1 DEF SubList
  <2> QED
    BY <1>3, <2>1, <2>2 DEF SubList, SubNode
<1>5. SubLoop'
  <2>1. at' = "handle" => tn' - 1 = 0
    BY <1>3
  <2>2. Loop(0)'
    BY <1>a, <1>b, LoopBegins
  <2> QED
    BY <2>1, <2>2 DEF SubLoop
<1>6. UnsubLoop' /\ Truth'
  BY <1>a, <1>3, NothingToTell DEF UnsubLoop
<1> QED
  BY <1>3, <1>4, <1>5, <1>6 DEF Inv

LEMMA InvRefuse ==
  ASSUME Inv, RefuseOptions
  PROVE  Inv'
<1>1. /\ TypeOK /\ PacketInv /\ at = "decode" /\ at' = "close" /\ nodes' = <<>>
      /\ UNCHANGED <<subs, input, tn, search, reply>>
  BY DEF Inv, RefuseOptions, Decoding, sub_pkt_free
<1>2. TypeOK' /\ PacketInv'
  BY <1>1, Empties DEF TypeOK, PacketInv, input, search
<1>3. SubList' /\ SubLoop' /\ UnsubLoop'
  BY <1>1 DEF SubList, SubLoop, UnsubLoop
<1>4. Truth'
  BY <1>1 DEF Truth, SubackTellsTruth, RefusedChangesNothing, RetainedAsAsked, FreedReadExactly,
              UnsubackTellsTruth, Acked, PacketInv, input, search
<1> QED
  BY <1>2, <1>3, <1>4 DEF Inv

LEMMA InvDecodeUnsub ==
  ASSUME Inv, DecodeUnsubTopic
  PROVE  Inv'
<1>a. TypeOK /\ PacketInv /\ UnsubLoop /\ at = "decode" /\ kind = "unsub" /\ kind' = "unsub"
  BY DEF Inv, DecodeUnsubTopic, Decoding, input
<1>b. UNCHANGED <<subs, input, search, reply>>
  BY DEF DecodeUnsubTopic
<1>1. packet[tn] \in Topics \cup {NoTopic} /\ packet[tn] # NotUtf8
  <2>1. packet \in Seq(UnsubTopics) /\ tn \in 1..Len(packet)
    BY <1>a, Lengths DEF PacketInv
  <2>2. packet[tn] \in UnsubTopics
    BY <2>1, ElementOfSeq
  <2> QED
    BY <2>2 DEF DecodeUnsubTopic, UnsubTopics
<1>2. UnsubNode(packet[tn], "Unset") \in Nodes /\ Append1(UnsubNode(packet[tn], "Unset"))
  BY <1>1 DEF DecodeUnsubTopic, UnsubNode, Nodes, Options, Codes
<1>3. /\ TypeOK' /\ PacketInv'
      /\ Len(nodes') = tn /\ nodes'[tn] = UnsubNode(packet[tn], "Unset") /\ tn \in 1..Len(packet)
      /\ \A i \in 1..Len(nodes) : nodes'[i] = nodes[i]
      /\ Len(nodes) = tn - 1 /\ Len(packet) \in Nat
      /\ \/ at' = "decode" /\ tn < Len(packet)
         \/ at' = "handle" /\ tn = Len(packet) /\ tn' = 1
  BY <1>a, <1>b, <1>2, ListGrows
<1>4. ASSUME NEW i \in 1..Len(nodes') PROVE packet[i] # NotUtf8 /\ nodes'[i] = UnsubNode(packet[i], "Unset")
  <2>1. i \in 1..Len(nodes) \/ i = tn
    BY <1>3
  <2> QED
    BY <1>a, <1>1, <1>3, <2>1 DEF UnsubLoop
<1>5. packet' = packet /\ subs' = before' /\ DOMAIN packet = 1..Len(packet)
  BY <1>a, <1>b, Lengths DEF PacketInv, input
<1>6. at' = "handle" => Decodes'
  BY <1>3, <1>4, <1>5 DEF Decodes
<1>7. ASSUME at' = "handle"
      PROVE  /\ Len(nodes') = Len(packet) /\ subs' = before' \ {packet[i] : i \in 1..(tn' - 1)}
             /\ \A i \in 1..Len(nodes') :
                    nodes'[i] = UnsubNode(packet[i], IF i < tn' /\ packet[i] \in Topics THEN "success" ELSE "Unset")
  <2>1. 1..(tn' - 1) = {}
    BY <1>3, <1>7
  <2> QED
    BY <1>3, <1>4, <1>5, <1>7, <2>1
<1>8. UnsubLoop'
  BY <1>3, <1>4, <1>5, <1>6, <1>7 DEF UnsubLoop, UnsubNode
<1>9. SubList' /\ SubLoop' /\ Truth'
  BY <1>a, <1>3, NothingToTell DEF SubList, SubLoop
<1> QED
  BY <1>3, <1>8, <1>9 DEF Inv

LEMMA InvNotUtf8 ==
  ASSUME Inv, DecodeNotUtf8
  PROVE  Inv'
<1>a. /\ TypeOK /\ PacketInv /\ UnsubLoop /\ at = "decode" /\ kind = "unsub" /\ kind' = "unsub"
      /\ at' = "handle" /\ packet[tn] = NotUtf8 /\ UNCHANGED <<subs, input, search, reply>>
      /\ packet' = packet /\ subs' = before'
  BY DEF Inv, DecodeNotUtf8, Decoding, input, PacketInv
<1>1. /\ Len(packet) \in Nat /\ Len(nodes) \in Nat /\ tn \in Nat \ {0} /\ tn <= Len(packet)
      /\ Len(nodes) = tn - 1 /\ DOMAIN packet = 1..Len(packet)
  BY <1>a, Lengths DEF PacketInv
<1>2. UnsubNode(NoTopic, "error") \in Nodes /\ nodes' = Append(nodes, UnsubNode(NoTopic, "error")) /\ tn' = tn + 1
  BY <1>1 DEF DecodeNotUtf8, UnsubNode, Nodes, Options, Codes
<1>3. /\ nodes' \in Seq(Nodes) /\ Len(nodes') = tn /\ nodes'[tn] = UnsubNode(NoTopic, "error")
      /\ \A i \in 1..Len(nodes) : nodes'[i] = nodes[i]
  BY <1>a, <1>1, <1>2, AppendProperties DEF TypeOK
<1>4. TypeOK'
  BY <1>a, <1>1, <1>2, <1>3 DEF TypeOK, input, search
<1>5. PacketInv'
  BY <1>a, <1>1, <1>3 DEF PacketInv, input, search
<1>6. ~Decodes'
  BY <1>a, <1>1 DEF Decodes
<1>7. ASSUME NEW i \in 1..(tn - 1) PROVE packet[i] # NotUtf8 /\ nodes'[i].code = "Unset"
  <2>1. packet[i] # NotUtf8 /\ nodes'[i] = UnsubNode(packet[i], "Unset")
    BY <1>a, <1>1, <1>3 DEF UnsubLoop
  <2>2. UnsubNode(packet[i], "Unset").code = "Unset"
    BY DEF UnsubNode
  <2> QED
    BY <2>1, <2>2
<1>8. nodes'[tn].code = "error"
  BY <1>3 DEF UnsubNode
<1>9. UnsubLoop'
  <2>1. /\ Len(nodes') > 0 /\ tn' = Len(nodes') + 1
        /\ packet'[Len(nodes')] = NotUtf8 /\ nodes'[Len(nodes')].code = "error"
    BY <1>a, <1>1, <1>2, <1>3, <1>8
  <2>2. \A i \in 1..(Len(nodes') - 1) : packet'[i] # NotUtf8 /\ nodes'[i].code = "Unset"
    BY <1>a, <1>3, <1>7
  <2> QED
    BY <1>a, <1>6, <2>1, <2>2 DEF UnsubLoop
<1>10. SubList' /\ SubLoop' /\ Truth'
  BY <1>a, NothingToTell DEF SubList, SubLoop
<1> QED
  BY <1>4, <1>5, <1>9, <1>10 DEF Inv

-----------------------------------------------------------------------------
(* sub_ctx_handle *)

\* What the loop knows of the topic it is at.
LEMMA AtTopic ==
  ASSUME Inv, Handling("sub")
  PROVE  /\ tn \in 1..Len(packet) /\ Len(packet) \in Nat /\ Len(nodes) = Len(packet)
         /\ packet[tn] \in Entries /\ nodes[tn] = SubNode(packet[tn])
         /\ nodes[tn].topic = NoTopic => packet[tn].topic \notin Topics
         /\ nodes[tn].topic \in Topics =>
                /\ nodes[tn].topic = packet[tn].topic
                /\ LooksUp(nodes[tn].opt, nodes[tn].topic \in subs) <=> Asks(tn)
         /\ Loop(tn - 1) /\ kind = "sub" /\ at = "handle"
<1>1. kind = "sub" /\ at = "handle" /\ tn <= Len(nodes) /\ Len(nodes) = Len(packet) /\ TypeOK
  BY DEF Handling, Inv, SubList
<1>2. tn \in 1..Len(packet) /\ Len(packet) \in Nat
  BY <1>1, Lengths
<1>3. packet[tn] \in Entries
  BY <1>1, <1>2, ElementOfSeq DEF Inv, PacketInv
<1>4. nodes[tn] = SubNode(packet[tn])
  BY <1>1, <1>2 DEF Inv, SubList
<1>5. nodes[tn].topic = NoTopic => packet[tn].topic \notin Topics
  BY <1>4, SubPacketAssumption DEF SubNode
<1>6. nodes[tn].topic \in Topics => /\ nodes[tn].topic = packet[tn].topic /\ packet[tn].topic \in Topics
                                    /\ nodes[tn].opt = packet[tn].opt
  BY <1>4, SubPacketAssumption DEF SubNode
<1>7. Loop(tn - 1)
  BY <1>1 DEF Inv, SubLoop
<1>8. packet[tn].topic \in Topics =>
          (packet[tn].topic \in subs <=>
               packet[tn].topic \in before \/ \E j \in 1..(tn - 1) : packet[j].topic = packet[tn].topic)
  BY <1>7 DEF Loop, Subscribed
<1>9. nodes[tn].topic \in Topics => (LooksUp(nodes[tn].opt, nodes[tn].topic \in subs) <=> Asks(tn))
  BY <1>6, <1>8 DEF LooksUp, Asks
<1> QED
  BY <1>1, <1>2, <1>3, <1>4, <1>5, <1>6, <1>7, <1>9

\* One topic more.
LEMMA SubscribedNext ==
  ASSUME NEW n \in Nat \ {0}
  PROVE  Subscribed(n) = Subscribed(n - 1) \cup (IF packet[n].topic \in Topics THEN {packet[n].topic} ELSE {})
<1>1. 1..n = 1..(n - 1) \cup {n}
  OBVIOUS
<1> QED
  BY <1>1 DEF Subscribed

LEMMA CollectsSame ==
  ASSUME NEW n \in Nat \ {0}, Collects(n - 1), ~Hit(n)
  PROVE  Collects(n)
<1>1. PICK f \in [1..Len(ret) -> 1..(n - 1)] :
          /\ \A j, k \in 1..Len(ret) : j < k => f[j] < f[k]
          /\ {f[k] : k \in 1..Len(ret)} = {i \in 1..(n - 1) : Hit(i)}
          /\ \A k \in 1..Len(ret) : ret[k] = packet[f[k]].topic
  BY DEF Collects
<1>2. f \in [1..Len(ret) -> 1..n]
  BY <1>1
<1>3. {i \in 1..(n - 1) : Hit(i)} = {i \in 1..n : Hit(i)}
  <2>1. 1..n = 1..(n - 1) \cup {n}
    OBVIOUS
  <2> QED
    BY <2>1
<1> QED
  BY <1>1, <1>2, <1>3 DEF Collects

LEMMA CollectsNext ==
  ASSUME TypeOK, UNCHANGED input, NEW n \in Nat \ {0}, Collects(n - 1), Hit(n), packet[n].topic \in Topics,
         ret' = Append(ret, packet[n].topic)
  PROVE  Collects(n)'
<1> DEFINE m == Len(ret)
<1>a. m \in Nat /\ packet' = packet
  BY Lengths DEF input
<1>b. /\ Len(ret') = m + 1 /\ ret'[m + 1] = packet[n].topic
      /\ \A k \in 1..m : ret'[k] = ret[k]
  BY AppendProperties DEF TypeOK
<1>1. PICK f \in [1..m -> 1..(n - 1)] :
          /\ \A j, k \in 1..m : j < k => f[j] < f[k]
          /\ {f[k] : k \in 1..m} = {i \in 1..(n - 1) : Hit(i)}
          /\ \A k \in 1..m : ret[k] = packet[f[k]].topic
  BY DEF Collects
<1> HIDE DEF m
<1> DEFINE g == [k \in 1..(m + 1) |-> IF k = m + 1 THEN n ELSE f[k]]
<1>2. \A k \in 1..(m + 1) : k = m + 1 \/ k \in 1..m
  BY <1>a
<1>3. \A k \in 1..m : k \in 1..(m + 1) /\ k # m + 1 /\ f[k] \in 1..(n - 1) /\ g[k] = f[k]
  BY <1>a, <1>1
<1>4. g[m + 1] = n /\ m + 1 \in 1..(m + 1)
  BY <1>a
<1>5. g \in [1..(m + 1) -> 1..n]
  BY <1>2, <1>3
<1> HIDE DEF g
<1>6. ASSUME NEW j \in 1..(m + 1), NEW k \in 1..(m + 1), j < k PROVE g[j] < g[k]
  <2>1. j \in 1..m
    BY <1>a, <1>6
  <2>2. CASE k = m + 1
    BY <1>3, <1>4, <2>1, <2>2
  <2>3. CASE k \in 1..m
    BY <1>1, <1>3, <1>6, <2>1, <2>3
  <2> QED
    BY <1>2, <2>2, <2>3
<1>7. {g[k] : k \in 1..(m + 1)} = {i \in 1..n : Hit(i)}
  <2>1. {g[k] : k \in 1..(m + 1)} = {f[k] : k \in 1..m} \cup {n}
    BY <1>2, <1>3, <1>4
  <2>2. 1..n = 1..(n - 1) \cup {n}
    OBVIOUS
  <2> QED
    BY <1>1, <2>1, <2>2
<1>8. ASSUME NEW k \in 1..(m + 1) PROVE ret'[k] = packet[g[k]].topic
  BY <1>b, <1>1, <1>2, <1>3, <1>4
<1>9. \A i : Hit(i)' <=> Hit(i)
  BY InputSame
<1>10. {g[k] : k \in 1..(m + 1)} = {i \in 1..n : Hit(i)'}
  BY <1>7, <1>9
<1>11. \E h \in [1..Len(ret') -> 1..n] :
           /\ \A j, k \in 1..Len(ret') : j < k => h[j] < h[k]
           /\ {h[k] : k \in 1..Len(ret')} = {i \in 1..n : Hit(i)'}
           /\ \A k \in 1..Len(ret') : ret'[k] = packet'[h[k]].topic
  BY <1>a, <1>b, <1>5, <1>6, <1>8, <1>10
<1> QED
  BY <1>11 DEF Collects

\* The conditions on r and stale, one topic further on.
LEMMA LookedUp ==
  ASSUME NEW n \in Nat \ {0}
  PROVE  /\ (\E i \in 1..n : Hit(i) /\ \A k \in (i + 1)..n : ~Asks(k)) <=>
                \/ Hit(n)
                \/ ~Asks(n) /\ \E i \in 1..(n - 1) : Hit(i) /\ \A k \in (i + 1)..(n - 1) : ~Asks(k)
         /\ (\E i, j \in 1..n : i < j /\ Exposes(i, j)) <=>
                \/ \E i, j \in 1..(n - 1) : i < j /\ Exposes(i, j)
                \/ /\ packet[n].topic \in Topics /\ ~Asks(n)
                   /\ \E i \in 1..(n - 1) : Hit(i) /\ \A k \in (i + 1)..(n - 1) : ~Asks(k)
<1>1. 1..n = 1..(n - 1) \cup {n} /\ n \notin 1..(n - 1)
  OBVIOUS
<1>2. \A i \in 1..(n - 1) : (i + 1)..n = (i + 1)..(n - 1) \cup {n}
  OBVIOUS
<1>3. (n + 1)..n = {}
  OBVIOUS
<1>4. (\E i \in 1..n : Hit(i) /\ \A k \in (i + 1)..n : ~Asks(k)) <=>
          \/ Hit(n)
          \/ ~Asks(n) /\ \E i \in 1..(n - 1) : Hit(i) /\ \A k \in (i + 1)..(n - 1) : ~Asks(k)
  BY <1>1, <1>2, <1>3
<1>5. \A i \in 1..(n - 1) : i < n
  OBVIOUS
<1>6. \A i \in 1..(n - 1) :
          Exposes(i, n) <=> /\ packet[n].topic \in Topics /\ ~Asks(n)
                            /\ Hit(i) /\ \A k \in (i + 1)..(n - 1) : ~Asks(k)
  BY <1>2 DEF Exposes
<1>7. (\E i, j \in 1..n : i < j /\ Exposes(i, j)) <=>
          \/ \E i, j \in 1..(n - 1) : i < j /\ Exposes(i, j)
          \/ \E i \in 1..(n - 1) : Exposes(i, n)
  <2>1. \A j \in 1..n : ~(n < j)
    OBVIOUS
  <2> QED
    BY <1>1, <1>5, <2>1
<1> QED
  BY <1>4, <1>6, <1>7

\* The conditions of a step of the loop carry over to Loop: what is left to
\* show of a step is how subs, r, stale and ret change.
LEMMA LoopGoesOn ==
  ASSUME UNCHANGED input, NEW n \in Nat \ {0}, Loop(n - 1),
         subs' = subs \cup (IF packet[n].topic \in Topics THEN {packet[n].topic} ELSE {}),
         r' = "freed" <=> Hit(n) \/ (~Asks(n) /\ r = "freed"),
         stale' <=> stale \/ (packet[n].topic \in Topics /\ ~Asks(n) /\ r = "freed"),
         ~stale' => Collects(n)'
  PROVE  Loop(n)'
<1>1. Subscribed(n)' = Subscribed(n)
  BY DEF Subscribed, input
<1>2. subs' = Subscribed(n)
  BY SubscribedNext DEF Loop
<1>3. r' = "freed" <=> \E i \in 1..n : Hit(i) /\ \A k \in (i + 1)..n : ~Asks(k)
  BY LookedUp DEF Loop
<1>4. stale' <=> \E i, j \in 1..n : i < j /\ Exposes(i, j)
  BY LookedUp DEF Loop
<1>5. r' = "freed" <=> \E i \in 1..n : Hit(i)' /\ \A k \in (i + 1)..n : ~Asks(k)'
  BY <1>3, InputSame
<1>6. stale' <=> \E i, j \in 1..n : i < j /\ Exposes(i, j)'
  BY <1>4, InputSame
<1> QED
  BY <1>1, <1>2, <1>5, <1>6 DEF Loop

\* The rest of the invariant, for a step of the loop to the next topic.
LEMMA SubAdvances ==
  ASSUME Inv, Handling("sub"), TypeOK', NEW n \in Nat \ {0}, n = tn, Loop(n)', tn' = tn + 1,
         UNCHANGED <<at, input, nodes>>, r' = "freed" => found' \in Topics
  PROVE  Inv'
<1>1. kind = "sub" /\ at = "handle" /\ kind' = "sub" /\ at' = "handle" /\ packet' = packet
  BY DEF Handling, input
<1>2. PacketInv'
  BY <1>1 DEF Inv, PacketInv, input
<1>3. SubList'
  BY <1>1 DEF Inv, SubList, SubNode
<1>4. SubLoop'
  <2>1. tn' - 1 = n
    OBVIOUS
  <2> QED
    BY <2>1 DEF SubLoop
<1>5. UnsubLoop' /\ Truth'
  BY <1>1, NothingToTell DEF UnsubLoop
<1> QED
  BY <1>2, <1>3, <1>4, <1>5 DEF Inv

LEMMA InvHandleSub ==
  ASSUME Inv, SkipNode \/ HandleTopic \/ HandleTopicNoLookup \/ ReadFreed(FALSE)
  PROVE  Inv'
<1>a. /\ Handling("sub") /\ tn' = tn + 1 /\ UNCHANGED <<at, input, nodes, reply>>
  BY DEF SkipNode, HandleTopic, HandleTopicNoLookup, ReadFreed
<1>b. /\ tn \in 1..Len(packet) /\ Len(packet) \in Nat
      /\ nodes[tn].topic = NoTopic => packet[tn].topic \notin Topics
      /\ nodes[tn].topic \in Topics => /\ nodes[tn].topic = packet[tn].topic
                                       /\ LooksUp(nodes[tn].opt, nodes[tn].topic \in subs) <=> Asks(tn)
      /\ Loop(tn - 1)
  BY <1>a, AtTopic
<1>c. TypeOK /\ PacketInv
  BY DEF Inv
<1>d. r \in {"null", "freed"} /\ found \in Topics \cup {NoTopic} /\ (r = "freed" => found \in Topics)
  BY <1>c DEF TypeOK, PacketInv
<1>1. PICK n \in Nat \ {0} : n = tn
  BY <1>b
<1>2. packet' = packet /\ tn' \in 1..(Len(packet) + 1)
  BY <1>a, <1>b DEF input
<1>s. ret' = ret => \A k : Collects(k)' <=> Collects(k)
  <2>1. \A i : Hit(i)' <=> Hit(i)
    BY <1>a, InputSame
  <2> QED
    BY <1>2, <2>1 DEF Collects
<1>3. CASE SkipNode
  <2>1. UNCHANGED <<subs, search>> /\ packet[n].topic \notin Topics /\ ~Asks(n) /\ ~Hit(n)
    BY <1>3, <1>1, <1>b DEF SkipNode, Asks, Hit
  <2>2. TypeOK'
    BY <1>a, <1>c, <1>2, <2>1 DEF TypeOK, input, search
  <2>3. ~stale' => Collects(n)'
    BY <1>1, <1>b, <1>s, <2>1, CollectsSame DEF Loop, search
  <2>4. Loop(n)'
    BY <1>1, <1>a, <1>b, <2>1, <2>3, LoopGoesOn DEF search
  <2>5. r' = "freed" => found' \in Topics
    BY <1>d, <2>1 DEF search
  <2> QED
    BY <1>1, <1>a, <2>2, <2>4, <2>5, SubAdvances
<1>4. CASE HandleTopic
  <2>1. /\ packet[n].topic \in Topics /\ Asks(n) /\ subs' = subs \cup {packet[n].topic} /\ stale' = stale
    BY <1>4, <1>1, <1>b DEF HandleTopic
  <2>2. CASE packet[n].topic \in Retained
    <3>1. Hit(n) /\ r' = "freed" /\ found' = packet[n].topic /\ ret' = Append(ret, packet[n].topic)
      BY <1>4, <1>1, <1>b, <2>1, <2>2 DEF HandleTopic, Hit
    <3>2. ret' \in Seq(Topics)
      BY <1>c, <2>1, <3>1, AppendProperties DEF TypeOK
    <3>3. TypeOK'
      BY <1>a, <1>c, <1>2, <2>1, <3>1, <3>2 DEF TypeOK, input
    <3>4. ~stale' => Collects(n)'
      BY <1>1, <1>a, <1>b, <1>c, <2>1, <3>1, CollectsNext DEF Loop
    <3>5. Loop(n)'
      BY <1>1, <1>a, <1>b, <2>1, <3>1, <3>4, LoopGoesOn
    <3> QED
      BY <1>1, <1>a, <2>1, <3>1, <3>3, <3>5, SubAdvances
  <2>3. CASE packet[n].topic \notin Retained
    <3>1. ~Hit(n) /\ r' = "null" /\ found' = found /\ ret' = ret
      BY <1>4, <1>1, <1>b, <2>1, <2>3 DEF HandleTopic, Hit
    <3>2. TypeOK'
      BY <1>a, <1>c, <1>2, <2>1, <3>1 DEF TypeOK, input
    <3>3. ~stale' => Collects(n)'
      BY <1>1, <1>b, <1>s, <2>1, <3>1, CollectsSame DEF Loop
    <3>4. Loop(n)'
      BY <1>1, <1>a, <1>b, <2>1, <3>1, <3>3, LoopGoesOn
    <3> QED
      BY <1>1, <1>a, <3>1, <3>2, <3>4, SubAdvances
  <2> QED
    BY <2>2, <2>3
<1>5. CASE HandleTopicNoLookup
  <2>1. /\ packet[n].topic \in Topics /\ ~Asks(n) /\ ~Hit(n) /\ subs' = subs \cup {packet[n].topic}
        /\ UNCHANGED search /\ r = "null"
    BY <1>5, <1>1, <1>b DEF HandleTopicNoLookup, Hit
  <2>2. TypeOK'
    BY <1>a, <1>c, <1>2, <2>1 DEF TypeOK, input, search
  <2>3. ~stale' => Collects(n)'
    BY <1>1, <1>b, <1>s, <2>1, CollectsSame DEF Loop, search
  <2>4. Loop(n)'
    BY <1>1, <1>a, <1>b, <2>1, <2>3, LoopGoesOn DEF search
  <2>5. r' = "freed" => found' \in Topics
    BY <2>1 DEF search
  <2> QED
    BY <1>1, <1>a, <2>2, <2>4, <2>5, SubAdvances
<1>6. CASE ReadFreed(FALSE)
  <2>1. /\ packet[n].topic \in Topics /\ ~Asks(n) /\ ~Hit(n) /\ subs' = subs \cup {packet[n].topic}
        /\ r = "freed" /\ r' = r /\ found' = found /\ ret' = Append(ret, found)
    BY <1>6, <1>1, <1>b DEF ReadFreed, Hit
  <2>2. stale' = TRUE
    BY <1>6 DEF ReadFreed
  <2>3. ret' \in Seq(Topics)
    BY <1>c, <1>d, <2>1, AppendProperties DEF TypeOK
  <2>4. stale' \in BOOLEAN
    BY <2>2
  <2>5. TypeOK'
    BY <1>a, <1>c, <1>2, <2>1, <2>3, <2>4 DEF TypeOK, input
  <2>6. Loop(n)'
    BY <1>1, <1>a, <1>b, <2>1, <2>2, LoopGoesOn
  <2> QED
    BY <1>1, <1>a, <1>d, <2>1, <2>5, <2>6, SubAdvances
<1> QED
  BY <1>3, <1>4, <1>5, <1>6

\* The crash at a freed vector.
LEMMA InvCrash ==
  ASSUME Inv, ReadFreed(TRUE)
  PROVE  Inv'
<1>1. /\ Handling("sub") /\ at' = "crash" /\ stale' = TRUE /\ r = "freed"
      /\ UNCHANGED <<subs, tn, ret, input, nodes, r, found, reply>>
  BY DEF ReadFreed
<1>2. /\ tn \in 1..Len(packet) /\ Len(packet) \in Nat /\ packet[tn].topic \in Topics /\ ~Asks(tn) /\ Loop(tn - 1)
  BY <1>1, AtTopic DEF ReadFreed
<1>3. TypeOK'
  <2>1. stale' \in BOOLEAN
    BY <1>1
  <2> QED
    BY <1>1, <2>1 DEF Inv, TypeOK, input
<1>4. PacketInv' /\ SubList' /\ SubLoop' /\ UnsubLoop'
  BY <1>1 DEF Inv, PacketInv, SubList, SubLoop, UnsubLoop, input
<1>5. Truth'
  <2>1. PICK i \in 1..(tn - 1) : Hit(i) /\ \A k \in (i + 1)..(tn - 1) : ~Asks(k)
    BY <1>1, <1>2 DEF Loop
  <2>2. (i + 1)..tn = (i + 1)..(tn - 1) \cup {tn}
    BY <1>2
  <2>3. Exposes(i, tn) /\ i < tn /\ i \in 1..Len(packet)
    BY <1>2, <2>1, <2>2 DEF Exposes
  <2>4. DOMAIN packet = 1..Len(packet)
    BY Lengths DEF Inv
  <2>5. \E a, b \in DOMAIN packet' : a < b /\ Exposes(a, b)'
    <3>1. packet' = packet /\ \A a, b : Exposes(a, b)' <=> Exposes(a, b)
      BY <1>1, InputSame DEF input
    <3> QED
      BY <1>2, <2>3, <2>4, <3>1
  <2> QED
    BY <1>1, <2>5 DEF Truth, SubackTellsTruth, RefusedChangesNothing, RetainedAsAsked, FreedReadExactly,
                      UnsubackTellsTruth, Acked
<1> QED
  BY <1>3, <1>4, <1>5 DEF Inv

LEMMA FunctionIsSeq ==
  ASSUME NEW S, NEW n \in Nat, NEW s \in [1..n -> S]
  PROVE  s \in Seq(S) /\ Len(s) = n
<1>1. s \in Seq(S)
  BY SeqDef
<1>2. 1..Len(s) = 1..n /\ Len(s) \in Nat
  BY <1>1, LenProperties
<1>3. ~(n < Len(s))
  <2>1. Len(s) > 0 => Len(s) \in 1..n
    BY <1>2
  <2> QED
    BY <1>2, <2>1
<1>4. ~(Len(s) < n)
  <2>1. n > 0 => n \in 1..Len(s)
    BY <1>2
  <2> QED
    BY <1>2, <2>1
<1> QED
  BY <1>1, <1>2, <1>3, <1>4

LEMMA InvSuback ==
  ASSUME Inv, SendSuback
  PROVE  Inv'
<1>1. /\ at = "handle" /\ kind = "sub" /\ tn > Len(nodes) /\ at' = "sent" /\ nodes' = <<>>
      /\ reply' = [i \in DOMAIN nodes |-> nodes[i].code] /\ UNCHANGED <<subs, input, tn, search>>
  BY DEF SendSuback, Handled, sub_pkt_free
<1>2. /\ TypeOK /\ PacketInv /\ Len(nodes) = Len(packet) /\ \A i \in 1..Len(nodes) : nodes[i] = SubNode(packet[i])
      /\ Loop(tn - 1)
  BY <1>1 DEF Inv, SubList, SubLoop
<1>3. /\ Len(packet) \in Nat /\ tn = Len(packet) + 1 /\ DOMAIN packet = 1..Len(packet)
      /\ DOMAIN nodes = 1..Len(packet) /\ tn - 1 = Len(packet)
  BY <1>1, <1>2, Lengths
<1>4. /\ \A i \in 1..Len(packet) : reply'[i] \in Codes /\ (reply'[i] = "granted" <=> packet[i].topic \in Topics)
  BY <1>1, <1>2, <1>3 DEF SubNode, Codes
<1>5. reply' \in Seq(Codes) /\ Len(reply') = Len(packet)
  <2>1. reply' \in [1..Len(packet) -> Codes]
    BY <1>1, <1>3, <1>4
  <2> QED
    BY <1>3, <2>1, FunctionIsSeq
<1>6. TypeOK'
  BY <1>1, <1>2, <1>5, Empties DEF TypeOK, input, search
<1>7. PacketInv' /\ SubList' /\ SubLoop' /\ UnsubLoop'
  BY <1>1, <1>2 DEF PacketInv, SubList, SubLoop, UnsubLoop, input, search
<1>8. SubackTellsTruth'
  <2>1. subs' = Subscribed(Len(packet)) /\ packet' = packet /\ before' = before
    BY <1>1, <1>2, <1>3 DEF Loop, input
  <2>2. \A i \in 1..Len(packet) : packet[i].topic \in Topics <=> packet[i].topic \in subs'
    BY <1>2, <2>1 DEF Subscribed, TypeOK
  <2>3. subs' = before \cup {packet[i].topic : i \in {j \in 1..Len(packet) : reply'[j] = "granted"}}
    BY <1>4, <2>1 DEF Subscribed
  <2> QED
    BY <1>3, <1>4, <1>5, <2>1, <2>2, <2>3 DEF SubackTellsTruth
<1>9. RetainedAsAsked' /\ FreedReadExactly'
  <2>1. packet' = packet /\ ret' = ret /\ stale' = stale
    BY <1>1 DEF input, search
  <2>2. \A i, j : (Hit(i)' <=> Hit(i)) /\ (Exposes(i, j)' <=> Exposes(i, j))
    BY <1>1, InputSame
  <2>3. /\ stale <=> \E i, j \in 1..Len(packet) : i < j /\ Exposes(i, j)
        /\ ~stale => Collects(Len(packet))
    BY <1>2, <1>3 DEF Loop
  <2>4. Collects(Len(packet))' <=> Collects(Len(packet))
    BY <2>1, <2>2 DEF Collects
  <2> QED
    BY <1>1, <1>3, <2>1, <2>2, <2>3, <2>4 DEF RetainedAsAsked, FreedReadExactly
<1>10. RefusedChangesNothing' /\ UnsubackTellsTruth'
  BY <1>1 DEF RefusedChangesNothing, UnsubackTellsTruth, Acked, input
<1> QED
  BY <1>6, <1>7, <1>8, <1>9, <1>10 DEF Inv, Truth

-----------------------------------------------------------------------------
(* unsub_ctx_handle *)

LEMMA InvHandleUnsub ==
  ASSUME Inv, SkipUnsubNode \/ HandleUnsubTopic
  PROVE  Inv'
<1>a. TypeOK /\ PacketInv /\ UnsubLoop
  BY DEF Inv
<1>1. /\ at = "handle" /\ kind = "unsub" /\ at' = "handle" /\ kind' = "unsub" /\ tn <= Len(nodes) /\ tn' = tn + 1
      /\ packet' = packet /\ before' = before /\ UNCHANGED <<at, input, search, reply>>
  BY DEF SkipUnsubNode, HandleUnsubTopic, Handling, input
<1>2. /\ Len(packet) \in Nat /\ Len(nodes) \in Nat /\ tn \in Nat \ {0} /\ Len(nodes) <= Len(packet)
      /\ tn \in 1..Len(nodes) /\ DOMAIN packet = 1..Len(packet)
  BY <1>a, <1>1, Lengths DEF PacketInv
<1>3. Decodes
  BY <1>a, <1>1, <1>2 DEF UnsubLoop
<1>4. /\ Len(nodes) = Len(packet) /\ subs = before \ {packet[i] : i \in 1..(tn - 1)}
      /\ \A i \in 1..Len(nodes) :
            nodes[i] = UnsubNode(packet[i], IF i < tn /\ packet[i] \in Topics THEN "success" ELSE "Unset")
  BY <1>a, <1>1, <1>3 DEF UnsubLoop
<1>5. nodes[tn].topic = packet[tn] /\ nodes[tn] = UnsubNode(packet[tn], "Unset") /\ nodes[tn] \in Nodes
  <2>1. nodes[tn] = UnsubNode(packet[tn], "Unset")
    BY <1>2, <1>4
  <2>2. nodes[tn] \in Nodes
    BY <1>a, <1>2, ElementOfSeq DEF TypeOK
  <2> QED
    BY <2>1, <2>2 DEF UnsubNode
<1>6. 1..(tn' - 1) = 1..(tn - 1) \cup {tn}
  BY <1>1, <1>2
<1>7. tn' \in 1..(Len(packet) + 1)
  BY <1>1, <1>2
<1>8. /\ nodes' \in Seq(Nodes) /\ Len(nodes') = Len(packet) /\ subs' = before \ {packet[i] : i \in 1..(tn' - 1)}
      /\ \A i \in 1..Len(packet) :
            nodes'[i] = UnsubNode(packet[i], IF i < tn' /\ packet[i] \in Topics THEN "success" ELSE "Unset")
  <2>1. CASE SkipUnsubNode
    <3>1. nodes' = nodes /\ subs' = subs /\ packet[tn] = NoTopic /\ packet[tn] \notin Topics
      BY <2>1, <1>5, SubPacketAssumption DEF SkipUnsubNode
    <3>2. NoTopic \notin subs
      BY <1>a, SubPacketAssumption DEF TypeOK
    <3>3. subs' = before \ {packet[i] : i \in 1..(tn' - 1)}
      BY <1>4, <1>6, <3>1, <3>2
    <3>4. ASSUME NEW i \in 1..Len(packet)
          PROVE  nodes[i] = UnsubNode(packet[i], IF i < tn' /\ packet[i] \in Topics THEN "success" ELSE "Unset")
      <4>1. CASE i = tn
        BY <1>5, <3>1, <4>1
      <4>2. CASE i # tn
        <5>1. i < tn' <=> i < tn
          BY <1>1, <1>2, <4>2
        <5> QED
          BY <1>4, <5>1
      <4> QED
        BY <4>1, <4>2
    <3> QED
      BY <1>a, <1>4, <3>1, <3>3, <3>4 DEF TypeOK
  <2>2. CASE HandleUnsubTopic
    <3>1. /\ packet[tn] \in Topics /\ subs' = subs \ {packet[tn]}
          /\ nodes' = [nodes EXCEPT ![tn] = [nodes[tn] EXCEPT !.code = "success"]]
      BY <2>2, <1>5 DEF HandleUnsubTopic
    <3>2. /\ [nodes[tn] EXCEPT !.code = "success"] = UnsubNode(packet[tn], "success")
          /\ UnsubNode(packet[tn], "success") \in Nodes
      <4>1. UnsubNode(packet[tn], "success") \in Nodes
        BY <3>1 DEF UnsubNode, Nodes, Options, Codes
      <4>2. [nodes[tn] EXCEPT !.code = "success"] = UnsubNode(packet[tn], "success")
        BY <1>5 DEF UnsubNode
      <4> QED
        BY <4>1, <4>2
    <3>3. /\ nodes' \in Seq(Nodes) /\ Len(nodes') = Len(nodes)
          /\ \A j \in 1..Len(nodes) : nodes'[j] = IF j = tn THEN UnsubNode(packet[tn], "success") ELSE nodes[j]
      <4>1. nodes \in Seq(Nodes) /\ tn \in 1..Len(nodes)
        BY <1>a, <1>2, <1>4 DEF TypeOK
      <4>2. nodes' = [nodes EXCEPT ![tn] = UnsubNode(packet[tn], "success")]
        BY <3>1, <3>2
      <4> QED
        BY <3>2, <4>1, <4>2, ExceptSeq
    <3>4. subs' = before \ {packet[i] : i \in 1..(tn' - 1)}
      BY <1>4, <1>6, <3>1
    <3>5. ASSUME NEW i \in 1..Len(packet)
          PROVE  nodes'[i] = UnsubNode(packet[i], IF i < tn' /\ packet[i] \in Topics THEN "success" ELSE "Unset")
      <4>1. CASE i = tn
        <5>1. i < tn'
          BY <1>1, <1>2, <4>1
        <5> QED
          BY <1>2, <3>1, <3>3, <4>1, <5>1
      <4>2. CASE i # tn
        <5>1. i < tn' <=> i < tn
          BY <1>1, <1>2, <4>2
        <5>2. nodes'[i] = nodes[i]
          BY <1>4, <3>3, <4>2
        <5> QED
          BY <1>4, <5>1, <5>2
      <4> QED
        BY <4>1, <4>2
    <3> QED
      BY <1>4, <3>3, <3>4, <3>5
  <2> QED
    BY <2>1, <2>2
<1>9. subs' \subseteq Topics
  BY <1>a, <1>8 DEF TypeOK
<1>10. TypeOK'
  BY <1>a, <1>1, <1>7, <1>8, <1>9 DEF TypeOK, input, search
<1>11. PacketInv'
  BY <1>a, <1>1, <1>2, <1>8 DEF PacketInv, input, search
<1>12. UnsubLoop'
  <2>1. Decodes'
    BY <1>1, <1>3, InputSame
  <2> QED
    BY <1>1, <1>8, <2>1 DEF UnsubLoop, UnsubNode
<1>13. SubList' /\ SubLoop' /\ Truth'
  BY <1>1, NothingToTell DEF SubList, SubLoop
<1> QED
  BY <1>10, <1>11, <1>12, <1>13 DEF Inv

LEMMA InvUnsuback ==
  ASSUME Inv, SendUnsuback
  PROVE  Inv'
<1>a. TypeOK /\ PacketInv /\ UnsubLoop
  BY DEF Inv
<1>1. /\ at = "handle" /\ kind = "unsub" /\ tn > Len(nodes) /\ at' = "sent" /\ kind' = "unsub" /\ nodes' = <<>>
      /\ reply' = (IF v5 THEN [i \in DOMAIN nodes |-> nodes[i].code] ELSE <<>>)
      /\ UNCHANGED <<subs, input, tn, search>> /\ packet' = packet /\ before' = before /\ v5' = v5
  BY DEF SendUnsuback, Handled, unsub_pkt_free, input
<1>2. /\ Len(packet) \in Nat /\ Len(nodes) \in Nat /\ tn \in Nat \ {0} /\ Len(nodes) <= Len(packet)
      /\ tn <= Len(packet) + 1 /\ DOMAIN packet = 1..Len(packet) /\ DOMAIN nodes = 1..Len(nodes)
  BY <1>a, <1>1, Lengths DEF PacketInv
<1>3. reply' \in Seq(Codes) /\ (v5 => Len(reply') = Len(nodes)) /\ (~v5 => reply' = <<>>)
      /\ (v5 => \A i \in 1..Len(nodes) : reply'[i] = nodes[i].code)
  <2>1. \A i \in 1..Len(nodes) : nodes[i].code \in Codes
    <3>1. nodes \in Seq(Nodes)
      BY <1>a DEF TypeOK
    <3>2. \A i \in 1..Len(nodes) : nodes[i] \in Nodes
      BY <3>1, ElementOfSeq
    <3> QED
      BY <3>2 DEF Nodes
  <2>2. v5 => reply' \in [1..Len(nodes) -> Codes]
    BY <1>1, <1>2, <2>1
  <2>3. v5 => reply' \in Seq(Codes) /\ Len(reply') = Len(nodes)
    BY <1>2, <2>2, FunctionIsSeq
  <2> QED
    BY <1>1, <1>2, <2>3, Empties
<1>4. DOMAIN reply' = IF v5 THEN 1..Len(nodes) ELSE {}
  BY <1>1, <1>2
<1>5. TypeOK'
  BY <1>a, <1>1, <1>3, Empties DEF TypeOK, input, search
<1>6. PacketInv' /\ SubList' /\ SubLoop' /\ UnsubLoop'
  BY <1>a, <1>1 DEF PacketInv, SubList, SubLoop, UnsubLoop, input, search
<1>7. UnsubackTellsTruth'
  <2>a. Decodes' <=> Decodes
    BY <1>1, InputSame
  <2>1. CASE Decodes
    <3>1. /\ Len(nodes) = Len(packet) /\ subs = before \ {packet[i] : i \in 1..(tn - 1)}
          /\ \A i \in 1..Len(nodes) :
                nodes[i] = UnsubNode(packet[i], IF i < tn /\ packet[i] \in Topics THEN "success" ELSE "Unset")
      BY <1>a, <1>1, <2>1 DEF UnsubLoop
    <3>2. tn - 1 = Len(packet) /\ \A i \in 1..Len(packet) : i < tn
      BY <1>1, <1>2, <3>1
    <3>3. subs' = before' \ {packet'[i] : i \in DOMAIN packet'}
      BY <1>1, <1>2, <3>1, <3>2
    <3>4. ASSUME NEW i \in DOMAIN reply'
          PROVE  /\ reply'[i] = IF packet[i] \in Topics THEN "success" ELSE "Unset"
                 /\ i \in 1..Len(packet) /\ packet[i] \in UnsubTopics
      <4>1. i \in 1..Len(packet) /\ v5
        BY <1>4, <3>1, <3>4
      <4>2. packet[i] \in UnsubTopics
        BY <1>a, <1>1, <4>1, ElementOfSeq DEF PacketInv
      <4>3. reply'[i] = UnsubNode(packet[i], IF packet[i] \in Topics THEN "success" ELSE "Unset").code
        BY <1>3, <3>1, <3>2, <4>1
      <4> QED
        BY <4>1, <4>2, <4>3 DEF UnsubNode
    <3>5. \A i \in 1..Len(packet) : packet[i] # NotUtf8
      BY <1>2, <2>1 DEF Decodes
    <3>6. ASSUME NEW i \in DOMAIN reply'
          PROVE  /\ reply'[i] = "success" <=> packet'[i] \in Topics
                 /\ reply'[i] = "Unset" <=>
                        /\ packet'[i] # NotUtf8
                        /\ packet'[i] = NoTopic \/ \E j \in DOMAIN packet' : i < j /\ packet'[j] = NotUtf8
      <4>1. packet[i] \notin Topics <=> packet[i] = NoTopic
        BY <3>4, <3>5, SubPacketAssumption DEF UnsubTopics
      <4> QED
        BY <1>1, <1>2, <3>4, <3>5, <4>1
    <3> QED
      BY <1>1, <1>3, <2>a, <2>1, <3>1, <3>3, <3>6 DEF UnsubackTellsTruth
  <2>2. CASE ~Decodes
    <3>1. /\ Len(nodes) > 0 /\ subs = before
          /\ packet[Len(nodes)] = NotUtf8 /\ nodes[Len(nodes)].code = "error"
          /\ \A i \in 1..(Len(nodes) - 1) : packet[i] # NotUtf8 /\ nodes[i].code = "Unset"
      BY <1>a, <1>1, <2>2 DEF UnsubLoop
    <3>2. ASSUME NEW i \in DOMAIN reply'
          PROVE  /\ reply'[i] # "success"
                 /\ reply'[i] = "Unset" <=>
                        /\ packet'[i] # NotUtf8
                        /\ packet'[i] = NoTopic \/ \E j \in DOMAIN packet' : i < j /\ packet'[j] = NotUtf8
      <4>1. i \in 1..Len(nodes) /\ reply'[i] = nodes[i].code
        BY <1>3, <1>4, <3>2
      <4>2. CASE i = Len(nodes)
        BY <1>1, <3>1, <4>1, <4>2
      <4>3. CASE i # Len(nodes)
        <5>1. i \in 1..(Len(nodes) - 1) /\ i < Len(nodes) /\ Len(nodes) \in DOMAIN packet
          BY <1>2, <3>1, <4>1, <4>3
        <5> QED
          BY <1>1, <3>1, <4>1, <5>1
      <4> QED
        BY <4>2, <4>3
    <3> QED
      BY <1>1, <2>a, <2>2, <3>1, <3>2 DEF UnsubackTellsTruth
  <2> QED
    BY <2>1, <2>2
<1>8. Truth'
  BY <1>1, <1>7 DEF Truth, SubackTellsTruth, RefusedChangesNothing, RetainedAsAsked, FreedReadExactly, Acked
<1> QED
  BY <1>5, <1>6, <1>8 DEF Inv

-----------------------------------------------------------------------------
(* The theorems *)

LEMMA InvStep == Inv /\ [Next]_vars => Inv'
<1> SUFFICES ASSUME Inv, [Next]_vars PROVE Inv'
  OBVIOUS
<1>1. CASE UNCHANGED vars
  <2>1. UNCHANGED <<subs, at, kind, v5, packet, before, nodes, tn, r, found, ret, stale, reply>>
    BY <1>1 DEF vars, input, search
  <2>2. TypeOK' /\ PacketInv' /\ SubList' /\ UnsubLoop'
    BY <2>1 DEF Inv, TypeOK, PacketInv, SubList, SubNode, UnsubLoop, UnsubNode, Decodes
  <2>3. SubLoop'
    <3>1. UNCHANGED input
      BY <2>1 DEF input
    <3>2. \A n : Subscribed(n)' = Subscribed(n) /\ (Collects(n)' <=> Collects(n))
      BY <2>1, <3>1, InputSame DEF Subscribed, Collects
    <3>3. \A n : Loop(n)' <=> Loop(n)
      BY <2>1, <3>1, <3>2, InputSame DEF Loop
    <3> QED
      BY <2>1, <3>3 DEF Inv, SubLoop
  <2>4. Truth'
    <3>1. UnsubackTellsTruth'
      BY <2>1 DEF Inv, Truth, UnsubackTellsTruth, Acked, Decodes
    <3> QED
      BY <2>1, <3>1 DEF Inv, Truth, SubackTellsTruth, RefusedChangesNothing, RetainedAsAsked, FreedReadExactly,
                        Acked, Collects, Exposes, Hit, Asks
  <2> QED
    BY <2>2, <2>3, <2>4 DEF Inv
<1>2. CASE Subscribe
  BY <1>2, InvDecodeSub, InvRefuse, InvHandleSub, InvCrash, InvSuback DEF Subscribe
<1>3. CASE Unsubscribe
  BY <1>3, InvDecodeUnsub, InvNotUtf8, InvHandleUnsub, InvUnsuback DEF Unsubscribe
<1> QED
  BY <1>1, <1>2, <1>3, InvReceive, InvResume DEF Next

LEMMA Invariant == Spec => []Inv
  BY InvInit, InvStep, PTL DEF Spec

\* The loops over the nodes of a packet stay within the list, and every node
\* has a topic or none.
THEOREM TypeCorrect == Spec => []TypeOK
<1>1. Inv => TypeOK
  BY DEF Inv
<1> QED
  BY <1>1, Invariant, PTL

\* For packets of any length, the codes of a SUBACK are those of its topics, and
\* granted exactly for what the client is now subscribed to.
THEOREM SubackTrue == Spec => []SubackTellsTruth
<1>1. Inv => SubackTellsTruth
  BY DEF Inv, Truth
<1> QED
  BY <1>1, Invariant, PTL

\* A SUBSCRIBE that is refused, at whatever topic, has changed nothing.
THEOREM RefusedHasNoEffect == Spec => []RefusedChangesNothing
<1>1. Inv => RefusedChangesNothing
  BY DEF Inv, Truth
<1> QED
  BY <1>1, Invariant, PTL

\* The retained messages collected are those the packet asks for, in its order.
THEOREM RetainedInOrder == Spec => []RetainedAsAsked
<1>1. Inv => RetainedAsAsked
  BY DEF Inv, Truth
<1> QED
  BY <1>1, Invariant, PTL

\* The packets for which sub_ctx_handle reads a freed vector are those with a
\* topic without lookup after one that found messages, and no others.
THEOREM FreedReadByThesePackets == Spec => []FreedReadExactly
<1>1. Inv => FreedReadExactly
  BY DEF Inv, Truth
<1> QED
  BY <1>1, Invariant, PTL

\* An UNSUBSCRIBE is carried out in full or not at all, and no code claims
\* success for a topic the client still has.
THEOREM UnsubackTrue == Spec => []UnsubackTellsTruth
<1>1. Inv => UnsubackTellsTruth
  BY DEF Inv, Truth
<1> QED
  BY <1>1, Invariant, PTL
=============================================================================
