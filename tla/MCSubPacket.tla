---------------------------- MODULE MCSubPacket -----------------------------
(* Two topics, one of which has retained messages, and packets with up to  *)
(* three topics: repeated ones, unusable ones, and every combination of    *)
(* retain handling before and after a topic that finds messages.           *)
EXTENDS SubPacket

CONSTANTS MaxTopics \* bound: topics per packet

Payloads(S) == UNION {[1..n -> S] : n \in 1..MaxTopics}

\* The options of a topic that is skipped make no difference.
MCEntries ==
    [topic : Topics, opt : Options] \cup [topic : {NoTopic}, opt : {"never"}]
MCSubPackets   == Payloads(MCEntries)
MCUnsubPackets == Payloads(Topics \cup {NoTopic, NotUtf8})
=============================================================================
