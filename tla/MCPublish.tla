----------------------------- MODULE MCPublish ------------------------------
(* Publish with two items, clients, topics and messages, and a filter that *)
(* matches every topic: a SUBSCRIBE collects as many messages as there are *)
(* topics, and one that has expired keeps the other from being sent.       *)
EXTENDS Publish, TLC

MCFilters == {Topics}

\* Items, clients, topics (the filter has them all) and messages (all of them
\* can expire) are interchangeable.
Symmetry ==
    Permutations(Works) \cup Permutations(Pipes) \cup Permutations(Topics) \cup Permutations(Msgs)
=============================================================================
