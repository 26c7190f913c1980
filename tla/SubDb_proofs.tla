---------------------------- MODULE SubDb_proofs ----------------------------
(***************************************************************************)
(* Proofs about the subscription database, for any number of work items,   *)
(* pipes and topics.                                                       *)
(***************************************************************************)
EXTENDS SubDb, TLAPS

USE DEF Kinds, Steps

LEMMA HandlesTyped ==
  ASSUME TypeOK, NEW w \in Works, Handles(w)
  PROVE  TypeOK'
<1> USE SubDbAssumption DEF TypeOK, At, On, Done, Leaves, db, job, place
<1>1. ASSUME NEW t \in Topics, TopicExists(w, t) PROVE TypeOK'
  BY <1>1 DEF TopicExists
<1>2. ASSUME NEW t \in Topics, TopicIsNew(w, t) PROVE TypeOK'
  BY <1>2 DEF TopicIsNew
<1>3. CASE InsertClient(w)
  BY <1>3 DEF InsertClient
<1>4. CASE InsertTopic(w)
  BY <1>4 DEF InsertTopic
<1>5. CASE SubAck(w)
  BY <1>5 DEF SubAck
<1>6. ASSUME NEW t \in Topics, DeleteClient(w, t) PROVE TypeOK'
  BY <1>6 DEF DeleteClient
<1>7. CASE DelTopic(w)
  BY <1>7 DEF DelTopic
<1>8. CASE UnsubAck(w)
  BY <1>8 DEF UnsubAck
<1>9. CASE NoQueue(w)
  BY <1>9 DEF NoQueue
<1>10. CASE WalkQueue(w)
  BY <1>10 DEF WalkQueue, Of
<1>11. ASSUME NEW t \in Topics, DestroyTopic(w, t) PROVE TypeOK'
  BY <1>11 DEF DestroyTopic
<1>12. CASE DeleteQueue(w)
  BY <1>12 DEF DeleteQueue
<1> HIDE DEF TypeOK
<1> QED
  BY <1>1, <1>2, <1>3, <1>4, <1>5, <1>6, <1>7, <1>8, <1>9, <1>10, <1>11, <1>12 DEF Handles

\* The databases relate pipes and topics, and an item between two calls on a
\* topic of its packet knows which topic that is.
THEOREM TypeCorrect == Spec => []TypeOK
<1>1. Init => TypeOK
  BY DEF Init, TypeOK
<1>2. TypeOK /\ [Next]_vars => TypeOK'
  <2> SUFFICES ASSUME TypeOK, [Next]_vars PROVE TypeOK'
    OBVIOUS
  <2>1. ASSUME NEW p \in Pipes, Open(p) PROVE TypeOK'
    BY <2>1 DEF Open, TypeOK, db, job, place
  <2>2. ASSUME NEW w \in Works, Arrives(w) PROVE TypeOK'
    BY <2>2 DEF Arrives, RecvSubscribe, RecvUnsubscribe, RecvDisconnect, Starts, TypeOK, db
  <2>3. ASSUME NEW w \in Works, Handles(w) PROVE TypeOK'
    BY <2>3, HandlesTyped
  <2>4. CASE UNCHANGED vars
    BY <2>4 DEF TypeOK, vars, db, job, place
  <2> QED
    BY <2>1, <2>2, <2>3, <2>4 DEF Next
<1> QED
  BY <1>1, <1>2, PTL DEF Spec

-----------------------------------------------------------------------------
(* The two databases agree *)

\* The protocol layer lets one item at a time work for a pipe.
Solo == \A w, v \in Works : kind[w] # "idle" /\ kind[v] # "idle" /\ pipe[w] = pipe[v] => w = v

\* What an item in the middle of a packet or of a disconnect event knows.
JobInv(w) ==
    /\ kind[w] \in {"sub", "unsub"} => pipe[w] \in up
    /\ kind[w] = "disc" => pipe[w] \notin up
    /\ At(w, "sub", "hash") => <<pipe[w], cur[w]>> \in tree
    /\ kind[w] = "unsub" => step[w] # "tree"
    /\ kind[w] = "disc" => step[w] # "hash"
    /\ At(w, "unsub", "hash") => <<pipe[w], cur[w]>> \notin tree
    /\ At(w, "disc", "tree") => \A t \in Topics : <<pipe[w], t>> \in tree <=> t \in todo[w]

\* Item w is between the two deletes or inserts for topic t.
Mid(w, t) ==
    \/ kind[w] \in {"sub", "unsub"} /\ step[w] = "hash" /\ cur[w] = t
    \/ At(w, "disc", "tree")

\* A topic of a pipe is in both databases or in neither, unless the item that
\* works for the pipe is just changing that.
AgreeInv ==
    \A p \in Pipes, t \in Topics :
        (\A w \in Works : kind[w] # "idle" /\ pipe[w] = p => ~Mid(w, t))
            => (<<p, t>> \in tree <=> <<p, t>> \in hash)

\* Nobody works for a pipe that is gone and still has topics.
GoneInv ==
    \A p \in Pipes \ up, t \in Topics :
        (\A w \in Works : kind[w] = "idle" \/ pipe[w] # p)
            => <<p, t>> \notin tree /\ <<p, t>> \notin hash

DbInv == Solo /\ (\A w \in Works : JobInv(w)) /\ AgreeInv /\ GoneInv

LEMMA HandlesDb ==
  ASSUME TypeOK, Serial, DbInv, NEW w \in Works, Handles(w)
  PROVE  DbInv'
<1> USE SubDbAssumption DEF TypeOK, DbInv, Solo, JobInv, Mid, AgreeInv, GoneInv, At, On, Done, Leaves, Of, db, job, place
<1>1. ASSUME NEW t \in Topics, TopicExists(w, t) PROVE DbInv'
  <2>1. Solo'
    BY <1>1 DEF TopicExists
  <2>2. ASSUME NEW v \in Works PROVE JobInv(v)'
    <3>1. CASE v = w
      <4>1. kind'[w] = "sub" /\ step'[w] = "next" /\ pipe' = pipe /\ up' = up /\ pipe[w] \in up
        BY <1>1 DEF TopicExists
      <4> QED
        BY <3>1, <4>1
    <3>2. CASE v # w
      BY <1>1, <3>2 DEF TopicExists
    <3> QED
      BY <3>1, <3>2
  <2>3. AgreeInv'
    BY <1>1 DEF TopicExists
  <2>4. GoneInv'
    BY <1>1 DEF TopicExists
  <2> QED
    BY <2>1, <2>2, <2>3, <2>4
<1>2. ASSUME NEW t \in Topics, TopicIsNew(w, t) PROVE DbInv'
  <2>1. Solo'
    BY <1>2 DEF TopicIsNew
  <2>2. ASSUME NEW v \in Works PROVE JobInv(v)'
    <3>1. CASE v = w
      <4>1. kind'[w] = "sub" /\ step'[w] = "tree" /\ pipe' = pipe /\ up' = up /\ pipe[w] \in up
        BY <1>2 DEF TopicIsNew
      <4> QED
        BY <3>1, <4>1
    <3>2. CASE v # w
      BY <1>2, <3>2 DEF TopicIsNew
    <3> QED
      BY <3>1, <3>2
  <2>3. AgreeInv'
    BY <1>2 DEF TopicIsNew
  <2>4. GoneInv'
    BY <1>2 DEF TopicIsNew
  <2> QED
    BY <2>1, <2>2, <2>3, <2>4
<1>3. CASE InsertClient(w)
  <2>1. Solo'
    BY <1>3 DEF InsertClient
  <2>2. \A v \in Works : JobInv(v)'
    BY <1>3 DEF InsertClient
  <2>3. AgreeInv'
    BY <1>3 DEF InsertClient
  <2>4. GoneInv'
    BY <1>3 DEF InsertClient
  <2> QED
    BY <2>1, <2>2, <2>3, <2>4
<1>4. CASE InsertTopic(w)
  <2>1. Solo'
    BY <1>4 DEF InsertTopic
  <2>2. ASSUME NEW v \in Works PROVE JobInv(v)'
    <3>1. CASE v = w
      <4>1. kind'[w] = "sub" /\ step'[w] = "next" /\ pipe' = pipe /\ up' = up /\ pipe[w] \in up
        BY <1>4 DEF InsertTopic
      <4> QED
        BY <3>1, <4>1
    <3>2. CASE v # w
      BY <1>4, <3>2 DEF InsertTopic
    <3> QED
      BY <3>1, <3>2
  <2>3. AgreeInv'
    BY <1>4 DEF InsertTopic
  <2>4. GoneInv'
    BY <1>4 DEF InsertTopic
  <2> QED
    BY <2>1, <2>2, <2>3, <2>4
<1>5. CASE SubAck(w)
  <2>1. Solo'
    BY <1>5 DEF SubAck
  <2>2. \A v \in Works : JobInv(v)'
    BY <1>5 DEF SubAck
  <2>3. AgreeInv'
    BY <1>5 DEF SubAck
  <2>4. GoneInv'
    <3>1. pipe[w] \in up /\ pipe' = pipe /\ up' = up /\ UNCHANGED db
      BY <1>5 DEF SubAck
    <3>2. \A v \in Works : v # w => kind'[v] = kind[v]
      BY <1>5 DEF SubAck
    <3> QED
      BY <3>1, <3>2
  <2> QED
    BY <2>1, <2>2, <2>3, <2>4
<1>6. ASSUME NEW t \in Topics, DeleteClient(w, t) PROVE DbInv'
  <2>1. Solo'
    BY <1>6 DEF DeleteClient
  <2>2. ASSUME NEW v \in Works PROVE JobInv(v)'
    <3>1. CASE v = w
      BY <1>6, <3>1 DEF DeleteClient
    <3>2. CASE v # w
      BY <1>6, <3>2 DEF DeleteClient
    <3> QED
      BY <3>1, <3>2
  <2>3. AgreeInv'
    BY <1>6 DEF DeleteClient
  <2>4. GoneInv'
    BY <1>6 DEF DeleteClient
  <2> QED
    BY <2>1, <2>2, <2>3, <2>4
<1>7. CASE DelTopic(w)
  <2>1. Solo'
    BY <1>7 DEF DelTopic
  <2>2. ASSUME NEW v \in Works PROVE JobInv(v)'
    <3>1. CASE v = w
      <4>1. kind'[w] = "unsub" /\ step'[w] = "next" /\ pipe' = pipe /\ up' = up /\ pipe[w] \in up
        BY <1>7 DEF DelTopic
      <4> QED
        BY <3>1, <4>1
    <3>2. CASE v # w
      BY <1>7, <3>2 DEF DelTopic
    <3> QED
      BY <3>1, <3>2
  <2>3. AgreeInv'
    BY <1>7 DEF DelTopic
  <2>4. GoneInv'
    BY <1>7 DEF DelTopic
  <2> QED
    BY <2>1, <2>2, <2>3, <2>4
<1>8. CASE UnsubAck(w)
  <2>1. Solo'
    BY <1>8 DEF UnsubAck
  <2>2. \A v \in Works : JobInv(v)'
    BY <1>8 DEF UnsubAck
  <2>3. AgreeInv'
    BY <1>8 DEF UnsubAck
  <2>4. GoneInv'
    <3>1. pipe[w] \in up /\ pipe' = pipe /\ up' = up /\ UNCHANGED db
      BY <1>8 DEF UnsubAck
    <3>2. \A v \in Works : v # w => kind'[v] = kind[v]
      BY <1>8 DEF UnsubAck
    <3> QED
      BY <3>1, <3>2
  <2> QED
    BY <2>1, <2>2, <2>3, <2>4
<1>9. CASE NoQueue(w)
  <2>1. Solo'
    BY <1>9 DEF NoQueue
  <2>2. \A v \in Works : JobInv(v)'
    BY <1>9 DEF NoQueue
  <2>3. AgreeInv'
    BY <1>9 DEF NoQueue
  <2>4. GoneInv'
    BY <1>9 DEF NoQueue
  <2> QED
    BY <2>1, <2>2, <2>3, <2>4
<1>10. CASE WalkQueue(w)
  <2>1. Solo'
    BY <1>10 DEF WalkQueue
  <2>2. ASSUME NEW v \in Works PROVE JobInv(v)'
    <3>1. CASE v = w
      BY <1>10, <3>1 DEF WalkQueue
    <3>2. CASE v # w
      BY <1>10, <3>2 DEF WalkQueue
    <3> QED
      BY <3>1, <3>2
  <2>3. AgreeInv'
    BY <1>10 DEF WalkQueue
  <2>4. GoneInv'
    BY <1>10 DEF WalkQueue
  <2> QED
    BY <2>1, <2>2, <2>3, <2>4
<1>11. ASSUME NEW t \in Topics, DestroyTopic(w, t) PROVE DbInv'
  <2>1. Solo'
    BY <1>11 DEF DestroyTopic
  <2>2. \A v \in Works : JobInv(v)'
    BY <1>11 DEF DestroyTopic
  <2>3. AgreeInv'
    BY <1>11 DEF DestroyTopic
  <2>4. GoneInv'
    BY <1>11 DEF DestroyTopic
  <2> QED
    BY <2>1, <2>2, <2>3, <2>4
<1>12. CASE DeleteQueue(w)
  <2>1. Solo'
    BY <1>12 DEF DeleteQueue
  <2>2. \A v \in Works : JobInv(v)'
    BY <1>12 DEF DeleteQueue
  <2>3. AgreeInv'
    BY <1>12 DEF DeleteQueue
  <2>4. GoneInv'
    BY <1>12 DEF DeleteQueue
  <2> QED
    BY <2>1, <2>2, <2>3, <2>4
<1> HIDE DEF DbInv
<1> QED
  BY <1>1, <1>2, <1>3, <1>4, <1>5, <1>6, <1>7, <1>8, <1>9, <1>10, <1>11, <1>12 DEF Handles

LEMMA ArrivesDb ==
  ASSUME TypeOK, Serial, DbInv, NEW w \in Works, NEW p \in Pipes,
         NEW k \in {"sub", "unsub", "disc"}, NEW T \in SUBSET Topics,
         Starts(w, p, k, T), p \in up, up' = IF k = "disc" THEN up \ {p} ELSE up
  PROVE  DbInv'
<1> USE DEF TypeOK, DbInv, Solo, JobInv, Mid, AgreeInv, GoneInv, At, Starts, BusyWith, db
<1>1. Solo'
  OBVIOUS
<1>2. ASSUME NEW v \in Works PROVE JobInv(v)'
  <2>1. CASE v = w
    BY <2>1
  <2>2. CASE v # w
    BY <2>2
  <2> QED
    BY <2>1, <2>2
<1>3. AgreeInv'
  OBVIOUS
<1>4. GoneInv'
  OBVIOUS
<1> QED
  BY <1>1, <1>2, <1>3, <1>4

LEMMA OpenDb ==
  ASSUME TypeOK, DbInv, NEW p \in Pipes, Open(p)
  PROVE  DbInv'
<1> USE DEF TypeOK, DbInv, Solo, JobInv, Mid, AgreeInv, GoneInv, At, Open, BusyWith, db, job, place
<1>1. Solo'
  OBVIOUS
<1>2. ASSUME NEW v \in Works PROVE JobInv(v)'
  OBVIOUS
<1>3. AgreeInv'
  OBVIOUS
<1>4. GoneInv'
  OBVIOUS
<1> QED
  BY <1>1, <1>2, <1>3, <1>4

LEMMA DbInvariant == Serial => (Spec => [](TypeOK /\ DbInv))
<1> SUFFICES ASSUME Serial
             PROVE  Spec => [](TypeOK /\ DbInv)
  OBVIOUS
<1>1. Init => DbInv
  BY DEF Init, DbInv, Solo, JobInv, Mid, AgreeInv, GoneInv, At
<1>2. TypeOK /\ DbInv /\ [Next]_vars => DbInv'
  <2> SUFFICES ASSUME TypeOK, DbInv, [Next]_vars PROVE DbInv'
    OBVIOUS
  <2>1. ASSUME NEW p \in Pipes, Open(p) PROVE DbInv'
    BY <2>1, OpenDb
  <2>2. ASSUME NEW w \in Works, Arrives(w) PROVE DbInv'
    BY <2>2, ArrivesDb DEF Arrives, RecvSubscribe, RecvUnsubscribe, RecvDisconnect
  <2>3. ASSUME NEW w \in Works, Handles(w) PROVE DbInv'
    BY <2>3, HandlesDb
  <2>4. CASE UNCHANGED vars
    BY <2>4 DEF DbInv, Solo, JobInv, Mid, AgreeInv, GoneInv, At, vars, db, job, place
  <2> QED
    BY <2>1, <2>2, <2>3, <2>4 DEF Next
<1> QED
  BY <1>1, <1>2, TypeCorrect, PTL DEF Spec

\* While the messages of a pipe are handled one after the other, the tree and
\* the queue of a pipe agree whenever no message of it is being handled.
THEOREM DatabasesAgree == Serial => (Spec => []TreeAndQueueAgree)
<1> SUFFICES ASSUME Serial
             PROVE  Spec => []TreeAndQueueAgree
  OBVIOUS
<1>1. DbInv => TreeAndQueueAgree
  BY DEF DbInv, AgreeInv, TreeAndQueueAgree, BusyWith, Of
<1> QED
  BY <1>1, DbInvariant, PTL

\* And a pipe that is gone leaves nothing behind that a later pipe with the
\* same id would inherit.
THEOREM NothingInherited == Serial => (Spec => []GonePipesLeaveNothing)
<1> SUFFICES ASSUME Serial
             PROVE  Spec => []GonePipesLeaveNothing
  OBVIOUS
<1>1. DbInv => GonePipesLeaveNothing
  BY DEF DbInv, GoneInv, GonePipesLeaveNothing, BusyWith, Of
<1> QED
  BY <1>1, DbInvariant, PTL

-----------------------------------------------------------------------------
(* The database implements Subscriptions *)

\* Subscribed, told topic by topic.
Has(p, t) ==
    /\ p \in up
    /\ <<p, t>> \in tree \/ \E v \in Works : kind[v] = "sub" /\ pipe[v] = p /\ t \in todo[v]
    /\ ~\E v \in Works : kind[v] = "unsub" /\ pipe[v] = p /\ t \in todo[v]

LEMMA HasTopics ==
  ASSUME TypeOK, TypeOK', NEW p
  PROVE  /\ Subscribed(p) = {t \in Topics : Has(p, t)}
         /\ Subscribed(p)' = {t \in Topics : Has(p, t)'}
BY DEF TypeOK, Subscribed, Pending, BusyWith, Of, Has

\* Work on a packet that has been received changes nothing a client can see.
LEMMA HandlesHidden ==
  ASSUME TypeOK, Serial, DbInv, NEW w \in Works, Handles(w), NEW p \in Pipes, NEW s \in Topics
  PROVE  Has(p, s)' <=> Has(p, s)
<1> USE SubDbAssumption DEF TypeOK, DbInv, Solo, JobInv, Mid, AgreeInv, Has, At, On, Done, Leaves, db, job, place
<1>1. ASSUME NEW t \in Topics, TopicExists(w, t) PROVE Has(p, s)' <=> Has(p, s)
  BY <1>1 DEF TopicExists
<1>2. ASSUME NEW t \in Topics, TopicIsNew(w, t) PROVE Has(p, s)' <=> Has(p, s)
  BY <1>2 DEF TopicIsNew
<1>3. CASE InsertClient(w)
  BY <1>3 DEF InsertClient
<1>4. CASE InsertTopic(w)
  BY <1>4 DEF InsertTopic
<1>5. CASE SubAck(w)
  BY <1>5 DEF SubAck
<1>6. ASSUME NEW t \in Topics, DeleteClient(w, t) PROVE Has(p, s)' <=> Has(p, s)
  BY <1>6 DEF DeleteClient
<1>7. CASE DelTopic(w)
  BY <1>7 DEF DelTopic
<1>8. CASE UnsubAck(w)
  BY <1>8 DEF UnsubAck
<1>9. CASE NoQueue(w)
  BY <1>9 DEF NoQueue
<1>10. CASE WalkQueue(w)
  BY <1>10 DEF WalkQueue
<1>11. ASSUME NEW t \in Topics, DestroyTopic(w, t) PROVE Has(p, s)' <=> Has(p, s)
  BY <1>11 DEF DestroyTopic
<1>12. CASE DeleteQueue(w)
  BY <1>12 DEF DeleteQueue
<1> HIDE DEF DbInv, Has
<1> QED
  BY <1>1, <1>2, <1>3, <1>4, <1>5, <1>6, <1>7, <1>8, <1>9, <1>10, <1>11, <1>12 DEF Handles

\* Receiving a packet is the step of Subscriptions it asks for.
LEMMA ArrivesVisible ==
  ASSUME TypeOK, Serial, NEW w \in Works, NEW p \in Pipes,
         NEW k \in {"sub", "unsub", "disc"}, NEW T \in SUBSET Topics,
         Starts(w, p, k, T), p \in up, up' = IF k = "disc" THEN up \ {p} ELSE up,
         NEW q \in Pipes, NEW s \in Topics
  PROVE  Has(q, s)' <=> IF q # p THEN Has(q, s)
                        ELSE IF k = "sub" THEN Has(p, s) \/ s \in T
                        ELSE k = "unsub" /\ Has(p, s) /\ s \notin T
<1> USE DEF TypeOK, Has, Starts, BusyWith, db
<1>1. CASE q # p
  BY <1>1
<1>2. CASE q = p /\ k = "sub"
  BY <1>2
<1>3. CASE q = p /\ k = "unsub"
  BY <1>3
<1>4. CASE q = p /\ k = "disc"
  BY <1>4
<1> QED
  BY <1>1, <1>2, <1>3, <1>4

\* Seen packet by packet, the two databases and the loops over them implement
\* one set of topics per pipe.
THEOREM Implements == Serial => (Spec => ImplementsSubscriptions)
<1> SUFFICES ASSUME Serial
             PROVE  Spec => ImplementsSubscriptions
  OBVIOUS
<1>1. Init => Abstract!Init
  BY DEF Init, Abstract!Init, Subscribed
<1>2. TypeOK /\ DbInv /\ TypeOK' /\ [Next]_vars => [Abstract!Next]_(Abstract!vars)
  <2> SUFFICES ASSUME TypeOK, DbInv, TypeOK', [Next]_vars
               PROVE  Abstract!Next \/ UNCHANGED Abstract!vars
    OBVIOUS
  <2>1. /\ \A p \in Pipes : Subscribed(p) = {t \in Topics : Has(p, t)}
        /\ \A p \in Pipes : Subscribed(p)' = {t \in Topics : Has(p, t)'}
    BY HasTopics
  <2>2. ASSUME NEW p \in Pipes, Open(p) PROVE Abstract!Open(p)
    <3>1. Subscribed(p) = {}
      BY <2>2 DEF Open, Subscribed
    <3>2. \A q \in Pipes, t \in Topics : Has(q, t)' <=> Has(q, t)
      BY <2>2 DEF Open, Has, BusyWith, DbInv, GoneInv, TypeOK, db, job, place
    <3>3. \A q \in Pipes : Subscribed(q)' = Subscribed(q)
      BY <2>1, <3>2
    <3> QED
      BY <2>2, <3>1, <3>3 DEF Open, Abstract!Open
  <2>3. ASSUME NEW w \in Works, NEW p \in Pipes, NEW T \in SUBSET Topics, RecvSubscribe(w, p, T)
        PROVE  Abstract!Subscribe(p, T)
    <3>1. \A q \in Pipes, t \in Topics : Has(q, t)' <=> IF q # p THEN Has(q, t) ELSE Has(p, t) \/ t \in T
      BY <2>3, ArrivesVisible DEF RecvSubscribe
    <3>2. \A q \in Pipes : Subscribed(q)' = IF q # p THEN Subscribed(q) ELSE Subscribed(p) \cup T
      BY <2>1, <3>1
    <3> QED
      BY <2>3, <3>2 DEF RecvSubscribe, Abstract!Subscribe
  <2>4. ASSUME NEW w \in Works, NEW p \in Pipes, NEW T \in SUBSET Topics, RecvUnsubscribe(w, p, T)
        PROVE  Abstract!Unsubscribe(p, T)
    <3>1. \A q \in Pipes, t \in Topics : Has(q, t)' <=> IF q # p THEN Has(q, t) ELSE Has(p, t) /\ t \notin T
      BY <2>4, ArrivesVisible DEF RecvUnsubscribe
    <3>2. \A q \in Pipes : Subscribed(q)' = IF q # p THEN Subscribed(q) ELSE Subscribed(p) \ T
      BY <2>1, <3>1
    <3> QED
      BY <2>4, <3>2 DEF RecvUnsubscribe, Abstract!Unsubscribe
  <2>5. ASSUME NEW w \in Works, NEW p \in Pipes, RecvDisconnect(w, p)
        PROVE  Abstract!Close(p)
    <3>1. \A q \in Pipes, t \in Topics : Has(q, t)' <=> q # p /\ Has(q, t)
      BY <2>5, ArrivesVisible DEF RecvDisconnect
    <3>2. \A q \in Pipes : Subscribed(q)' = IF q # p THEN Subscribed(q) ELSE {}
      BY <2>1, <3>1
    <3> QED
      BY <2>5, <3>2 DEF RecvDisconnect, Abstract!Close
  <2>6. ASSUME NEW w \in Works, Handles(w) PROVE UNCHANGED Abstract!vars
    <3>1. \A q \in Pipes, t \in Topics : Has(q, t)' <=> Has(q, t)
      BY <2>6, HandlesHidden
    <3>2. \A q \in Pipes : Subscribed(q)' = Subscribed(q)
      BY <2>1, <3>1
    <3>3. up' = up
      BY <2>6 DEF Handles, TopicExists, TopicIsNew, InsertClient, InsertTopic, SubAck, DeleteClient,
         DelTopic, UnsubAck, NoQueue, WalkQueue, DestroyTopic, DeleteQueue, Leaves
    <3> QED
      BY <3>2, <3>3 DEF Abstract!vars
  <2>7. CASE UNCHANGED vars
    BY <2>7 DEF vars, db, job, place, Abstract!vars, Subscribed, Pending, BusyWith, Of
  <2> QED
    BY <2>2, <2>3, <2>4, <2>5, <2>6, <2>7 DEF Next, Arrives, Abstract!Next
<1> QED
  BY <1>1, <1>2, TypeCorrect, DbInvariant, PTL DEF Spec, ImplementsSubscriptions, Abstract!Spec
=============================================================================
