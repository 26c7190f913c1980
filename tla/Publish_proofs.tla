--------------------------- MODULE Publish_proofs ---------------------------
(***************************************************************************)
(* Proofs about Publish, for any number of items, clients and messages.    *)
(***************************************************************************)
EXTENDS Publish, TLAPS, FiniteSetTheorems

-----------------------------------------------------------------------------
(* Type correctness *)

LEMMA TypeInit == Init => TypeOK
  BY PublishAssumption DEF Init, TypeOK, NoSub, Kinds, Places

LEMMA TypeArrives ==
  ASSUME TypeOK, NEW w \in Works, Arrives(w)
  PROVE  TypeOK'
<1> USE PublishAssumption DEF TypeOK, Places, Moves, trees, about, shared, publish, search, sent
<1>1. ASSUME NEW p \in Pipes, NEW m \in Msgs, NEW t \in Topics \cup {NoTopic},
             NEW a \in Aliasing, NEW k \in Kinds, HandlePub(w, p, m, t, a, k)
      PROVE  TypeOK'
  <2>1. Resolve(p, t, a) \in Topics \cup {NoTopic}
    BY DEF Resolve
  <2>3. /\ retained' \in [Topics -> used' \cup {NoMsg}] /\ msg' \in [Works -> used' \cup {NoMsg}]
        /\ list' \in [Works -> SUBSET used'] /\ used' \subseteq Msgs
    BY <1>1 DEF HandlePub
  <2>4. alias' \in [Pipes -> Topics \cup {NoTopic}]
    BY <1>1 DEF HandlePub
  <2>5. topic' \in [Works -> Topics \cup {NoTopic}] /\ infos' \in [Works -> SUBSET Pipes]
    BY <1>1, <2>1 DEF HandlePub
  <2>6. /\ at' \in [Works -> Places]
        /\ \A v \in Works : msg'[v] # NoMsg <=> at'[v] \in {"match", "retain", "wait", "loop", "send", "rsend"}
        /\ \A v \in Works : at'[v] \in {"match", "retain"} => topic'[v] # NoTopic
    BY <1>1 DEF HandlePub, Continue
  <2>7. /\ kind' \in [Msgs -> Kinds] /\ wire' \in [Msgs -> {"topic", "alias", "torn"}]
        /\ refs' \in [Msgs -> Int] /\ mpipe' \in [Msgs -> Pipes \cup {NoPipe}]
        /\ pid' \in [Works -> Pipes \cup {NoPipe}]
        /\ \A v \in Works : at'[v] # "idle" => pid'[v] \in Pipes
        /\ \A n \in used' : mpipe'[n] \in Pipes
    BY <1>1 DEF HandlePub
  <2> QED
    BY <1>1, <2>3, <2>4, <2>5, <2>6, <2>7 DEF HandlePub
<1>2. ASSUME NEW p \in Pipes, NEW F \in Filters, NEW rh \in Options, SubCtxHandle(w, p, F, rh)
      PROVE  TypeOK'
  <2>1. sub' \in [Pipes \X Filters -> Options \cup {NoSub}]
    BY <1>2 DEF SubCtxHandle
  <2>2. filter' \in [Works -> SUBSET Topics]
    BY <1>2 DEF SubCtxHandle
  <2> QED
    BY <1>2, <2>1, <2>2 DEF SubCtxHandle
<1> HIDE DEF TypeOK
<1> QED
  BY <1>1, <1>2 DEF Arrives

LEMMA TypeHandles ==
  ASSUME TypeOK, NEW w \in Works, Handles(w)
  PROVE  TypeOK'
<1> USE PublishAssumption
    DEF TypeOK, Places, Moves, Leaves, Clone, Dropped, Delivers, trees, about, shared, publish, search, sent
<1>1. CASE RetainStores(w)
  BY <1>1 DEF RetainStores
<1>2. CASE RetainClears(w)
  BY <1>2 DEF RetainClears
<1>3. CASE RetainSkips(w)
  BY <1>3 DEF RetainSkips
<1>4. CASE Encode(w)
  BY <1>4 DEF Encode
<1>5. CASE EncodeFails(w)
  BY <1>5 DEF EncodeFails
<1>6. ASSUME NEW p \in Pipes, SetPipe(w, p) PROVE TypeOK'
  BY <1>6 DEF SetPipe
<1>7. CASE Send(w)
  BY <1>7 DEF Send
<1>8. CASE FreeMsg(w)
  BY <1>8 DEF FreeMsg
<1>9. CASE FindRetain(w)
  <2>1. Between(w) \subseteq Msgs /\ pid[w] \in Pipes
    BY <1>9 DEF FindRetain, Between
  <2>2. lost' \subseteq Pipes \X Msgs
    BY <1>9, <2>1 DEF FindRetain
  <2>3. list'[w] \subseteq used
    BY <1>9 DEF FindRetain
  <2>4. list' \in [Works -> SUBSET used'] /\ filter' \in [Works -> SUBSET Topics]
    BY <1>9, <2>3 DEF FindRetain
  <2> QED
    BY <1>9, <2>2, <2>4 DEF FindRetain
<1>10. ASSUME NEW m \in Msgs, SetPipeRetained(w, m) PROVE TypeOK'
  BY <1>10 DEF SetPipeRetained
<1>11. CASE SendRetained(w)
  BY <1>11 DEF SendRetained
<1>12. ASSUME NEW m \in Msgs, StopAtExpired(w, m) PROVE TypeOK'
  BY <1>12 DEF StopAtExpired
<1>13. CASE SubAck(w)
  BY <1>13 DEF SubAck
<1>14. CASE Match(w)
  BY <1>14 DEF Match, Subscribers
<1> HIDE DEF TypeOK
<1> QED
  BY <1>1, <1>2, <1>3, <1>4, <1>5, <1>6, <1>7, <1>8, <1>9, <1>10, <1>11, <1>12, <1>13, <1>14 DEF Handles

LEMMA TypeStep == TypeOK /\ [Next]_vars => TypeOK'
<1> SUFFICES ASSUME TypeOK, [Next]_vars PROVE TypeOK'
  OBVIOUS
<1>1. CASE UNCHANGED vars
  BY <1>1 DEF TypeOK, vars, trees, about, shared, publish, search, sent
<1> QED
  BY <1>1, TypeArrives, TypeHandles DEF Next

\* Items, messages and trees keep their types, whatever the callbacks of the
\* items do to each other.
THEOREM TypeCorrect == Spec => []TypeOK
  BY TypeInit, TypeStep, PTL DEF Spec

-----------------------------------------------------------------------------
(* Only retained messages are shared *)

\* A message without retain flag is neither in the retained tree nor in a list
\* collected from it, and with one item only.
PrivateInv ==
    /\ \A t \in Topics : retained[t] # NoMsg => kind[retained[t]] = "retain"
    /\ \A w \in Works : \A m \in list[w] : kind[m] = "retain"
    /\ \A w \in Works : at[w] = "rsend" => kind[msg[w]] = "retain"
    /\ \A w, v \in Works :
           msg[w] = msg[v] /\ msg[w] # NoMsg /\ kind[msg[w]] # "retain" => w = v

LEMMA PrivateArrives ==
  ASSUME TypeOK, PrivateInv, OnlyRetainedGoAstray, NEW w \in Works, Arrives(w)
  PROVE  PrivateInv' /\ OnlyRetainedGoAstray'
<1> USE PublishAssumption DEF TypeOK, PrivateInv, OnlyRetainedGoAstray, Sending, Moves,
                              trees, about, shared, publish, search, sent
<1>1. ASSUME NEW p \in Pipes, NEW m \in Msgs, NEW t \in Topics \cup {NoTopic},
             NEW a \in Aliasing, NEW k \in Kinds, HandlePub(w, p, m, t, a, k)
      PROVE  PrivateInv' /\ OnlyRetainedGoAstray'
  <2>1. /\ \A n \in used : kind'[n] = kind[n] /\ mpipe'[n] = mpipe[n]
        /\ retained' = retained /\ list' = list
        /\ m \notin used /\ msg'[w] = m /\ at'[w] \in {"wait", "match"}
        /\ \A v \in Works : v # w => msg'[v] = msg[v] /\ at'[v] = at[v] /\ pid'[v] = pid[v]
    BY <1>1 DEF HandlePub, Continue
  <2>2. PrivateInv'
    <3>1. \A tp \in Topics : retained'[tp] # NoMsg => kind'[retained'[tp]] = "retain"
      BY <2>1
    <3>2. \A v \in Works : \A n \in list'[v] : kind'[n] = "retain"
      BY <2>1
    <3>3. \A v \in Works : at'[v] = "rsend" => kind'[msg'[v]] = "retain"
      BY <2>1
    <3>4. ASSUME NEW u \in Works, NEW v \in Works,
                 msg'[u] = msg'[v], msg'[u] # NoMsg, kind'[msg'[u]] # "retain"
          PROVE  u = v
      <4>1. CASE u = w \/ v = w
        BY <2>1, <3>4, <4>1
      <4>2. CASE u # w /\ v # w
        BY <2>1, <3>4, <4>2
      <4> QED
        BY <4>1, <4>2
    <3> QED
      BY <3>1, <3>2, <3>3, <3>4
  <2>3. OnlyRetainedGoAstray'
    BY <2>1
  <2> QED
    BY <2>2, <2>3
<1>2. ASSUME NEW p \in Pipes, NEW F \in Filters, NEW rh \in Options, SubCtxHandle(w, p, F, rh)
      PROVE  PrivateInv' /\ OnlyRetainedGoAstray'
  BY <1>2 DEF SubCtxHandle
<1> HIDE DEF PrivateInv, OnlyRetainedGoAstray
<1> QED
  BY <1>1, <1>2 DEF Arrives

LEMMA PrivateHandles ==
  ASSUME TypeOK, PrivateInv, OnlyRetainedGoAstray, NEW w \in Works, Handles(w)
  PROVE  PrivateInv' /\ OnlyRetainedGoAstray'
<1> USE PublishAssumption DEF TypeOK, PrivateInv, OnlyRetainedGoAstray, Sending, Moves, Leaves,
                              trees, about, shared, publish, search, sent
<1>1. CASE RetainStores(w)
  BY <1>1 DEF RetainStores
<1>2. CASE RetainClears(w)
  BY <1>2 DEF RetainClears
<1>3. CASE RetainSkips(w)
  BY <1>3 DEF RetainSkips
<1>4. CASE Encode(w)
  BY <1>4 DEF Encode
<1>5. CASE EncodeFails(w)
  BY <1>5 DEF EncodeFails
<1>6. ASSUME NEW p \in Pipes, SetPipe(w, p) PROVE PrivateInv' /\ OnlyRetainedGoAstray'
  BY <1>6 DEF SetPipe
<1>7. CASE Send(w)
  BY <1>7 DEF Send
<1>8. CASE FreeMsg(w)
  BY <1>8 DEF FreeMsg
<1>9. CASE FindRetain(w)
  BY <1>9 DEF FindRetain
<1>10. ASSUME NEW m \in Msgs, SetPipeRetained(w, m) PROVE PrivateInv' /\ OnlyRetainedGoAstray'
  BY <1>10 DEF SetPipeRetained
<1>11. CASE SendRetained(w)
  BY <1>11 DEF SendRetained
<1>12. ASSUME NEW m \in Msgs, StopAtExpired(w, m) PROVE PrivateInv' /\ OnlyRetainedGoAstray'
  BY <1>12 DEF StopAtExpired
<1>13. CASE SubAck(w)
  BY <1>13 DEF SubAck
<1>14. CASE Match(w)
  BY <1>14 DEF Match, Subscribers
<1> HIDE DEF PrivateInv, OnlyRetainedGoAstray
<1> QED
  BY <1>1, <1>2, <1>3, <1>4, <1>5, <1>6, <1>7, <1>8, <1>9, <1>10, <1>11, <1>12, <1>13, <1>14 DEF Handles

\* However the callbacks interleave, a message that is not retained goes to the
\* clients that matched it.
THEOREM PlainArrive == Spec => []OnlyRetainedGoAstray
<1>1. Init => PrivateInv /\ OnlyRetainedGoAstray
  BY PublishAssumption DEF Init, PrivateInv, OnlyRetainedGoAstray, Sending
<1>2. TypeOK /\ PrivateInv /\ OnlyRetainedGoAstray /\ [Next]_vars => PrivateInv' /\ OnlyRetainedGoAstray'
  <2> SUFFICES ASSUME TypeOK, PrivateInv, OnlyRetainedGoAstray, [Next]_vars
               PROVE  PrivateInv' /\ OnlyRetainedGoAstray'
    OBVIOUS
  <2>1. CASE UNCHANGED vars
    BY <2>1 DEF PrivateInv, OnlyRetainedGoAstray, vars, trees, about, shared, publish, search, sent
  <2> QED
    BY <2>1, PrivateArrives, PrivateHandles DEF Next
<1> QED
  BY <1>1, <1>2, TypeCorrect, PTL DEF Spec

-----------------------------------------------------------------------------
(* One owner for every message *)

\* An item owns the message it received, alone, until it frees it; a message
\* that is still to be retained is not in the tree, a retained one there once;
\* what is still to be encoded is whole; and WAIT has written the topic before
\* it sends.
OwnerInv ==
    /\ \A w, v \in Works :
           msg[w] = msg[v] /\ msg[w] # NoMsg /\ at[w] # "rsend" /\ at[v] # "rsend" => w = v
    /\ \A w \in Works : at[w] \in {"match", "retain"} => \A t \in Topics : retained[t] # msg[w]
    /\ \A t, u \in Topics : retained[t] = retained[u] /\ retained[t] # NoMsg => t = u
    /\ \A w \in Works : at[w] \in {"match", "retain", "wait"} => wire[msg[w]] # "torn"
    /\ \A w \in Works : at[w] = "loop" /\ infos[w] # {} => wire[msg[w]] = "topic"
    /\ \A w \in Works : at[w] = "send" => wire[msg[w]] = "topic"

LEMMA OwnerArrives ==
  ASSUME TypeOK, OwnerInv, NEW w \in Works, Arrives(w)
  PROVE  OwnerInv'
<1> USE PublishAssumption DEF TypeOK, OwnerInv, Moves, trees, about, shared, publish, search, sent
<1>1. ASSUME NEW p \in Pipes, NEW m \in Msgs, NEW t \in Topics \cup {NoTopic},
             NEW a \in Aliasing, NEW k \in Kinds, HandlePub(w, p, m, t, a, k)
      PROVE  OwnerInv'
  <2>1. /\ retained' = retained /\ m \notin used /\ m # NoMsg /\ msg'[w] = m /\ at'[w] \in {"wait", "match"}
        /\ wire'[m] # "torn"
        /\ \A n \in used : wire'[n] = wire[n]
        /\ \A v \in Works : v # w => msg'[v] = msg[v] /\ at'[v] = at[v] /\ infos'[v] = infos[v]
        /\ \A tp \in Topics : retained[tp] # m
        /\ \A v \in Works : msg[v] # m
    BY <1>1 DEF HandlePub, Continue
  <2>2. ASSUME NEW u \in Works, NEW v \in Works,
               msg'[u] = msg'[v], msg'[u] # NoMsg, at'[u] # "rsend", at'[v] # "rsend"
        PROVE  u = v
    <3>1. CASE u = w \/ v = w
      BY <2>1, <2>2, <3>1
    <3>2. CASE u # w /\ v # w
      BY <2>1, <2>2, <3>2
    <3> QED
      BY <3>1, <3>2
  <2>3. /\ \A v \in Works : at'[v] \in {"match", "retain"} => \A tp \in Topics : retained'[tp] # msg'[v]
        /\ \A u, v \in Topics : retained'[u] = retained'[v] /\ retained'[u] # NoMsg => u = v
    BY <2>1
  <2>5. ASSUME NEW v \in Works, at'[v] \in {"match", "retain", "wait"}
        PROVE  wire'[msg'[v]] # "torn"
    <3>1. CASE v = w
      BY <2>1, <3>1
    <3>2. CASE v # w
      BY <2>1, <2>5, <3>2
    <3> QED
      BY <3>1, <3>2
  <2>4. ASSUME NEW v \in Works, at'[v] = "send" \/ (at'[v] = "loop" /\ infos'[v] # {})
        PROVE  wire'[msg'[v]] = "topic"
    <3>1. v # w /\ msg[v] \in used
      BY <2>1, <2>4
    <3> QED
      BY <2>1, <2>4, <3>1
  <2> QED
    BY <2>2, <2>3, <2>4, <2>5
<1>2. ASSUME NEW p \in Pipes, NEW F \in Filters, NEW rh \in Options, SubCtxHandle(w, p, F, rh)
      PROVE  OwnerInv'
  BY <1>2 DEF SubCtxHandle
<1> HIDE DEF OwnerInv
<1> QED
  BY <1>1, <1>2 DEF Arrives

LEMMA OwnerHandles ==
  ASSUME TypeOK, OwnerInv, NEW w \in Works, Handles(w)
  PROVE  OwnerInv'
<1> USE PublishAssumption DEF TypeOK, OwnerInv, Moves, Leaves, trees, about, shared, publish, search, sent
<1>1. CASE RetainStores(w)
  <2>1. /\ at[w] = "retain" /\ at' = [at EXCEPT ![w] = "wait"] /\ msg[w] # NoMsg /\ topic[w] \in Topics
        /\ retained' = [retained EXCEPT ![topic[w]] = msg[w]] /\ UNCHANGED <<msg, infos, wire>>
    BY <1>1 DEF RetainStores
  <2>2. \A v \in Works : at'[v] \in {"match", "retain"} => v # w /\ at[v] \in {"match", "retain"} /\ msg[v] # msg[w]
    BY <2>1
  <2>3. \A v \in Works : at'[v] \in {"match", "retain"} => \A t \in Topics : retained'[t] # msg'[v]
    BY <2>1, <2>2
  <2>4. \A t, u \in Topics : retained'[t] = retained'[u] /\ retained'[t] # NoMsg => t = u
    BY <2>1
  <2>5. /\ \A v, u \in Works : msg'[v] = msg'[u] /\ msg'[v] # NoMsg /\ at'[v] # "rsend" /\ at'[u] # "rsend" => v = u
        /\ \A v \in Works : at'[v] \in {"match", "retain", "wait"} => wire'[msg'[v]] # "torn"
        /\ \A v \in Works : at'[v] = "loop" /\ infos'[v] # {} => wire'[msg'[v]] = "topic"
        /\ \A v \in Works : at'[v] = "send" => wire'[msg'[v]] = "topic"
    BY <2>1
  <2> QED
    BY <2>3, <2>4, <2>5
<1>2. CASE RetainClears(w)
  BY <1>2 DEF RetainClears
<1>3. CASE RetainSkips(w)
  BY <1>3 DEF RetainSkips
<1>4. CASE Encode(w)
  BY <1>4 DEF Encode
<1>5. CASE EncodeFails(w)
  <2>1. /\ at[w] = "wait" /\ at' = [at EXCEPT ![w] = "loop"] /\ msg[w] \in Msgs /\ msg[w] # NoMsg
        /\ infos' = [infos EXCEPT ![w] = {}] /\ wire' = [wire EXCEPT ![msg[w]] = "torn"]
        /\ UNCHANGED <<msg, retained>>
    BY <1>5 DEF EncodeFails
  <2>2. \A v \in Works : v # w /\ at[v] # "rsend" /\ msg[v] # NoMsg => msg[v] # msg[w] /\ wire'[msg[v]] = wire[msg[v]]
    BY <2>1
  <2>3. ASSUME NEW v \in Works PROVE at'[v] \in {"match", "retain", "wait"} => wire'[msg'[v]] # "torn"
    BY <2>1, <2>2
  <2>4. ASSUME NEW v \in Works, at'[v] = "send" \/ (at'[v] = "loop" /\ infos'[v] # {})
        PROVE  wire'[msg'[v]] = "topic"
    BY <2>1, <2>2, <2>4
  <2>5. /\ \A v, u \in Works : msg'[v] = msg'[u] /\ msg'[v] # NoMsg /\ at'[v] # "rsend" /\ at'[u] # "rsend" => v = u
        /\ \A v \in Works : at'[v] \in {"match", "retain"} => \A t \in Topics : retained'[t] # msg'[v]
    BY <2>1
  <2> QED
    BY <2>1, <2>3, <2>4, <2>5
<1>6. ASSUME NEW p \in Pipes, SetPipe(w, p) PROVE OwnerInv'
  BY <1>6 DEF SetPipe
<1>7. CASE Send(w)
  BY <1>7 DEF Send
<1>8. CASE FreeMsg(w)
  BY <1>8 DEF FreeMsg
<1>9. CASE FindRetain(w)
  BY <1>9 DEF FindRetain
<1>10. ASSUME NEW m \in Msgs, SetPipeRetained(w, m) PROVE OwnerInv'
  BY <1>10 DEF SetPipeRetained
<1>11. CASE SendRetained(w)
  BY <1>11 DEF SendRetained
<1>12. ASSUME NEW m \in Msgs, StopAtExpired(w, m) PROVE OwnerInv'
  BY <1>12 DEF StopAtExpired
<1>13. CASE SubAck(w)
  BY <1>13 DEF SubAck
<1>14. CASE Match(w)
  BY <1>14 DEF Match, Subscribers
<1> HIDE DEF OwnerInv
<1> QED
  BY <1>1, <1>2, <1>3, <1>4, <1>5, <1>6, <1>7, <1>8, <1>9, <1>10, <1>11, <1>12, <1>13, <1>14 DEF Handles

LEMMA OwnerStep == TypeOK /\ OwnerInv /\ [Next]_vars => OwnerInv'
<1> SUFFICES ASSUME TypeOK, OwnerInv, [Next]_vars PROVE OwnerInv'
  OBVIOUS
<1>1. CASE UNCHANGED vars
  BY <1>1 DEF OwnerInv, vars, trees, about, shared, publish, search, sent
<1> QED
  BY <1>1, OwnerArrives, OwnerHandles DEF Next

LEMMA OwnerInvariant == Spec => []OwnerInv
<1>1. Init => OwnerInv
  BY DEF Init, OwnerInv
<1> QED
  BY <1>1, OwnerStep, TypeCorrect, PTL DEF Spec

\* For any number of items and threads, what WAIT sends to the clients that
\* matched has its topic, not an alias of another client, nor half a header.
\* (A retained message that nobody matched is stored, and later sent to new
\* subscribers, as it came in.)
THEOREM TopicOnTheWire == Spec => []SentWithTopic
<1>1. OwnerInv => SentWithTopic
  BY DEF OwnerInv, SentWithTopic
<1> QED
  BY <1>1, OwnerInvariant, PTL

-----------------------------------------------------------------------------
(* References *)

LEMMA OneLess ==
  ASSUME NEW S, IsFiniteSet(S), NEW x \in S
  PROVE  IsFiniteSet(S \ {x}) /\ Cardinality(S \ {x}) = Cardinality(S) - 1
  BY FS_RemoveElement

LEMMA OneMore ==
  ASSUME NEW S, IsFiniteSet(S), NEW x, x \notin S
  PROVE  Cardinality(S \cup {x}) = Cardinality(S) + 1
  BY FS_AddElement

\* The topics m is the retained message of.
Tree(m) == {t \in Topics : retained[t] = m}

Exact(m) == refs[m] = Cardinality(Tree(m)) + Cardinality(Owners(m)) + Cardinality(Senders(m))

LEMMA Counted ==
  ASSUME NEW m
  PROVE  /\ IsFiniteSet(Tree(m)) /\ IsFiniteSet(Owners(m)) /\ IsFiniteSet(Senders(m))
         /\ Cardinality(Tree(m)) \in Nat /\ Cardinality(Owners(m)) \in Nat /\ Cardinality(Senders(m)) \in Nat
<1>1. Tree(m) \subseteq Topics /\ Owners(m) \subseteq Works /\ Senders(m) \subseteq Works
  BY DEF Tree, Owners, Senders
<1>2. IsFiniteSet(Tree(m)) /\ IsFiniteSet(Owners(m)) /\ IsFiniteSet(Senders(m))
  BY <1>1, FS_Subset, PublishAssumption
<1> QED
  BY <1>2, FS_CardinalityType

LEMMA ExactArrives ==
  ASSUME TypeOK, ReferencesExact, NEW w \in Works, Arrives(w), NEW n \in Msgs
  PROVE  Exact(n)'
<1> USE PublishAssumption DEF TypeOK, Moves, trees, about, shared, publish, search, sent
<1>a. Exact(n)
  BY DEF ReferencesExact, Exact, Tree
<1>1. ASSUME NEW p \in Pipes, NEW m \in Msgs, NEW t \in Topics \cup {NoTopic},
             NEW a \in Aliasing, NEW k \in Kinds, HandlePub(w, p, m, t, a, k)
      PROVE  Exact(n)'
  <2>1. /\ m \notin used /\ retained' = retained /\ msg[w] = NoMsg /\ msg'[w] = m /\ at'[w] \in {"wait", "match"}
        /\ \A v \in Works : v # w => msg'[v] = msg[v] /\ at'[v] = at[v]
        /\ refs' = [refs EXCEPT ![m] = 1]
    BY <1>1 DEF HandlePub, Continue
  <2>2. CASE n = m
    <3>1. Tree(n)' = {} /\ Senders(n)' = {} /\ Owners(n)' = {w}
      BY <2>1, <2>2 DEF Tree, Senders, Owners, Sending
    <3>2. Cardinality({}) = 0 /\ Cardinality({w}) = 1
      BY FS_EmptySet, FS_Singleton
    <3> QED
      BY <2>1, <2>2, <3>1, <3>2 DEF Exact
  <2>3. CASE n # m
    <3>1. Tree(n)' = Tree(n) /\ Senders(n)' = Senders(n) /\ Owners(n)' = Owners(n)
      BY <2>1, <2>3 DEF Tree, Senders, Owners, Sending
    <3> QED
      BY <1>a, <2>1, <2>3, <3>1 DEF Exact
  <2> QED
    BY <2>2, <2>3
<1>2. ASSUME NEW p \in Pipes, NEW F \in Filters, NEW rh \in Options, SubCtxHandle(w, p, F, rh)
      PROVE  Exact(n)'
  <2>1. /\ UNCHANGED <<retained, msg, refs>> /\ msg[w] = NoMsg
        /\ \A v \in Works : v # w => at'[v] = at[v]
    BY <1>2 DEF SubCtxHandle
  <2>2. Tree(n)' = Tree(n) /\ Senders(n)' = Senders(n) /\ Owners(n)' = Owners(n)
    BY <2>1 DEF Tree, Senders, Owners
  <2> QED
    BY <1>a, <2>1, <2>2 DEF Exact
<1> QED
  BY <1>1, <1>2 DEF Arrives

\* handle_pub_retain exchanges the message of a topic and the references with it.
LEMMA ExactRetain ==
  ASSUME TypeOK, OwnerInv, ReferencesExact, NEW w \in Works, RetainStores(w) \/ RetainClears(w), NEW n \in Msgs
  PROVE  Exact(n)'
<1> USE PublishAssumption DEF TypeOK, Moves, about, publish, search, sent
<1>a. Exact(n)
  BY DEF ReferencesExact, Exact, Tree
<1>b. /\ IsFiniteSet(Tree(n)) /\ Cardinality(Tree(n)) \in Nat
      /\ Cardinality(Owners(n)) \in Nat /\ Cardinality(Senders(n)) \in Nat
  BY Counted
<1>1. /\ topic[w] \in Topics /\ at[w] = "retain" /\ at' = [at EXCEPT ![w] = "wait"] /\ msg' = msg
      /\ msg[w] \in Msgs /\ retained[topic[w]] # msg[w]
  BY DEF RetainStores, RetainClears, OwnerInv
<1>2. Owners(n)' = Owners(n) /\ Senders(n)' = Senders(n)
  BY <1>1 DEF Owners, Senders, Sending
<1>3. CASE RetainStores(w) /\ n = msg[w]
  <2>1. refs'[n] = refs[n] + 1 /\ retained' = [retained EXCEPT ![topic[w]] = n]
    BY <1>3 DEF RetainStores
  <2>2. Tree(n)' = Tree(n) \cup {topic[w]} /\ topic[w] \notin Tree(n)
    BY <1>1, <1>3, <2>1 DEF Tree
  <2>3. Cardinality(Tree(n) \cup {topic[w]}) = Cardinality(Tree(n)) + 1
    BY <1>b, <2>2, OneMore
  <2> QED
    BY <1>a, <1>b, <1>2, <2>1, <2>2, <2>3 DEF Exact
<1>4. CASE n = retained[topic[w]]
  <2>1. refs'[n] = refs[n] - 1 /\ \E x : x # n /\ retained' = [retained EXCEPT ![topic[w]] = x]
    BY <1>1, <1>4 DEF RetainStores, RetainClears, Dropped
  <2>2. Tree(n)' = Tree(n) \ {topic[w]} /\ topic[w] \in Tree(n)
    BY <1>1, <1>4, <2>1 DEF Tree
  <2>3. Cardinality(Tree(n) \ {topic[w]}) = Cardinality(Tree(n)) - 1
    BY <1>b, <2>2, OneLess
  <2> QED
    BY <1>a, <1>b, <1>2, <2>1, <2>2, <2>3 DEF Exact
<1>5. CASE n # retained[topic[w]] /\ ~(RetainStores(w) /\ n = msg[w])
  <2>1. refs'[n] = refs[n] /\ \E x : x # n /\ retained' = [retained EXCEPT ![topic[w]] = x]
    BY <1>1, <1>5 DEF RetainStores, RetainClears, Dropped
  <2>2. Tree(n)' = Tree(n)
    BY <1>1, <1>5, <2>1 DEF Tree
  <2> QED
    BY <1>a, <1>2, <2>1, <2>2 DEF Exact
<1> QED
  BY <1>3, <1>4, <1>5

\* A clone for a send, and its end.
LEMMA ExactSends ==
  ASSUME TypeOK, ReferencesExact, NEW w \in Works, NEW n \in Msgs,
         \/ \E p \in Pipes : SetPipe(w, p)
         \/ Send(w)
         \/ \E m \in Msgs : SetPipeRetained(w, m)
         \/ SendRetained(w)
  PROVE  Exact(n)'
<1> USE PublishAssumption DEF TypeOK, Moves, Clone, Dropped, trees, about, publish, search, sent
<1>a. Exact(n)
  BY DEF ReferencesExact, Exact, Tree
<1>b. /\ IsFiniteSet(Senders(n)) /\ Cardinality(Tree(n)) \in Nat
      /\ Cardinality(Owners(n)) \in Nat /\ Cardinality(Senders(n)) \in Nat
  BY Counted
<1>1. CASE (\E p \in Pipes : SetPipe(w, p)) \/ (\E m \in Msgs : SetPipeRetained(w, m))
  <2>1. /\ retained' = retained /\ msg'[w] \in Msgs /\ refs' = [refs EXCEPT ![msg'[w]] = @ + 1]
        /\ at'[w] \in Sending /\ w \notin Senders(n)
        /\ at'[w] = "send" => at[w] = "loop" /\ msg'[w] = msg[w]
        /\ at'[w] # "send" => at'[w] = "rsend" /\ msg[w] = NoMsg
        /\ \A v \in Works : v # w => msg'[v] = msg[v] /\ at'[v] = at[v]
    BY <1>1 DEF SetPipe, SetPipeRetained, Senders, Sending
  <2>2. Tree(n)' = Tree(n) /\ Owners(n)' = Owners(n)
    BY <2>1 DEF Tree, Owners, Sending
  <2>3. CASE n = msg'[w]
    <3>1. Senders(n)' = Senders(n) \cup {w} /\ refs'[n] = refs[n] + 1
      BY <2>1, <2>3 DEF Senders
    <3>2. Cardinality(Senders(n) \cup {w}) = Cardinality(Senders(n)) + 1
      BY <1>b, <2>1, OneMore
    <3> QED
      BY <1>a, <1>b, <2>2, <3>1, <3>2 DEF Exact
  <2>4. CASE n # msg'[w]
    <3>1. Senders(n)' = Senders(n) /\ refs'[n] = refs[n]
      BY <2>1, <2>4 DEF Senders
    <3> QED
      BY <1>a, <2>2, <3>1 DEF Exact
  <2> QED
    BY <2>3, <2>4
<1>2. CASE Send(w) \/ SendRetained(w)
  <2>1. /\ retained' = retained /\ msg[w] \in Msgs /\ refs' = [refs EXCEPT ![msg[w]] = @ - 1]
        /\ at[w] \in Sending /\ at'[w] \notin Sending
        /\ at[w] = "send" => at'[w] = "loop" /\ msg'[w] = msg[w]
        /\ at[w] # "send" => at[w] = "rsend" /\ msg'[w] = NoMsg
        /\ \A v \in Works : v # w => msg'[v] = msg[v] /\ at'[v] = at[v]
    BY <1>2 DEF Send, SendRetained, Sending
  <2>2. Tree(n)' = Tree(n) /\ Owners(n)' = Owners(n)
    BY <2>1 DEF Tree, Owners, Sending
  <2>3. CASE n = msg[w]
    <3>1. Senders(n)' = Senders(n) \ {w} /\ w \in Senders(n) /\ refs'[n] = refs[n] - 1
      BY <2>1, <2>3 DEF Senders
    <3>2. Cardinality(Senders(n) \ {w}) = Cardinality(Senders(n)) - 1
      BY <1>b, <3>1, OneLess
    <3> QED
      BY <1>a, <1>b, <2>2, <3>1, <3>2 DEF Exact
  <2>4. CASE n # msg[w]
    <3>1. Senders(n)' = Senders(n) /\ refs'[n] = refs[n]
      BY <2>1, <2>4 DEF Senders
    <3> QED
      BY <1>a, <2>2, <3>1 DEF Exact
  <2> QED
    BY <2>3, <2>4
<1> QED
  BY <1>1, <1>2

LEMMA ExactFree ==
  ASSUME TypeOK, ReferencesExact, NEW w \in Works, NEW n \in Msgs, FreeMsg(w)
  PROVE  Exact(n)'
<1> USE PublishAssumption DEF TypeOK, Moves, Leaves, Dropped, trees, about, publish, search, sent
<1>a. Exact(n)
  BY DEF ReferencesExact, Exact, Tree
<1>b. /\ IsFiniteSet(Owners(n)) /\ Cardinality(Tree(n)) \in Nat
      /\ Cardinality(Owners(n)) \in Nat /\ Cardinality(Senders(n)) \in Nat
  BY Counted
<1>1. /\ retained' = retained /\ msg[w] \in Msgs /\ refs' = [refs EXCEPT ![msg[w]] = @ - 1]
      /\ at[w] = "loop" /\ at'[w] = "idle" /\ msg'[w] = NoMsg
      /\ \A v \in Works : v # w => msg'[v] = msg[v] /\ at'[v] = at[v]
  BY DEF FreeMsg
<1>2. Tree(n)' = Tree(n) /\ Senders(n)' = Senders(n)
  BY <1>1 DEF Tree, Senders, Sending
<1>3. CASE n = msg[w]
  <2>1. Owners(n)' = Owners(n) \ {w} /\ w \in Owners(n) /\ refs'[n] = refs[n] - 1
    BY <1>1, <1>3 DEF Owners
  <2>2. Cardinality(Owners(n) \ {w}) = Cardinality(Owners(n)) - 1
    BY <1>b, <2>1, OneLess
  <2> QED
    BY <1>a, <1>b, <1>2, <2>1, <2>2 DEF Exact
<1>4. CASE n # msg[w]
  <2>1. Owners(n)' = Owners(n) /\ refs'[n] = refs[n]
    BY <1>1, <1>4 DEF Owners
  <2> QED
    BY <1>a, <1>2, <2>1 DEF Exact
<1> QED
  BY <1>3, <1>4

LEMMA ExactHandles ==
  ASSUME TypeOK, OwnerInv, ReferencesExact, NEW w \in Works, Handles(w), NEW n \in Msgs
  PROVE  Exact(n)'
<1>1. CASE \/ Match(w) \/ RetainSkips(w) \/ Encode(w) \/ EncodeFails(w) \/ FindRetain(w)
           \/ (\E m \in Msgs : StopAtExpired(w, m)) \/ SubAck(w)
  <2> USE DEF TypeOK, Moves, Leaves, trees, about, shared, publish, search, sent
  <2>1. /\ UNCHANGED <<retained, msg, refs>> /\ at[w] \notin Sending /\ at'[w] \notin Sending
        /\ \A v \in Works : v # w => at'[v] = at[v]
    BY <1>1 DEF Match, RetainSkips, Encode, EncodeFails, FindRetain, StopAtExpired, SubAck, Sending
  <2>2. Tree(n)' = Tree(n) /\ Senders(n)' = Senders(n) /\ Owners(n)' = Owners(n)
    BY <2>1 DEF Tree, Senders, Owners, Sending
  <2> QED
    BY <2>1, <2>2 DEF ReferencesExact, Exact, Tree
<1> QED
  BY <1>1, ExactRetain, ExactSends, ExactFree DEF Handles

LEMMA ReferencesInvariant == Spec => [](TypeOK /\ OwnerInv /\ ReferencesExact)
<1>1. Init => ReferencesExact
  <2> SUFFICES ASSUME Init, NEW m \in Msgs PROVE Exact(m)
    BY DEF ReferencesExact, Exact, Tree
  <2>1. Tree(m) = {} /\ Owners(m) = {} /\ Senders(m) = {}
    BY PublishAssumption DEF Init, Tree, Owners, Senders
  <2> QED
    BY <2>1, FS_EmptySet DEF Init, Exact
<1>2. TypeOK /\ OwnerInv /\ ReferencesExact /\ [Next]_vars => ReferencesExact'
  <2> SUFFICES ASSUME TypeOK, OwnerInv, ReferencesExact, [Next]_vars, NEW n \in Msgs PROVE Exact(n)'
    BY DEF ReferencesExact, Exact, Tree
  <2>1. CASE UNCHANGED vars
    BY <2>1 DEF vars, trees, shared, ReferencesExact, Exact, Tree, Owners, Senders
  <2> QED
    BY <2>1, ExactArrives, ExactHandles DEF Next
<1> QED
  BY <1>1, <1>2, TypeCorrect, OwnerInvariant, PTL DEF Spec

\* No reference to a message leaks or is given up twice, however many callbacks
\* publish, retain and send it at the same time.
THEOREM ReferencesKept == Spec => []ReferencesExact
  BY ReferencesInvariant, PTL

-----------------------------------------------------------------------------
(* Termination *)

\* A SUBSCRIBE collects at most one message per topic of its filter.
LEMMA CollectsNoMoreThanTopics ==
  ASSUME TypeOK, NEW w \in Works
  PROVE  LET R == {retained[t] : t \in filter[w]} \ {NoMsg}
         IN  IsFiniteSet(R) /\ Cardinality(R) <= Cardinality(filter[w]) /\ IsFiniteSet(filter[w])
<1> DEFINE R == {retained[t] : t \in filter[w]} \ {NoMsg}
           G == {t \in filter[w] : retained[t] # NoMsg}
           f == [t \in G |-> retained[t]]
<1>1. IsFiniteSet(filter[w])
  BY FS_Subset, PublishAssumption DEF TypeOK
<1>2. IsFiniteSet(G) /\ Cardinality(G) <= Cardinality(filter[w])
  BY <1>1, FS_Subset
<1>3. f \in Surjection(G, R)
  BY DEF Surjection
<1>4. IsFiniteSet(R) /\ Cardinality(R) <= Cardinality(G)
  BY <1>2, <1>3, FS_Surjection DEF ExistsSurjection
<1>5. Cardinality(R) \in Nat /\ Cardinality(G) \in Nat /\ Cardinality(filter[w]) \in Nat
  BY <1>1, <1>2, <1>4, FS_CardinalityType
<1> HIDE DEF R, G
<1>6. Cardinality(R) <= Cardinality(filter[w])
  BY <1>2, <1>4, <1>5
<1> QED
  BY <1>1, <1>4, <1>6 DEF R

\* What a SUBSCRIBE has collected is finite.
FiniteLists == \A w \in Works : IsFiniteSet(list[w])

\* The other items do not touch what w still has to do.
Untouched(w) == UNCHANGED <<at[w], infos[w], filter[w], list[w]>>

LEMMA Descends ==
  ASSUME TypeOK, FiniteLists, NEW w \in Works, Handles(w)
  PROVE  /\ StepsLeft(w)' < StepsLeft(w)
         /\ FiniteLists'
         /\ \A v \in Works \ {w} : Untouched(v)
<1> USE DEF TypeOK, FiniteLists, Moves, Leaves, Untouched, StepsLeft, publish, search, sent
<1>a. /\ IsFiniteSet(infos[w]) /\ Cardinality(infos[w]) \in Nat
      /\ Cardinality(list[w]) \in Nat /\ Cardinality(filter[w]) \in Nat
      /\ Cardinality({}) = 0 /\ IsFiniteSet({})
  <2>1. infos[w] \in SUBSET Pipes /\ filter[w] \in SUBSET Topics
    OBVIOUS
  <2> QED
    BY <2>1, FS_Subset, FS_CardinalityType, FS_EmptySet, PublishAssumption
<1>1. CASE RetainStores(w)
  BY <1>1, <1>a DEF RetainStores
<1>2. CASE RetainClears(w)
  BY <1>2, <1>a DEF RetainClears
<1>3. CASE RetainSkips(w)
  BY <1>3, <1>a DEF RetainSkips
<1>4. CASE Encode(w)
  BY <1>4, <1>a DEF Encode
<1>5. CASE EncodeFails(w)
  <2>1. Cardinality(infos[w]) # 0
    BY <1>5, <1>a, FS_EmptySet DEF EncodeFails
  <2> QED
    BY <1>5, <1>a, <2>1 DEF EncodeFails
<1>6. ASSUME NEW p \in Pipes, SetPipe(w, p)
      PROVE  StepsLeft(w)' < StepsLeft(w) /\ FiniteLists' /\ \A v \in Works \ {w} : Untouched(v)
  <2>1. Cardinality(infos[w] \ {p}) = Cardinality(infos[w]) - 1
    <3>1. p \in infos[w]
      BY <1>6 DEF SetPipe
    <3> QED
      BY <1>a, <3>1, OneLess
  <2> QED
    BY <1>6, <1>a, <2>1 DEF SetPipe
<1>7. CASE Send(w)
  BY <1>7, <1>a DEF Send
<1>8. CASE FreeMsg(w)
  BY <1>8, <1>a DEF FreeMsg
<1>9. CASE FindRetain(w)
  <2>1. LET R == {retained[t] : t \in filter[w]} \ {NoMsg}
        IN  IsFiniteSet(R) /\ Cardinality(R) <= Cardinality(filter[w]) /\ Cardinality(R) \in Nat
    BY CollectsNoMoreThanTopics, FS_CardinalityType
  <2>2. list'[w] = {retained[t] : t \in filter[w]} \ {NoMsg}
    BY <1>9 DEF FindRetain
  <2>3. IsFiniteSet(list'[w]) /\ Cardinality(list'[w]) <= Cardinality(filter[w]) /\ Cardinality(list'[w]) \in Nat
    BY <2>1, <2>2
  <2>4. /\ at[w] = "find" /\ at'[w] = "rloop"
        /\ \A v \in Works \ {w} : Untouched(v)
    BY <1>9 DEF FindRetain
  <2> QED
    BY <1>a, <2>3, <2>4
<1>10. ASSUME NEW m \in Msgs, SetPipeRetained(w, m)
       PROVE  StepsLeft(w)' < StepsLeft(w) /\ FiniteLists' /\ \A v \in Works \ {w} : Untouched(v)
  <2>1. Cardinality(list[w] \ {m}) = Cardinality(list[w]) - 1 /\ IsFiniteSet(list[w] \ {m})
    <3>1. m \in list[w] /\ IsFiniteSet(list[w])
      BY <1>10 DEF SetPipeRetained
    <3> QED
      BY <3>1, OneLess
  <2>2. /\ at[w] = "rloop" /\ at'[w] = "rsend" /\ list'[w] = list[w] \ {m}
        /\ \A v \in Works \ {w} : Untouched(v)
    BY <1>10 DEF SetPipeRetained
  <2>3. StepsLeft(w) = 2 * Cardinality(list[w]) + 1 /\ StepsLeft(w)' = 2 * Cardinality(list'[w]) + 2
    BY <2>2
  <2>4. StepsLeft(w)' < StepsLeft(w)
    BY <1>a, <2>1, <2>2, <2>3
  <2> QED
    BY <2>1, <2>2, <2>4
<1>11. CASE SendRetained(w)
  BY <1>11, <1>a DEF SendRetained
<1>12. ASSUME NEW m \in Msgs, StopAtExpired(w, m)
       PROVE  StepsLeft(w)' < StepsLeft(w) /\ FiniteLists' /\ \A v \in Works \ {w} : Untouched(v)
  <2>1. Cardinality(list[w]) # 0
    BY <1>12, <1>a, FS_EmptySet DEF StopAtExpired
  <2> QED
    BY <1>12, <1>a, <2>1 DEF StopAtExpired
<1>13. CASE SubAck(w)
  BY <1>13, <1>a DEF SubAck
<1>14. CASE Match(w)
  <2>1. infos'[w] \subseteq Pipes
    BY <1>14 DEF Match, Subscribers
  <2>2. Cardinality(infos'[w]) \in Nat /\ Cardinality(Pipes) \in Nat /\ Cardinality(infos'[w]) <= Cardinality(Pipes)
    BY <2>1, FS_Subset, FS_CardinalityType, PublishAssumption
  <2>3. at[w] = "match" /\ at'[w] = "retain" /\ list' = list /\ \A v \in Works \ {w} : Untouched(v)
    BY <1>14 DEF Match
  <2> QED
    BY <2>2, <2>3
<1> HIDE DEF TypeOK, FiniteLists, Untouched, StepsLeft
<1> QED
  BY <1>1, <1>2, <1>3, <1>4, <1>5, <1>6, <1>7, <1>8, <1>9, <1>10, <1>11, <1>12, <1>13, <1>14 DEF Handles

LEMMA ArrivesAtIdle ==
  ASSUME TypeOK, NEW w \in Works, Arrives(w)
  PROVE  at[w] = "idle" /\ list' = list /\ \A v \in Works \ {w} : Untouched(v)
<1> USE DEF TypeOK, Moves, Untouched, search, sent, publish
<1>1. ASSUME NEW p \in Pipes, NEW m \in Msgs, NEW t \in Topics \cup {NoTopic},
             NEW a \in Aliasing, NEW k \in Kinds, HandlePub(w, p, m, t, a, k)
      PROVE  at[w] = "idle" /\ list' = list /\ \A v \in Works \ {w} : Untouched(v)
  BY <1>1 DEF HandlePub
<1>2. ASSUME NEW p \in Pipes, NEW F \in Filters, NEW rh \in Options, SubCtxHandle(w, p, F, rh)
      PROVE  at[w] = "idle" /\ list' = list /\ \A v \in Works \ {w} : Untouched(v)
  BY <1>2 DEF SubCtxHandle
<1> HIDE DEF TypeOK, Untouched
<1> QED
  BY <1>1, <1>2 DEF Arrives

\* For any number of topics and clients, the handling of a packet is a bounded
\* number of steps: no loop of handle_pub, of WAIT or over msg_ret can run on.
THEOREM PacketsAreFinished == Spec => HandlingTerminates
<1> DEFINE Nearer == \A w \in Works : at[w] # "idle" =>
                         StepsLeft(w)' < StepsLeft(w) \/ UNCHANGED <<at[w], infos[w], filter[w], list[w]>>
<1>1. Init => FiniteLists
  BY FS_EmptySet DEF Init, FiniteLists
<1>2. TypeOK /\ FiniteLists /\ [Next]_vars => FiniteLists' /\ Nearer
  <2> SUFFICES ASSUME TypeOK, FiniteLists, [Next]_vars PROVE FiniteLists' /\ Nearer
    OBVIOUS
  <2>1. ASSUME NEW w \in Works, Arrives(w) PROVE FiniteLists' /\ Nearer
    BY <2>1, ArrivesAtIdle DEF FiniteLists, Untouched
  <2>2. ASSUME NEW w \in Works, Handles(w) PROVE FiniteLists' /\ Nearer
    BY <2>2, Descends DEF Untouched
  <2>3. CASE UNCHANGED vars
    BY <2>3 DEF vars, FiniteLists, search, sent, publish
  <2> HIDE DEF Nearer
  <2> QED
    BY <2>1, <2>2, <2>3 DEF Next
<1> HIDE DEF Nearer
<1>3. Spec => [][Nearer]_vars
  BY <1>1, <1>2, TypeCorrect, PTL DEF Spec
<1> QED
  BY <1>3 DEF HandlingTerminates, Nearer

-----------------------------------------------------------------------------
(* No retained message is missed *)

\* Client p was sent m, was kept from it, or will be sent it.
Served(p, m) == <<p, m>> \in got \cup lost \/ \E w \in Works : Pending(w, p, m)

\* The subscriptions NoRetainedMissed is about, for a message that is retained.
Asks(p, F, t) ==
    /\ sub[<<p, F>>] = 0 /\ retained[t] # NoMsg /\ wire[retained[t]] # "torn"

\* Item w is about to look for the retained message of topic t for client p.
Looks(w, p, t) == at[w] = "find" /\ pid[w] = p /\ t \in filter[w]

\* A message that is matched but not stored yet: every client that asks for it
\* was matched, is still to look for it, or has looked too early.
MatchedInv ==
    \A v \in Works, p \in Pipes, F \in Filters :
        at[v] = "retain" /\ topic[v] \in F /\ sub[<<p, F>>] = 0
            => \/ p \in infos[v] \/ <<p, msg[v]>> \in lost
               \/ \E w \in Works : Looks(w, p, topic[v])

LEMMA MissedIs ==
  NoRetainedMissed <=>
      \A p \in Pipes, F \in Filters : \A t \in F : Asks(p, F, t) => Served(p, retained[t])
  BY DEF NoRetainedMissed, Asks, Served

\* A packet that arrives touches no other item, no tree but the one it is for,
\* and no message that is known.
LEMMA ArrivesKeeps ==
  ASSUME TypeOK, NEW w \in Works, Arrives(w)
  PROVE  /\ UNCHANGED <<retained, got, lost>> /\ at[w] = "idle" /\ at'[w] \in {"match", "wait", "find"}
         /\ \A n \in used : wire'[n] = wire[n]
         /\ \A v \in Works \ {w} : /\ UNCHANGED <<at[v], pid[v], msg[v], topic[v], infos[v], filter[v], list[v]>>
         /\ \/ sub' = sub
            \/ \E p \in Pipes, F \in Filters, rh \in Options :
                  /\ sub' = [sub EXCEPT ![<<p, F>>] = rh]
                  /\ rh = 0 => at'[w] = "find" /\ pid'[w] = p /\ filter'[w] = F
<1> USE PublishAssumption DEF TypeOK, Moves, trees, about, shared, publish, search, sent
<1>1. ASSUME NEW q \in Pipes, NEW n \in Msgs, NEW tp \in Topics \cup {NoTopic},
             NEW a \in Aliasing, NEW k \in Kinds, HandlePub(w, q, n, tp, a, k)
      PROVE  /\ UNCHANGED <<retained, got, lost, sub>> /\ at[w] = "idle" /\ at'[w] \in {"match", "wait", "find"}
             /\ \A x \in used : wire'[x] = wire[x]
             /\ \A v \in Works \ {w} :
                    UNCHANGED <<at[v], pid[v], msg[v], topic[v], infos[v], filter[v], list[v]>>
  BY <1>1 DEF HandlePub, Continue
<1>2. ASSUME NEW q \in Pipes, NEW G \in Filters, NEW rh \in Options, SubCtxHandle(w, q, G, rh)
      PROVE  /\ UNCHANGED <<retained, got, lost, wire>> /\ at[w] = "idle" /\ at'[w] \in {"match", "wait", "find"}
             /\ \A v \in Works \ {w} :
                    UNCHANGED <<at[v], pid[v], msg[v], topic[v], infos[v], filter[v], list[v]>>
             /\ sub' = [sub EXCEPT ![<<q, G>>] = rh]
             /\ rh = 0 => at'[w] = "find" /\ pid'[w] = q /\ filter'[w] = G
  BY <1>2 DEF SubCtxHandle
<1>3. ASSUME NEW q \in Pipes, NEW G \in Filters, NEW rh \in Options, SubCtxHandle(w, q, G, rh)
      PROVE  \E p \in Pipes, F \in Filters, r \in Options :
                  /\ sub' = [sub EXCEPT ![<<p, F>>] = r]
                  /\ r = 0 => at'[w] = "find" /\ pid'[w] = p /\ filter'[w] = F
  <2>1. /\ sub' = [sub EXCEPT ![<<q, G>>] = rh]
        /\ rh = 0 => at'[w] = "find" /\ pid'[w] = q /\ filter'[w] = G
    BY <1>2, <1>3
  <2> WITNESS q \in Pipes, G \in Filters, rh \in Options
  <2> QED
    BY <2>1, Zenon
<1> HIDE DEF TypeOK, Moves, trees, about, shared, publish, search, sent
<1>4. CASE \E q \in Pipes, n \in Msgs, tp \in Topics \cup {NoTopic}, a \in Aliasing, k \in Kinds :
               HandlePub(w, q, n, tp, a, k)
  BY <1>1, <1>4
<1>5. CASE \E q \in Pipes, G \in Filters, rh \in Options : SubCtxHandle(w, q, G, rh)
  BY <1>2, <1>3, <1>5
<1> QED
  BY <1>4, <1>5 DEF Arrives

\* A callback touches no other item.
LEMMA HandlesKeeps ==
  ASSUME TypeOK, NEW w \in Works, Handles(w)
  PROVE  /\ sub' = sub /\ got \subseteq got' /\ lost \subseteq lost'
         /\ \A v \in Works \ {w} : UNCHANGED <<at[v], pid[v], msg[v], topic[v], infos[v], filter[v], list[v]>>
<1> USE DEF TypeOK, Moves, Leaves, Delivers, trees, about, shared, publish, search, sent
<1>1. CASE Match(w) \/ RetainStores(w) \/ RetainClears(w) \/ RetainSkips(w)
  BY <1>1 DEF Match, RetainStores, RetainClears, RetainSkips
<1>2. CASE Encode(w) \/ EncodeFails(w) \/ (\E p \in Pipes : SetPipe(w, p)) \/ FreeMsg(w)
  BY <1>2 DEF Encode, EncodeFails, SetPipe, FreeMsg
<1>3. CASE Send(w) \/ SendRetained(w)
  BY <1>3 DEF Send, SendRetained
<1>4. CASE FindRetain(w) \/ (\E m \in Msgs : SetPipeRetained(w, m)) \/ SubAck(w)
  BY <1>4 DEF FindRetain, SetPipeRetained, SubAck
<1>5. ASSUME NEW m \in Msgs, StopAtExpired(w, m)
      PROVE  /\ sub' = sub /\ got \subseteq got' /\ lost \subseteq lost'
             /\ \A v \in Works \ {w} : UNCHANGED <<at[v], pid[v], msg[v], topic[v], infos[v], filter[v], list[v]>>
  BY <1>5 DEF StopAtExpired
<1> QED
  BY <1>1, <1>2, <1>3, <1>4, <1>5 DEF Handles

LEMMA MatchedStep ==
  ASSUME TypeOK, MatchedInv, [Next]_vars
  PROVE  MatchedInv'
<1> SUFFICES ASSUME NEW v \in Works, NEW p \in Pipes, NEW F \in Filters,
                    at'[v] = "retain", topic'[v] \in F, sub'[<<p, F>>] = 0
             PROVE  \/ p \in infos'[v] \/ <<p, msg'[v]>> \in lost'
                    \/ \E w \in Works : Looks(w, p, topic[v])'
  BY DEF MatchedInv
<1>1. ASSUME NEW w \in Works, Arrives(w)
      PROVE  p \in infos'[v] \/ <<p, msg'[v]>> \in lost' \/ \E u \in Works : Looks(u, p, topic[v])'
  <2>1. v # w /\ at[v] = "retain" /\ UNCHANGED <<msg[v], topic[v], infos[v], lost>>
    BY <1>1, ArrivesKeeps
  <2>2. CASE sub[<<p, F>>] = 0
    <3>1. \A u \in Works : Looks(u, p, topic[v]) => Looks(u, p, topic[v])'
      BY <1>1, <2>1, ArrivesKeeps DEF Looks
    <3> QED
      BY <2>1, <2>2, <3>1 DEF MatchedInv
  <2>3. CASE sub[<<p, F>>] # 0
    <3>1. PICK q \in Pipes, G \in Filters, rh \in Options :
              /\ sub' = [sub EXCEPT ![<<q, G>>] = rh]
              /\ rh = 0 => at'[w] = "find" /\ pid'[w] = q /\ filter'[w] = G
      BY <1>1, <2>3, ArrivesKeeps
    <3>2. q = p /\ G = F /\ rh = 0
      BY <2>3, <3>1 DEF TypeOK
    <3> QED
      BY <2>1, <3>1, <3>2 DEF Looks
  <2> QED
    BY <2>2, <2>3
<1>2. ASSUME NEW w \in Works, Handles(w)
      PROVE  p \in infos'[v] \/ <<p, msg'[v]>> \in lost' \/ \E u \in Works : Looks(u, p, topic[v])'
  <2> USE DEF TypeOK, Moves, Leaves
  <2>a. sub' = sub /\ lost \subseteq lost'
    BY <1>2, HandlesKeeps
  <2>1. CASE v = w
    <3>1. Match(w)
      BY <1>2, <2>1 DEF Handles, RetainStores, RetainClears, RetainSkips, Encode, EncodeFails, SetPipe, Send,
                FreeMsg, FindRetain, SetPipeRetained, SendRetained, StopAtExpired, SubAck
    <3>2. infos'[v] = Subscribers(topic[v]) /\ topic'[v] = topic[v]
      BY <2>1, <3>1 DEF Match
    <3>3. topic[v] \in F /\ sub[<<p, F>>] # NoSub
      BY <2>a, <3>2 DEF NoSub
    <3>4. p \in Subscribers(topic[v])
      BY <3>3 DEF Subscribers
    <3> QED
      BY <3>2, <3>4
  <2>2. CASE v # w
    <3>1. at[v] = "retain" /\ UNCHANGED <<msg[v], topic[v], infos[v]>>
      BY <1>2, <2>2, HandlesKeeps
    <3>2. CASE p \in infos[v] \/ <<p, msg[v]>> \in lost
      BY <2>a, <3>1, <3>2
    <3>3. ASSUME NEW u \in Works, Looks(u, p, topic[v]), p \notin infos[v]
          PROVE  <<p, msg'[v]>> \in lost' \/ Looks(u, p, topic[v])'
      <4>1. CASE u # w
        BY <1>2, <3>1, <3>3, <4>1, HandlesKeeps DEF Looks
      <4>2. CASE u = w
        <5>1. FindRetain(w)
          BY <1>2, <3>3, <4>2 DEF Looks, Handles, Match, RetainStores, RetainClears, RetainSkips, Encode,
                EncodeFails, SetPipe, Send, FreeMsg, SetPipeRetained, SendRetained, StopAtExpired, SubAck
        <5>2. msg[v] \in Between(w) /\ pid[w] = p
          BY <3>1, <3>3, <4>2 DEF Between, Looks
        <5> QED
          BY <3>1, <5>1, <5>2 DEF FindRetain
      <4> QED
        BY <4>1, <4>2
    <3> QED
      BY <2>a, <3>1, <3>2, <3>3 DEF MatchedInv
  <2> QED
    BY <2>1, <2>2
<1>3. CASE UNCHANGED vars
  BY <1>3 DEF vars, trees, publish, search, sent, MatchedInv, Looks
<1> QED
  BY <1>1, <1>2, <1>3 DEF Next

\* A step of a callback sends what it takes off its lists, to whom it belongs
\* or with a note that it was lost; only a message that cannot be encoded is
\* sent to nobody.
LEMMA KeepsServing ==
  ASSUME TypeOK, OwnerInv, NEW w \in Works, Handles(w), NEW p \in Pipes, NEW t \in Topics, NEW m \in Msgs,
         retained[t] = m, retained'[t] = m, Served(p, m), EncodeFails(w) => m # msg[w]
  PROVE  Served(p, m)'
<1> USE PublishAssumption DEF TypeOK, Moves, Leaves, trees, about, shared, publish, search, sent
<1>1. CASE <<p, m>> \in got \cup lost
  BY <1>1, HandlesKeeps DEF Served
<1>2. ASSUME NEW v \in Works, v # w, Pending(v, p, m) PROVE Served(p, m)'
  <2>1. UNCHANGED <<at[v], pid[v], msg[v], infos[v], filter[v], list[v]>>
    BY <1>2, HandlesKeeps
  <2>2. ASSUME NEW u \in filter[v], retained[u] = m PROVE t \in filter[v]
    BY <2>2 DEF OwnerInv
  <2>3. Pending(v, p, m)'
    BY <1>2, <2>1, <2>2 DEF Pending, Sending
  <2> QED
    BY <2>3 DEF Served
<1>3. CASE Pending(w, p, m)
  <2>1. SUFFICES Pending(w, p, m)' \/ <<p, m>> \in got' \cup lost'
    BY DEF Served
  <2>2. CASE Match(w) \/ RetainStores(w) \/ RetainClears(w) \/ RetainSkips(w) \/ Encode(w)
    BY <1>3, <2>2 DEF Match, RetainStores, RetainClears, RetainSkips, Encode, Pending, Sending
  <2>3. CASE EncodeFails(w)
    BY <1>3, <2>3 DEF EncodeFails, Pending, Sending
  <2>4. ASSUME NEW q \in Pipes, SetPipe(w, q) PROVE Pending(w, p, m)'
    BY <1>3, <2>4 DEF SetPipe, Pending, Sending
  <2>5. CASE Send(w)
    <3>1. at[w] = "send" /\ at'[w] = "loop" /\ UNCHANGED <<msg, infos>> /\ Delivers(w)
      BY <2>5 DEF Send
    <3>2. CASE p \in infos[w] /\ msg[w] = m
      BY <3>1, <3>2 DEF Pending
    <3>3. CASE pid[w] = p /\ msg[w] = m
      BY <3>1, <3>3 DEF Delivers
    <3> QED
      BY <1>3, <3>1, <3>2, <3>3 DEF Pending
  <2>6. CASE FreeMsg(w)
    BY <1>3, <2>6 DEF FreeMsg, Pending, Sending
  <2>7. CASE FindRetain(w)
    BY <1>3, <2>7 DEF FindRetain, Pending, Sending
  <2>8. ASSUME NEW n \in Msgs, SetPipeRetained(w, n) PROVE Pending(w, p, m)'
    BY <1>3, <2>8 DEF SetPipeRetained, Pending, Sending
  <2>9. CASE SendRetained(w)
    <3>1. at[w] = "rsend" /\ at'[w] = "rloop" /\ UNCHANGED <<pid, list>> /\ Delivers(w)
      BY <2>9 DEF SendRetained
    <3>2. CASE m \in list[w] /\ pid[w] = p
      BY <3>1, <3>2 DEF Pending
    <3>3. CASE pid[w] = p /\ msg[w] = m
      BY <3>1, <3>3 DEF Delivers
    <3> QED
      BY <1>3, <3>1, <3>2, <3>3 DEF Pending
  <2>10. ASSUME NEW n \in Msgs, StopAtExpired(w, n) PROVE <<p, m>> \in lost'
    <3>1. at[w] = "rloop" /\ lost' = lost \cup ({pid[w]} \X list[w])
      BY <2>10 DEF StopAtExpired
    <3>2. pid[w] = p /\ m \in list[w]
      BY <1>3, <3>1 DEF Pending, Sending
    <3> QED
      BY <3>1, <3>2
  <2>11. CASE SubAck(w)
    BY <1>3, <2>11 DEF SubAck, Pending, Sending
  <2> QED
    BY <2>2, <2>3, <2>4, <2>5, <2>6, <2>7, <2>8, <2>9, <2>10, <2>11 DEF Handles
<1> QED
  BY <1>1, <1>2, <1>3 DEF Served

LEMMA MissedArrives ==
  ASSUME TypeOK, NoRetainedMissed, NEW w \in Works, Arrives(w),
         NEW p \in Pipes, NEW F \in Filters, NEW t \in F, Asks(p, F, t)',
         NEW m, m = retained'[t]
  PROVE  Served(p, m)'
<1>a. t \in Topics /\ m \in used /\ retained[t] = m /\ wire[m] # "torn"
  BY ArrivesKeeps, PublishAssumption DEF Asks, TypeOK
<1>1. CASE sub[<<p, F>>] = 0
  <2>1. Served(p, m)
    BY <1>a, <1>1, MissedIs DEF Asks, TypeOK
  <2>2. CASE <<p, m>> \in got \cup lost
    BY <2>2, ArrivesKeeps DEF Served
  <2>3. ASSUME NEW v \in Works, Pending(v, p, m) PROVE Served(p, m)'
    <3>1. v # w /\ UNCHANGED <<at[v], pid[v], msg[v], infos[v], filter[v], list[v], retained>>
      BY <2>3, ArrivesKeeps DEF Pending, Sending
    <3>2. Pending(v, p, m)'
      BY <2>3, <3>1 DEF Pending
    <3> QED
      BY <3>2 DEF Served
  <2> QED
    BY <2>1, <2>2, <2>3 DEF Served
<1>2. CASE sub[<<p, F>>] # 0
  <2>1. PICK q \in Pipes, G \in Filters, rh \in Options :
            /\ sub' = [sub EXCEPT ![<<q, G>>] = rh]
            /\ rh = 0 => at'[w] = "find" /\ pid'[w] = q /\ filter'[w] = G
    BY <1>2, ArrivesKeeps DEF Asks
  <2>2. q = p /\ G = F /\ rh = 0
    BY <1>2, <2>1 DEF Asks, TypeOK
  <2>3. at'[w] = "find" /\ pid'[w] = p /\ t \in filter'[w] /\ retained'[t] = m
    BY <2>1, <2>2
  <2>4. Pending(w, p, m)'
    BY <2>3 DEF Pending
  <2> QED
    BY <2>4 DEF Served
<1> QED
  BY <1>1, <1>2

LEMMA MissedHandles ==
  ASSUME TypeOK, OwnerInv, MatchedInv, NoRetainedMissed, NEW w \in Works, Handles(w),
         NEW p \in Pipes, NEW F \in Filters, NEW t \in F, Asks(p, F, t)',
         NEW m, m = retained'[t]
  PROVE  Served(p, m)'
<1> USE PublishAssumption DEF TypeOK, Moves, Leaves, trees, about, shared, publish, search, sent
<1>a. t \in Topics /\ sub' = sub /\ sub[<<p, F>>] = 0
  BY HandlesKeeps DEF Asks
<1>b. ASSUME retained'[t] = retained[t], wire[m] # "torn", EncodeFails(w) => m # msg[w]
      PROVE  Served(p, m)'
  <2>1. Asks(p, F, t) /\ m \in Msgs
    BY <1>a, <1>b DEF Asks
  <2>2. Served(p, m)
    BY <1>a, <1>b, <2>1, MissedIs
  <2> QED
    BY <1>a, <1>b, <2>1, <2>2, KeepsServing
<1>1. CASE RetainStores(w)
  <2>1. /\ wire' = wire /\ at[w] = "retain" /\ at'[w] = "wait" /\ ~EncodeFails(w)
        /\ retained' = [retained EXCEPT ![topic[w]] = msg[w]] /\ UNCHANGED <<msg, infos, lost>>
    BY <1>1 DEF RetainStores, EncodeFails
  <2>2. CASE t = topic[w]
    <3>1. p \in infos[w] \/ <<p, msg[w]>> \in lost \/ \E u \in Works : Looks(u, p, t)
      BY <1>a, <2>1, <2>2 DEF MatchedInv
    <3>2. m = msg[w] /\ msg'[w] = m
      BY <1>a, <2>1, <2>2
    <3>3. CASE p \in infos[w]
      <4>1. Pending(w, p, m)'
        BY <2>1, <3>2, <3>3 DEF Pending
      <4> QED
        BY <4>1 DEF Served
    <3>4. CASE <<p, msg[w]>> \in lost
      BY <2>1, <3>2, <3>4 DEF Served
    <3>5. ASSUME NEW u \in Works, Looks(u, p, t) PROVE Served(p, m)'
      <4>1. u # w /\ UNCHANGED <<at[u], pid[u], filter[u]>>
        BY <2>1, <3>5, HandlesKeeps DEF Looks
      <4>2. Pending(u, p, m)'
        BY <3>5, <4>1 DEF Looks, Pending
      <4> QED
        BY <4>2 DEF Served
    <3> QED
      BY <3>1, <3>3, <3>4, <3>5
  <2>3. CASE t # topic[w]
    <3>1. retained'[t] = retained[t] /\ wire[m] # "torn"
      BY <1>a, <2>1, <2>3 DEF Asks
    <3> QED
      BY <1>b, <2>1, <3>1
  <2> QED
    BY <2>2, <2>3
<1>2. CASE RetainClears(w)
  <2>1. wire' = wire /\ ~EncodeFails(w) /\ retained' = [retained EXCEPT ![topic[w]] = NoMsg]
    BY <1>2 DEF RetainClears, EncodeFails
  <2>2. retained'[t] = retained[t] /\ wire[m] # "torn"
    BY <1>a, <2>1 DEF Asks
  <2> QED
    BY <1>b, <2>1, <2>2
<1>3. CASE Encode(w) /\ ~EncodeFails(w)
  <2>1. /\ retained' = retained /\ at[w] = "wait"
        /\ wire' = IF infos[w] = {} THEN wire ELSE [wire EXCEPT ![msg[w]] = "topic"]
    BY <1>3 DEF Encode
  <2>2. m = msg[w] => wire[m] # "torn"
    BY <2>1 DEF OwnerInv
  <2>3. m # msg[w] => wire[m] # "torn"
    BY <2>1 DEF Asks
  <2> QED
    BY <1>b, <1>3, <2>1, <2>2, <2>3
<1>4. CASE EncodeFails(w)
  <2>1. retained' = retained /\ wire' = [wire EXCEPT ![msg[w]] = "torn"] /\ msg[w] \in Msgs
    BY <1>4 DEF EncodeFails
  <2>2. m # msg[w]
    BY <2>1 DEF Asks
  <2>3. wire[m] # "torn"
    BY <2>1, <2>2 DEF Asks
  <2> QED
    BY <1>b, <2>1, <2>2, <2>3
<1>5. CASE ~(RetainStores(w) \/ RetainClears(w) \/ Encode(w) \/ EncodeFails(w))
  <2>1. retained' = retained /\ wire' = wire
    BY <1>5 DEF Handles, Match, RetainSkips, SetPipe, Send, FreeMsg, FindRetain, SetPipeRetained, SendRetained,
                StopAtExpired, SubAck
  <2>2. wire[m] # "torn"
    BY <2>1 DEF Asks
  <2> QED
    BY <1>b, <1>5, <2>1, <2>2
<1> QED
  BY <1>1, <1>2, <1>3, <1>4, <1>5

LEMMA MissedStep ==
  ASSUME TypeOK, OwnerInv, MatchedInv, NoRetainedMissed, [Next]_vars
  PROVE  NoRetainedMissed'
<1>1. SUFFICES ASSUME NEW p \in Pipes, NEW F \in Filters, NEW t \in F, Asks(p, F, t)'
               PROVE  Served(p, retained[t])'
  BY DEF NoRetainedMissed, Asks, Served
<1>2. ASSUME NEW w \in Works, Arrives(w) PROVE Served(p, retained[t])'
  BY <1>1, <1>2, MissedArrives
<1>3. ASSUME NEW w \in Works, Handles(w) PROVE Served(p, retained[t])'
  BY <1>1, <1>3, MissedHandles
<1>4. CASE UNCHANGED vars
  BY <1>1, <1>4 DEF vars, trees, about, shared, publish, search, sent, NoRetainedMissed, Asks, Served, Pending
<1> QED
  BY <1>2, <1>3, <1>4 DEF Next

\* For any number of items and threads, whatever is published, retained or
\* cleared meanwhile: a client that subscribes gets the retained message of
\* every topic that matches, unless it is one of the recorded losses.
THEOREM RetainedNotMissed == Spec => []NoRetainedMissed
<1>1. Init => MatchedInv /\ NoRetainedMissed
  BY PublishAssumption DEF Init, MatchedInv, NoRetainedMissed
<1>2. TypeOK /\ OwnerInv /\ MatchedInv /\ NoRetainedMissed /\ [Next]_vars => MatchedInv' /\ NoRetainedMissed'
  BY MatchedStep, MissedStep
<1> QED
  BY <1>1, <1>2, TypeCorrect, OwnerInvariant, PTL DEF Spec
=============================================================================
