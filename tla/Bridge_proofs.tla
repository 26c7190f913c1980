---------------------------- MODULE Bridge_proofs ---------------------------
(***************************************************************************)
(* What holds of the bridge clients for any set of nodes.                  *)
(***************************************************************************)
EXTENDS BridgeForward, TLAPS

\* bridge_connect_cb leaves a connection in one of the states of Conns, and
\* subscriptions are only ever made for nodes.
THEOREM TypeCorrect == Spec => []TypeOK
<1>1. Init => TypeOK
  BY DEF Init, TypeOK, Conns
<1>2. TypeOK /\ [Next]_vars => TypeOK'
  <2> SUFFICES ASSUME TypeOK, [Next]_vars PROVE TypeOK'
    OBVIOUS
  <2>1. CASE UNCHANGED vars
    BY <2>1 DEF TypeOK, vars
  <2>2. ASSUME NEW n \in Nodes, ConnectCb(n) PROVE TypeOK'
    <3>1. conn' \in [Nodes -> Conns]
      BY <2>2 DEF TypeOK, ConnectCb, Outcome, Conns
    <3>2. pending' \subseteq Nodes /\ kept' \in BOOLEAN
      <4>1. CASE kept
        BY <2>2, <4>1 DEF TypeOK, ConnectCb
      <4>2. CASE ~kept
        BY <2>2, <4>2 DEF TypeOK, ConnectCb, Subscribes
      <4> QED  BY <4>1, <4>2
    <3> QED  BY <2>2, <3>1, <3>2 DEF TypeOK, ConnectCb
  <2>3. ASSUME NEW n \in Nodes, SubscribeArrives(n) PROVE TypeOK'
    BY <2>3 DEF TypeOK, SubscribeArrives
  <2>4. ASSUME NEW n \in Nodes, Upstream(n) PROVE TypeOK'
    BY <2>4 DEF TypeOK, Upstream, Accept, Refuse, Expire, Lose, Conns
  <2> QED  BY <2>1, <2>2, <2>3, <2>4 DEF Next
<1> QED  BY <1>1, <1>2, PTL DEF Spec

\* With clean starts only, session_is_kept_tcp stays 0: the flag that one node
\* would set for all of them is what ConnectedIsSubscribed depends on.
CleanInv == ~kept /\ ConnectedIsSubscribed

\* When every node asks for a clean start, a node that is connected is always
\* subscribed or about to be: bridge_connect_cb sends a SUBSCRIBE after every
\* CONNACK, however connections are lost, refused and made again.
THEOREM CleanNodesSubscribe ==
    ASSUME CleanStart = Nodes
    PROVE  Spec => []ConnectedIsSubscribed
<1>1. Init => CleanInv
  BY BridgeAssumption DEF Init, CleanInv, ConnectedIsSubscribed
<1>2. TypeOK /\ CleanInv /\ [Next]_vars => CleanInv'
  <2> SUFFICES ASSUME TypeOK, CleanInv, [Next]_vars PROVE CleanInv'
    OBVIOUS
  <2> USE BridgeAssumption DEF CleanInv, ConnectedIsSubscribed
  <2>1. CASE UNCHANGED vars
    BY <2>1 DEF vars
  <2>2. ASSUME NEW n \in Nodes, ConnectCb(n) PROVE CleanInv'
    <3>1. ~kept'
      BY <2>2 DEF ConnectCb
    <3>2. ASSUME NEW m \in Subscribing, conn'[m] = "up" PROVE m \in session' \cup pending'
      <4>1. CASE m = n
        BY <2>2, <3>2, <4>1 DEF TypeOK, ConnectCb, Subscribes, Outcome
      <4>2. CASE m # n
        BY <2>2, <3>2, <4>2 DEF TypeOK, ConnectCb, Subscribes
      <4> QED  BY <4>1, <4>2
    <3> QED  BY <3>1, <3>2
  <2>3. ASSUME NEW n \in Nodes, SubscribeArrives(n) PROVE CleanInv'
    BY <2>3 DEF SubscribeArrives
  <2>4. ASSUME NEW n \in Nodes, Upstream(n) PROVE CleanInv'
    BY <2>4 DEF TypeOK, Upstream, Accept, Refuse, Expire, Lose
  <2> QED  BY <2>1, <2>2, <2>3, <2>4 DEF Next
<1> QED  BY <1>1, <1>2, TypeCorrect, PTL DEF Spec, CleanInv

-----------------------------------------------------------------------------
(* Forwarding *)

\* A message is forwarded by one item, its copies are sent by that item's aio,
\* and a message that is not forwarded yet has no reference.
OneItemInv ==
    /\ \A w, v \in Works : smsg[w] = smsg[v] /\ smsg[w] # NoMsg => w = v
    /\ \A w, v \in Works : Busy(w) /\ Busy(v) /\ aio[w][2] = aio[v][2] => w = v
    /\ \A w, v \in Works : Busy(w) /\ smsg[v] # NoMsg /\ aio[w][2] = smsg[v] => w = v
    /\ \A m \in Msgs \ taken : refs[m] = 0 /\ orphans[m] = 0

\* A message that has not been tried yet still has nodes to go to, and the aio
\* is idle for them.
UntriedInv ==
    \A w \in Works :
        smsg[w] \in (wanted \ late) \ tried => route[w] # <<>> /\ ~Busy(w)

ForwardInv == ForwardTypeOK /\ OneItemInv /\ ForwardRefsExact /\ UntriedInv /\ NeverAllDropped

LEMMA ForwardInitial == ForwardInit => ForwardInv
  BY BridgeForwardAssumption
  DEF ForwardInit, ForwardInv, ForwardTypeOK, OneItemInv, ForwardRefsExact, UntriedInv, NeverAllDropped,
      Held, Flying, Busy

\* One message's references change, the owners' with them.
LEMMA RefsStep ==
  ASSUME ForwardRefsExact, ForwardTypeOK, refs' \in [Msgs -> Int], orphans' \in [Msgs -> Nat],
         NEW m \in Msgs,
         refs'[m] - refs[m] = (Held(m)' - Held(m)) + (Flying(m)' - Flying(m)) + (orphans'[m] - orphans[m]),
         \A n \in Msgs \ {m} : /\ Held(n)' = Held(n) /\ Flying(n)' = Flying(n)
                               /\ refs'[n] = refs[n] /\ orphans'[n] = orphans[n]
  PROVE  ForwardRefsExact'
<1> SUFFICES ASSUME NEW n \in Msgs
             PROVE  refs'[n] = Held(n)' + Flying(n)' + orphans'[n]
  BY DEF ForwardRefsExact
<1>1. refs[n] = Held(n) + Flying(n) + orphans[n]
  BY DEF ForwardRefsExact
<1>2. Held(n) \in Int /\ Flying(n) \in Int /\ Held(n)' \in Int /\ Flying(n)' \in Int
  BY DEF Held, Flying
<1>3. refs[n] \in Int /\ orphans[n] \in Int /\ refs'[n] \in Int /\ orphans'[n] \in Int
  BY DEF ForwardTypeOK
<1>4. CASE n = m
  BY <1>1, <1>2, <1>3, <1>4
<1>5. CASE n # m
  BY <1>1, <1>5
<1> QED
  BY <1>4, <1>5

LEMMA BeginStep ==
  ASSUME ForwardInv, NEW w \in Works, NEW m \in Msgs, NEW rt \in Routes, Begin(w, m, rt)
  PROVE  ForwardInv'
<1> USE BridgeForwardAssumption DEF ForwardInv, Begin, Add, Busy
<1>1. ForwardTypeOK'
  BY DEF ForwardTypeOK
<1>2. OneItemInv'
  BY DEF ForwardTypeOK, OneItemInv
<1>3. ForwardRefsExact'
  <2>1. /\ m \notin taken /\ refs' = [refs EXCEPT ![m] = @ + 1] /\ orphans' = orphans
        /\ refs \in [Msgs -> Int] /\ orphans \in [Msgs -> Nat]
    BY DEF ForwardTypeOK
  <2>2. \A n \in Msgs \ {m} : Held(n)' = Held(n) /\ Flying(n)' = Flying(n)
    BY DEF ForwardTypeOK, Held, Flying
  <2>3. Held(m)' = 1 /\ Held(m) = 0
    BY DEF ForwardTypeOK, Held
  <2>4. Flying(m)' = 0 /\ Flying(m) = 0
    BY DEF ForwardTypeOK, Flying
  <2>5. refs'[m] - refs[m] = (Held(m)' - Held(m)) + (Flying(m)' - Flying(m)) + (orphans'[m] - orphans[m])
    BY <2>1, <2>3, <2>4
  <2> HIDE DEF Begin, Add, Busy
  <2> QED
    BY <2>1, <2>2, <2>5, <1>1, RefsStep DEF ForwardTypeOK
<1>4. UntriedInv'
  BY DEF ForwardTypeOK, UntriedInv
<1>5. NeverAllDropped'
  BY DEF ForwardTypeOK, NeverAllDropped, Held
<1> QED
  BY <1>1, <1>2, <1>3, <1>4, <1>5

LEMMA HandlerStep ==
  ASSUME ForwardInv, NEW w \in Works, Handler(w)
  PROVE  ForwardInv'
<1> USE BridgeForwardAssumption DEF ForwardInv, Add, Busy, Looks, Goes
<1>1. CASE FindsBusy(w)
  <2> USE <1>1 DEF FindsBusy
  <2>1. ForwardTypeOK'
    BY DEF ForwardTypeOK
  <2>2. OneItemInv' /\ ForwardRefsExact' /\ NeverAllDropped'
    BY DEF OneItemInv, ForwardRefsExact, NeverAllDropped, Held, Flying
  <2>3. UntriedInv'
    BY DEF ForwardTypeOK, UntriedInv
  <2> QED
    BY <2>1, <2>2, <2>3
<1>2. CASE StartsSend(w)
  <2> USE <1>2 DEF StartsSend
  <2>1. smsg[w] \in taken /\ smsg[w] \in Msgs /\ Head(route[w]) \in Nodes
    BY DEF ForwardTypeOK
  <2>2. ForwardTypeOK'
    BY <2>1 DEF ForwardTypeOK
  <2>3. aio'[w] # NoSend /\ aio'[w][2] = smsg[w]
    BY <2>1 DEF ForwardTypeOK
  <2>4. OneItemInv'
    BY <2>1, <2>3 DEF ForwardTypeOK, OneItemInv
  <2>5. ForwardRefsExact'
    <3>1. PICK m \in Msgs : m = smsg[w]
      BY <2>1
    <3>2. refs' = [refs EXCEPT ![m] = @ + 1] /\ orphans' = orphans /\ smsg' = smsg
      BY <3>1
    <3>3. \A n \in Msgs : Held(n)' = Held(n)
      BY <3>2 DEF Held
    <3>4. \A n \in Msgs \ {m} : Flying(n)' = Flying(n)
      BY <2>3, <3>1 DEF ForwardTypeOK, Flying
    <3>5. Flying(m)' = 1
      BY <2>3, <3>1 DEF Flying
    <3>6. Flying(m) = 0
      BY <3>1 DEF ForwardTypeOK, OneItemInv, Flying
    <3>7. Held(m) \in Int
      BY DEF Held
    <3>8. refs'[m] - refs[m] = (Held(m)' - Held(m)) + (Flying(m)' - Flying(m)) + (orphans'[m] - orphans[m])
      BY <3>2, <3>3, <3>5, <3>6, <3>7 DEF ForwardTypeOK
    <3>9. \A n \in Msgs \ {m} : refs'[n] = refs[n] /\ orphans'[n] = orphans[n]
      BY <3>2 DEF ForwardTypeOK
    <3> HIDE DEF StartsSend, Add, Busy, Looks, Goes
    <3> QED
      BY <3>3, <3>4, <3>8, <3>9, <2>2, RefsStep DEF ForwardTypeOK
  <2>6. UntriedInv' /\ NeverAllDropped'
    BY <2>1 DEF ForwardTypeOK, OneItemInv, UntriedInv, NeverAllDropped, Held
  <2> QED
    BY <2>2, <2>4, <2>5, <2>6
<1>3. CASE Release(w)
  <2> USE <1>3 DEF Release
  <2>1. ForwardTypeOK' /\ OneItemInv'
    BY DEF ForwardTypeOK, OneItemInv
  <2>2. ForwardRefsExact'
    <3>1. PICK m \in Msgs : m = smsg[w]
      BY DEF ForwardTypeOK
    <3>2. refs' = [refs EXCEPT ![m] = @ + (-1)] /\ orphans' = orphans /\ aio' = aio
      BY <3>1
    <3>3. \A n \in Msgs : Flying(n)' = Flying(n)
      BY <3>2 DEF Flying
    <3>4. \A n \in Msgs \ {m} : Held(n)' = Held(n)
      BY <3>1 DEF ForwardTypeOK, Held
    <3>5. Held(m) = 1
      BY <3>1 DEF Held
    <3>6. Held(m)' = 0
      BY <3>1 DEF ForwardTypeOK, OneItemInv, Held
    <3>7. Flying(m) \in Int
      BY DEF Flying
    <3>8. refs'[m] - refs[m] = (Held(m)' - Held(m)) + (Flying(m)' - Flying(m)) + (orphans'[m] - orphans[m])
      BY <3>2, <3>3, <3>5, <3>6, <3>7 DEF ForwardTypeOK
    <3>9. \A n \in Msgs \ {m} : refs'[n] = refs[n] /\ orphans'[n] = orphans[n]
      BY <3>2 DEF ForwardTypeOK
    <3> HIDE DEF Release, Add, Busy, Looks, Goes
    <3> QED
      BY <3>3, <3>4, <3>8, <3>9, <2>1, RefsStep DEF ForwardTypeOK
  <2>3. UntriedInv' /\ NeverAllDropped'
    BY DEF ForwardTypeOK, OneItemInv, UntriedInv, NeverAllDropped, Held
  <2> QED
    BY <2>1, <2>2, <2>3
<1> QED
  BY <1>1, <1>2, <1>3 DEF Handler

\* What the client library does at the end of a send.
LEMMA LibraryStep ==
  ASSUME ForwardInv, NEW w \in Works, Busy(w), aio' = [aio EXCEPT ![w] = NoSend],
         \/ refs' = Add(refs, aio[w][2], -1) /\ UNCHANGED orphans
         \/ orphans' = Add(orphans, aio[w][2], 1) /\ UNCHANGED refs,
         UNCHANGED <<smsg, route, taken, late, wanted, tried>>
  PROVE  ForwardInv'
<1> USE BridgeForwardAssumption DEF ForwardInv, Add, Busy
<1>1. aio[w][2] \in taken /\ aio[w][2] \in Msgs
  BY DEF ForwardTypeOK
<1>2. ForwardTypeOK'
  <2>1. aio' \in [Works -> (Nodes \X taken) \cup {NoSend}]
    BY DEF ForwardTypeOK
  <2>2. refs' \in [Msgs -> Int] /\ orphans' \in [Msgs -> Nat]
    <3>1. CASE refs' = Add(refs, aio[w][2], -1) /\ UNCHANGED orphans
      BY <3>1 DEF ForwardTypeOK
    <3>2. CASE orphans' = Add(orphans, aio[w][2], 1) /\ UNCHANGED refs
      BY <3>2 DEF ForwardTypeOK
    <3> QED
      BY <3>1, <3>2
  <2> QED
    BY <2>1, <2>2 DEF ForwardTypeOK
<1>3. OneItemInv'
  BY <1>1 DEF ForwardTypeOK, OneItemInv
<1>4. ForwardRefsExact'
  <2>1. PICK m \in Msgs : m = aio[w][2]
    BY <1>1
  <2>2. \A n \in Msgs : Held(n)' = Held(n)
    BY DEF Held
  <2>3. \A n \in Msgs \ {m} : Flying(n)' = Flying(n)
    BY <2>1 DEF ForwardTypeOK, Flying
  <2>4. Flying(m) = 1
    BY <2>1 DEF Flying
  <2>5. Flying(m)' = 0
    BY <2>1 DEF ForwardTypeOK, OneItemInv, Flying
  <2>6. Held(m) \in Int
    BY DEF Held
  <2>7. \/ refs' = [refs EXCEPT ![m] = @ + (-1)] /\ orphans' = orphans
        \/ orphans' = [orphans EXCEPT ![m] = @ + 1] /\ refs' = refs
    BY <2>1
  <2>8. refs'[m] - refs[m] = (Held(m)' - Held(m)) + (Flying(m)' - Flying(m)) + (orphans'[m] - orphans[m])
    BY <2>2, <2>4, <2>5, <2>6, <2>7 DEF ForwardTypeOK
  <2>9. \A n \in Msgs \ {m} : refs'[n] = refs[n] /\ orphans'[n] = orphans[n]
    BY <2>7 DEF ForwardTypeOK
  <2> HIDE DEF Add, Busy
  <2> QED
    BY <2>2, <2>3, <2>8, <2>9, <1>2, RefsStep DEF ForwardTypeOK
<1>5. UntriedInv' /\ NeverAllDropped'
  BY DEF ForwardTypeOK, UntriedInv, NeverAllDropped, Held
<1> QED
  BY <1>2, <1>3, <1>4, <1>5

LEMMA ForwardStep == ForwardInv /\ [ForwardNext]_fvars => ForwardInv'
<1> SUFFICES ASSUME ForwardInv, [ForwardNext]_fvars PROVE ForwardInv'
  OBVIOUS
<1>1. CASE UNCHANGED <<items, messages>>
  BY <1>1 DEF ForwardInv, ForwardTypeOK, OneItemInv, ForwardRefsExact, UntriedInv, NeverAllDropped,
              Held, Flying, Busy, items, messages
<1>2. ASSUME NEW w \in Works, SendDone(w) PROVE ForwardInv'
  BY <1>2, LibraryStep DEF SendDone
<1>3. ASSUME NEW w \in Works, NEW freed \in BOOLEAN, SendFails(w, freed) PROVE ForwardInv'
  BY <1>3, LibraryStep DEF SendFails
<1> QED
  BY <1>1, <1>2, <1>3, BeginStep, HandlerStep DEF ForwardNext, Timeout, fvars

\* Forwarding leaves the bridge clients alone: what is proved of them holds
\* with bridge_handler running.
THEOREM ForwardKeepsClients == ForwardSpec => Spec
<1>1. ForwardInit => Init
  BY DEF ForwardInit
<1>2. [ForwardNext]_fvars => [Next]_vars
  BY DEF ForwardNext, fvars, Begin, Handler, FindsBusy, StartsSend, Release, SendDone, Timeout, SendFails
<1> QED
  BY <1>1, <1>2, PTL DEF ForwardSpec, Spec

LEMMA ForwardInvariant == ForwardSpec => []ForwardInv
  BY ForwardInitial, ForwardStep, PTL DEF ForwardSpec

\* Forwarding keeps its types.
THEOREM ForwardTypes == ForwardSpec => []ForwardTypeOK
  BY ForwardInvariant, PTL DEF ForwardInv

\* For any number of items, nodes and matching filters: no copy of a forwarded
\* message is leaked by bridge_handler, and none is freed while it is used.
THEOREM ForwardBalanced == ForwardSpec => []ForwardRefsExact
  BY ForwardInvariant, PTL DEF ForwardInv

\* A message that comes to an idle bridge_aio and matches a node is handed to
\* one, whatever the connections do.
THEOREM ForwardedOnce == ForwardSpec => []NeverAllDropped
  BY ForwardInvariant, PTL DEF ForwardInv
=============================================================================
