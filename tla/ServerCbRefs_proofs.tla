------------------------ MODULE ServerCbRefs_proofs -------------------------
(***************************************************************************)
(* The reference counts of the conn_params: a proof that clones and frees  *)
(* balance, for any number of work items and connections, when the task    *)
(* queue finishes a callback before it starts the next one of its item.    *)
(***************************************************************************)
EXTENDS ServerCb_proofs

-----------------------------------------------------------------------------
(* Counting claims *)

\* The set Claims(c) is built from, for any function n of the frees due.
Stacks(S, n) == {x \in S \X (1..3) : x[2] <= n[x[1]]}

\* The claims of one item and those of the others add up.
LEMMA StacksSplit ==
  ASSUME NEW S, IsFiniteSet(S), NEW n \in [S -> 0..3], NEW w \in S
  PROVE  LET R == {x \in Stacks(S, n) : x[1] # w}
         IN  /\ Cardinality(R) \in Nat
             /\ Cardinality(Stacks(S, n)) = Cardinality(R) + n[w]
<1> DEFINE R == {x \in Stacks(S, n) : x[1] # w}
           Q == {w} \X (1..n[w])
<1>1. IsFiniteSet(S \X (1..3))
  <2>1. \A k \in Int : IsFiniteSet(1..k)
    BY FS_Interval
  <2>2. 3 \in Int
    OBVIOUS
  <2>3. IsFiniteSet(1..3)
    BY <2>1, <2>2, Zenon
  <2> QED
    BY <2>3, FS_Product
<1>2. IsFiniteSet(Stacks(S, n)) /\ IsFiniteSet(R)
  BY <1>1, FS_Subset DEF Stacks
<1>3. IsFiniteSet(Q) /\ Cardinality(Q) = n[w]
  <2>1. IsFiniteSet({w}) /\ Cardinality({w}) = 1
    BY FS_Singleton
  <2>2. IsFiniteSet(1..n[w]) /\ Cardinality(1..n[w]) = n[w]
    BY FS_Interval
  <2>3. IsFiniteSet(Q) /\ Cardinality(Q) = Cardinality({w}) * Cardinality(1..n[w])
    BY <2>1, <2>2, FS_Product
  <2> QED
    BY <2>1, <2>2, <2>3
<1>4. Stacks(S, n) = R \cup Q /\ R \cap Q = {}
  BY DEF Stacks
<1>5. Cardinality(R \cap Q) = 0
  BY <1>4, FS_EmptySet
<1>6. Cardinality(R) \in Nat
  BY <1>2, FS_CardinalityType
<1>7. Cardinality(R \cup Q) = Cardinality(R) + Cardinality(Q) - Cardinality(R \cap Q)
  BY <1>2, <1>3, FS_Union
<1> HIDE DEF R, Q
<1>8. Cardinality(Stacks(S, n)) = Cardinality(R) + n[w]
  BY <1>3, <1>4, <1>5, <1>6, <1>7
<1> QED
  BY <1>6, <1>8 DEF R

\* When only one item's dues change, the number of claims changes with them.
LEMMA StacksStep ==
  ASSUME NEW S, IsFiniteSet(S), NEW n \in [S -> 0..3], NEW m \in [S -> 0..3],
         NEW w \in S, \A x \in S : x # w => m[x] = n[x]
  PROVE  /\ Cardinality(Stacks(S, m)) \in Nat
         /\ Cardinality(Stacks(S, n)) \in Nat
         /\ Cardinality(Stacks(S, n)) >= n[w]
         /\ Cardinality(Stacks(S, m)) - m[w] = Cardinality(Stacks(S, n)) - n[w]
<1>1. {x \in Stacks(S, m) : x[1] # w} = {x \in Stacks(S, n) : x[1] # w}
  BY DEF Stacks
<1> DEFINE R == {x \in Stacks(S, n) : x[1] # w}
<1>2. Cardinality(R) \in Nat /\ Cardinality(Stacks(S, n)) = Cardinality(R) + n[w]
  BY StacksSplit
<1>3. Cardinality(Stacks(S, m)) = Cardinality(R) + m[w]
  BY <1>1, StacksSplit
<1>4. n[w] \in 0..3 /\ m[w] \in 0..3
  OBVIOUS
<1> HIDE DEF R
<1> QED
  BY <1>2, <1>3, <1>4

-----------------------------------------------------------------------------
(* One step *)

\* An unfinished END callback leaves its item queued for WAIT with the will
\* message: without Overlap nothing happens to the item until it is finished.
TailInv ==
    \A w \in Works : tail[w] => state[w] = "WAIT" /\ op[w] = "fired" /\ msg[w] = "WILL"

\* A step of item w changes the count of every conn_param by what it changes
\* of the frees owed by w and of the protocol layer's references.
LocallyBalanced(w) ==
    \A c \in CParams : refs'[c] - Due(w, c)' - Base(c)' = refs[c] - Due(w, c) - Base(c)

LEMMA DueRange ==
  ASSUME NEW w, NEW c
  PROVE  Due(w, c) \in 0..3 /\ Due(w, c)' \in 0..3
BY DEF Due, OwedOn, TailOn, Owed, OwedForEvent

LEMMA CallbackBalanced ==
  ASSUME TypeOK, ItemInv, TailInv, ~Overlap, NEW w \in Works, Callback(w),
         \A c \in CParams : refs[c] >= Due(w, c) + Base(c)
  PROVE  LocallyBalanced(w)
<1> USE ParamsOf DEF TypeOK, ItemInv, TailInv, Ownership, Control, PublishTyped, LocallyBalanced, Due, OwedOn, TailOn, Target, Owed,
        OwedForEvent, Base, Goto, Request, Hold, Event, Taken, Matches,
        OwnCtx, Runs, Receives, CParamFree, CParamClone, req, held, event, env, ctl
<1>1. CASE InitCb(w)
  BY <1>1 DEF InitCb
<1>2. CASE RecvError(w)
  BY <1>2 DEF RecvError
<1>3. CASE RecvNull(w)
  BY <1>3 DEF RecvNull
<1>4. CASE RecvDrop(w)
  BY <1>4 DEF RecvDrop
<1>5. CASE SubscribeFails(w)
  BY <1>5 DEF SubscribeFails, SubCode
<1>6. CASE SubscribeAcked(w)
  BY <1>6 DEF SubscribeAcked, SubCode
<1>7. CASE RecvUnsubscribe(w)
  BY <1>7 DEF RecvUnsubscribe
<1>8. CASE BadPublishCloses(w)
  BY <1>8 DEF BadPublishCloses
<1>9. CASE BadPublishDropped(w)
  BY <1>9 DEF BadPublishDropped
<1>10. CASE RecvOther(w)
  BY <1>10 DEF RecvOther
<1>11. ASSUME NEW m \in MatchResults, RecvPublish(w, m)
      PROVE  LocallyBalanced(w)
  BY <1>11 DEF RecvPublish, PublishParam
<1>12. ASSUME NEW m \in MatchResults, RecvConnack(w, m)
      PROVE  LocallyBalanced(w)
  BY <1>12 DEF RecvConnack
<1>13. ASSUME NEW m \in MatchResults, DisconnectNoWill(w, m)
      PROVE  LocallyBalanced(w)
  BY <1>13 DEF DisconnectNoWill, DisconnectEv
<1>14. ASSUME NEW m \in MatchResults, DisconnectWill(w, m)
      PROVE  LocallyBalanced(w)
  BY <1>14 DEF DisconnectWill, DisconnectEv
<1>15. ASSUME NEW m \in MatchResults, End(w, m)
      PROVE  LocallyBalanced(w)
  BY <1>15 DEF End
<1>16. CASE ReplyFatal(w)
  BY <1>16 DEF ReplyFatal
<1>17. CASE WaitHook(w)
  BY <1>17 DEF WaitHook
<1>18. CASE WaitDone(w)
  BY <1>18 DEF WaitDone
<1>19. CASE WaitOther(w)
  BY <1>19 DEF WaitOther
<1>20. CASE Send(w)
  BY <1>20 DEF Send
<1>21. CASE Close(w)
  BY <1>21 DEF Close
<1>22. CASE HttpDrop(w)
  BY <1>22 DEF HttpDrop
<1>23. CASE DecodeNoMemory(w)
  BY <1>23 DEF DecodeNoMemory
<1> HIDE DEF ItemInv, TypeOK, TailInv, LocallyBalanced
<1> QED
  BY <1>1, <1>2, <1>3, <1>4, <1>5, <1>6, <1>7, <1>8, <1>9, <1>10, <1>11, <1>12, <1>13, <1>14, <1>15, <1>16, <1>17, <1>18, <1>19, <1>20, <1>21, <1>22, <1>23 DEF Callback

LEMMA SocketBalanced ==
  ASSUME TypeOK, ItemInv, TailInv, ~Overlap, NEW w \in Works, Socket(w) \/ Replied(w) \/ EndTail(w),
         \A c \in CParams : refs[c] >= Due(w, c) + Base(c)
  PROVE  LocallyBalanced(w)
<1> USE ParamsOf, ServerCbAssumption DEF TypeOK, ItemInv, TailInv, Control, PublishTyped, LocallyBalanced, Due, OwedOn, TailOn, Target, Owed,
        OwedForEvent, Base, Completes, Event, OwnCtx, CParamFree, CParamClone, req, held, event, env, ctl
<1>1. ASSUME NEW c \in Conns, Connect(w, c)
      PROVE  LocallyBalanced(w)
  BY <1>1 DEF Connect
<1>2. ASSUME NEW c \in Conns, Disconnect(w, c)
      PROVE  LocallyBalanced(w)
  BY <1>2 DEF Disconnect
<1>3. ASSUME NEW c \in Conns, NEW t \in {"SUBSCRIBE", "UNSUBSCRIBE", "PUBLISH", "OTHER"},
             NEW g \in BOOLEAN, Packet(w, c, t, g)
      PROVE  LocallyBalanced(w)
  BY <1>3 DEF Packet
<1>4. ASSUME NEW t \in {"PUBLISH", "CONNACK", "OTHER"}, NEW g \in BOOLEAN, Extra(w, t, g)
      PROVE  LocallyBalanced(w)
  BY <1>4 DEF Extra, Protos
<1>5. CASE RecvFails(w)
  BY <1>5 DEF RecvFails
<1>6. CASE BridgeShut(w)
  BY <1>6 DEF BridgeShut
<1>7. ASSUME NEW o \in {"fired", "failed"}, HttpReply(w, o)
      PROVE  LocallyBalanced(w)
  BY <1>7 DEF HttpReply
<1>8. CASE EndTail(w)
  BY <1>8 DEF EndTail
<1> HIDE DEF ItemInv, TypeOK, TailInv, LocallyBalanced
<1> QED
  BY <1>1, <1>2, <1>3, <1>4, <1>5, <1>6, <1>7, <1>8 DEF Socket, Replied

-----------------------------------------------------------------------------
(* The invariant *)

\* A step of one item leaves the fields of the others as they are.
Keeps(x) ==
    /\ proto'[x] = proto[x] /\ state'[x] = state[x] /\ cp'[x] = cp[x] /\ msg'[x] = msg[x]
    /\ tail'[x] = tail[x] /\ evType'[x] = evType[x] /\ evConn'[x] = evConn[x] /\ op'[x] = op[x]

LEMMA OthersKeep ==
  ASSUME TypeOK, NEW w \in Works, Callback(w) \/ Socket(w) \/ Replied(w) \/ EndTail(w),
         NEW x \in Works, x # w
  PROVE  Keeps(x)
<1> USE DEF TypeOK, Keeps, ctl, req, held, event, env
<1>1. CASE Callback(w)
  BY <1>1 DEF Callback, InitCb, RecvError, RecvNull, RecvDrop, HttpDrop, DecodeNoMemory, SubscribeFails, SubscribeAcked,
         RecvUnsubscribe, BadPublishCloses, BadPublishDropped, RecvOther, RecvPublish, RecvConnack,
         DisconnectNoWill, DisconnectWill, DisconnectEv, End, ReplyFatal, WaitHook,
         WaitDone, WaitOther, Send, Close, Goto, Request, Hold, Event, Taken
<1>2. CASE Socket(w) \/ Replied(w) \/ EndTail(w)
  BY <1>2 DEF Socket, Connect, Disconnect, Packet, Extra, RecvFails, BridgeShut, Completes, Event,
         Replied, HttpReply, EndTail
<1> QED
  BY <1>1, <1>2

LEMMA OthersDue ==
  ASSUME TypeOK, NEW w \in Works, Callback(w) \/ Socket(w) \/ Replied(w) \/ EndTail(w),
         NEW x \in Works, x # w, NEW c
  PROVE  Due(x, c)' = Due(x, c)
<1>1. Keeps(x)
  BY OthersKeep
<1> QED
  BY <1>1 DEF Keeps, Due, OwedOn, TailOn, Target, Owed, OwedForEvent

\* An item is queued for WAIT with its will message until its END callback is
\* finished.
LEMMA TailKept ==
  ASSUME TypeOK, ItemInv, TailInv, ~Overlap, NEW w \in Works,
         Callback(w) \/ Socket(w) \/ Replied(w) \/ EndTail(w)
  PROVE  TailInv'
<1>1. ASSUME NEW x \in Works, x # w, tail'[x]
      PROVE  state'[x] = "WAIT" /\ op'[x] = "fired" /\ msg'[x] = "WILL"
  BY <1>1, OthersKeep DEF Keeps, TailInv
<1>2. ASSUME tail'[w]
      PROVE  state'[w] = "WAIT" /\ op'[w] = "fired" /\ msg'[w] = "WILL"
  <2>1. CASE tail[w]
    <3>1. op[w] = "fired" /\ state[w] = "WAIT" /\ msg[w] = "WILL"
      BY <2>1 DEF TailInv
    <3>2. ~Callback(w)
      BY <2>1, <3>1 DEF Callback, InitCb, RecvError, RecvNull, RecvDrop, HttpDrop, DecodeNoMemory, SubscribeFails,
         SubscribeAcked, RecvUnsubscribe, BadPublishCloses, BadPublishDropped, RecvOther,
         RecvPublish, RecvConnack, DisconnectNoWill, DisconnectWill, DisconnectEv, End,
         ReplyFatal, WaitHook, WaitDone, WaitOther, Send, Close, Runs, Receives
    <3>3. ~Socket(w) /\ ~Replied(w)
      BY <3>1 DEF Socket, Connect, Disconnect, Packet, Extra, RecvFails, BridgeShut,
         Replied, HttpReply
    <3> QED
      BY <1>2, <3>2, <3>3 DEF EndTail, TypeOK
  <2>2. CASE ~tail[w]
    <3>1. PICK m \in MatchResults : End(w, m)
      BY <1>2, <2>2 DEF Callback, InitCb, RecvError, RecvNull, RecvDrop, HttpDrop, DecodeNoMemory, SubscribeFails,
         SubscribeAcked, RecvUnsubscribe, BadPublishCloses, BadPublishDropped, RecvOther,
         RecvPublish, RecvConnack, DisconnectNoWill, DisconnectWill, DisconnectEv,
         ReplyFatal, WaitHook, WaitDone, WaitOther, Send, Close,
         Socket, Connect, Disconnect, Packet, Extra, RecvFails, BridgeShut, Completes,
         Replied, HttpReply, EndTail
    <3> QED
      BY <3>1 DEF End, Goto, Hold, TypeOK
  <2> QED
    BY <2>1, <2>2
<1> QED
  BY <1>1, <1>2 DEF TailInv

LEMMA BalancedStep ==
  ASSUME TypeOK, TypeOK', ItemInv, TailInv, CParamBalanced, ~Overlap, NEW w \in Works,
         Callback(w) \/ Socket(w) \/ Replied(w) \/ EndTail(w)
  PROVE  CParamBalanced'
<1> SUFFICES ASSUME NEW c \in CParams
             PROVE  refs'[c] = Cardinality(Claims(c)') + Base(c)'
  BY DEF CParamBalanced
<1> DEFINE n == [x \in Works |-> Due(x, c)]
           m == [x \in Works |-> Due(x, c)']
<1>1. n \in [Works -> 0..3] /\ m \in [Works -> 0..3]
  BY DueRange
<1>2. Claims(c) = Stacks(Works, n) /\ Claims(c)' = Stacks(Works, m)
  BY DEF Claims, Stacks
<1>3. \A x \in Works : x # w => m[x] = n[x]
  BY OthersDue
<1>4. /\ Cardinality(Stacks(Works, m)) \in Int
      /\ Cardinality(Stacks(Works, n)) \in Int
      /\ Cardinality(Stacks(Works, m)) - m[w] = Cardinality(Stacks(Works, n)) - n[w]
  <2> HIDE DEF n, m
  <2> QED
    BY <1>1, <1>3, StacksStep, ServerCbAssumption
<1>5. \A d \in CParams : refs[d] >= Due(w, d) + Base(d)
  <2> SUFFICES ASSUME NEW d \in CParams
               PROVE  refs[d] >= Due(w, d) + Base(d)
    OBVIOUS
  <2> DEFINE k == [x \in Works |-> Due(x, d)]
  <2>1. k \in [Works -> 0..3] /\ Claims(d) = Stacks(Works, k) /\ k[w] = Due(w, d)
    BY DueRange DEF Claims, Stacks
  <2> HIDE DEF k
  <2>2. Cardinality(Stacks(Works, k)) \in Nat /\ Cardinality(Stacks(Works, k)) >= k[w]
    BY <2>1, StacksStep, ServerCbAssumption
  <2> QED
    BY <2>1, <2>2, DueRange DEF CParamBalanced, Base
<1>6. LocallyBalanced(w)
  BY <1>5, CallbackBalanced, SocketBalanced
<1>7. refs'[c] - m[w] - Base(c)' = refs[c] - n[w] - Base(c)
  BY <1>6 DEF LocallyBalanced
<1>8. refs[c] = Cardinality(Stacks(Works, n)) + Base(c)
  BY <1>2 DEF CParamBalanced
<1>9. /\ n[w] \in Int /\ m[w] \in Int /\ Base(c) \in Int /\ Base(c)' \in Int
      /\ refs[c] \in Int /\ refs'[c] \in Int
  BY <1>1 DEF Base, TypeOK
<1> HIDE DEF n, m
<1>10. refs'[c] = Cardinality(Stacks(Works, m)) + Base(c)'
  BY <1>4, <1>7, <1>8, <1>9
<1> QED
  BY <1>2, <1>10

\* While the task queue runs the callbacks of an item one after the other,
\* every conn_param is freed exactly when its last user is done with it.
THEOREM ParamsBalanced == ~Overlap => (Spec => []CParamBalanced)
<1> SUFFICES ASSUME ~Overlap
             PROVE  Spec => []CParamBalanced
  OBVIOUS
<1> DEFINE Inv == TailInv /\ CParamBalanced
<1>1. Init => Inv
  <2> SUFFICES ASSUME Init PROVE Inv
    OBVIOUS
  <2>1. TailInv
    BY DEF Init, TailInv
  <2>2. \A c \in CParams : Claims(c) = {}
    BY DEF Init, Claims, Due, OwedOn, TailOn, Owed
  <2>3. Cardinality({}) = 0
    BY FS_EmptySet
  <2>4. \A c \in CParams : refs[c] = Base(c)
    BY DEF Init, Base
  <2> QED
    BY <2>1, <2>2, <2>3, <2>4 DEF CParamBalanced, Base
<1>2. TypeOK /\ ItemInv /\ TypeOK' /\ Inv /\ [Next]_vars => Inv'
  <2> SUFFICES ASSUME TypeOK, ItemInv, TypeOK', Inv, [Next]_vars PROVE Inv'
    OBVIOUS
  <2>1. CASE Next
    BY <2>1, TailKept, BalancedStep DEF Next
  <2>2. CASE UNCHANGED vars
    BY <2>2 DEF TailInv, CParamBalanced, Claims, Due, OwedOn, TailOn, Target, Owed,
       OwedForEvent, Base, vars, ctl, req, held, event, env
  <2> QED
    BY <2>1, <2>2
<1> QED
  BY <1>1, <1>2, ItemsInvariant, PTL DEF Spec
=============================================================================
