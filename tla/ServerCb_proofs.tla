-------------------------- MODULE ServerCb_proofs ---------------------------
(***************************************************************************)
(* Proofs about server_cb, for any number of work items and connections.   *)
(***************************************************************************)
EXTENDS ServerCb, FiniteSetTheorems, TLAPS

USE DEF Protos, PacketTypes, EventTypes, MsgTypes, States, Ops, Codes, Owned, MatchResults

-----------------------------------------------------------------------------
(* Types *)

LEMMA ParamsOf ==
  BridgeConn \in CParams /\ (\A c \in Conns : c \in CParams) /\ (\A w \in Works : w \in CParams)
  BY DEF CParams

LEMMA SocketTyped ==
  ASSUME TypeOK, NEW w \in Works, Socket(w) \/ Replied(w) \/ EndTail(w)
  PROVE  TypeOK'
<1> USE ParamsOf DEF TypeOK, Completes, Event, CParamClone, CParamFree, req, held, event, env, ctl
<1>1. ASSUME NEW c \in Conns, Connect(w, c)
      PROVE  TypeOK'
  BY <1>1 DEF Connect
<1>2. ASSUME NEW c \in Conns, Disconnect(w, c)
      PROVE  TypeOK'
  BY <1>2 DEF Disconnect
<1>3. ASSUME NEW c \in Conns, NEW t \in PacketTypes, NEW g \in BOOLEAN, Packet(w, c, t, g)
      PROVE  TypeOK'
  <2>1. UNCHANGED refs \/ CParamClone(c)
    BY <1>3 DEF Packet
  <2>2. CASE UNCHANGED refs
    BY <1>3, <2>2 DEF Packet
  <2>3. CASE CParamClone(c)
    BY <1>3, <2>3 DEF Packet
  <2> HIDE DEF TypeOK, CParamClone
  <2> QED
    BY <2>1, <2>2, <2>3
<1>4. ASSUME NEW t \in PacketTypes, NEW g \in BOOLEAN, Extra(w, t, g)
      PROVE  TypeOK'
  <2>1. UNCHANGED refs \/ CParamClone(BridgeConn)
    BY <1>4 DEF Extra
  <2>2. CASE UNCHANGED refs
    BY <1>4, <2>2 DEF Extra
  <2>3. CASE CParamClone(BridgeConn)
    BY <1>4, <2>3 DEF Extra
  <2> HIDE DEF TypeOK, CParamClone
  <2> QED
    BY <2>1, <2>2, <2>3
<1>5. CASE RecvFails(w)
  BY <1>5 DEF RecvFails
<1>6. CASE BridgeShut(w)
  BY <1>6 DEF BridgeShut
<1>7. ASSUME NEW o \in {"fired", "failed"}, HttpReply(w, o)
      PROVE  TypeOK'
  BY <1>7 DEF HttpReply
<1>8. CASE EndTail(w)
  BY <1>8 DEF EndTail
<1> HIDE DEF TypeOK
<1> QED
  BY <1>1, <1>2, <1>3, <1>4, <1>5, <1>6, <1>7, <1>8 DEF Socket, Replied

LEMMA CallbackTyped ==
  ASSUME TypeOK, NEW w \in Works, Callback(w)
  PROVE  TypeOK'
<1> USE ParamsOf DEF TypeOK, Goto, Request, Hold, Event, Taken, Matches, OwnCtx, Runs, Receives,
        CParamClone, CParamFree, req, held, event, env, ctl
<1>1. CASE InitCb(w)
  BY <1>1 DEF InitCb
<1>2. CASE RecvError(w)
  BY <1>2 DEF RecvError
<1>3. CASE RecvNull(w)
  BY <1>3 DEF RecvNull
<1>4. CASE RecvDrop(w)
  BY <1>4 DEF RecvDrop
<1>5. CASE SubscribeFails(w)
  BY <1>5 DEF SubscribeFails, SubCode
<1>6. CASE SubscribeAcked(w)
  BY <1>6 DEF SubscribeAcked
<1>7. CASE RecvUnsubscribe(w)
  BY <1>7 DEF RecvUnsubscribe
<1>8. CASE BadPublishCloses(w)
  BY <1>8 DEF BadPublishCloses
<1>9. CASE BadPublishDropped(w)
  BY <1>9 DEF BadPublishDropped
<1>10. CASE RecvOther(w)
  BY <1>10 DEF RecvOther
<1>11. ASSUME NEW m \in MatchResults, RecvPublish(w, m)
      PROVE  TypeOK'
  <2>1. UNCHANGED refs \/ CParamClone(evConn[w])
    BY <1>11 DEF RecvPublish, PublishParam
  <2>2. CASE UNCHANGED refs
    BY <1>11, <2>2 DEF RecvPublish
  <2>3. CASE CParamClone(evConn[w])
    BY <1>11, <2>3 DEF RecvPublish
  <2> HIDE DEF TypeOK, CParamClone
  <2> QED
    BY <2>1, <2>2, <2>3
<1>12. ASSUME NEW m \in MatchResults, RecvConnack(w, m)
      PROVE  TypeOK'
  BY <1>12 DEF RecvConnack
<1>13. ASSUME NEW m \in MatchResults, DisconnectNoWill(w, m)
      PROVE  TypeOK'
  BY <1>13 DEF DisconnectNoWill, DisconnectEv
<1>14. ASSUME NEW m \in MatchResults, DisconnectWill(w, m)
      PROVE  TypeOK'
  BY <1>14 DEF DisconnectWill, DisconnectEv
<1>15. ASSUME NEW m \in MatchResults, End(w, m)
      PROVE  TypeOK'
  BY <1>15 DEF End
<1>16. CASE ReplyFatal(w)
  BY <1>16 DEF ReplyFatal
<1>17. CASE WaitHook(w)
  BY <1>17 DEF WaitHook
<1>18. CASE WaitDone(w)
  BY <1>18 DEF WaitDone
<1>19. CASE WaitOther(w)
  BY <1>19 DEF WaitOther
<1>20. CASE Send(w)
  BY <1>20 DEF Send
<1>21. CASE Close(w)
  BY <1>21 DEF Close
<1>22. CASE HttpDrop(w)
  BY <1>22 DEF HttpDrop
<1>23. CASE DecodeNoMemory(w)
  BY <1>23 DEF DecodeNoMemory
<1> HIDE DEF TypeOK
<1> QED
  BY <1>1, <1>2, <1>3, <1>4, <1>5, <1>6, <1>7, <1>8, <1>9, <1>10, <1>11, <1>12, <1>13, <1>14, <1>15, <1>16, <1>17, <1>18, <1>19, <1>20, <1>21, <1>22, <1>23 DEF Callback

\* The fields of every work item keep their types, whatever the sockets hand
\* over and in whatever order the callbacks of the items run.
THEOREM TypeCorrect == Spec => []TypeOK
<1>1. Init => TypeOK
  <2> SUFFICES ASSUME Init PROVE TypeOK
    OBVIOUS
  <2>1. refs \in [CParams -> Nat]
    BY DEF Init
  <2> QED
    BY <2>1 DEF Init, TypeOK, CParams
<1>2. TypeOK /\ [Next]_vars => TypeOK'
  <2> SUFFICES ASSUME TypeOK, [Next]_vars PROVE TypeOK'
    OBVIOUS
  <2>1. CASE Next
    BY <2>1, SocketTyped, CallbackTyped DEF Next
  <2>2. CASE UNCHANGED vars
    BY <2>2 DEF TypeOK, vars, ctl, req, held, event, env
  <2> QED
    BY <2>1, <2>2
<1> QED
  BY <1>1, <1>2, PTL DEF Spec

-----------------------------------------------------------------------------
(* Control and ownership *)

\* What the control flow guarantees about one item, on top of Ownership: this
\* is what makes Ownership, the choice of the context and the reason code
\* inductive.
Control(w) ==
    /\ op[w] \in {"ctx", "extra"} => state[w] = "RECV" /\ op[w] = OwnCtx(w)
    /\ op[w] \in {"rep", "failed"} => proto[w] = "HTTP" /\ state[w] \in {"WAIT", "SEND"}
    /\ state[w] \in {"END", "CLOSE"} => proto[w] = "BROKER"
    /\ state[w] = "WAIT" /\ msg[w] \notin PublishTyped => proto[w] = "BROKER"
    /\ proto[w] = "BROKER" /\ state[w] # "CLOSE" => code[w] = "SUCCESS"
    /\ evType[w] \in {"SUBSCRIBE", "UNSUBSCRIBE", "DISCONNECT_EV"} => proto[w] = "BROKER"
    /\ state[w] # "RECV" \/ op[w] # "fired" => evType[w] = "NONE"

ItemInv == \A w \in Works : Ownership(w) /\ Control(w)

\* Every action of an item keeps the guarantees of all items: its own by what
\* it assigns, the others because it leaves their fields alone.
LEMMA SocketItems ==
  ASSUME TypeOK, ItemInv, NEW w \in Works, Socket(w) \/ Replied(w) \/ EndTail(w)
  PROVE  ItemInv'
<1> USE DEF TypeOK, ItemInv, Ownership, Control, PublishTyped, Completes, Event, OwnCtx,
        req, held, event, env, ctl
<1>1. ASSUME NEW c \in Conns, Connect(w, c)
      PROVE  ItemInv'
  BY <1>1 DEF Connect
<1>2. ASSUME NEW c \in Conns, Disconnect(w, c)
      PROVE  ItemInv'
  BY <1>2 DEF Disconnect
<1>3. ASSUME NEW c \in Conns, NEW t \in {"SUBSCRIBE", "UNSUBSCRIBE", "PUBLISH", "OTHER"},
             NEW g \in BOOLEAN, Packet(w, c, t, g)
      PROVE  ItemInv'
  BY <1>3 DEF Packet
<1>4. ASSUME NEW t \in {"PUBLISH", "CONNACK", "OTHER"}, NEW g \in BOOLEAN, Extra(w, t, g)
      PROVE  ItemInv'
  BY <1>4 DEF Extra
<1>5. CASE RecvFails(w)
  BY <1>5 DEF RecvFails
<1>6. CASE BridgeShut(w)
  BY <1>6 DEF BridgeShut
<1>7. ASSUME NEW o \in {"fired", "failed"}, HttpReply(w, o)
      PROVE  ItemInv'
  BY <1>7 DEF HttpReply
<1>8. CASE EndTail(w)
  BY <1>8 DEF EndTail
<1> HIDE DEF ItemInv, TypeOK
<1> QED
  BY <1>1, <1>2, <1>3, <1>4, <1>5, <1>6, <1>7, <1>8 DEF Socket, Replied

LEMMA CallbackItems ==
  ASSUME TypeOK, ItemInv, NEW w \in Works, Callback(w)
  PROVE  ItemInv'
<1> USE DEF TypeOK, ItemInv, Ownership, Control, PublishTyped, Goto, Request, Hold, Event, Taken, Matches,
        OwnCtx, Runs, Receives, req, held, event, env, ctl
<1>1. CASE InitCb(w)
  BY <1>1 DEF InitCb
<1>2. CASE RecvError(w)
  BY <1>2 DEF RecvError
<1>3. CASE RecvNull(w)
  BY <1>3 DEF RecvNull
<1>4. CASE RecvDrop(w)
  BY <1>4 DEF RecvDrop
<1>5. CASE SubscribeFails(w)
  BY <1>5 DEF SubscribeFails, SubCode
<1>6. CASE SubscribeAcked(w)
  BY <1>6 DEF SubscribeAcked, SubCode
<1>7. CASE RecvUnsubscribe(w)
  BY <1>7 DEF RecvUnsubscribe
<1>8. CASE BadPublishCloses(w)
  BY <1>8 DEF BadPublishCloses
<1>9. CASE BadPublishDropped(w)
  BY <1>9 DEF BadPublishDropped
<1>10. CASE RecvOther(w)
  BY <1>10 DEF RecvOther
<1>11. ASSUME NEW m \in MatchResults, RecvPublish(w, m)
      PROVE  ItemInv'
  BY <1>11 DEF RecvPublish
<1>12. ASSUME NEW m \in MatchResults, RecvConnack(w, m)
      PROVE  ItemInv'
  BY <1>12 DEF RecvConnack
<1>13. ASSUME NEW m \in MatchResults, DisconnectNoWill(w, m)
      PROVE  ItemInv'
  BY <1>13 DEF DisconnectNoWill, DisconnectEv
<1>14. ASSUME NEW m \in MatchResults, DisconnectWill(w, m)
      PROVE  ItemInv'
  BY <1>14 DEF DisconnectWill, DisconnectEv
<1>15. ASSUME NEW m \in MatchResults, End(w, m)
      PROVE  ItemInv'
  BY <1>15 DEF End
<1>16. CASE ReplyFatal(w)
  BY <1>16 DEF ReplyFatal
<1>17. CASE WaitHook(w)
  BY <1>17 DEF WaitHook
<1>18. CASE WaitDone(w)
  BY <1>18 DEF WaitDone
<1>19. CASE WaitOther(w)
  BY <1>19 DEF WaitOther
<1>20. CASE Send(w)
  BY <1>20 DEF Send
<1>21. CASE Close(w)
  BY <1>21 DEF Close
<1>22. CASE HttpDrop(w)
  BY <1>22 DEF HttpDrop
<1>23. CASE DecodeNoMemory(w)
  BY <1>23 DEF DecodeNoMemory
<1> HIDE DEF ItemInv, TypeOK
<1> QED
  BY <1>1, <1>2, <1>3, <1>4, <1>5, <1>6, <1>7, <1>8, <1>9, <1>10, <1>11, <1>12, <1>13, <1>14, <1>15, <1>16, <1>17, <1>18, <1>19, <1>20, <1>21, <1>22, <1>23 DEF Callback

LEMMA ItemsInvariant == Spec => [](TypeOK /\ ItemInv)
<1>1. Init => ItemInv
  BY DEF Init, ItemInv, Ownership, Control, OwnCtx, PublishTyped
<1>2. TypeOK /\ ItemInv /\ [Next]_vars => ItemInv'
  <2> SUFFICES ASSUME TypeOK, ItemInv, [Next]_vars PROVE ItemInv'
    OBVIOUS
  <2>1. CASE Next
    BY <2>1, SocketItems, CallbackItems DEF Next
  <2>2. CASE UNCHANGED vars
    BY <2>2 DEF ItemInv, Ownership, Control, OwnCtx, vars, ctl, req, held, event, env
  <2> QED
    BY <2>1, <2>2
<1> QED
  BY <1>1, <1>2, TypeCorrect, PTL DEF Spec

\* Whatever interleaving of callbacks and socket events led to a state, each
\* item owns exactly what its next callback frees or overwrites.
THEOREM NothingLeakedOrFreedTwice == Spec => []OwnsWhatItFrees
<1>1. ItemInv => OwnsWhatItFrees
  BY DEF ItemInv, OwnsWhatItFrees
<1> QED
  BY <1>1, ItemsInvariant, PTL

\* An item never receives on another socket's context, although WAIT and CLOSE
\* do not look at work->proto.
THEOREM OwnContext == Spec => []ListensOnOwnCtx
<1>1. ItemInv => ListensOnOwnCtx
  BY DEF ItemInv, ListensOnOwnCtx, Control
<1> QED
  BY <1>1, ItemsInvariant, PTL

\* Only two actions lead to CLOSE.
LEMMA ClosingSteps ==
  ASSUME NEW w \in Works, Callback(w) \/ Socket(w) \/ Replied(w) \/ EndTail(w)
  PROVE  \/ SubscribeFails(w)
         \/ BadPublishCloses(w)
         \/ UNCHANGED state
         \/ \E s \in States \ {"CLOSE"} : state' = [state EXCEPT ![w] = s]
<1>1. Socket(w) \/ Replied(w) \/ EndTail(w) => UNCHANGED state
  BY DEF Socket, Connect, Disconnect, Packet, Extra, RecvFails, BridgeShut, Completes,
         Replied, HttpReply, EndTail, ctl
<1>2. CASE Callback(w)
  BY <1>2, Zenon DEF Callback, InitCb, RecvError, RecvNull, RecvDrop, HttpDrop, DecodeNoMemory, SubscribeAcked,
         RecvUnsubscribe, BadPublishDropped, RecvOther, RecvPublish, RecvConnack,
         DisconnectNoWill, DisconnectWill, DisconnectEv, End, ReplyFatal, WaitHook,
         WaitDone, WaitOther, Send, Close, Goto, ctl
<1> QED
  BY <1>1, <1>2

\* A client whose packet is well-formed is never disconnected for it: the
\* reason code an item leaves behind never reaches the next client.
THEOREM GoodPackets == Spec => GoodPacketsKeepClient
<1>1. TypeOK /\ ItemInv /\ [Next]_vars => [ClosesOnlyBad]_vars
  <2> SUFFICES ASSUME TypeOK, ItemInv, Next, NEW w \in Works,
                      state[w] = "RECV", state'[w] = "CLOSE"
               PROVE  ~evGood[w]
    BY DEF ClosesOnlyBad
  <2>1. PICK v \in Works : Callback(v) \/ Socket(v) \/ Replied(v) \/ EndTail(v)
    BY DEF Next
  <2>2. SubscribeFails(v) \/ BadPublishCloses(v)
    BY <2>1, ClosingSteps DEF TypeOK
  <2>3. v = w
    BY <2>2 DEF SubscribeFails, BadPublishCloses, Goto, TypeOK
  <2>4. CASE SubscribeFails(v)
    BY <2>3, <2>4 DEF SubscribeFails, SubCode, Receives, Runs, ItemInv, Control
  <2>5. CASE BadPublishCloses(v)
    BY <2>3, <2>5 DEF BadPublishCloses
  <2> QED
    BY <2>2, <2>4, <2>5
<1> QED
  BY <1>1, ItemsInvariant, PTL DEF Spec, GoodPacketsKeepClient
=============================================================================
