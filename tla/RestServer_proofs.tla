------------------------- MODULE RestServer_proofs --------------------------
(***************************************************************************)
(* Proofs about RestServer and RestApi, for any number of requests, jobs   *)
(* and workers.                                                            *)
(***************************************************************************)
EXTENDS RestApi, TLAPS, SequenceTheorems

-----------------------------------------------------------------------------
(* Type correctness of the job protocol *)

\* A worker that processes has a request.
JobTypeOK ==
    /\ TypeOK
    /\ \A w \in Workers : wstate[w] = "processing" => wreq[w] # NULL

LEMMA TypeInit == Init => JobTypeOK
<1> SUFFICES ASSUME Init PROVE JobTypeOK
  OBVIOUS
<1>1. freelist \in Seq(Jobs)
  BY EmptySeq DEF Init
<1>2. wstate \in [Workers -> WorkerStates] /\ \A w \in Workers : wstate[w] = "SRV_RECV"
  BY DEF Init, WorkerStates
<1>3. exited \in BOOLEAN
  BY DEF Init
<1> QED
  BY <1>1, <1>2, <1>3 DEF Init, TypeOK, JobTypeOK, Places, Messages

LEMMA TypeHandle ==
  ASSUME JobTypeOK, NEW r \in Requests, Arrive(r) \/ Handle(r)
  PROVE  JobTypeOK'
<1> USE RestServerAssumption
    DEF JobTypeOK, TypeOK, Places, Messages, Running, WantsJob, HasJob, Returns, Answer, Recycle, HttpFatal,
        SendsOn, client, job, ctxs, server
<1>1. CASE Arrive(r)
  BY <1>1 DEF Arrive
<1>2. CASE GetJob(r)
  <2>1. Head(freelist) \in Jobs /\ Tail(freelist) \in Seq(Jobs)
    BY <1>2, HeadTailProperties DEF GetJob
  <2> QED
    BY <1>2, <2>1 DEF GetJob
<1>3. CASE NoJob(r)
  BY <1>3 DEF NoJob
<1>4. ASSUME NEW j \in Jobs, NewJob(r, j) PROVE JobTypeOK'
  BY <1>4 DEF NewJob
<1>5. ASSUME NEW j \in Jobs, NoContext(r, j) PROVE JobTypeOK'
  BY <1>5 DEF NoContext
<1>6. ASSUME NEW j \in Jobs, NoMessage(r, j) PROVE JobTypeOK'
  BY <1>6 DEF NoMessage
<1>7. ASSUME NEW j \in Jobs, SendReq(r, j) PROVE JobTypeOK'
  BY <1>7 DEF SendReq
<1> HIDE DEF JobTypeOK
<1> QED
  BY <1>1, <1>2, <1>3, <1>4, <1>5, <1>6, <1>7 DEF Handle

\* An aio in flight has a request to answer.
LEMMA TypeJobCb ==
  ASSUME JobTypeOK, JobsHoldTheirOwn, NEW j \in Jobs, JobCb(j) \/ RecvFails(j)
  PROVE  JobTypeOK'
<1> USE RestServerAssumption
    DEF JobTypeOK, TypeOK, Places, Messages, At, GetsReply, Answer, Recycle, HttpFatal, client, job,
        ctxs, server
<1>a. place[j] \in {"SEND_REQ", "RECV_REP"} => httpAio[j] \in Requests
  BY DEF JobsHoldTheirOwn, InFlight
<1>1. CASE SendFails(j)
  BY <1>1, <1>a DEF SendFails
<1>2. CASE SendDone(j)
  BY <1>2 DEF SendDone
<1>3. CASE CopyFails(j)
  BY <1>3, <1>a DEF CopyFails
<1>4. CASE RecvDone(j)
  BY <1>4, <1>a DEF RecvDone
<1>5. CASE RecvFails(j)
  BY <1>5, <1>a DEF RecvFails
<1> QED
  BY <1>1, <1>2, <1>3, <1>4, <1>5 DEF JobCb

LEMMA TypeWorker ==
  ASSUME JobTypeOK, NEW w \in Workers, Worker(w) \/ WorkerFatal(w) \/ WorkerCrashes(w)
  PROVE  JobTypeOK'
<1> USE RestServerAssumption
    DEF JobTypeOK, TypeOK, WorkerStates, WorkerAt, Works, client, job, ctxs
<1>1. ASSUME NEW r \in Requests, WorkerTakes(w, r) PROVE JobTypeOK'
  BY <1>1 DEF WorkerTakes
<1>2. CASE WorkerReplies(w)
  BY <1>2 DEF WorkerReplies
<1>3. CASE WorkerSent(w)
  BY <1>3 DEF WorkerSent
<1>4. CASE WorkerFatal(w)
  BY <1>4 DEF WorkerFatal
<1>5. CASE WorkerCrashes(w)
  BY <1>5 DEF WorkerCrashes
<1> HIDE DEF JobTypeOK
<1> QED
  BY <1>1, <1>2, <1>3, <1>4, <1>5 DEF Worker

-----------------------------------------------------------------------------
(* The free list *)

\* A list holds each element of a set once, and nothing else.
ListOf(fl, S) ==
    /\ \A i \in 1..Len(fl) : fl[i] \in S
    /\ \A i, k \in 1..Len(fl) : i # k => fl[i] # fl[k]
    /\ \A j \in S : \E i \in 1..Len(fl) : fl[i] = j

LEMMA Pushes ==
  ASSUME NEW fl \in Seq(Jobs), NEW S \in SUBSET Jobs, ListOf(fl, S), NEW j \in Jobs \ S
  PROVE  ListOf(<<j>> \o fl, S \cup {j})
<1> DEFINE g == <<j>> \o fl
<1>1. <<j>> \in Seq(Jobs) /\ Len(<<j>>) = 1 /\ <<j>>[1] = j
  OBVIOUS
<1>2. /\ Len(g) = Len(fl) + 1 /\ Len(fl) \in Nat
      /\ \A i \in 1..(Len(fl) + 1) : g[i] = IF i <= 1 THEN j ELSE fl[i - 1]
  <2>1. Len(fl) \in Nat
    BY LenProperties
  <2>2. /\ Len(g) = 1 + Len(fl)
        /\ \A i \in 1..(1 + Len(fl)) : g[i] = IF i <= 1 THEN <<j>>[i] ELSE fl[i - 1]
    BY <1>1, ConcatProperties
  <2> QED
    BY <1>1, <2>1, <2>2
<1> HIDE DEF g
<1>3. \A i \in 1..Len(g) : g[i] \in S \cup {j}
  BY <1>2 DEF ListOf
<1>4. \A i, k \in 1..Len(g) : i # k => g[i] # g[k]
  BY <1>2 DEF ListOf
<1>5. ASSUME NEW x \in S \cup {j} PROVE \E i \in 1..Len(g) : g[i] = x
  <2>1. CASE x = j
    BY <1>2, <2>1
  <2>2. CASE x \in S
    <3>1. PICK i \in 1..Len(fl) : fl[i] = x
      BY <2>2 DEF ListOf
    <3>2. i + 1 \in 1..Len(g) /\ g[i + 1] = x
      BY <1>2, <3>1
    <3> QED
      BY <3>2
  <2> QED
    BY <2>1, <2>2
<1> QED
  BY <1>3, <1>4, <1>5 DEF ListOf, g

LEMMA Pops ==
  ASSUME NEW fl \in Seq(Jobs), NEW S \in SUBSET Jobs, ListOf(fl, S), fl # <<>>
  PROVE  Head(fl) \in S /\ ListOf(Tail(fl), S \ {Head(fl)})
<1>1. /\ Len(fl) \in Nat \ {0} /\ Len(Tail(fl)) = Len(fl) - 1
      /\ \A i \in 1..(Len(fl) - 1) : Tail(fl)[i] = fl[i + 1]
      /\ Head(fl) = fl[1]
  BY LenProperties, EmptySeq, HeadTailProperties
<1>2. \A i \in 1..Len(Tail(fl)) : Tail(fl)[i] \in S \ {Head(fl)}
  BY <1>1 DEF ListOf
<1>3. \A i, k \in 1..Len(Tail(fl)) : i # k => Tail(fl)[i] # Tail(fl)[k]
  BY <1>1 DEF ListOf
<1>4. ASSUME NEW x \in S \ {Head(fl)} PROVE \E i \in 1..Len(Tail(fl)) : Tail(fl)[i] = x
  <2>1. PICK i \in 1..Len(fl) : fl[i] = x
    BY DEF ListOf
  <2>2. i - 1 \in 1..Len(Tail(fl)) /\ Tail(fl)[i - 1] = x
    BY <1>1, <2>1
  <2> QED
    BY <2>2
<1> QED
  BY <1>1, <1>2, <1>3, <1>4 DEF ListOf

-----------------------------------------------------------------------------
(* Jobs *)

Idle == {j \in Jobs : place[j] = "free"}

\* A request has a handler with a job, or an aio in flight, or neither.
HandlerInv ==
    \A r \in Requests :
        jobOf[r] # NULL => answers[r] = 0 /\ \A j \in Jobs : httpAio[j] # r

JobInv == JobTypeOK /\ AnsweredOnce /\ JobsNotShared /\ JobsHoldTheirOwn /\ HandlerInv

\* The parts of JobsNotShared: the list, and the pointers to jobs and aios.
PointersInv ==
    /\ \A r, s \in Requests : r # s /\ jobOf[r] # NULL => jobOf[r] # jobOf[s]
    /\ \A r \in Requests : jobOf[r] # NULL => place[jobOf[r]] = "handler"
    /\ \A j, k \in Jobs : j # k /\ httpAio[j] # NULL => httpAio[j] # httpAio[k]

LEMMA SharedParts ==
  ASSUME JobTypeOK
  PROVE  JobsNotShared <=> ListOf(freelist, Idle) /\ PointersInv
<1>1. \A i \in 1..Len(freelist) : freelist[i] \in Jobs
  BY ElementOfSeq DEF JobTypeOK, TypeOK
<1> QED
  BY <1>1 DEF JobsNotShared, ListOf, Idle, PointersInv

\* What the steps of a job's life have in common: the other jobs and the other
\* requests are as they were.
LEMMA JobHandle ==
  ASSUME JobInv, NEW r \in Requests, Arrive(r) \/ Handle(r)
  PROVE  JobInv'
<1>a. JobTypeOK' /\ JobTypeOK
  BY TypeHandle DEF JobInv
<1>b. ListOf(freelist, Idle) /\ PointersInv /\ freelist \in Seq(Jobs) /\ Idle \in SUBSET Jobs
  BY <1>a, SharedParts DEF JobInv, JobTypeOK, TypeOK, Idle
<1>c. SUFFICES ListOf(freelist', Idle') /\ PointersInv' /\ AnsweredOnce' /\ JobsHoldTheirOwn' /\ HandlerInv'
  <2>1. ListOf(freelist', Idle') /\ PointersInv' => JobsNotShared'
    <3>1. \A i \in 1..Len(freelist') : freelist'[i] \in Jobs
      BY <1>a, ElementOfSeq DEF JobTypeOK, TypeOK
    <3> QED
      BY <3>1 DEF JobsNotShared, ListOf, Idle, PointersInv
  <2> QED
    BY <1>a, <2>1 DEF JobInv
<1> USE RestServerAssumption
    DEF Running, WantsJob, HasJob, Returns, Answer, Recycle, HttpFatal, SendsOn, InFlight, client, job, ctxs, server
<1>1. CASE Arrive(r)
  BY <1>1, <1>a, <1>b DEF Arrive, JobInv, AnsweredOnce, JobsHoldTheirOwn, HandlerInv, PointersInv, Idle
<1>2. CASE GetJob(r)
  <2>1. Head(freelist) \in Idle /\ ListOf(Tail(freelist), Idle \ {Head(freelist)})
    BY <1>2, <1>b, Pops DEF GetJob
  <2>2. Idle' = Idle \ {Head(freelist)} /\ freelist' = Tail(freelist)
    BY <1>2, <1>a, <2>1 DEF GetJob, Idle, JobTypeOK, TypeOK
  <2>3. PointersInv'
    BY <1>2, <1>a, <1>b, <2>1 DEF GetJob, Idle, JobTypeOK, TypeOK, PointersInv
  <2>4. AnsweredOnce' /\ HandlerInv' /\ JobsHoldTheirOwn'
    BY <1>2, <1>a, <2>1 DEF GetJob, Idle, JobTypeOK, TypeOK, JobInv, AnsweredOnce, HandlerInv, JobsHoldTheirOwn
  <2> QED
    BY <2>1, <2>2, <2>3, <2>4
<1>3. CASE NoJob(r)
  <2>1. Idle' = Idle /\ freelist' = freelist
    BY <1>3 DEF NoJob, Idle
  <2>2. PointersInv' /\ AnsweredOnce' /\ HandlerInv' /\ JobsHoldTheirOwn'
    BY <1>3, <1>a, <1>b DEF NoJob, JobTypeOK, TypeOK, JobInv, AnsweredOnce, HandlerInv, JobsHoldTheirOwn, PointersInv
  <2> QED
    BY <1>b, <2>1, <2>2
<1>4. ASSUME NEW j \in Jobs, NewJob(r, j)
      PROVE  ListOf(freelist', Idle') /\ PointersInv' /\ AnsweredOnce' /\ JobsHoldTheirOwn' /\ HandlerInv'
  <2>1. Idle' = Idle /\ freelist' = freelist
    BY <1>4, <1>a DEF NewJob, Idle, JobTypeOK, TypeOK
  <2>2. PointersInv' /\ AnsweredOnce' /\ HandlerInv' /\ JobsHoldTheirOwn'
    BY <1>4, <1>a, <1>b DEF NewJob, JobTypeOK, TypeOK, JobInv, AnsweredOnce, HandlerInv, JobsHoldTheirOwn, PointersInv
  <2> QED
    BY <1>b, <2>1, <2>2
<1>5. ASSUME NEW j \in Jobs, NoContext(r, j) \/ NoMessage(r, j)
      PROVE  ListOf(freelist', Idle') /\ PointersInv' /\ AnsweredOnce' /\ JobsHoldTheirOwn' /\ HandlerInv'
  <2>1. j \in Jobs \ Idle /\ place[j] = "handler"
    BY <1>5, <1>b DEF NoContext, NoMessage, PointersInv, Idle
  <2>2. Idle' = Idle \cup {j} /\ freelist' = <<j>> \o freelist
    BY <1>5, <1>a DEF NoContext, NoMessage, Idle, JobTypeOK, TypeOK
  <2>3. ListOf(freelist', Idle')
    BY <1>b, <2>1, <2>2, Pushes
  <2>4. /\ place' = [place EXCEPT ![j] = "free"] /\ httpRes' = [httpRes EXCEPT ![j] = "NULL"]
        /\ msg' = [msg EXCEPT ![j] = "NULL"] /\ jobOf' = [jobOf EXCEPT ![r] = NULL]
        /\ answers' = [answers EXCEPT ![r] = @ + 1] /\ answers[r] = 0 /\ jobOf[r] = j
        /\ httpAio' = httpAio
    <3>1. httpAio[j] = NULL
      BY <2>1 DEF JobInv, JobsHoldTheirOwn
    <3>2. httpAio = [httpAio EXCEPT ![j] = NULL]
      BY <1>a, <3>1 DEF JobTypeOK, TypeOK
    <3> QED
      BY <1>5, <3>2 DEF NoContext, NoMessage
  <2>5. PointersInv'
    BY <1>a, <1>b, <2>4 DEF JobTypeOK, TypeOK, PointersInv
  <2>6. AnsweredOnce' /\ HandlerInv'
    BY <1>a, <2>4 DEF JobTypeOK, TypeOK, JobInv, AnsweredOnce, HandlerInv
  <2>7. JobsHoldTheirOwn'
    <3>1. InFlight' = InFlight /\ j \notin InFlight
      BY <1>a, <2>1, <2>4 DEF JobTypeOK, TypeOK
    <3>2. \A k \in InFlight : place'[k] = place[k] /\ httpRes'[k] = httpRes[k] /\ msg'[k] = msg[k] /\ httpAio[k] # r
      BY <1>a, <2>4, <3>1 DEF JobTypeOK, TypeOK, JobInv, HandlerInv
    <3>3. ASSUME NEW k \in InFlight
          PROVE  /\ httpAio'[k] # NULL /\ answers'[httpAio'[k]] = 0 /\ httpRes'[k] = "live"
                 /\ msg'[k] = IF place'[k] = "SEND_REQ" THEN "request" ELSE "NULL"
      BY <1>a, <2>4, <3>2 DEF JobTypeOK, TypeOK, JobInv, JobsHoldTheirOwn
    <3>4. ASSUME NEW k \in Jobs \ InFlight PROVE httpAio'[k] = NULL /\ httpRes'[k] = "NULL" /\ msg'[k] = "NULL"
      BY <1>a, <2>4 DEF JobTypeOK, TypeOK, JobInv, JobsHoldTheirOwn
    <3> HIDE DEF InFlight
    <3> QED
      BY <3>1, <3>3, <3>4 DEF JobsHoldTheirOwn
  <2> QED
    BY <2>3, <2>5, <2>6, <2>7
<1>6. ASSUME NEW j \in Jobs, SendReq(r, j)
      PROVE  ListOf(freelist', Idle') /\ PointersInv' /\ AnsweredOnce' /\ JobsHoldTheirOwn' /\ HandlerInv'
  <2>1. place[j] = "handler" /\ jobOf[r] = j /\ answers[r] = 0
    BY <1>6, <1>b DEF SendReq, PointersInv
  <2>2. Idle' = Idle /\ freelist' = freelist
    BY <1>6, <1>a, <2>1 DEF SendReq, Idle, JobTypeOK, TypeOK
  <2>3. /\ place' = [place EXCEPT ![j] = "SEND_REQ"] /\ httpRes' = [httpRes EXCEPT ![j] = "live"]
        /\ msg' = [msg EXCEPT ![j] = "request"] /\ jobOf' = [jobOf EXCEPT ![r] = NULL]
        /\ httpAio' = [httpAio EXCEPT ![j] = r] /\ answers' = answers
    BY <1>6 DEF SendReq
  <2>4. \A k \in Jobs : httpAio[k] # r
    BY <2>1 DEF JobInv, HandlerInv
  <2>5. PointersInv'
    BY <1>a, <1>b, <2>1, <2>3, <2>4 DEF JobTypeOK, TypeOK, PointersInv
  <2>6. AnsweredOnce' /\ HandlerInv'
    BY <1>a, <1>b, <2>1, <2>3, <2>4 DEF JobTypeOK, TypeOK, JobInv, AnsweredOnce, HandlerInv, PointersInv
  <2>7. JobsHoldTheirOwn'
    BY <1>a, <2>1, <2>3 DEF JobTypeOK, TypeOK, JobInv, JobsHoldTheirOwn
  <2> QED
    BY <1>b, <2>2, <2>5, <2>6, <2>7
<1> QED
  BY <1>1, <1>2, <1>3, <1>4, <1>5, <1>6 DEF Handle

\* A job whose request is answered goes back to the list.
LEMMA JobDone ==
  ASSUME JobInv, JobTypeOK', NEW j \in Jobs, place[j] \in {"SEND_REQ", "RECV_REP"},
         HttpFatal(j, httpAio[j], ctx[j]), jobOf' = jobOf
  PROVE  JobInv'
<1>a. JobTypeOK /\ JobTypeOK'
  BY DEF JobInv
<1>b. ListOf(freelist, Idle) /\ PointersInv /\ freelist \in Seq(Jobs) /\ Idle \in SUBSET Jobs
  BY <1>a, SharedParts DEF JobInv, JobTypeOK, TypeOK, Idle
<1>c. httpAio[j] \in Requests /\ answers[httpAio[j]] = 0
  BY <1>a DEF JobInv, JobsHoldTheirOwn, InFlight, JobTypeOK, TypeOK
<1>1. j \in Jobs \ Idle
  BY DEF Idle
<1>2. Idle' = Idle \cup {j} /\ freelist' = <<j>> \o freelist
  BY <1>a DEF HttpFatal, Recycle, Idle, JobTypeOK, TypeOK
<1>3. ListOf(freelist', Idle')
  BY <1>b, <1>1, <1>2, Pushes
<1>4. PointersInv'
  BY <1>a, <1>b, RestServerAssumption DEF HttpFatal, Recycle, JobTypeOK, TypeOK, PointersInv
<1>5. AnsweredOnce' /\ HandlerInv'
  BY <1>a, <1>c, RestServerAssumption
  DEF HttpFatal, Recycle, Answer, JobTypeOK, TypeOK, JobInv, AnsweredOnce, HandlerInv
<1>6. JobsHoldTheirOwn'
  BY <1>a, <1>b, <1>c DEF HttpFatal, Recycle, Answer, JobTypeOK, TypeOK, JobInv, JobsHoldTheirOwn, InFlight, PointersInv
<1>7. JobsNotShared'
  <2>1. \A i \in 1..Len(freelist') : freelist'[i] \in Jobs
    BY <1>a, ElementOfSeq DEF JobTypeOK, TypeOK
  <2> QED
    BY <1>3, <1>4, <2>1 DEF JobsNotShared, ListOf, Idle, PointersInv
<1> QED
  BY <1>5, <1>6, <1>7 DEF JobInv

LEMMA JobCallback ==
  ASSUME JobInv, NEW j \in Jobs, JobCb(j) \/ RecvFails(j)
  PROVE  JobInv'
<1>a. JobTypeOK /\ JobTypeOK'
  BY TypeJobCb DEF JobInv
<1>1. CASE SendDone(j)
  <2>1. /\ place[j] = "SEND_REQ" /\ place' = [place EXCEPT ![j] = "RECV_REP"] /\ msg' = [msg EXCEPT ![j] = "NULL"]
        /\ UNCHANGED <<answers, jobOf, freelist, httpAio, httpRes>>
    BY <1>1 DEF SendDone, At, client
  <2>2. AnsweredOnce' /\ JobsNotShared' /\ HandlerInv'
    BY <1>a, <2>1 DEF JobInv, JobTypeOK, TypeOK, AnsweredOnce, JobsNotShared, HandlerInv
  <2>3. JobsHoldTheirOwn'
    BY <1>a, <2>1 DEF JobInv, JobTypeOK, TypeOK, JobsHoldTheirOwn, InFlight
  <2> QED
    BY <1>a, <2>2, <2>3 DEF JobInv
<1>2. CASE SendFails(j) \/ CopyFails(j) \/ RecvDone(j) \/ RecvFails(j)
  <2>1. HttpFatal(j, httpAio[j], ctx[j]) /\ jobOf' = jobOf /\ place[j] \in {"SEND_REQ", "RECV_REP"}
    BY <1>2 DEF SendFails, CopyFails, RecvDone, RecvFails, HttpFatal, At, GetsReply
  <2> QED
    BY <1>a, <2>1, JobDone
<1> QED
  BY <1>1, <1>2 DEF JobCb

LEMMA JobStep == JobInv /\ [Next]_vars => JobInv'
<1> SUFFICES ASSUME JobInv, [Next]_vars PROVE JobInv'
  OBVIOUS
<1>1. ASSUME NEW w \in Workers, Worker(w) \/ WorkerFatal(w) \/ WorkerCrashes(w) PROVE JobInv'
  <2>1. JobTypeOK'
    BY <1>1, TypeWorker DEF JobInv
  <2>2. UNCHANGED <<client, jobOf, freelist, job>>
    BY <1>1 DEF Worker, WorkerTakes, WorkerReplies, WorkerSent, WorkerFatal, WorkerCrashes
  <2> QED
    BY <2>1, <2>2 DEF client, job, JobInv, AnsweredOnce, JobsNotShared, JobsHoldTheirOwn, InFlight, HandlerInv
<1>2. CASE UNCHANGED vars
  BY <1>2 DEF vars, client, job, ctxs, server, JobInv, JobTypeOK, TypeOK, AnsweredOnce, JobsNotShared,
              JobsHoldTheirOwn, InFlight, HandlerInv
<1> QED
  BY <1>1, <1>2, JobHandle, JobCallback DEF Next

LEMMA JobInitial == Init => JobInv
  BY TypeInit, EmptySeq
  DEF Init, JobInv, AnsweredOnce, JobsNotShared, JobsHoldTheirOwn, InFlight, HandlerInv

LEMMA JobInvariant == Spec => []JobInv
  BY JobInitial, JobStep, PTL DEF Spec

-----------------------------------------------------------------------------
(* Contexts *)

\* A job in flight has a context of its own, named after its request; the one
\* an idle job has kept belongs to a request that is answered, and is closed.
CtxInv ==
    /\ open = {ctx[j] : j \in InFlight}
    /\ \A j \in InFlight : ctx[j] = httpAio[j]
    /\ \A j \in Jobs \ InFlight : ctx[j] # NULL => answers[ctx[j]] # 0
    /\ \A q \in Requests : via[q] \in {NULL, q}

\* The job protocol as far as contexts are concerned.
LEMMA CtxFacts ==
  ASSUME JobInv, CtxInv
  PROVE  /\ TypeOK
         /\ \A j \in InFlight : ctx[j] \in Requests /\ answers[ctx[j]] = 0
         /\ \A j, k \in InFlight : j # k => ctx[j] # ctx[k]
         /\ open \subseteq Requests /\ \A c \in open : answers[c] = 0
<1>1. TypeOK /\ \A j \in InFlight : ctx[j] \in Requests /\ answers[ctx[j]] = 0
  BY DEF JobInv, JobTypeOK, TypeOK, CtxInv, JobsHoldTheirOwn, InFlight
<1>2. \A j, k \in InFlight : j # k => ctx[j] # ctx[k]
  BY <1>1, RestServerAssumption DEF JobInv, JobsNotShared, JobsHoldTheirOwn, CtxInv, InFlight
<1> QED
  BY <1>1, <1>2 DEF CtxInv

LEMMA CtxHandle ==
  ASSUME JobInv, CtxInv, NEW r \in Requests, Arrive(r) \/ Handle(r)
  PROVE  CtxInv'
<1>a. /\ TypeOK
      /\ \A j \in InFlight : ctx[j] \in Requests /\ answers[ctx[j]] = 0
      /\ open \subseteq Requests /\ \A c \in open : answers[c] = 0
  BY CtxFacts
<1>b. \A j \in Jobs : HasJob(r, j) => place[j] = "handler" /\ answers[r] = 0 /\ \A k \in Jobs : httpAio[k] # r
  BY RestServerAssumption DEF HasJob, Running, JobInv, JobsNotShared, HandlerInv
<1>1. CASE Arrive(r)
  BY <1>1 DEF Arrive, CtxInv, InFlight, job, ctxs, server
<1>2. CASE GetJob(r) \/ \E j \in Jobs : NewJob(r, j)
  <2>1. UNCHANGED <<answers, httpAio, ctx, open, via>>
    BY <1>2 DEF GetJob, NewJob, client, ctxs, server
  <2>2. InFlight' = InFlight
    <3>1. CASE GetJob(r)
      <4>1. Head(freelist) \in Jobs /\ place[Head(freelist)] = "free"
        <5>1. freelist \in Seq(Jobs) /\ freelist # <<>>
          BY <1>a, <3>1 DEF TypeOK, GetJob
        <5>2. 1 \in 1..Len(freelist) /\ Head(freelist) = freelist[1] /\ Head(freelist) \in Jobs
          BY <5>1, HeadTailProperties, LenProperties, EmptySeq
        <5> QED
          BY <5>2 DEF JobInv, JobsNotShared
      <4> QED
        BY <1>a, <3>1, <4>1 DEF GetJob, InFlight, TypeOK
    <3>2. CASE \E j \in Jobs : NewJob(r, j)
      BY <1>a, <3>2 DEF NewJob, InFlight, TypeOK
    <3> QED
      BY <1>2, <3>1, <3>2
  <2> QED
    BY <2>1, <2>2 DEF CtxInv
<1>3. CASE NoJob(r)
  <2>1. /\ answers' = [answers EXCEPT ![r] = @ + 1] /\ UNCHANGED <<httpAio, ctx, open, via>>
        /\ InFlight' = InFlight
    BY <1>3 DEF NoJob, Answer, job, ctxs, server, InFlight
  <2>2. \A q \in Requests : answers[q] # 0 => answers'[q] # 0
    BY <1>a, <2>1 DEF TypeOK
  <2> QED
    BY <1>a, <2>1, <2>2 DEF CtxInv, TypeOK
<1>4. ASSUME NEW j \in Jobs, NEW c, c = ctx[j] \/ c = r, HasJob(r, j), Recycle(j, c), Answer(r),
             httpAio' = httpAio, via' = via
      PROVE  CtxInv'
  <2>1. j \notin InFlight /\ c \notin open
    BY <1>a, <1>b, <1>4, RestServerAssumption DEF InFlight, CtxInv, TypeOK
  <2>2. InFlight' = InFlight /\ open' = open /\ ctx' = [ctx EXCEPT ![j] = c]
    BY <1>a, <1>4, <2>1 DEF Recycle, InFlight, TypeOK
  <2>3. answers'[r] # 0 /\ \A q \in Requests : answers[q] # 0 => answers'[q] # 0
    BY <1>a, <1>4 DEF Answer, TypeOK
  <2>4. \A k \in InFlight : ctx'[k] = ctx[k]
    BY <1>a, <2>1, <2>2 DEF TypeOK, InFlight
  <2>5. ASSUME NEW k \in Jobs \ InFlight, ctx'[k] # NULL PROVE answers'[ctx'[k]] # 0
    BY <1>a, <1>4, <2>2, <2>3, <2>5 DEF CtxInv, TypeOK
  <2> QED
    BY <1>4, <2>2, <2>4, <2>5 DEF CtxInv
<1>5. ASSUME NEW j \in Jobs, NoContext(r, j) \/ NoMessage(r, j) PROVE CtxInv'
  <2>1. httpAio[j] = NULL
    BY <1>b, <1>5 DEF NoContext, NoMessage, JobInv, JobsHoldTheirOwn, InFlight
  <2>2. httpAio = [httpAio EXCEPT ![j] = NULL]
    BY <1>a, <2>1 DEF TypeOK
  <2> QED
    BY <1>4, <1>5, <2>2 DEF NoContext, NoMessage, HttpFatal, server
<1>6. ASSUME NEW j \in Jobs, SendReq(r, j) PROVE CtxInv'
  <2>1. /\ place' = [place EXCEPT ![j] = "SEND_REQ"] /\ ctx' = [ctx EXCEPT ![j] = r]
        /\ httpAio' = [httpAio EXCEPT ![j] = r] /\ via' = [via EXCEPT ![r] = r]
        /\ open' = open \cup {r} /\ answers' = answers /\ place[j] = "handler"
    BY <1>b, <1>6 DEF SendReq, SendsOn, client
  <2>2. InFlight' = InFlight \cup {j} /\ j \notin InFlight
    BY <1>a, <2>1 DEF InFlight, TypeOK
  <2>3. ctx'[j] = r /\ httpAio'[j] = r /\ \A k \in Jobs \ {j} : ctx'[k] = ctx[k] /\ httpAio'[k] = httpAio[k]
    BY <1>a, <2>1 DEF TypeOK
  <2>4. open' = {ctx'[k] : k \in InFlight'}
    BY <2>1, <2>2, <2>3 DEF CtxInv, InFlight
  <2> QED
    BY <1>a, <2>1, <2>2, <2>3, <2>4 DEF CtxInv, TypeOK, InFlight
<1> QED
  BY <1>1, <1>2, <1>3, <1>5, <1>6 DEF Handle

LEMMA CtxCallback ==
  ASSUME JobInv, CtxInv, NEW j \in Jobs, JobCb(j) \/ RecvFails(j)
  PROVE  CtxInv'
<1>a. /\ TypeOK
      /\ \A k \in InFlight : ctx[k] \in Requests /\ answers[ctx[k]] = 0
      /\ \A i, k \in InFlight : i # k => ctx[i] # ctx[k]
  BY CtxFacts
<1>1. CASE SendDone(j)
  <2>1. InFlight' = InFlight /\ UNCHANGED <<answers, httpAio, ctx, open, via>>
    BY <1>a, <1>1 DEF SendDone, At, InFlight, TypeOK, client, ctxs, server
  <2> QED
    BY <2>1 DEF CtxInv
<1>2. CASE SendFails(j) \/ CopyFails(j) \/ RecvDone(j) \/ RecvFails(j)
  <2>1. HttpFatal(j, httpAio[j], ctx[j]) /\ j \in InFlight /\ via' = via
    BY <1>2 DEF SendFails, CopyFails, RecvDone, RecvFails, HttpFatal, At, GetsReply, InFlight, server
  <2>2. /\ ctx[j] = httpAio[j] /\ open' = open \ {ctx[j]} /\ ctx' = [ctx EXCEPT ![j] = ctx[j]]
        /\ httpAio' = [httpAio EXCEPT ![j] = NULL] /\ place' = [place EXCEPT ![j] = "free"]
        /\ answers' = [answers EXCEPT ![ctx[j]] = @ + 1]
    BY <2>1 DEF HttpFatal, Recycle, Answer, CtxInv
  <2>3. ctx' = ctx /\ InFlight' = InFlight \ {j}
    BY <1>a, <2>1, <2>2 DEF TypeOK, InFlight
  <2>4. open' = {ctx'[k] : k \in InFlight'}
    BY <1>a, <2>1, <2>2, <2>3 DEF CtxInv
  <2>5. \A q \in Requests : answers[q] # 0 => answers'[q] # 0
    BY <1>a, <2>1, <2>2 DEF TypeOK
  <2>6. answers'[ctx[j]] # 0
    BY <1>a, <2>1, <2>2 DEF TypeOK
  <2>7. \A k \in InFlight' : httpAio'[k] = httpAio[k]
    BY <1>a, <2>2, <2>3 DEF TypeOK, InFlight
  <2> QED
    BY <1>a, <2>1, <2>3, <2>4, <2>5, <2>6, <2>7 DEF CtxInv, TypeOK
<1> QED
  BY <1>1, <1>2 DEF JobCb

LEMMA CtxStep == JobInv /\ CtxInv /\ [Next]_vars => CtxInv'
<1> SUFFICES ASSUME JobInv, CtxInv, [Next]_vars PROVE CtxInv'
  OBVIOUS
<1>1. ASSUME NEW w \in Workers, Worker(w) \/ WorkerFatal(w) \/ WorkerCrashes(w) PROVE CtxInv'
  <2>1. UNCHANGED <<client, job, open, via>>
    BY <1>1 DEF Worker, WorkerTakes, WorkerReplies, WorkerSent, WorkerFatal, WorkerCrashes, ctxs
  <2> QED
    BY <2>1 DEF client, job, CtxInv, InFlight
<1>2. CASE UNCHANGED vars
  BY <1>2 DEF vars, client, job, ctxs, server, CtxInv, InFlight
<1> QED
  BY <1>1, <1>2, CtxHandle, CtxCallback DEF Next

LEMMA CtxInitial == Init => CtxInv
  BY DEF Init, CtxInv, InFlight

\* A job never takes the reply to another request for its own, however late a
\* worker replies, and the contexts that are open are those of jobs in flight.
THEOREM NoForeignReply == Spec => []RepliesMatch
<1>1. JobInv /\ CtxInv => RepliesMatch
  <2> SUFFICES ASSUME JobInv, CtxInv PROVE RepliesMatch
    OBVIOUS
  <2>1. TypeOK /\ \A j \in InFlight : ctx[j] \in Requests
    BY CtxFacts
  <2> QED
    BY <2>1, RestServerAssumption DEF CtxInv, RepliesMatch, TypeOK
<1> QED
  BY <1>1, JobInvariant, CtxInitial, CtxStep, PTL DEF Spec

-----------------------------------------------------------------------------
(* The job protocol *)

\* The fields of jobs and workers keep their types on every path.
THEOREM TypeCorrect == Spec => []TypeOK
<1>1. JobInv => TypeOK
  BY DEF JobInv, JobTypeOK
<1> QED
  BY <1>1, JobInvariant, PTL

\* No path through rest_handle and rest_job_cb answers an HTTP request twice,
\* for any number of requests, jobs and workers.
THEOREM NoSecondAnswer == Spec => []AnsweredOnce
<1>1. JobInv => AnsweredOnce
  BY DEF JobInv
<1> QED
  BY <1>1, JobInvariant, PTL

\* A job is on the free list once, or with one handler, or has one aio to
\* answer that no other job has.
THEOREM OneRequestPerJob == Spec => []JobsNotShared
<1>1. JobInv => JobsNotShared
  BY DEF JobInv
<1> QED
  BY <1>1, JobInvariant, PTL

\* A job in flight has what its callback needs, an idle one has nothing left.
THEOREM NothingLeftInJobs == Spec => []JobsHoldTheirOwn
<1>1. JobInv => JobsHoldTheirOwn
  BY DEF JobInv
<1> QED
  BY <1>1, JobInvariant, PTL

-----------------------------------------------------------------------------
(* Requests on their way to a worker *)

\* What process_request does is, to the job protocol, one of its steps or none.
LEMMA ApiStep == [ApiNext]_avars => [Next]_vars
<1> SUFFICES ASSUME [ApiNext]_avars PROVE [Next]_vars
  OBVIOUS
<1>1. ASSUME NEW w \in Workers, ApiWorker(w) PROVE [Next]_vars
  BY <1>1 DEF ApiWorker, TakeRequest, MissingParam, SendTopic, EncodeFails, ObjectSent, Reply, LookUpClient,
              MissingClient, Next, Worker
<1>4. ASSUME NEW w \in Workers, NoReplyMemory(w) PROVE [Next]_vars
  BY <1>4 DEF NoReplyMemory, Next
<1>2. CASE PipeTakes
  BY <1>2 DEF PipeTakes
<1>3. CASE UNCHANGED avars
  BY <1>3 DEF avars
<1> QED
  BY <1>1, <1>2, <1>3, <1>4 DEF ApiNext, Next

\* The REST API does not disturb the job protocol: what is proved of RestServer
\* holds of RestApi.
THEOREM ApiKeepsJobs == ApiSpec => Spec
<1>1. ApiInit => Init
  BY DEF ApiInit
<1> QED
  BY <1>1, ApiStep, PTL DEF ApiSpec, Spec

\* A request that no job has sent, and one that no worker has received.
Unsent(r)  == answers[r] = 0 /\ \A j \in Jobs : httpAio[j] # r
Untaken(r) == Unsent(r) \/ r \in wire

OnIt(w, r) == wstate[w] = "processing" /\ wreq[w] = r

\* A request is sent once, and received by one worker.
RequestInv ==
    /\ \A r \in Requests : Unsent(r) => r \notin wire
    /\ \A r \in Requests : Untaken(r) => \A w \in Workers : ~OnIt(w, r)
    /\ \A r \in Requests : \A w, v \in Workers : OnIt(w, r) /\ OnIt(v, r) => w = v

LEMMA FrontEnd ==
  ASSUME JobInv, RequestInv,
         \/ \E r \in Requests : Arrive(r) \/ Handle(r)
         \/ \E j \in Jobs : JobCb(j) \/ RecvFails(j)
  PROVE  /\ UNCHANGED <<wstate, wreq>>
         /\ \A q \in Requests : (Untaken(q)' => Untaken(q)) /\ (Unsent(q)' => q \notin wire')
<1> USE RestServerAssumption DEF client, job, ctxs, server, Unsent, Untaken, SendsOn, InFlight
<1>a. JobTypeOK /\ TypeOK
  BY DEF JobInv, JobTypeOK
<1>1. ASSUME NEW r \in Requests, Arrive(r)
      PROVE  /\ UNCHANGED <<wstate, wreq>>
             /\ \A q \in Requests : (Untaken(q)' => Untaken(q)) /\ (Unsent(q)' => q \notin wire')
  BY <1>1 DEF Arrive, RequestInv
<1>2. ASSUME NEW r \in Requests, Handle(r)
      PROVE  /\ UNCHANGED <<wstate, wreq>>
             /\ \A q \in Requests : (Untaken(q)' => Untaken(q)) /\ (Unsent(q)' => q \notin wire')
  <2>1. CASE GetJob(r) \/ NoJob(r) \/ \E j \in Jobs : NewJob(r, j)
    BY <1>a, <2>1 DEF GetJob, NoJob, NewJob, WantsJob, Answer, TypeOK, RequestInv
  <2>2. ASSUME NEW j \in Jobs, NoContext(r, j) \/ NoMessage(r, j)
        PROVE  /\ UNCHANGED <<wstate, wreq>>
               /\ \A q \in Requests : (Untaken(q)' => Untaken(q)) /\ (Unsent(q)' => q \notin wire')
    <3>1. httpAio' = httpAio /\ wire' = wire /\ UNCHANGED <<wstate, wreq>>
      <4>1. place[j] = "handler"
        BY <2>2 DEF NoContext, NoMessage, HasJob, JobInv, JobsNotShared
      <4>2. httpAio[j] = NULL
        BY <4>1 DEF JobInv, JobsHoldTheirOwn
      <4>3. httpAio = [httpAio EXCEPT ![j] = NULL]
        BY <1>a, <4>2 DEF TypeOK
      <4> QED
        BY <2>2, <4>3 DEF NoContext, NoMessage, HttpFatal
    <3>2. answers' = [answers EXCEPT ![r] = @ + 1]
      BY <2>2 DEF NoContext, NoMessage, HttpFatal, Answer
    <3> QED
      BY <1>a, <3>1, <3>2 DEF TypeOK, RequestInv
  <2>3. ASSUME NEW j \in Jobs, SendReq(r, j)
        PROVE  /\ UNCHANGED <<wstate, wreq>>
               /\ \A q \in Requests : (Untaken(q)' => Untaken(q)) /\ (Unsent(q)' => q \notin wire')
    <3>1. Unsent(r)
      BY <2>3 DEF SendReq, HasJob, JobInv, HandlerInv
    <3>2. httpAio[j] = NULL
      BY <2>3 DEF SendReq, HasJob, JobInv, JobsNotShared, JobsHoldTheirOwn
    <3> QED
      BY <1>a, <2>3, <3>1, <3>2 DEF SendReq, TypeOK, RequestInv
  <2> QED
    BY <1>2, <2>1, <2>2, <2>3 DEF Handle
<1>3. ASSUME NEW j \in Jobs, JobCb(j) \/ RecvFails(j)
      PROVE  /\ UNCHANGED <<wstate, wreq>>
             /\ \A q \in Requests : (Untaken(q)' => Untaken(q)) /\ (Unsent(q)' => q \notin wire')
  <2>1. CASE SendDone(j)
    BY <2>1 DEF SendDone, RequestInv
  <2>2. CASE SendFails(j) \/ CopyFails(j) \/ RecvDone(j) \/ RecvFails(j)
    <3>1. /\ httpAio[j] \in Requests /\ answers[httpAio[j]] = 0
          /\ answers' = [answers EXCEPT ![httpAio[j]] = @ + 1]
          /\ httpAio' = [httpAio EXCEPT ![j] = NULL]
          /\ wire' \subseteq wire /\ UNCHANGED <<wstate, wreq>>
      BY <1>a, <2>2
      DEF SendFails, CopyFails, RecvDone, RecvFails, At, GetsReply, HttpFatal, Answer, JobInv, JobsHoldTheirOwn, TypeOK
    <3> QED
      BY <1>a, <3>1 DEF TypeOK, RequestInv
  <2> QED
    BY <1>3, <2>1, <2>2 DEF JobCb
<1> QED
  BY <1>1, <1>2, <1>3

-----------------------------------------------------------------------------
(* What a publish request reports *)

Publishing(w) ==
    /\ wstate[w] = "processing" /\ Kind[wreq[w]] = "publish"
    /\ ~AllDone(w)

\* The first n topics of the k-th object of r.
First(r, k, n) == {<<r, k, i>> : i \in 1..n}

ApiTypeOK ==
    /\ topic \in [Workers -> Nat]
    /\ waiting \in Workers \cup {NULL}
    /\ codes \in [Requests -> Seq(Codes)]
    /\ received \subseteq Requests \X Nat \X Nat
    /\ \A r \in Requests : Len(codes[r]) <= Len(Objects[r])

\* The broker has, of the object a worker is at, the topics it has sent; only
\* such a worker waits for the socket, with a topic left to send.
WorkerProgress ==
    \A w \in Workers :
        IF Publishing(w)
        THEN /\ topic[w] <= Topics(w) /\ (waiting = w => topic[w] < Topics(w))
             /\ Count(wreq[w], Object(w)) = First(wreq[w], Object(w), topic[w])
             /\ IsBroken(w) => topic[w] = 0 /\ waiting # w
        ELSE topic[w] = 0 /\ waiting # w

\* Of an object without a code the broker has something only while a worker is
\* at it; and of a request no worker has received it has nothing.
NothingAhead ==
    /\ \A x \in received :
           x[2] <= Len(codes[x[1]]) \/ \E w \in Workers : Publishing(w) /\ wreq[w] = x[1] /\ x[2] = Object(w)
    /\ \A r \in Requests : Untaken(r) => codes[r] = <<>>

ProgressInv == ApiTypeOK /\ WorkerProgress /\ NothingAhead /\ PublishedAsReported
ApiInv      == JobInv /\ RequestInv /\ ProgressInv

LEMMA RequestStep ==
  ASSUME JobInv, RequestInv, [ApiNext]_avars
  PROVE  RequestInv' /\ \A q \in Requests : Untaken(q)' => Untaken(q)
<1>a. TypeOK
  BY DEF JobInv, JobTypeOK
<1>1. CASE \/ \E r \in Requests : Arrive(r) \/ Handle(r)
           \/ \E j \in Jobs : JobCb(j) \/ RecvFails(j)
  BY <1>1, FrontEnd DEF RequestInv, OnIt
<1>2. ASSUME NEW w \in Workers, NEW r \in Requests, WorkerTakes(w, r)
      PROVE  RequestInv' /\ \A q \in Requests : Untaken(q)' => Untaken(q)
  <2>1. /\ wire' = wire \ {r} /\ r \in wire
        /\ wstate' = [wstate EXCEPT ![w] = "processing"] /\ wreq' = [wreq EXCEPT ![w] = r]
        /\ UNCHANGED <<answers, httpAio>>
    BY <1>2 DEF WorkerTakes, Works, client, job
  <2>2. \A q \in Requests : Unsent(q)' <=> Unsent(q)
    BY <2>1 DEF Unsent
  <2> QED
    BY <1>a, <2>1, <2>2 DEF RequestInv, Untaken, OnIt, TypeOK
<1>3. ASSUME NEW w \in Workers, WorkerReplies(w) \/ WorkerSent(w) \/ WorkerFatal(w) \/ WorkerCrashes(w)
      PROVE  RequestInv' /\ \A q \in Requests : Untaken(q)' => Untaken(q)
  <2>1. /\ UNCHANGED <<answers, httpAio, wire>>
        /\ \A v \in Workers : wstate'[v] = "processing" => wstate[v] = "processing" /\ wreq'[v] = wreq[v]
    BY <1>3, <1>a DEF WorkerReplies, WorkerSent, WorkerFatal, WorkerCrashes, Works, client, job, TypeOK
  <2> QED
    BY <2>1 DEF RequestInv, Unsent, Untaken, OnIt
<1>4. CASE UNCHANGED vars
  BY <1>4 DEF vars, client, job, ctxs, server, RequestInv, Unsent, Untaken, OnIt
<1> QED
  BY <1>1, <1>2, <1>3, <1>4 DEF ApiNext, ApiWorker, TakeRequest, MissingParam, SendTopic, EncodeFails, ObjectSent,
     Reply, LookUpClient, MissingClient, NoReplyMemory, PipeTakes, avars

\* Steps that publish nothing: a worker that is at no object stays so.
LEMMA NothingPublished ==
  ASSUME JobInv, RequestInv, ProgressInv, UNCHANGED api,
         \A q \in Requests : Untaken(q)' => Untaken(q),
         \A w \in Workers : \/ wstate'[w] = wstate[w] /\ wreq'[w] = wreq[w]
                            \/ ~Publishing(w) /\ wstate'[w] # "processing"
  PROVE  ProgressInv'
<1>1. \A w \in Workers : Publishing(w)' <=> Publishing(w)
  BY DEF Publishing, AllDone, Object, api
<1>2. \A w \in Workers : Publishing(w) => wreq'[w] = wreq[w]
  OBVIOUS
<1>3. \A w \in Workers : Publishing(w) => Object(w)' = Object(w) /\ Topics(w)' = Topics(w)
  BY <1>2 DEF Object, Topics, api
<1>8. \A w \in Workers : Publishing(w) => (IsBroken(w)' <=> IsBroken(w))
  BY <1>2, <1>3 DEF IsBroken
<1>4. \A r, k : Count(r, k)' = Count(r, k)
  BY DEF Count, api
<1>5. WorkerProgress'
  BY <1>1, <1>2, <1>3, <1>4, <1>8 DEF ProgressInv, WorkerProgress, api
<1>6. NothingAhead'
  BY <1>1, <1>2, <1>3 DEF ProgressInv, NothingAhead, api
<1>7. PublishedAsReported' /\ ApiTypeOK'
  BY <1>4 DEF ProgressInv, PublishedAsReported, ApiTypeOK, api
<1> QED
  BY <1>5, <1>6, <1>7 DEF ProgressInv

\* A request a worker receives starts at its first object, and the broker has
\* nothing of it.
LEMMA RequestTaken ==
  ASSUME JobInv, RequestInv, ProgressInv, NEW w \in Workers, NEW r \in Requests, TakeRequest(w, r),
         \A q \in Requests : Untaken(q)' => Untaken(q)
  PROVE  ProgressInv'
<1>a. TypeOK /\ ApiTypeOK
  BY DEF JobInv, JobTypeOK, ProgressInv
<1>1. /\ wstate' = [wstate EXCEPT ![w] = "processing"] /\ wreq' = [wreq EXCEPT ![w] = r]
      /\ wstate[w] = "SRV_RECV" /\ r \in wire /\ UNCHANGED api
  BY DEF TakeRequest, WorkerTakes, Works, WorkerAt
<1>2. codes[r] = <<>> /\ (\A v \in Workers : ~OnIt(v, r)) /\ topic[w] = 0 /\ waiting # w
  BY <1>1 DEF Untaken, RequestInv, ProgressInv, NothingAhead, WorkerProgress, Publishing
<1>3. wreq'[w] = r /\ \A v \in Workers \ {w} : wstate'[v] = wstate[v] /\ wreq'[v] = wreq[v]
  BY <1>1, <1>a DEF TypeOK
<1>4. \A v \in Workers \ {w} : /\ Publishing(v)' <=> Publishing(v)
                               /\ Object(v)' = Object(v) /\ Topics(v)' = Topics(v)
                               /\ IsBroken(v)' <=> IsBroken(v)
  BY <1>1, <1>3 DEF Publishing, AllDone, Object, Topics, IsBroken, api
<1>5. Object(w)' = 1
  BY <1>1, <1>2, <1>3 DEF Object, api
<1>6. \A q, k : Count(q, k)' = Count(q, k)
  BY <1>1 DEF Count, api
<1>7. Count(r, 1) = {} /\ First(r, 1, 0) = {}
  <2>1. ASSUME NEW x \in received, x[1] = r, x[2] = 1 PROVE FALSE
    <3>1. x[2] <= Len(codes[x[1]]) \/ \E v \in Workers : Publishing(v) /\ wreq[v] = x[1]
      BY <2>1 DEF ProgressInv, NothingAhead
    <3>2. ~ (x[2] <= Len(codes[x[1]]))
      BY <2>1, <1>2
    <3> QED
      BY <1>2, <2>1, <3>1, <3>2 DEF Publishing, OnIt
  <2> QED
    BY <2>1 DEF Count, First
<1>8. Publishing(w)' => Topics(w)' \in Nat
  <2>1. Publishing(w)' => 1 \in 1..Len(Objects[r])
    BY <1>3, <1>5, RestApiAssumption DEF Publishing, AllDone
  <2> QED
    BY <1>3, <1>5, <2>1, RestApiAssumption DEF Topics
<1>9. WorkerProgress'
  <2>1. ASSUME NEW v \in Workers, Publishing(v)'
        PROVE  /\ (topic[v] <= Topics(v) /\ (waiting = v => topic[v] < Topics(v)))'
               /\ (Count(wreq[v], Object(v)) = First(wreq[v], Object(v), topic[v]))'
               /\ IsBroken(v)' => (topic[v] = 0 /\ waiting # v)'
    <3>1. CASE v = w
      <4>1. topic'[v] = 0 /\ waiting' # v
        BY <1>1, <1>2, <3>1 DEF api
      <4>2. Topics(v)' \in Nat
        BY <1>8, <2>1, <3>1
      <4>3. wreq'[v] = r /\ Object(v)' = 1
        BY <1>3, <1>5, <3>1
      <4>4. (Count(wreq[v], Object(v)) = First(wreq[v], Object(v), topic[v]))'
        BY <1>6, <1>7, <4>1, <4>3 DEF First
      <4> QED
        BY <4>1, <4>2, <4>4
    <3>2. CASE v # w
      BY <1>1, <1>3, <1>4, <1>6, <2>1, <3>2 DEF ProgressInv, WorkerProgress, api
    <3> QED
      BY <3>1, <3>2
  <2>2. ASSUME NEW v \in Workers, ~Publishing(v)' PROVE (topic[v] = 0 /\ waiting # v)'
    BY <1>1, <1>2, <1>4, <2>2 DEF ProgressInv, WorkerProgress, api
  <2> QED
    BY <2>1, <2>2 DEF WorkerProgress
<1>10. NothingAhead'
  <2>1. ~Publishing(w)
    BY <1>1 DEF Publishing
  <2> QED
    BY <1>1, <1>3, <1>4, <2>1 DEF ProgressInv, NothingAhead, api
<1>11. PublishedAsReported' /\ ApiTypeOK'
  BY <1>1, <1>6 DEF ProgressInv, PublishedAsReported, ApiTypeOK, api
<1> QED
  BY <1>9, <1>10, <1>11 DEF ProgressInv

\* The object of v gets a code that says what the broker has of it; whoever
\* waits for the socket then is another worker, with a topic left to send.
LEMMA ObjectEnds ==
  ASSUME JobInv, RequestInv, ProgressInv, UNCHANGED vars, received' = received,
         NEW v \in Workers, Publishing(v), NEW c \in Codes, Ends(v, c),
         c = "SUCCEED" => topic[v] = Topics(v),
         c = "REQ_PARAM_ERROR" => IsBroken(v),
         c = "UNKNOWN_MISTAKE" => topic[v] < Topics(v),
         waiting' # v,
         \/ waiting' = NULL
         \/ /\ waiting' \in Workers /\ Publishing(waiting') /\ ~IsBroken(waiting')
            /\ topic[waiting'] < Topics(waiting')
  PROVE  ProgressInv'
<1> DEFINE r == wreq[v]
           n == Len(codes[r]) + 1
<1>a. TypeOK /\ ApiTypeOK
  BY DEF JobInv, JobTypeOK, ProgressInv
<1>b. /\ r \in Requests /\ codes[r] \in Seq(Codes) /\ Len(codes[r]) \in Nat /\ Objects[r] \in Seq(Nat)
      /\ n \in 1..Len(Objects[r]) /\ Objects[r][n] \in Nat /\ Topics(v) = Objects[r][n] /\ Object(v) = n
  <2>1. r \in Requests
    BY <1>a DEF Publishing, JobInv, JobTypeOK, TypeOK
  <2>2. codes[r] \in Seq(Codes) /\ Len(codes[r]) \in Nat /\ Objects[r] \in Seq(Nat)
    BY <1>a, <2>1, RestApiAssumption, LenProperties DEF ApiTypeOK
  <2>3. n \in 1..Len(Objects[r])
    BY <2>2 DEF Publishing, AllDone, Object
  <2> QED
    BY <2>1, <2>2, <2>3 DEF Object, Topics
<1>c. UNCHANGED <<wstate, wreq>> /\ \A q \in Requests : Untaken(q)' <=> Untaken(q)
  BY DEF vars, server, client, job, Untaken, Unsent
<1> HIDE DEF r, n
<1>1. /\ codes' = [codes EXCEPT ![r] = Append(codes[r], c)]
      /\ topic' = [topic EXCEPT ![v] = 0]
  BY DEF Ends, r
<1>2. /\ codes'[r] = Append(codes[r], c) /\ \A q \in Requests \ {r} : codes'[q] = codes[q]
      /\ codes'[r] \in Seq(Codes) /\ Len(codes'[r]) = n /\ codes'[r][n] = c
      /\ \A k \in 1..Len(codes[r]) : codes'[r][k] = codes[r][k]
      /\ codes' \in [Requests -> Seq(Codes)]
  <2>1. /\ codes'[r] = Append(codes[r], c) /\ \A q \in Requests \ {r} : codes'[q] = codes[q]
    BY <1>1, <1>a, <1>b DEF ApiTypeOK
  <2>2. /\ Append(codes[r], c) \in Seq(Codes) /\ Len(Append(codes[r], c)) = n
        /\ Append(codes[r], c)[n] = c
        /\ \A k \in 1..Len(codes[r]) : Append(codes[r], c)[k] = codes[r][k]
    BY <1>b, AppendProperties DEF n
  <2>3. codes' \in [Requests -> Seq(Codes)]
    BY <1>1, <1>a, <2>2 DEF ApiTypeOK
  <2> QED
    BY <2>1, <2>2, <2>3
<1>3. topic' \in [Workers -> Nat] /\ topic'[v] = 0 /\ \A u \in Workers \ {v} : topic'[u] = topic[u]
  BY <1>1, <1>a DEF ApiTypeOK
<1>4. \A u \in Workers \ {v} : wstate[u] = "processing" => wreq[u] \in Requests \ {r}
  BY <1>a DEF RequestInv, OnIt, Publishing, r, JobInv, JobTypeOK, TypeOK
<1>5. \A u \in Workers \ {v} : wstate[u] = "processing" =>
          /\ Object(u)' = Object(u) /\ Topics(u)' = Topics(u)
          /\ (Publishing(u)' <=> Publishing(u)) /\ (IsBroken(u)' <=> IsBroken(u))
  BY <1>c, <1>2, <1>4 DEF Object, Topics, IsBroken, Publishing, AllDone
<1>6. \A u \in Workers \ {v} : Publishing(u)' <=> Publishing(u)
  BY <1>c, <1>5 DEF Publishing
<1>7. \A q, k : Count(q, k)' = Count(q, k)
  BY DEF Count
<1>8. Object(v)' = n + 1 /\ wreq'[v] = r
  BY <1>c, <1>2 DEF Object, r
<1>9. Count(r, n + 1) = {} /\ First(r, n + 1, 0) = {}
  <2>1. ASSUME NEW x \in received, x[1] = r, x[2] = n + 1 PROVE FALSE
    <3>1. \E u \in Workers : Publishing(u) /\ wreq[u] = r /\ n + 1 = Object(u)
      BY <1>b, <2>1 DEF ProgressInv, NothingAhead, n
    <3>2. PICK u \in Workers : Publishing(u) /\ wreq[u] = r /\ n + 1 = Object(u)
      BY <3>1
    <3>3. u = v
      BY <1>4, <3>2 DEF Publishing
    <3> QED
      BY <1>b, <3>2, <3>3
  <2> QED
    BY <2>1 DEF Count, First
<1>10. ApiTypeOK'
  <2>1. ASSUME NEW q \in Requests PROVE Len(codes'[q]) <= Len(Objects[q])
    <3>1. CASE q = r
      <4>1. Len(Objects[r]) \in Nat
        BY <1>b, LenProperties
      <4> QED
        BY <1>b, <1>2, <3>1, <4>1
    <3>2. CASE q # r
      BY <1>a, <1>2, <3>2 DEF ApiTypeOK
    <3> QED
      BY <3>1, <3>2
  <2>2. waiting' \in Workers \cup {NULL}
    OBVIOUS
  <2>3. received' \subseteq Requests \X Nat \X Nat
    BY <1>a DEF ApiTypeOK
  <2> QED
    BY <1>2, <1>3, <2>1, <2>2, <2>3 DEF ApiTypeOK
<1>11. WorkerProgress'
  <2>1. ASSUME NEW u \in Workers, u # v
        PROVE  IF Publishing(u)'
               THEN /\ (topic[u] <= Topics(u) /\ (waiting = u => topic[u] < Topics(u)))'
                    /\ (Count(wreq[u], Object(u)) = First(wreq[u], Object(u), topic[u]))'
                    /\ IsBroken(u)' => (topic[u] = 0 /\ waiting # u)'
               ELSE (topic[u] = 0 /\ waiting # u)'
    <3>1. CASE Publishing(u)
      <4>1. /\ topic[u] <= Topics(u) /\ Count(wreq[u], Object(u)) = First(wreq[u], Object(u), topic[u])
            /\ IsBroken(u) => topic[u] = 0
        BY <3>1 DEF ProgressInv, WorkerProgress
      <4>2. Object(u)' = Object(u) /\ Topics(u)' = Topics(u) /\ topic'[u] = topic[u] /\ wreq'[u] = wreq[u]
            /\ (IsBroken(u)' <=> IsBroken(u))
        BY <1>c, <1>3, <1>5, <2>1, <3>1 DEF Publishing
      <4>3. waiting' = u => topic[u] < Topics(u) /\ ~IsBroken(u)
        BY RestApiAssumption
      <4> QED
        BY <1>6, <1>7, <2>1, <3>1, <4>1, <4>2, <4>3
    <3>2. CASE ~Publishing(u)
      BY <1>3, <1>6, <2>1, <3>2, RestApiAssumption DEF ProgressInv, WorkerProgress
    <3> QED
      BY <3>1, <3>2
  <2>2. IF Publishing(v)'
        THEN /\ (topic[v] <= Topics(v) /\ (waiting = v => topic[v] < Topics(v)))'
             /\ (Count(wreq[v], Object(v)) = First(wreq[v], Object(v), topic[v]))'
             /\ IsBroken(v)' => (topic[v] = 0 /\ waiting # v)'
        ELSE (topic[v] = 0 /\ waiting # v)'
    <3>1. Publishing(v)' => Topics(v)' \in Nat
      <4>1. Publishing(v)' => n + 1 \in 1..Len(Objects[r])
        BY <1>b, <1>8 DEF Publishing, AllDone
      <4> QED
        BY <1>8, <1>b, <4>1 DEF Topics
    <3> QED
      BY <1>3, <1>7, <1>8, <1>9, <3>1
  <2> QED
    BY <2>1, <2>2 DEF WorkerProgress
<1>12. NothingAhead'
  <2>1. ASSUME NEW x \in received
        PROVE  \/ x[2] <= Len(codes'[x[1]])
               \/ \E w \in Workers : Publishing(w)' /\ wreq'[w] = x[1] /\ x[2] = Object(w)'
    <3>1. x[1] \in Requests /\ x[2] \in Nat
      BY <1>a DEF ApiTypeOK
    <3>2. CASE x[2] <= Len(codes[x[1]])
      <4>1. CASE x[1] = r
        BY <1>b, <1>2, <3>1, <3>2, <4>1 DEF n
      <4>2. CASE x[1] # r
        BY <1>2, <3>1, <3>2, <4>2
      <4> QED
        BY <4>1, <4>2
    <3>3. ASSUME NEW w \in Workers, Publishing(w), wreq[w] = x[1], x[2] = Object(w)
          PROVE  \/ x[2] <= Len(codes'[x[1]])
                 \/ \E u \in Workers : Publishing(u)' /\ wreq'[u] = x[1] /\ x[2] = Object(u)'
      <4>1. CASE w = v
        BY <1>b, <1>2, <3>1, <3>3, <4>1 DEF r
      <4>2. CASE w # v
        BY <1>c, <1>5, <1>6, <3>3, <4>2 DEF Publishing
      <4> QED
        BY <4>1, <4>2
    <3> QED
      BY <3>2, <3>3 DEF ProgressInv, NothingAhead
  <2>2. ASSUME NEW q \in Requests, Untaken(q)' PROVE codes'[q] = <<>>
    BY <1>c, <1>2, <2>2 DEF ProgressInv, NothingAhead, RequestInv, OnIt, Publishing, r
  <2> QED
    BY <2>1, <2>2 DEF NothingAhead
<1>13. PublishedAsReported'
  <2>1. ASSUME NEW q \in Requests, NEW k \in DOMAIN codes'[q]
        PROVE  \E m \in 0..Objects[q][k] :
                   /\ Count(q, k)' = {<<q, k, i>> : i \in 1..m}
                   /\ codes'[q][k] = "SUCCEED" => m = Objects[q][k]
                   /\ codes'[q][k] = "REQ_PARAM_ERROR" => m = 0
                   /\ codes'[q][k] = "UNKNOWN_MISTAKE" => m < Objects[q][k]
    <3>1. CASE q # r
      <4>1. codes'[q] = codes[q] /\ Count(q, k)' = Count(q, k)
        BY <1>2, <1>7, <3>1
      <4> QED
        BY <2>1, <4>1 DEF ProgressInv, PublishedAsReported
    <3>2. CASE q = r /\ k # n
      <4>1. k \in DOMAIN codes[r] /\ codes'[r][k] = codes[r][k]
        BY <1>b, <1>2, <2>1, <3>2 DEF n
      <4> QED
        BY <1>b, <1>7, <3>2, <4>1 DEF ProgressInv, PublishedAsReported
    <3>3. CASE q = r /\ k = n
      <4>1. /\ Count(r, n) = First(r, n, topic[v]) /\ topic[v] \in Nat /\ topic[v] <= Objects[r][n]
            /\ IsBroken(v) => topic[v] = 0
        BY <1>a, <1>b DEF ProgressInv, WorkerProgress, ApiTypeOK, r
      <4>2. c = "SUCCEED" => topic[v] = Objects[r][n]
        BY <1>b
      <4>3. /\ topic[v] \in 0..Objects[r][n]
            /\ c = "REQ_PARAM_ERROR" => topic[v] = 0
            /\ c = "UNKNOWN_MISTAKE" => topic[v] < Objects[r][n]
        BY <1>b, <4>1
      <4>4. codes'[q][k] = c /\ Count(q, k)' = {<<q, k, i>> : i \in 1..topic[v]}
        BY <1>2, <1>7, <3>3, <4>1 DEF First
      <4> QED
        BY <3>3, <4>2, <4>3, <4>4
    <3> QED
      BY <3>1, <3>2, <3>3
  <2> QED
    BY <2>1 DEF PublishedAsReported
<1> QED
  BY <1>10, <1>11, <1>12, <1>13 DEF ProgressInv

\* A worker that sends waits for the socket, and ends the object of the one it
\* finds there.
LEMMA TopicSent ==
  ASSUME JobInv, RequestInv, ProgressInv, NEW w \in Workers, SendTopic(w)
  PROVE  ProgressInv'
<1>a. TypeOK /\ ApiTypeOK
  BY DEF JobInv, JobTypeOK, ProgressInv
<1>1. /\ Publishing(w) /\ waiting # w /\ ~IsBroken(w) /\ topic[w] < Topics(w)
      /\ waiting' = w /\ UNCHANGED <<vars, received>>
  BY DEF SendTopic, HasTopic, Publishes, Processes, WorkerAt, Publishing
<1>2. CASE waiting # NULL
  <2>1. waiting \in Workers /\ Publishing(waiting) /\ topic[waiting] < Topics(waiting)
    BY <1>a, <1>2 DEF ApiTypeOK, ProgressInv, WorkerProgress
  <2>2. Ends(waiting, "UNKNOWN_MISTAKE")
    BY <1>2 DEF SendTopic
  <2> QED
    BY <1>1, <2>1, <2>2, ObjectEnds DEF Codes
<1>3. CASE waiting = NULL
  <2>1. UNCHANGED <<topic, codes, received, wstate, wreq>>
    BY <1>1, <1>3 DEF SendTopic, vars, server
  <2>2. \A q \in Requests : Untaken(q)' <=> Untaken(q)
    BY <1>1 DEF vars, server, client, job, Untaken, Unsent
  <2>3. \A v \in Workers : /\ Publishing(v)' <=> Publishing(v)
                           /\ Object(v)' = Object(v) /\ Topics(v)' = Topics(v)
                           /\ IsBroken(v)' <=> IsBroken(v)
    BY <2>1 DEF Publishing, AllDone, Object, Topics, IsBroken
  <2>4. \A q, k : Count(q, k)' = Count(q, k)
    BY <2>1 DEF Count
  <2>5. WorkerProgress'
    BY <1>1, <2>1, <2>3, <2>4 DEF ProgressInv, WorkerProgress
  <2>6. NothingAhead'
    BY <2>1, <2>2, <2>3 DEF ProgressInv, NothingAhead
  <2>7. PublishedAsReported' /\ ApiTypeOK'
    BY <1>1, <2>1, <2>4 DEF ProgressInv, PublishedAsReported, ApiTypeOK
  <2> QED
    BY <2>5, <2>6, <2>7 DEF ProgressInv
<1> QED
  BY <1>2, <1>3

\* The message the pipe takes is the next topic of the object its worker is at.
LEMMA MessageTaken ==
  ASSUME JobInv, RequestInv, ProgressInv, PipeTakes,
         NEW w, w = waiting, NEW r, r = wreq[w], NEW n, n = Object(w), NEW t, t = topic[w] + 1
  PROVE  ProgressInv'
<1>a. TypeOK /\ ApiTypeOK
  BY DEF JobInv, JobTypeOK, ProgressInv
<1>1. /\ w \in Workers /\ Publishing(w) /\ topic[w] < Topics(w) /\ topic[w] \in Nat /\ ~IsBroken(w)
      /\ Count(r, n) = First(r, n, topic[w])
  BY <1>a DEF PipeTakes, ApiTypeOK, ProgressInv, WorkerProgress
<1>2. /\ r \in Requests /\ Len(codes[r]) \in Nat /\ n = Len(codes[r]) + 1 /\ n \in Nat
      /\ n \in 1..Len(Objects[r]) /\ Topics(w) \in Nat
  <2>1. r \in Requests
    BY <1>a, <1>1 DEF Publishing, JobInv, JobTypeOK, TypeOK
  <2>2. Len(codes[r]) \in Nat /\ n = Len(codes[r]) + 1
    BY <1>a, <2>1, LenProperties DEF ApiTypeOK, Object
  <2>3. Objects[r] \in Seq(Nat) /\ Len(Objects[r]) \in Nat
    BY <2>1, RestApiAssumption, LenProperties
  <2>4. n \in 1..Len(Objects[r])
    BY <1>1, <2>2, <2>3 DEF Publishing, AllDone
  <2> QED
    BY <2>1, <2>2, <2>3, <2>4 DEF Topics
<1>3. /\ received' = received \cup {<<r, n, t>>} /\ topic' = [topic EXCEPT ![w] = t] /\ waiting' = NULL
      /\ UNCHANGED <<vars, codes>>
  BY DEF PipeTakes
<1>4. UNCHANGED <<codes, wstate, wreq>> /\ \A q \in Requests : Untaken(q)' <=> Untaken(q)
  BY <1>3 DEF vars, server, client, job, Untaken, Unsent
<1>5. /\ t \in Nat /\ t <= Topics(w) /\ topic' \in [Workers -> Nat]
      /\ topic'[w] = t /\ \A v \in Workers \ {w} : topic'[v] = topic[v]
  BY <1>a, <1>1, <1>2, <1>3 DEF ApiTypeOK
<1>6. \A v \in Workers : /\ Publishing(v)' <=> Publishing(v)
                         /\ Object(v)' = Object(v) /\ Topics(v)' = Topics(v)
                         /\ IsBroken(v)' <=> IsBroken(v)
  BY <1>4 DEF Publishing, AllDone, Object, Topics, IsBroken
<1>7. \A q, k : Count(q, k)' = Count(q, k) \cup (IF q = r /\ k = n THEN {<<r, n, t>>} ELSE {})
  BY <1>3 DEF Count
<1>8. First(r, n, t) = First(r, n, topic[w]) \cup {<<r, n, t>>}
  <2>1. 1..t = (1..topic[w]) \cup {t}
    BY <1>1
  <2> QED
    BY <2>1 DEF First
<1>9. \A v \in Workers \ {w} : Publishing(v) => wreq[v] # r
  BY <1>1, <1>2 DEF RequestInv, OnIt, Publishing
<1>10. ApiTypeOK'
  BY <1>a, <1>2, <1>3, <1>5 DEF ApiTypeOK
<1>11. WorkerProgress'
  <2>1. ASSUME NEW v \in Workers, Publishing(v)
        PROVE  /\ (topic[v] <= Topics(v) /\ Count(wreq[v], Object(v)) = First(wreq[v], Object(v), topic[v]))'
               /\ IsBroken(v)' => topic'[v] = 0
    <3>1. CASE v = w
      <4>1. wreq'[v] = r /\ Object(v)' = n /\ topic'[v] = t /\ Topics(v)' = Topics(w)
        BY <1>4, <1>5, <1>6, <2>1, <3>1
      <4>2. Count(r, n)' = First(r, n, t)
        BY <1>1, <1>7, <1>8
      <4> QED
        BY <1>1, <1>5, <1>6, <3>1, <4>1, <4>2
    <3>2. CASE v # w
      <4>1. wreq'[v] = wreq[v] /\ Object(v)' = Object(v) /\ topic'[v] = topic[v] /\ Topics(v)' = Topics(v)
        BY <1>4, <1>5, <1>6, <2>1, <3>2
      <4>2. /\ topic[v] <= Topics(v) /\ Count(wreq[v], Object(v)) = First(wreq[v], Object(v), topic[v])
            /\ IsBroken(v) => topic[v] = 0
        BY <2>1 DEF ProgressInv, WorkerProgress
      <4>3. wreq[v] # r
        BY <1>9, <2>1, <3>2
      <4> QED
        BY <1>6, <1>7, <4>1, <4>2, <4>3
    <3> QED
      BY <3>1, <3>2
  <2>2. ASSUME NEW v \in Workers, ~Publishing(v) PROVE topic'[v] = 0
    BY <1>1, <1>5, <2>2 DEF ProgressInv, WorkerProgress
  <2>3. \A v \in Workers : waiting' # v
    BY <1>3, RestApiAssumption
  <2> QED
    BY <1>6, <2>1, <2>2, <2>3 DEF WorkerProgress
<1>12. NothingAhead'
  <2>1. ASSUME NEW x \in received'
        PROVE  \/ x[2] <= Len(codes'[x[1]])
               \/ \E v \in Workers : Publishing(v)' /\ wreq'[v] = x[1] /\ x[2] = Object(v)'
    <3>1. CASE x \in received
      BY <1>4, <1>6, <3>1 DEF ProgressInv, NothingAhead
    <3>2. CASE x = <<r, n, t>>
      <4>1. Publishing(w)' /\ wreq'[w] = r /\ n = Object(w)'
        BY <1>1, <1>4, <1>6
      <4> QED
        BY <1>1, <3>2, <4>1
    <3> QED
      BY <1>3, <2>1, <3>1, <3>2
  <2> QED
    BY <1>4, <2>1 DEF ProgressInv, NothingAhead
<1>13. PublishedAsReported'
  <2>1. ASSUME NEW q \in Requests, NEW k \in DOMAIN codes[q] PROVE Count(q, k)' = Count(q, k)
    <3>1. q = r => k # n
      <4>1. q = r => k <= Len(codes[r])
        BY <1>a, <1>2, <2>1 DEF ApiTypeOK
      <4> QED
        BY <1>2, <4>1
    <3> QED
      BY <1>7, <3>1
  <2> QED
    BY <1>4, <2>1 DEF ProgressInv, PublishedAsReported
<1> QED
  BY <1>10, <1>11, <1>12, <1>13 DEF ProgressInv

LEMMA ApiInvStep == ApiInv /\ [ApiNext]_avars => ApiInv'
<1> SUFFICES ASSUME JobInv, RequestInv, ProgressInv, [ApiNext]_avars PROVE ApiInv'
  BY DEF ApiInv
<1>a. JobInv' /\ RequestInv' /\ \A q \in Requests : Untaken(q)' => Untaken(q)
  BY ApiStep, JobStep, RequestStep
<1>b. SUFFICES ProgressInv'
  BY <1>a DEF ApiInv
<1>c. TypeOK
  BY DEF JobInv, JobTypeOK
<1>1. CASE /\ \/ \E r \in Requests : Arrive(r) \/ Handle(r)
              \/ \E j \in Jobs : JobCb(j) \/ RecvFails(j)
           /\ UNCHANGED api
  BY <1>a, <1>1, FrontEnd, NothingPublished
<1>2. ASSUME NEW w \in Workers, ApiWorker(w) PROVE ProgressInv'
  <2>1. ASSUME NEW r \in Requests, TakeRequest(w, r) PROVE ProgressInv'
    BY <1>a, <2>1, RequestTaken
  <2>2. CASE MissingParam(w)
    <3>1. /\ Publishing(w) /\ IsBroken(w) /\ waiting # w /\ waiting' = waiting /\ Ends(w, "REQ_PARAM_ERROR")
          /\ UNCHANGED vars /\ received' = received
      BY <2>2 DEF MissingParam, Publishes, Processes, WorkerAt, Publishing
    <3>2. \/ waiting = NULL
          \/ /\ waiting \in Workers /\ Publishing(waiting) /\ ~IsBroken(waiting)
             /\ topic[waiting] < Topics(waiting)
      BY DEF ProgressInv, ApiTypeOK, WorkerProgress
    <3> QED
      BY <3>1, <3>2, ObjectEnds DEF Codes
  <2>3. CASE EncodeFails(w) \/ ObjectSent(w)
    <3>1. /\ Publishing(w) /\ waiting # w /\ waiting' = waiting
          /\ UNCHANGED vars /\ received' = received
      BY <2>3 DEF EncodeFails, ObjectSent, HasTopic, Publishes, Processes, WorkerAt, Publishing
    <3>2. \/ waiting = NULL
          \/ /\ waiting \in Workers /\ Publishing(waiting) /\ ~IsBroken(waiting)
             /\ topic[waiting] < Topics(waiting)
      BY DEF ProgressInv, ApiTypeOK, WorkerProgress
    <3>3. \/ Ends(w, "UNKNOWN_MISTAKE") /\ topic[w] < Topics(w)
          \/ Ends(w, "SUCCEED") /\ topic[w] = Topics(w)
      BY <2>3 DEF EncodeFails, ObjectSent, HasTopic
    <3> QED
      BY <3>1, <3>2, <3>3, ObjectEnds DEF Codes
  <2>4. CASE SendTopic(w)
    BY <2>4, TopicSent
  <2>5. CASE Reply(w) \/ MissingClient(w)
    <3>1. ~Publishing(w) /\ UNCHANGED api /\ WorkerReplies(w)
      BY <2>5 DEF Reply, MissingClient, Processes, Publishing
    <3>2. \A v \in Workers : \/ wstate'[v] = wstate[v] /\ wreq'[v] = wreq[v]
                             \/ ~Publishing(v) /\ wstate'[v] # "processing"
      BY <1>c, <3>1 DEF WorkerReplies, Works, TypeOK
    <3> QED
      BY <1>a, <3>1, <3>2, NothingPublished
  <2>6. CASE LookUpClient(w)
    <3>1. UNCHANGED <<wstate, wreq>> /\ UNCHANGED api
      BY <2>6 DEF LookUpClient, WorkerCrashes
    <3> QED
      BY <1>a, <3>1, NothingPublished
  <2>7. CASE WorkerSent(w) /\ UNCHANGED api
    <3>1. \A v \in Workers : \/ wstate'[v] = wstate[v] /\ wreq'[v] = wreq[v]
                             \/ ~Publishing(v) /\ wstate'[v] # "processing"
      BY <1>c, <2>7 DEF WorkerSent, WorkerAt, Works, TypeOK, Publishing
    <3> QED
      BY <1>a, <2>7, <3>1, NothingPublished
  <2> QED
    BY <1>2, <2>1, <2>2, <2>3, <2>4, <2>5, <2>6, <2>7 DEF ApiWorker
<1>3. ASSUME NEW w \in Workers, WorkerFatal(w) /\ UNCHANGED api PROVE ProgressInv'
  <2>1. UNCHANGED <<wstate, wreq>>
    BY <1>3 DEF WorkerFatal
  <2> QED
    BY <1>3, <1>a, <2>1, NothingPublished
<1>6. ASSUME NEW w \in Workers, NoReplyMemory(w) PROVE ProgressInv'
  <2>1. UNCHANGED <<wstate, wreq>> /\ UNCHANGED api
    BY <1>6 DEF NoReplyMemory, WorkerCrashes
  <2> QED
    BY <1>a, <2>1, NothingPublished
<1>4. CASE PipeTakes
  BY <1>4, MessageTaken
<1>5. CASE UNCHANGED avars
  <2>1. UNCHANGED <<wstate, wreq>> /\ UNCHANGED api
    BY <1>5 DEF avars, vars, server
  <2> QED
    BY <1>a, <2>1, NothingPublished
<1> QED
  BY <1>1, <1>2, <1>3, <1>4, <1>5, <1>6 DEF ApiNext

LEMMA ApiInitial == ApiInit => ApiInv
<1> SUFFICES ASSUME ApiInit PROVE ApiInv
  OBVIOUS
<1>1. JobInv
  BY JobInitial DEF ApiInit
<1>2. RequestInv
  BY DEF ApiInit, Init, RequestInv, OnIt, Untaken
<1>3. ApiTypeOK
  <2>1. codes \in [Requests -> Seq(Codes)] /\ \A r \in Requests : Len(codes[r]) = 0
    BY EmptySeq DEF ApiInit
  <2>2. \A r \in Requests : Len(Objects[r]) \in Nat
    BY RestApiAssumption, LenProperties
  <2> QED
    BY <2>1, <2>2 DEF ApiInit, ApiTypeOK
<1>4. WorkerProgress /\ NothingAhead
  BY RestApiAssumption DEF ApiInit, Init, WorkerProgress, NothingAhead, Publishing
<1>5. PublishedAsReported
  BY DEF ApiInit, PublishedAsReported
<1> QED
  BY <1>1, <1>2, <1>3, <1>4, <1>5 DEF ApiInv, ProgressInv

\* The code a publish request reports for each of its objects is true, however
\* many workers cut each other off at the socket they share.
THEOREM PublishReportsTrue == ApiSpec => []PublishedAsReported
<1>1. ApiInv => PublishedAsReported
  BY DEF ApiInv, ProgressInv
<1> QED
  BY <1>1, ApiInitial, ApiInvStep, PTL DEF ApiSpec
=============================================================================
