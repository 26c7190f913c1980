----------------------------- MODULE RestServer -----------------------------
(***************************************************************************)
(* The REST server, web_server.c.  The HTTP server calls rest_handle for   *)
(* every request; the request travels as a job over an inproc REQ socket   *)
(* to the workers of inproc_server, which process it and reply; the job    *)
(* then finishes the aio of the HTTP server and goes to a free list.       *)
(*                                                                         *)
(* rest_handle runs on threads of the HTTP server, rest_job_cb and         *)
(* inproc_cb on those of the task queue.  Only the free list is shared     *)
(* between jobs, under job_lock.                                           *)
(*                                                                         *)
(* The sockets are nng's.  rest_handle opens a context for every request,  *)
(* named here after it; a reply comes back to the context the request was  *)
(* sent on, if that is still open, and waits there until it is received or *)
(* the context is closed.  (nng also tells the requests of a context       *)
(* apart: nothing here relies on it.)  What process_request does is the    *)
(* subject of RestApi; here it returns, or it ends the process.            *)
(***************************************************************************)
EXTENDS Integers, Sequences

CONSTANTS
    Requests, \* HTTP requests, each with the aio of the HTTP server
    Jobs,     \* bound: the job structures there is memory for
    Workers,  \* the items of inproc_server (http_server.parallel)
    NULL

ASSUME RestServerAssumption == NULL \notin Requests \cup Jobs

\* A job: not allocated, on the free list, held by rest_handle, or with its
\* aio in flight in one of the two states of job_state.
Places       == {"none", "free", "handler", "SEND_REQ", "RECV_REP"}
Messages     == {"NULL", "request", "reply"}
WorkerStates == {"SRV_RECV", "processing", "SRV_SEND"}

VARIABLES
    answers,  \* how often the aio of a request was finished
    arrived,  \* the requests rest_handle was called for
    jobOf,    \* the variable job of a rest_handle that is running
    freelist, \* job_freelist
    place,    \* where a job is
    httpAio, httpRes, msg, \* the fields of a job
    ctx,      \* job->ctx: the context it opened last, closed or not
    open,     \* the contexts of req_sock that are open
    replied,  \* requests whose reply waits at its context
    via,      \* the context a request was sent on
    wire,     \* requests with the REP socket, not yet with a worker
    wstate, wreq, \* the state of a worker, the request it works on
    exited    \* fatal() has ended the process

client == <<answers, arrived>>
job    == <<place, httpAio, httpRes, msg, ctx>>
ctxs   == <<open, replied>>
server == <<via, wire, wstate, wreq, exited>>
vars   == <<client, jobOf, freelist, job, ctxs, server>>

-----------------------------------------------------------------------------
(* Helpers *)

\* nng_aio_finish on the aio of a request.
Answer(r) == answers' = [answers EXCEPT ![r] = @ + 1]

\* rest_recycle_job of a job whose context is c: what the job holds is freed,
\* the context is closed with the reply that may wait there, the job goes to
\* the head of the free list.  It keeps the name of its context, which may have
\* been closed before, and its http_aio is the caller's affair.
Recycle(j, c) ==
    /\ httpRes' = [httpRes EXCEPT ![j] = "NULL"]
    /\ msg' = [msg EXCEPT ![j] = "NULL"]
    /\ ctx' = [ctx EXCEPT ![j] = c]
    /\ open' = open \ {c}
    /\ replied' = {q \in replied : via[q] # c}
    /\ place' = [place EXCEPT ![j] = "free"]
    /\ freelist' = <<j>> \o freelist

\* rest_http_fatal: the job gives its response object to the HTTP server with
\* an error status, and is done.
HttpFatal(j, aio, c) ==
    /\ Answer(aio)
    /\ httpAio' = [httpAio EXCEPT ![j] = NULL]
    /\ Recycle(j, c)

-----------------------------------------------------------------------------
(* rest_handle *)

Running(r) == ~exited /\ r \in arrived /\ answers[r] = 0

Arrive(r) ==
    /\ ~exited /\ r \notin arrived
    /\ arrived' = arrived \cup {r}
    /\ UNCHANGED <<answers, jobOf, freelist, job, ctxs, server>>

WantsJob(r) == Running(r) /\ jobOf[r] = NULL /\ \A j \in Jobs : httpAio[j] # r

\* Mutant: the job is taken but stays on the list.
MutNoPop(r) ==
    /\ WantsJob(r) /\ freelist # <<>>
    /\ jobOf' = [jobOf EXCEPT ![r] = Head(freelist)]
    /\ place' = [place EXCEPT ![Head(freelist)] = "handler"]
    /\ UNCHANGED <<client, freelist, httpAio, httpRes, msg, ctx, ctxs, server>>

\* rest_get_job: from the free list,
GetJob(r) ==
    /\ WantsJob(r) /\ freelist # <<>>
    /\ jobOf' = [jobOf EXCEPT ![r] = Head(freelist)]
    /\ place' = [place EXCEPT ![Head(freelist)] = "handler"]
    /\ freelist' = Tail(freelist)
    /\ UNCHANGED <<client, httpAio, httpRes, msg, ctx, ctxs, server>>

\* a new one,
NewJob(r, j) ==
    /\ WantsJob(r) /\ freelist = <<>> /\ place[j] = "none"
    /\ jobOf' = [jobOf EXCEPT ![r] = j]
    /\ place' = [place EXCEPT ![j] = "handler"]
    /\ UNCHANGED <<client, freelist, httpAio, httpRes, msg, ctx, ctxs, server>>

\* or none for want of memory: the request fails.
NoJob(r) ==
    /\ WantsJob(r) /\ freelist = <<>>
    /\ Answer(r)
    /\ UNCHANGED <<arrived, jobOf, freelist, job, ctxs, server>>

\* rest_handle is over for r.
Returns(r) == jobOf' = [jobOf EXCEPT ![r] = NULL]

HasJob(r, j) == Running(r) /\ jobOf[r] = j

\* No response object or no context: the job goes back, with the context of
\* its last request, and the request fails.
NoContext(r, j) ==
    /\ HasJob(r, j)
    /\ Recycle(j, ctx[j]) /\ Answer(r) /\ Returns(r)
    /\ UNCHANGED <<arrived, httpAio, server>>

\* A context, but no message: the request is answered with an error status.
NoMessage(r, j) ==
    /\ HasJob(r, j)
    /\ HttpFatal(j, r, r) /\ Returns(r)
    /\ UNCHANGED <<arrived, server>>

\* The context is open, the request goes to the socket with nng_ctx_send.
SendsOn(r, j, c) ==
    /\ httpRes' = [httpRes EXCEPT ![j] = "live"]
    /\ msg' = [msg EXCEPT ![j] = "request"]
    /\ place' = [place EXCEPT ![j] = "SEND_REQ"]
    /\ ctx' = [ctx EXCEPT ![j] = c] /\ open' = open \cup {c}
    /\ via' = [via EXCEPT ![r] = c] /\ wire' = wire \cup {r}
    /\ Returns(r)
    /\ UNCHANGED <<client, freelist, replied, wstate, wreq, exited>>

\* Mutant: a context is opened, but the aio to answer is not remembered.
MutForgetsAio(r, j) ==
    /\ HasJob(r, j)
    /\ SendsOn(r, j, r)
    /\ UNCHANGED httpAio

\* Mutant: the jobs share the context of the socket.
MutSharedContext(r, j) ==
    /\ HasJob(r, j)
    /\ httpAio' = [httpAio EXCEPT ![j] = r]
    /\ SendsOn(r, j, CHOOSE q \in Requests : TRUE)

\* A context of its own for the request, which is sent.
SendReq(r, j) ==
    /\ HasJob(r, j)
    /\ httpAio' = [httpAio EXCEPT ![j] = r]
    /\ SendsOn(r, j, r)

-----------------------------------------------------------------------------
(* rest_job_cb *)

At(j, p) == ~exited /\ place[j] = p

\* The receive completes with a reply that came to the context.
GetsReply(j) == At(j, "RECV_REP") /\ \E q \in replied : via[q] = ctx[j]

\* The send failed, and the request did not get out.
SendFails(j) ==
    /\ At(j, "SEND_REQ") /\ httpAio[j] \in wire
    /\ wire' = wire \ {httpAio[j]}
    /\ HttpFatal(j, httpAio[j], ctx[j])
    /\ UNCHANGED <<arrived, jobOf, via, wstate, wreq, exited>>

\* The message belongs to the socket now; wait for the reply.
SendDone(j) ==
    /\ At(j, "SEND_REQ")
    /\ msg' = [msg EXCEPT ![j] = "NULL"]
    /\ place' = [place EXCEPT ![j] = "RECV_REP"]
    /\ UNCHANGED <<client, jobOf, freelist, httpAio, httpRes, ctx, ctxs, server>>

\* The receive failed.  A worker may still be busy with the request: its
\* reply will find the context closed.
RecvFails(j) ==
    /\ At(j, "RECV_REP")
    /\ HttpFatal(j, httpAio[j], ctx[j])
    /\ UNCHANGED <<arrived, jobOf, server>>

\* Mutant: the return after the failed copy is missing.
MutCopyGoesOn(j) ==
    /\ GetsReply(j)
    /\ answers' = [answers EXCEPT ![httpAio[j]] = @ + 2]
    /\ httpAio' = [httpAio EXCEPT ![j] = NULL]
    /\ Recycle(j, ctx[j])
    /\ UNCHANGED <<arrived, jobOf, server>>

\* The reply cannot be copied into the response.
CopyFails(j) ==
    /\ GetsReply(j)
    /\ HttpFatal(j, httpAio[j], ctx[j])
    /\ UNCHANGED <<arrived, jobOf, server>>

\* The reply is given to the HTTP server, and the job is done.
RecvDone(j) ==
    /\ GetsReply(j)
    /\ Answer(httpAio[j])
    /\ httpAio' = [httpAio EXCEPT ![j] = NULL]
    /\ Recycle(j, ctx[j])
    /\ UNCHANGED <<arrived, jobOf, server>>

-----------------------------------------------------------------------------
(* inproc_cb *)

WorkerAt(w, s) == ~exited /\ wstate[w] = s

Works(w, s, r) ==
    /\ wstate' = [wstate EXCEPT ![w] = s]
    /\ wreq' = [wreq EXCEPT ![w] = r]

\* process_request runs,
WorkerTakes(w, r) ==
    /\ WorkerAt(w, "SRV_RECV") /\ r \in wire
    /\ wire' = wire \ {r}
    /\ Works(w, "processing", r)
    /\ UNCHANGED <<client, jobOf, freelist, job, ctxs, via, exited>>

\* and its result is sent: to a context that may be closed by now.
WorkerReplies(w) ==
    /\ WorkerAt(w, "processing")
    /\ replied' = IF via[wreq[w]] \in open THEN replied \cup {wreq[w]} ELSE replied
    /\ Works(w, "SRV_SEND", NULL)
    /\ UNCHANGED <<client, jobOf, freelist, job, open, via, wire, exited>>

\* Mutant: the item does not receive again after a reply.
MutNotRearmed(w) ==
    /\ WorkerAt(w, "SRV_SEND")
    /\ Works(w, "SRV_SEND", NULL)
    /\ UNCHANGED <<client, jobOf, freelist, job, ctxs, via, wire, exited>>

WorkerSent(w) ==
    /\ WorkerAt(w, "SRV_SEND")
    /\ Works(w, "SRV_RECV", NULL)
    /\ UNCHANGED <<client, jobOf, freelist, job, ctxs, via, wire, exited>>

\* A failed receive or a failed reply is fatal.
WorkerFatal(w) ==
    /\ WorkerAt(w, "SRV_RECV") \/ WorkerAt(w, "SRV_SEND")
    /\ exited' = TRUE
    /\ UNCHANGED <<client, jobOf, freelist, job, ctxs, via, wire, wstate, wreq>>

\* process_request follows a NULL pointer, or there is no memory for the
\* message with its result: nobody looks at what nng_msg_alloc returns.
WorkerCrashes(w) ==
    /\ WorkerAt(w, "processing")
    /\ exited' = TRUE
    /\ UNCHANGED <<client, jobOf, freelist, job, ctxs, via, wire, wstate, wreq>>

-----------------------------------------------------------------------------
(* The specification *)

Init ==
    /\ answers = [r \in Requests |-> 0]
    /\ arrived = {}
    /\ jobOf = [r \in Requests |-> NULL]
    /\ freelist = <<>>
    /\ place = [j \in Jobs |-> "none"]
    /\ httpAio = [j \in Jobs |-> NULL]
    /\ httpRes = [j \in Jobs |-> "NULL"]
    /\ msg = [j \in Jobs |-> "NULL"]
    /\ ctx = [j \in Jobs |-> NULL]
    /\ open = {} /\ replied = {}
    /\ via = [r \in Requests |-> NULL] /\ wire = {}
    /\ wstate = [w \in Workers |-> "SRV_RECV"]
    /\ wreq = [w \in Workers |-> NULL]
    /\ exited = FALSE

Handle(r) ==
    \/ GetJob(r) \/ NoJob(r)
    \/ \E j \in Jobs : NewJob(r, j) \/ NoContext(r, j) \/ NoMessage(r, j) \/ SendReq(r, j)

JobCb(j) == SendFails(j) \/ SendDone(j) \/ CopyFails(j) \/ RecvDone(j)

Worker(w) == (\E r \in Requests : WorkerTakes(w, r)) \/ WorkerReplies(w) \/ WorkerSent(w)

Next ==
    \/ \E r \in Requests : Arrive(r) \/ Handle(r)
    \/ \E j \in Jobs : JobCb(j) \/ RecvFails(j)
    \/ \E w \in Workers : Worker(w) \/ WorkerFatal(w) \/ WorkerCrashes(w)

\* Handlers and callbacks that have started end, and process_request returns;
\* a receive or a reply need not fail.
Fairness ==
    /\ \A r \in Requests : WF_vars(Handle(r))
    /\ \A j \in Jobs : WF_vars(JobCb(j))
    /\ \A w \in Workers : WF_vars(Worker(w))

Spec     == Init /\ [][Next]_vars
FairSpec == Spec /\ Fairness

-----------------------------------------------------------------------------
(* Properties *)

\* Type invariant: a pointer of a job is NULL or points to something live.
TypeOK ==
    /\ answers \in [Requests -> Nat]
    /\ arrived \subseteq Requests
    /\ jobOf \in [Requests -> Jobs \cup {NULL}]
    /\ freelist \in Seq(Jobs)
    /\ place \in [Jobs -> Places]
    /\ httpAio \in [Jobs -> Requests \cup {NULL}]
    /\ httpRes \in [Jobs -> {"NULL", "live"}]
    /\ msg \in [Jobs -> Messages]
    /\ ctx \in [Jobs -> Requests \cup {NULL}] /\ via \in [Requests -> Requests \cup {NULL}]
    /\ open \subseteq Requests /\ replied \subseteq Requests /\ wire \subseteq Requests
    /\ wstate \in [Workers -> WorkerStates]
    /\ wreq \in [Workers -> Requests \cup {NULL}]
    /\ exited \in BOOLEAN

\* A request is answered at most once: the error paths of rest_handle and of
\* rest_job_cb each finish the aio of the HTTP server and then let go of it.
AnsweredOnce == \A r \in Requests : answers[r] <= 1

\* A job serves one request at a time: the free list holds each free job once
\* and no other, no two handlers have the same job, no two jobs have the same
\* aio to answer.
JobsNotShared ==
    /\ \A i \in 1..Len(freelist) : place[freelist[i]] = "free"
    /\ \A i, k \in 1..Len(freelist) : i # k => freelist[i] # freelist[k]
    /\ \A j \in Jobs : place[j] = "free" => \E i \in 1..Len(freelist) : freelist[i] = j
    /\ \A r, s \in Requests : r # s /\ jobOf[r] # NULL => jobOf[r] # jobOf[s]
    /\ \A r \in Requests : jobOf[r] # NULL => place[jobOf[r]] = "handler"
    /\ \A j, k \in Jobs : j # k /\ httpAio[j] # NULL => httpAio[j] # httpAio[k]

InFlight == {j \in Jobs : place[j] \in {"SEND_REQ", "RECV_REP"}}

\* A job in flight has an open request to answer and a response object to
\* answer it with; it has a message exactly while rest_recycle_job would have
\* to free it; and an idle job has none of them, so that nothing is leaked
\* when the next request overwrites its fields.
JobsHoldTheirOwn ==
    \A j \in Jobs :
        IF j \in InFlight
        THEN /\ httpAio[j] # NULL /\ answers[httpAio[j]] = 0
             /\ httpRes[j] = "live"
             /\ msg[j] = IF place[j] = "SEND_REQ" THEN "request" ELSE "NULL"
        ELSE httpAio[j] = NULL /\ httpRes[j] = "NULL" /\ msg[j] = "NULL"

\* A reply is never taken for the reply to another request, although a worker
\* may be busy with a request for long after its job gave up on it and serves
\* the next one: what waits at the context of a job in flight is the reply to
\* the request the job is to answer.  The contexts that are open are those of
\* the jobs in flight: none is left open, and the second nng_ctx_close of a
\* context that a job kept from an earlier request closes no other's.
RepliesMatch ==
    /\ open = {ctx[j] : j \in InFlight}
    /\ \A j \in InFlight : \A q \in replied : via[q] = ctx[j] => q = httpAio[j]

\* Every HTTP request is answered, or the process has ended.
EveryRequestAnswered ==
    \A r \in Requests : (r \in arrived) ~> (answers[r] > 0 \/ exited)
=============================================================================
