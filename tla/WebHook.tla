------------------------------- MODULE WebHook ------------------------------
(***************************************************************************)
(* One item of the webhook service, webhook_inproc.c: webhook_cb receives  *)
(* the events that the broker items push and puts them into a bounded      *)
(* queue (nng_lmq), which it grows when it is full; the thread of the item *)
(* (thread_cb) takes them out, posts them over HTTP, and shrinks the queue *)
(* when it finds it much too large.                                        *)
(*                                                                         *)
(* Changes of the queue are made under the mutex of the item; the thread   *)
(* reads whether it is empty, its length and its capacity without it, so   *)
(* each read may be stale at the next step.  The items of the pool share   *)
(* the pull socket and nothing else.                                       *)
(***************************************************************************)
EXTENDS Integers, Sequences

CONSTANTS
    InitCap,    \* NANO_LMQ_INIT_CAP
    MaxEvents,  \* bound: how many events are ever pushed
    MaxFailures \* bound: how many resizes ever fail

ASSUME WebHookAssumption ==
    /\ InitCap \in Nat /\ InitCap >= 2
    /\ MaxEvents \in Nat /\ MaxFailures \in Nat

\* Where the thread is: before the test for an empty queue, before the locked
\* get, posting, before the read of the length, of the capacity, before the
\* locked resize, asleep for 10 ms.
Places == {"test", "get", "post", "length", "capacity", "resize", "sleep"}

VARIABLES
    pushed, \* how many events were received; the events are 1..pushed
    lmq,    \* the queue
    cap,    \* its capacity
    pc,     \* where the thread is
    failed, \* how many resizes have failed
    taken,  \* the event the thread took last, 0 before the first
    seenLen, seenCap \* lmq_len and lmq_cap of thread_cb, 0 out of their block

local == <<taken, seenLen, seenCap>>
queue == <<lmq, cap>>
vars  == <<pushed, queue, failed, pc, local>>

-----------------------------------------------------------------------------
(* nng_lmq *)

Full == Len(lmq) >= cap

\* What a resize keeps: the oldest messages that fit.  The rest is freed.
Kept(q, c) == IF Len(q) <= c THEN q ELSE SubSeq(q, 1, c)

\* A resize fails for want of memory.
Fails == failed < MaxFailures /\ failed' = failed + 1

-----------------------------------------------------------------------------
(* webhook_cb in state HOOK_RECV.  (A receive fails only when the socket is *)
(* closed, which webhook_thr never does.)                                  *)

\* Mutant: the event is put, the queue grown, and the event put again.
MutPutsTwice ==
    /\ pushed < MaxEvents /\ Full
    /\ pushed' = pushed + 1
    /\ cap' = cap + (cap \div 2)
    /\ lmq' = lmq \o <<pushed + 1, pushed + 1>>
    /\ UNCHANGED <<failed, pc, local>>

\* Mutant: the new capacity is not the larger one.
MutGrowsByHalf ==
    /\ pushed < MaxEvents /\ Full
    /\ pushed' = pushed + 1
    /\ cap' = cap \div 2
    /\ lmq' = Append(Kept(lmq, cap'), pushed + 1)
    /\ UNCHANGED <<failed, pc, local>>

\* The queue is full: it grows by half, then takes the event.
RecvGrows ==
    /\ pushed < MaxEvents /\ Full
    /\ pushed' = pushed + 1
    /\ cap' = cap + (cap \div 2)
    /\ lmq' = Append(lmq, pushed + 1)
    /\ UNCHANGED <<failed, pc, local>>

\* The resize fails for want of memory: fatal only logs it, nng_lmq_put finds
\* the queue full and the event is lost.
RecvNoMemory ==
    /\ pushed < MaxEvents /\ Full
    /\ pushed' = pushed + 1
    /\ Fails
    /\ UNCHANGED <<queue, pc, local>>

RecvPuts ==
    /\ pushed < MaxEvents /\ ~Full
    /\ pushed' = pushed + 1
    /\ lmq' = Append(lmq, pushed + 1)
    /\ UNCHANGED <<cap, failed, pc, local>>

-----------------------------------------------------------------------------
(* thread_cb *)

Goes(from, to) == pc = from /\ pc' = to

\* Mutant: one event is left in the queue.
MutLeavesOne ==
    /\ Goes("test", IF Len(lmq) > 1 THEN "get" ELSE "length")
    /\ UNCHANGED <<pushed, queue, failed, local>>

\* nng_lmq_empty, without the mutex.
Test ==
    /\ Goes("test", IF lmq # <<>> THEN "get" ELSE "length")
    /\ UNCHANGED <<pushed, queue, failed, local>>

\* nng_lmq_get.  Only this thread takes events out: it finds one.
Get ==
    /\ Goes("get", "post")
    /\ lmq # <<>>
    /\ taken' = Head(lmq)
    /\ lmq' = Tail(lmq)
    /\ UNCHANGED <<pushed, cap, failed, seenLen, seenCap>>

\* send_msg: posted, or given up after an error or a timeout; the event is
\* freed either way.
Post ==
    /\ Goes("post", "test")
    /\ UNCHANGED <<pushed, queue, failed, local>>

ReadLength ==
    /\ Goes("length", "capacity")
    /\ Len(lmq) > 2 * InitCap
    /\ seenLen' = Len(lmq)
    /\ UNCHANGED <<pushed, queue, failed, taken, seenCap>>

ShortQueue ==
    /\ Goes("length", "sleep")
    /\ Len(lmq) <= 2 * InitCap
    /\ UNCHANGED <<pushed, queue, failed, local>>

\* Mutant: the queue is taken to be too large when it is not full.
MutShrinksSoon ==
    /\ Goes("capacity", "resize")
    /\ cap > seenLen
    /\ seenCap' = cap
    /\ UNCHANGED <<pushed, queue, failed, taken, seenLen>>

ReadCapacity ==
    /\ Goes("capacity", "resize")
    /\ cap > 2 * seenLen
    /\ seenCap' = cap
    /\ UNCHANGED <<pushed, queue, failed, taken, seenLen>>

\* The end of the block.
Leave == seenLen' = 0 /\ seenCap' = 0 /\ UNCHANGED taken

WellUsed ==
    /\ Goes("capacity", "sleep")
    /\ cap <= 2 * seenLen
    /\ Leave
    /\ UNCHANGED <<pushed, queue, failed>>

\* Mutant: the capacity is cut by what the queue holds over its first size.
MutUnderflow ==
    /\ Goes("resize", "sleep")
    /\ cap' = InitCap - seenLen
    /\ lmq' = Kept(lmq, cap')
    /\ Leave
    /\ UNCHANGED <<pushed, failed>>

\* nng_lmq_resize to half of the capacity it has read.
Shrink ==
    /\ Goes("resize", "sleep")
    /\ cap' = seenCap \div 2
    /\ lmq' = Kept(lmq, cap')
    /\ Leave
    /\ UNCHANGED <<pushed, failed>>

ShrinkNoMemory ==
    /\ Goes("resize", "sleep")
    /\ Fails /\ Leave
    /\ UNCHANGED <<pushed, queue>>

Sleep ==
    /\ Goes("sleep", "test")
    /\ UNCHANGED <<pushed, queue, failed, local>>

-----------------------------------------------------------------------------
(* The specification *)

Init ==
    /\ pushed = 0 /\ failed = 0
    /\ lmq = <<>>
    /\ cap = InitCap
    /\ pc = "test"
    /\ taken = 0 /\ seenLen = 0 /\ seenCap = 0

Recv   == RecvGrows \/ RecvNoMemory \/ RecvPuts
Thread == Test \/ Get \/ Post
            \/ ReadLength \/ ShortQueue \/ ReadCapacity \/ WellUsed
            \/ Shrink \/ ShrinkNoMemory \/ Sleep

Next == Recv \/ Thread

\* The thread is scheduled again and again; every wait in send_msg has a
\* timeout.  The broker need not push anything.
Spec     == Init /\ [][Next]_vars
FairSpec == Spec /\ WF_vars(Thread)

-----------------------------------------------------------------------------
(* Properties *)

\* Type invariant: events are numbered in the order they are received.
TypeOK ==
    /\ pushed \in 0..MaxEvents
    /\ lmq \in Seq(1..MaxEvents)
    /\ cap \in Nat
    /\ failed \in 0..MaxFailures
    /\ pc \in Places
    /\ taken \in 0..MaxEvents
    /\ seenLen \in Nat /\ seenCap \in Nat

\* The queue is never longer than its capacity, and no resize, whatever it was
\* decided on, takes the capacity below the one the queue started with.
QueueFits == Len(lmq) <= cap /\ cap >= InitCap

\* Events reach the HTTP server in the order they were received, and none
\* twice: growing and shrinking the queue keep its order, and what a resize
\* frees is never what was already taken.
InOrder ==
    /\ \A i, j \in 1..Len(lmq) : i < j => lmq[i] < lmq[j]
    /\ \A i \in 1..Len(lmq) : taken < lmq[i] /\ lmq[i] <= pushed

\* The queue loses no event that was in it, except in a shrink that comes too
\* late: the length it was decided on has grown in between.
LossOnlyWhenStale ==
    [][Len(lmq') < Len(lmq) => \/ taken' = lmq[1] /\ lmq' = Tail(lmq)
                               \/ pc = "resize" /\ Len(lmq) > seenLen]_vars

\* An event that is in the queue gets out of it: the thread that found the
\* queue empty looks again.
EveryEventLeaves ==
    \A e \in 1..MaxEvents :
        (\E i \in 1..Len(lmq) : lmq[i] = e) ~> (\A i \in 1..Len(lmq) : lmq[i] # e)
=============================================================================
