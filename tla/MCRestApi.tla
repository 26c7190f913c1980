----------------------------- MODULE MCRestApi ------------------------------
(* Three requests, two job structures and two workers: a job is used again, *)
(* a request finds no job, both workers publish at once, one of them a      *)
(* batch with an object that lacks a parameter, one without a topic and one *)
(* with a topic; the third request may end the process.                     *)
EXTENDS RestApi

CONSTANTS r1, r2, r3, j1, j2, w1, w2

MCRequests == {r1, r2, r3}
MCJobs     == {j1, j2}
MCWorkers  == {w1, w2}
MCKind     == [r \in MCRequests |-> IF r = r3 THEN "subscribe" ELSE "publish"]
MCObjects  == [r \in MCRequests |-> IF r = r1 THEN <<2>> ELSE IF r = r2 THEN <<1, 0, 1>> ELSE <<>>]
MCBroken   == {<<r2, 1>>}
=============================================================================
