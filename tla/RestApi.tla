------------------------------ MODULE RestApi -------------------------------
(***************************************************************************)
(* What the workers of the REST server do with a request: process_request  *)
(* and the handlers of rest_api.c that reach the broker.                   *)
(*                                                                         *)
(* POST mqtt/publish and mqtt/publish_batch send a message per topic to    *)
(* the broker.  All workers share one REQ socket for that.  Such a socket  *)
(* has one request at a time: nng_sendmsg waits for the pipe to take it,   *)
(* and a second nng_sendmsg cancels the one that waits.  The replies of    *)
(* the broker are never received.                                          *)
(*                                                                         *)
(* POST mqtt/subscribe and mqtt/unsubscribe look the client up in a table  *)
(* that is never created.  Requests that are refused (authorization,       *)
(* method, path, JSON) or that only read are answered and have no effect;  *)
(* those on the configuration file, the rules and the process itself are   *)
(* left out.                                                               *)
(***************************************************************************)
EXTENDS RestServer

CONSTANTS
    Kind,    \* what a request asks for
    Objects, \* the JSON objects of a publish request, one unless it is a batch:
             \* the number of topics, which is 0 if there is nothing between
             \* the commas of "topics"
    Broken   \* the objects, by request and position, that lack a parameter

ASSUME RestApiAssumption ==
    /\ Kind \in [Requests -> {"answer", "publish", "subscribe"}]
    /\ Objects \in [Requests -> Seq(Nat)]
    /\ Broken \subseteq Requests \X Nat
    /\ NULL \notin Workers

Codes == {"SUCCEED", "UNKNOWN_MISTAKE", "REQ_PARAM_ERROR"}

VARIABLES
    topic,    \* how many topics of its object a worker has sent
    waiting,  \* the worker in nng_sendmsg, or NULL
    codes,    \* the codes of the objects of a request that are done
    received  \* the messages the broker has received: request, object, topic

api   == <<topic, waiting, codes, received>>
avars == <<vars, api>>

-----------------------------------------------------------------------------
(* Helpers *)

Processes(w, k) == WorkerAt(w, "processing") /\ Kind[wreq[w]] = k

\* The object a worker is at: as many are done as there are codes.
Object(w)  == Len(codes[wreq[w]]) + 1
Topics(w)  == Objects[wreq[w]][Object(w)]
AllDone(w) == Object(w) > Len(Objects[wreq[w]])
IsBroken(w) == <<wreq[w], Object(w)>> \in Broken

\* A worker that is neither done nor waiting for the socket.
Publishes(w) == Processes(w, "publish") /\ ~AllDone(w) /\ waiting # w

\* It is in send_publish, at the next topic.
HasTopic(w) == Publishes(w) /\ ~IsBroken(w) /\ topic[w] < Topics(w)

\* The object of worker v is done with code c.
Ends(v, c) ==
    /\ codes' = [codes EXCEPT ![wreq[v]] = Append(@, c)]
    /\ topic' = [topic EXCEPT ![v] = 0]

-----------------------------------------------------------------------------
(* process_request *)

TakeRequest(w, r) ==
    /\ WorkerTakes(w, r)
    /\ UNCHANGED api

\* handle_publish_msg: topic, client id or payload is missing, or a property
\* is not one.
MissingParam(w) ==
    /\ Publishes(w) /\ IsBroken(w)
    /\ Ends(w, "REQ_PARAM_ERROR")
    /\ UNCHANGED <<vars, waiting, received>>

\* Mutant: the worker whose send is cancelled goes on with its next topic.
MutIgnoresCancel(w) ==
    /\ HasTopic(w)
    /\ waiting' = w
    /\ IF waiting = NULL THEN UNCHANGED <<topic, codes>>
                         ELSE topic' = [topic EXCEPT ![waiting] = @ + 1] /\ UNCHANGED codes
    /\ UNCHANGED <<vars, received>>

\* send_publish: nng_sendmsg.  The worker that waits for the socket, if there
\* is one, gets NNG_ECANCELED: it frees its message and leaves the loop over
\* its topics.
SendTopic(w) ==
    /\ HasTopic(w)
    /\ waiting' = w
    /\ IF waiting = NULL THEN UNCHANGED <<topic, codes>> ELSE Ends(waiting, "UNKNOWN_MISTAKE")
    /\ UNCHANGED <<vars, received>>

\* send_publish: encode_common_mqtt_msg finds no memory.
EncodeFails(w) ==
    /\ HasTopic(w)
    /\ Ends(w, "UNKNOWN_MISTAKE")
    /\ UNCHANGED <<vars, waiting, received>>

\* The pipe to the broker takes the message, nng_sendmsg returns 0.
PipeTakes ==
    /\ ~exited /\ waiting # NULL
    /\ received' = received \cup {<<wreq[waiting], Object(waiting), topic[waiting] + 1>>}
    /\ topic' = [topic EXCEPT ![waiting] = @ + 1]
    /\ waiting' = NULL
    /\ UNCHANGED <<vars, codes>>

\* send_publish is through with the topics of an object, or has none.
ObjectSent(w) ==
    /\ Publishes(w) /\ ~IsBroken(w) /\ topic[w] = Topics(w)
    /\ Ends(w, "SUCCEED")
    /\ UNCHANGED <<vars, waiting, received>>

\* process_request returns; a batch has gone through all its objects, whatever
\* came of the ones before.
Reply(w) ==
    /\ Processes(w, "answer") \/ (Processes(w, "publish") /\ AllDone(w))
    /\ WorkerReplies(w)
    /\ UNCHANGED api

\* handle_subscribe_msg, handle_unsubscribe_msg: nano_hashmap_get is called
\* with the table of get_hashmap, which is NULL like its mutex.
LookUpClient(w) ==
    /\ Processes(w, "subscribe")
    /\ WorkerCrashes(w)
    /\ UNCHANGED api

\* Without a client id or a topic it does not come to that.
MissingClient(w) ==
    /\ Processes(w, "subscribe")
    /\ WorkerReplies(w)
    /\ UNCHANGED api

\* process_request has returned, and there is no memory for the reply.
NoReplyMemory(w) ==
    /\ Processes(w, "publish") => AllDone(w)
    /\ WorkerCrashes(w)
    /\ UNCHANGED api

-----------------------------------------------------------------------------
(* The specification *)

ApiInit ==
    /\ Init
    /\ topic = [w \in Workers |-> 0]
    /\ waiting = NULL
    /\ codes = [r \in Requests |-> <<>>]
    /\ received = {}

ApiWorker(w) ==
    \/ \E r \in Requests : TakeRequest(w, r)
    \/ MissingParam(w) \/ SendTopic(w) \/ EncodeFails(w) \/ ObjectSent(w)
    \/ Reply(w) \/ LookUpClient(w) \/ MissingClient(w)
    \/ WorkerSent(w) /\ UNCHANGED api

ApiNext ==
    \/ (\E r \in Requests : Arrive(r) \/ Handle(r)) /\ UNCHANGED api
    \/ (\E j \in Jobs : JobCb(j) \/ RecvFails(j)) /\ UNCHANGED api
    \/ \E w \in Workers : ApiWorker(w) \/ (WorkerFatal(w) /\ UNCHANGED api) \/ NoReplyMemory(w)
    \/ PipeTakes

\* As in RestServer; and the broker takes what the socket has for it.
ApiFairness ==
    /\ \A r \in Requests : WF_avars(Handle(r) /\ UNCHANGED api)
    /\ \A j \in Jobs : WF_avars(JobCb(j) /\ UNCHANGED api)
    /\ \A w \in Workers : WF_avars(ApiWorker(w))
    /\ WF_avars(PipeTakes)

ApiSpec == ApiInit /\ [][ApiNext]_avars /\ ApiFairness

-----------------------------------------------------------------------------
(* Properties *)

\* How many messages of the k-th object of r the broker has.
Count(r, k) == {x \in received : x[1] = r /\ x[2] = k}

\* The code of every object of a publish request says what became of it,
\* however the workers cut each other off at the shared socket: SUCCEED means
\* that the broker received all its topics, REQ_PARAM_ERROR that it received
\* none, UNKNOWN_MISTAKE that it received some first of them and not the last.
\* So a batch has one true code per object, and a request that failed may have
\* been carried out in part.
PublishedAsReported ==
    \A r \in Requests :
        \A k \in DOMAIN codes[r] :
            \E n \in 0..Objects[r][k] :
                /\ Count(r, k) = {<<r, k, i>> : i \in 1..n}
                /\ codes[r][k] = "SUCCEED" => n = Objects[r][k]
                /\ codes[r][k] = "REQ_PARAM_ERROR" => n = 0
                /\ codes[r][k] = "UNKNOWN_MISTAKE" => n < Objects[r][k]
=============================================================================
