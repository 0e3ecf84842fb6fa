-------------------------- MODULE ConcurrentScenario --------------------------
(***************************************************************************)
(* DockerDriver.execute_concurrent (docker.py): one container is started,  *)
(* the batches of requests run against it one after the other, the         *)
(* requests of one batch run concurrently in threads of their own, and a   *)
(* finally clause kills the container whichever way the body ends.         *)
(*                                                                         *)
(* Four actors interleave: the main thread, the request threads of the     *)
(* current batch, the container, which answers when it likes and may exit  *)
(* at any moment (it runs with --rm, so it is then gone), and whatever     *)
(* listens on the fallback address when the requests are sent there.       *)
(*                                                                         *)
(* A request is named by its batch and its index, as the result records    *)
(* of the code are ("{test}_batch{b}_req{i}").  Indices start at 1 here    *)
(* and at 0 in Python.  Payloads, headers and assertion texts are reduced  *)
(* to what evaluating the answer yields, see Answers.                      *)
(***************************************************************************)
EXTENDS Naturals, Sequences

CONSTANTS
  Scenarios,   \* the ConcurrentTest values the driver may be given
  MaxBatches,  \* bound: no scenario has more batches
  MaxWidth,    \* bound: no batch has more requests
  Debug        \* whether the driver's logger is enabled for DEBUG

BatchIds == 1 .. MaxBatches
Slots    == 1 .. MaxWidth

(***************************************************************************)
(* What may be answered, seen through the request's assertions:            *)
(* they hold, one of them fails, or one fails on an answer whose failure   *)
(* report cannot be built (a JSON number or boolean: Response.__str__      *)
(* slices it and raises TypeError instead of ExecutionTestFailed).         *)
(***************************************************************************)
Answers == {"match", "mismatch", "unprintable"}
None    == "none"
Verdicts == {"succeeded", "failed"}

ThreadStates == {"idle", "sleeping", "sending", "done", "died"}
Phases == {"start", "batch", "spawn", "join", "report", "finally", "over"}

(***************************************************************************)
(* A ConcurrentTest is a record of the width of each batch, the requests   *)
(* with a delay and the requests with a non-empty list of assertions.      *)
(***************************************************************************)
ASSUME ScenarioAssumption ==
  /\ MaxBatches \in Nat
  /\ MaxWidth \in Nat
  /\ Debug \in BOOLEAN
  /\ \A s \in Scenarios :
       /\ s.width \in Seq(0 .. MaxWidth)
       /\ Len(s.width) <= MaxBatches
       /\ s.delayed \subseteq BatchIds \X Slots
       /\ s.asserting \subseteq BatchIds \X Slots

VARIABLES
  scenario,   \* the ConcurrentTest being executed
  pc,         \* where the main thread is
  outcome,    \* how the body ended: "pending", "returned" or "raised"
  container,  \* "none" before docker run, then "up", then "gone"
  address,    \* local_address: None, then the "container" or the "fallback"
  batch,      \* index of the batch being executed
  started,    \* how many threads of the batch have been started
  thread,     \* the request threads of the current batch
  response,   \* response_map of the current batch, None where there is no key
  results,    \* all_results, one list of verdicts per evaluated batch
  dumped,     \* whether the container's logs were printed
  answer,     \* external: what each request was answered
  foreign,    \* external: the requests that somebody else than the container answered
  early       \* external: delayed requests that were sent without their delay

(* What the main thread owns. *)
mainVars == <<pc, outcome, address, batch, started, results, dumped>>
(* What the model records and the code does not. *)
history == <<answer, foreign, early>>
vars == <<scenario, mainVars, container, thread, response, history>>

NBatches == Len(scenario.width)
Width(b) == scenario.width[b]
Active(i) == thread[i] \in {"sleeping", "sending"}

Init ==
  /\ scenario \in Scenarios
  /\ pc = "start" /\ outcome = "pending" /\ container = None
  /\ address = None /\ batch = 1 /\ started = 0
  /\ thread = [i \in Slots |-> "idle"]
  /\ response = [i \in Slots |-> None]
  /\ results = <<>> /\ dumped = FALSE
  /\ answer = [b \in BatchIds |-> [i \in Slots |-> None]]
  /\ foreign = {} /\ early = {}

-------------------------------------------------------------------------------
(* The main thread. *)

(***************************************************************************)
(* _start_container, then _get_local_addr and _wait_for_container_ready,   *)
(* which sleeps and always answers True.  No container id on stdout is an  *)
(* exception raised with container_id still None.  An id may be printed    *)
(* for a container that is gone already: docker inspect and docker port    *)
(* then know no address, and the requests go to 127.0.0.1:8080, whoever    *)
(* listens there.                                                          *)
(***************************************************************************)
StartContainer ==
  /\ pc = "start"
  /\ \/ /\ container' = "up" /\ address' = "container"
        /\ pc' = "batch"
        /\ UNCHANGED outcome
     \/ /\ container' = "gone" /\ address' = "fallback"
        /\ pc' = "batch"
        /\ UNCHANGED outcome
     \/ /\ pc' = "finally" /\ outcome' = "raised"
        /\ UNCHANGED <<container, address>>
  /\ UNCHANGED <<scenario, batch, started, thread, response, results, dumped, history>>

(* response_map of a new batch; it must not survive from one to the next. *)
Mut_FreshMap == response
FreshMap     == [i \in Slots |-> None]

(***************************************************************************)
(* The next iteration of the loop over request_batches, into               *)
(* _execute_batch: response_map is a fresh dictionary.  A batch of one     *)
(* request is sent by the main thread itself, at once; a larger one is     *)
(* handed to threads; an empty one has nothing to join.                    *)
(***************************************************************************)
BeginBatch ==
  /\ pc = "batch" /\ batch <= NBatches
  /\ response' = FreshMap
  /\ IF Width(batch) = 1
       THEN /\ thread' = [i \in Slots |-> IF i = 1 THEN "sending" ELSE "idle"]
            /\ early' = early \cup (scenario.delayed \cap {<<batch, 1>>})
            /\ started' = 1 /\ pc' = "join"
       ELSE /\ thread' = [i \in Slots |-> "idle"]
            /\ started' = 0
            /\ pc' = IF Width(batch) = 0 THEN "join" ELSE "spawn"
            /\ UNCHANGED early
  /\ UNCHANGED <<scenario, address, outcome, batch, container, results, dumped>>
  /\ UNCHANGED <<answer, foreign>>

(***************************************************************************)
(* One iteration of the loop that creates and starts the threads.  The     *)
(* interpreter may refuse to start one, which raises out of the batch with *)
(* the threads started so far still running.                               *)
(***************************************************************************)
StartThread ==
  /\ pc = "spawn"
  /\ \/ LET i == started + 1 IN
        /\ thread' = [thread EXCEPT ![i] =
             IF <<batch, i>> \in scenario.delayed THEN "sleeping" ELSE "sending"]
        /\ started' = i
        /\ pc' = IF i = Width(batch) THEN "join" ELSE "spawn"
        /\ UNCHANGED outcome
     \/ /\ pc' = "finally" /\ outcome' = "raised"
        /\ UNCHANGED <<thread, started>>
  /\ UNCHANGED <<scenario, address, batch, container, response, results, dumped, history>>

(* _evaluate_request_response: without assertions every answer succeeds. *)
Raises(b, i, a)  == a = "unprintable" /\ <<b, i>> \in scenario.asserting
Mut_Verdict(b, i, a) == IF <<b, i>> \in scenario.asserting THEN "failed" ELSE a
Verdict(b, i, a) ==
  IF a = "match" \/ <<b, i>> \notin scenario.asserting THEN "succeeded" ELSE "failed"

(* The loop over join: every thread of the batch has ended. *)
Mut_AllJoined == started > 0 => ~Active(started)
AllJoined     == \A i \in 1 .. started : ~Active(i)

(***************************************************************************)
(* A thread that died left no entry: response_map[i] raises KeyError (in a *)
(* batch of one the request's own exception propagates).                   *)
(***************************************************************************)
Mut_BatchRaises == \E i \in 1 .. Width(batch) : Raises(batch, i, response[i])
BatchRaises ==
  \E i \in 1 .. Width(batch) : response[i] = None \/ Raises(batch, i, response[i])

(* One verdict per request, in request order. *)
BatchVerdicts == [i \in 1 .. Width(batch) |-> Verdict(batch, i, response[i])]

(***************************************************************************)
(* Every thread joined, the answers are evaluated.  When that raises, the  *)
(* results of the earlier batches are lost with the frame.                 *)
(***************************************************************************)
EvaluateBatch ==
  /\ pc = "join" /\ AllJoined
  /\ IF BatchRaises
       THEN /\ pc' = "finally" /\ outcome' = "raised"
            /\ UNCHANGED <<batch, results>>
       ELSE /\ results' = Append(results, BatchVerdicts)
            /\ batch' = batch + 1
            /\ pc' = "batch"
            /\ UNCHANGED outcome
  /\ UNCHANGED <<scenario, address, started, container, thread, response, dumped, history>>

HasFailures == \E b \in DOMAIN results : \E i \in DOMAIN results[b] : results[b][i] = "failed"

(***************************************************************************)
(* After the last batch: the logs are printed when a result failed or in   *)
(* debug mode.  Decoding logs that are not UTF-8 raises.                   *)
(***************************************************************************)
ReportResults ==
  /\ pc = "batch" /\ batch > NBatches
  /\ \/ /\ outcome' = "returned"
        /\ dumped' = (HasFailures \/ Debug)
     \/ /\ HasFailures \/ Debug
        /\ outcome' = "raised"
        /\ UNCHANGED dumped
  /\ pc' = "finally"
  /\ UNCHANGED <<scenario, address, batch, started, container, thread, response, results,
                 history>>

(* The finally clause: docker kill, whose own failure is ignored. *)
KillContainer ==
  /\ pc = "finally"
  /\ container' = IF container = None THEN None ELSE "gone"
  /\ pc' = "over"
  /\ UNCHANGED <<scenario, address, outcome, batch, started, thread, response, results,
                 dumped, history>>

MainThread ==
  \/ StartContainer
  \/ BeginBatch
  \/ StartThread
  \/ EvaluateBatch
  \/ ReportResults
  \/ KillContainer

-------------------------------------------------------------------------------
(* The request threads, and who answers them. *)

(* time.sleep(request.delay) is over. *)
Wake(i) ==
  /\ thread[i] = "sleeping"
  /\ thread' = [thread EXCEPT ![i] = "sending"]
  /\ UNCHANGED <<scenario, mainVars, container, response, history>>

(* requests.request returned and its body is stored under the own index. *)
Receive(i) ==
  /\ thread[i] = "sending" /\ answer[batch][i] # None
  /\ response' = [response EXCEPT ![i] = answer[batch][i]]
  /\ thread' = [thread EXCEPT ![i] = "done"]
  /\ UNCHANGED <<scenario, mainVars, container, history>>

(***************************************************************************)
(* requests.request raised: refused, reset, or REQUEST_TIMEOUT ran out     *)
(* whether or not the container has answered by now.  Nothing catches it   *)
(* in the thread, and nothing is stored.                                   *)
(***************************************************************************)
Mut_Fail(i) ==
  /\ thread[i] = "sending" /\ container # "up"
  /\ thread' = [thread EXCEPT ![i] = "died"]
  /\ UNCHANGED <<scenario, mainVars, container, response, history>>
Fail(i) ==
  /\ thread[i] = "sending"
  /\ thread' = [thread EXCEPT ![i] = "died"]
  /\ UNCHANGED <<scenario, mainVars, container, response, history>>

(* The request of thread i, in flight, is answered. *)
IsAnswered(i) ==
  /\ thread[i] = "sending" /\ answer[batch][i] = None
  /\ \E a \in Answers : answer' = [answer EXCEPT ![batch][i] = a]
  /\ UNCHANGED <<scenario, mainVars, container, thread, response, early>>

(* The container handles a request that reached it. *)
Answer(i) ==
  /\ container = "up" /\ address = "container"
  /\ IsAnswered(i)
  /\ UNCHANGED foreign

(* Something that is not the container listens on the fallback address. *)
StrangerAnswers(i) ==
  /\ address = "fallback"
  /\ IsAnswered(i)
  /\ foreign' = foreign \cup {<<batch, i>>}

(* The container exits on its own: the function crashed its runtime. *)
ContainerExits ==
  /\ container = "up"
  /\ container' = "gone"
  /\ UNCHANGED <<scenario, mainVars, thread, response, history>>

Next ==
  \/ MainThread
  \/ \E i \in Slots : Wake(i) \/ Receive(i) \/ Fail(i) \/ Answer(i) \/ StrangerAnswers(i)
  \/ ContainerExits

(***************************************************************************)
(* The main thread and each request thread keep running.  A thread's       *)
(* request ends one way or another because requests.request has a connect  *)
(* and a read timeout; nothing obliges anyone to answer.                   *)
(***************************************************************************)
Fairness ==
  /\ WF_vars(MainThread)
  /\ \A i \in Slots : WF_vars(Wake(i)) /\ WF_vars(Receive(i) \/ Fail(i))

Spec     == Init /\ [][Next]_vars
FairSpec == Spec /\ Fairness

-------------------------------------------------------------------------------
(* Properties. *)

Outcomes == {"pending", "returned", "raised"}
MaybeAnswer == Answers \cup {None}

(* Every variable has its type (one invariant for the whole module). *)
TypeOK ==
  /\ scenario \in Scenarios
  /\ pc \in Phases
  /\ outcome \in Outcomes
  /\ container \in {None, "up", "gone"}
  /\ address \in {None, "container", "fallback"}
  /\ batch \in 1 .. (NBatches + 1)
  /\ started \in 0 .. MaxWidth
  /\ thread \in [Slots -> ThreadStates]
  /\ response \in [Slots -> MaybeAnswer]
  /\ results \in Seq(Seq(Verdicts))
  /\ dumped \in BOOLEAN
  /\ answer \in [BatchIds -> [Slots -> MaybeAnswer]]
  /\ foreign \subseteq BatchIds \X Slots
  /\ early \subseteq BatchIds \X Slots

(***************************************************************************)
(* Each verdict that execute_concurrent collected judges the answer given  *)
(* to that very request, however the threads of the batch interleaved and  *)
(* whatever the batches before left behind.  The container gave all of     *)
(* these answers or none: they are a stranger's only when the container    *)
(* was gone before its address was known.                                  *)
(***************************************************************************)
ResultsAreOwn ==
  /\ \A b \in DOMAIN results : \A i \in DOMAIN results[b] :
       /\ answer[b][i] # None
       /\ results[b][i] = Verdict(b, i, answer[b][i])
  /\ foreign # {} =>
       /\ container = "gone" /\ address = "fallback"
       /\ foreign = {r \in BatchIds \X Slots : answer[r[1]][r[2]] # None}

(***************************************************************************)
(* A call that returns reports exactly one verdict per request of every    *)
(* batch: no request of the scenario is silently dropped from the report.  *)
(***************************************************************************)
ReturnedIsComplete ==
  outcome = "returned" =>
    /\ DOMAIN results = 1 .. NBatches
    /\ \A b \in 1 .. NBatches : DOMAIN results[b] = 1 .. Width(b)

(***************************************************************************)
(* Batches are barriers: by the time a request of one batch is answered,   *)
(* every request of all earlier batches is, and those answers have been    *)
(* judged.                                                                 *)
(***************************************************************************)
BatchBarrier ==
  \A b \in BatchIds, i \in Slots : answer[b][i] # None =>
    \A c \in 1 .. (b - 1) :
       /\ c \in DOMAIN results
       /\ \A j \in 1 .. Width(c) : answer[c][j] # None

(***************************************************************************)
(* The finally clause kills the container under requests still in flight   *)
(* only when the interpreter refused to start a thread of the batch; on    *)
(* every other way out all the threads have ended.                         *)
(***************************************************************************)
KilledQuiet ==
  pc \in {"finally", "over"} /\ (\E i \in Slots : Active(i)) =>
    /\ outcome = "raised"
    /\ batch <= NBatches /\ started < Width(batch)

(* When the call has ended the container it started runs no more. *)
ContainerReleased == pc = "over" => container # "up"

(***************************************************************************)
(* The call ends although the container need never answer anything, and so *)
(* does every request thread, those abandoned by a batch that raised while *)
(* it was starting them included.                                          *)
(***************************************************************************)
Termination == <>[](pc = "over" /\ \A i \in Slots : ~Active(i))

(***************************************************************************)
(* README.md:76 of the repository says of Request "delay: Optional delay   *)
(* before sending request".  A batch of one request does not wait.         *)
(***************************************************************************)
DelayHonoured == early = {}

(***************************************************************************)
(* docker.py:126 says "Dump container logs on failure (always, not just in *)
(* debug mode)".  A request that failed its assertions is such a failure,  *)
(* but a later batch that raises leaves before the logs are dumped.        *)
(***************************************************************************)
LogsDumpedOnFailure == pc = "over" /\ HasFailures => dumped

(***************************************************************************)
(* The call implements its contract: seen from outside the batches are     *)
(* answered in order, by the container unless that was lost at the start,  *)
(* and there is one report at the end.                                     *)
(***************************************************************************)
RequestsOf(s) ==
  {<<r[1], r[2], r \in s.asserting>> :
     r \in {q \in BatchIds \X Slots : q[1] <= Len(s.width) /\ q[2] <= s.width[q[1]]}}

Requests == RequestsOf(scenario)
Answered == {r \in Requests : answer[r[1]][r[2]] # None}
Reported == {r \in Requests : outcome = "returned"}

Seen   == [r \in Answered |-> answer[r[1]][r[2]]]
Report == [outcome |-> outcome, verdicts |-> [r \in Reported |-> results[r[1]][r[2]]]]

Contract == INSTANCE ScenarioContract WITH
  Workloads <- {RequestsOf(s) : s \in Scenarios},
  Replies   <- Answers,
  work      <- Requests,
  seen      <- Seen,
  report    <- Report,
  live      <- (container = "up"),
  target    <- address,
  closed    <- (pc = "over")

ImplementsContract == Contract!Spec
===============================================================================
