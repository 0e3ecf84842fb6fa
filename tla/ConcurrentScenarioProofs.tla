------------------------ MODULE ConcurrentScenarioProofs ------------------------
(***************************************************************************)
(* Theorems about ConcurrentScenario, for every set of scenarios and every *)
(* bound on batches and their width.  All of them follow from one          *)
(* inductive invariant, IInv.                                              *)
(***************************************************************************)
EXTENDS ConcurrentScenario, TLAPS

(* Where the main thread can be, given what it has recorded. *)
PhaseInv ==
  /\ Len(results) = batch - 1
  /\ pc = "start" => batch = 1 /\ container = None
  /\ pc \in {"spawn", "join"} => batch <= NBatches
  /\ pc = "spawn" => started < Width(batch)
  /\ pc = "join" => started = Width(batch)
  /\ outcome = "pending" <=> pc \notin {"finally", "over"}
  /\ outcome = "returned" => batch = NBatches + 1
  /\ pc = "over" => container # "up"

(* Threads are active inside their batch, or abandoned by a failed start. *)
ActiveInv ==
  \A i \in Slots : Active(i) =>
    /\ batch <= NBatches /\ i <= started /\ started <= Width(batch)
    /\ pc \in {"spawn", "join"} \/ (outcome = "raised" /\ started < Width(batch))

(* Only requests up to the current batch are answered, in a batch begun. *)
AnswerInv ==
  \A b \in BatchIds, i \in Slots : answer[b][i] # None =>
    /\ b <= batch /\ b <= NBatches /\ i <= Width(b)
    /\ b = batch => pc \notin {"start", "batch"}

(* The response map of the batch being run holds that batch's answers. *)
MapInv ==
  pc \in {"spawn", "join"} =>
    \A i \in Slots : response[i] # None => response[i] = answer[batch][i]

(* A batch evaluated was answered in full and has its verdicts. *)
ResultInv ==
  \A b \in 1 .. Len(results) :
    /\ Len(results[b]) = Width(b)
    /\ \A i \in 1 .. Width(b) :
         /\ answer[b][i] # None
         /\ results[b][i] = Verdict(b, i, answer[b][i])

(* Requests go to a fallback only when the container was gone by then. *)
AddressInv ==
  /\ pc = "start" => address = None
  /\ address = "fallback" => container = "gone"

(* All answers come from where the requests go. *)
ForeignInv ==
  foreign = {r \in BatchIds \X Slots : address = "fallback" /\ answer[r[1]][r[2]] # None}

IInv ==
  /\ TypeOK
  /\ PhaseInv /\ ActiveInv /\ AnswerInv /\ MapInv /\ ResultInv
  /\ AddressInv /\ ForeignInv

(* The indices the specification computes are those of its functions. *)
LEMMA Bounds ==
  ASSUME TypeOK
  PROVE  /\ NBatches \in Nat /\ NBatches <= MaxBatches
         /\ \A b \in 1 .. NBatches :
              b \in BatchIds /\ Width(b) \in Nat /\ Width(b) <= MaxWidth
BY ScenarioAssumption DEF TypeOK, NBatches, Width, BatchIds

(* A sequence written as a function has its domain for length. *)
LEMMA MadeSeq ==
  ASSUME NEW n \in Nat, NEW S, NEW f \in [1 .. n -> S]
  PROVE  f \in Seq(S) /\ Len(f) = n
OBVIOUS

(* A call that has not started satisfies the invariant. *)
LEMMA InitInv == Init => IInv
<1> SUFFICES ASSUME Init
             PROVE  IInv
  OBVIOUS
<1>1. NBatches \in Nat
  BY ScenarioAssumption DEF Init, NBatches
<1>2. TypeOK
  <2>1. results \in Seq(Seq(Verdicts))
    BY DEF Init
  <2>2. dumped \in BOOLEAN
    BY DEF Init
  <2>3. /\ thread \in [Slots -> ThreadStates]
        /\ response \in [Slots -> MaybeAnswer]
        /\ answer \in [BatchIds -> [Slots -> MaybeAnswer]]
    BY DEF Init, ThreadStates, MaybeAnswer
  <2>4. batch \in 1 .. (NBatches + 1) /\ started \in 0 .. MaxWidth
    BY <1>1, ScenarioAssumption DEF Init
  <2> QED
    BY <2>1, <2>2, <2>3, <2>4 DEF Init, TypeOK, Phases, Outcomes, None
<1>3. PhaseInv
  BY <1>1 DEF Init, PhaseInv
<1>4. ActiveInv
  BY DEF Init, ActiveInv, Active
<1>5. AnswerInv /\ MapInv /\ ResultInv
  BY DEF Init, AnswerInv, MapInv, ResultInv
<1>6. AddressInv /\ ForeignInv
  BY DEF Init, AddressInv, ForeignInv, None
<1> QED
  BY <1>2, <1>3, <1>4, <1>5, <1>6 DEF IInv

(* A step that neither answers nor looks up the address keeps their invariants. *)
LEMMA AddressKept ==
  ASSUME AddressInv, ForeignInv, UNCHANGED <<answer, foreign, address>>, pc' # "start",
         container' \in {container, "gone"}
  PROVE  AddressInv' /\ ForeignInv'
BY DEF AddressInv, ForeignInv

(* The steps of the main thread, one lemma each. *)

(* docker run, whether or not it yields a container. *)
LEMMA StartContainerInv == IInv /\ StartContainer => IInv'
<1> SUFFICES ASSUME IInv, StartContainer
             PROVE  IInv'
  OBVIOUS
<1> USE DEF IInv, StartContainer, history
<1>1. TypeOK'
  BY DEF TypeOK, Phases, Outcomes, NBatches
<1>2. PhaseInv'
  BY DEF PhaseInv, NBatches, Width, TypeOK
<1>3. ActiveInv'
  BY DEF ActiveInv, PhaseInv, Active, NBatches, Width
<1>4. AnswerInv'
  BY DEF AnswerInv, NBatches, Width
<1>5. MapInv' /\ ResultInv'
  BY DEF MapInv, ResultInv, Width, Verdict
<1>6. AddressInv' /\ ForeignInv'
  <2>1. \A c \in BatchIds, i \in Slots : answer[c][i] = None
    BY DEF AnswerInv, PhaseInv, BatchIds
  <2>2. {r \in BatchIds \X Slots : answer[r[1]][r[2]] # None} = {}
    BY <2>1
  <2> QED
    BY <2>2 DEF AddressInv, ForeignInv
<1> QED
  BY <1>1, <1>2, <1>3, <1>4, <1>5, <1>6

(* A new batch starts with an empty map and no active thread. *)
LEMMA BeginBatchInv == IInv /\ BeginBatch => IInv'
<1> SUFFICES ASSUME IInv, BeginBatch
             PROVE  IInv'
  OBVIOUS
<1> USE DEF IInv, BeginBatch, history
<1>0. batch \in BatchIds /\ Width(batch) \in Nat /\ Width(batch) <= MaxWidth
  BY Bounds DEF TypeOK
<1>1. TypeOK'
  <2>1. thread' \in [Slots -> ThreadStates] /\ response' \in [Slots -> MaybeAnswer]
    BY DEF ThreadStates, FreshMap, MaybeAnswer
  <2>2. early' \subseteq BatchIds \X Slots
    BY ScenarioAssumption DEF TypeOK
  <2>3. started' \in 0 .. MaxWidth
    BY <1>0, ScenarioAssumption DEF TypeOK
  <2>4. pc' \in Phases
    BY DEF Phases
  <2> QED
    BY <2>1, <2>2, <2>3, <2>4 DEF TypeOK, NBatches
<1>2. PhaseInv'
  BY <1>0 DEF PhaseInv, NBatches, Width, TypeOK
<1>3. ActiveInv'
  <2> SUFFICES ASSUME NEW i \in Slots, Active(i)'
               PROVE  i = 1 /\ Width(batch) = 1 /\ started' = 1 /\ pc' = "join"
    BY <1>0 DEF ActiveInv, NBatches, Width
  <2> QED
    BY DEF Active
<1>4. AnswerInv'
  BY DEF AnswerInv, NBatches, Width
<1>5. MapInv' /\ ResultInv'
  BY DEF MapInv, ResultInv, Width, Verdict, FreshMap
<1>6. AddressInv' /\ ForeignInv'
  BY AddressKept
<1> QED
  BY <1>1, <1>2, <1>3, <1>4, <1>5, <1>6

(* A thread is started, or the interpreter refuses. *)
LEMMA StartThreadInv == IInv /\ StartThread => IInv'
<1> SUFFICES ASSUME IInv, StartThread
             PROVE  IInv'
  OBVIOUS
<1> USE DEF IInv, StartThread, history
<1>0. /\ batch \in BatchIds /\ batch <= NBatches
      /\ Width(batch) \in Nat /\ Width(batch) <= MaxWidth /\ started < Width(batch)
  BY Bounds DEF TypeOK, PhaseInv
<1>s. \/ /\ started' = started + 1 /\ pc' # "finally"
         /\ \E state \in {"sleeping", "sending"} :
              thread' = [thread EXCEPT ![started + 1] = state]
      \/ pc' = "finally" /\ UNCHANGED <<thread, started>>
  OBVIOUS
<1>1. TypeOK'
  <2>0. started + 1 \in Slots
    BY <1>0, ScenarioAssumption DEF TypeOK, Slots
  <2>1. thread' \in [Slots -> ThreadStates] /\ started' \in 0 .. MaxWidth
    <3>1. thread \in [Slots -> ThreadStates] /\ started \in 0 .. MaxWidth
      BY DEF TypeOK
    <3> HIDE DEF StartThread
    <3> QED
      BY <2>0, <3>1, <1>s, ScenarioAssumption DEF ThreadStates, Slots
  <2>2. pc' \in Phases /\ outcome' \in Outcomes
    BY DEF TypeOK, Phases, Outcomes
  <2> QED
    BY <2>1, <2>2 DEF TypeOK, NBatches
<1>2. PhaseInv'
  BY <1>0 DEF PhaseInv, NBatches, Width, TypeOK
<1>3. ActiveInv'
  <2>1. CASE pc' = "finally"
    BY <2>1, <1>0 DEF ActiveInv, Active, NBatches, Width, TypeOK
  <2>2. CASE pc' # "finally"
    <3> SUFFICES ASSUME NEW i \in Slots, Active(i)'
                 PROVE  i <= started'
      BY <1>0, <2>2 DEF ActiveInv, NBatches, Width, TypeOK
    <3>1. i = started + 1 \/ Active(i)
      BY <1>s, <2>2 DEF Active, TypeOK
    <3> QED
      BY <3>1, <1>s, <2>2 DEF ActiveInv, TypeOK, Slots
  <2> QED
    BY <2>1, <2>2
<1>4. AnswerInv'
  BY DEF AnswerInv, NBatches, Width
<1>5. MapInv' /\ ResultInv'
  BY DEF MapInv, ResultInv, Width, Verdict
<1>6. AddressInv' /\ ForeignInv'
  BY AddressKept
<1> QED
  BY <1>1, <1>2, <1>3, <1>4, <1>5, <1>6

(* All threads have ended, so each entry of the map is a final answer. *)
LEMMA EvaluateBatchInv == IInv /\ EvaluateBatch => IInv'
<1> SUFFICES ASSUME IInv, EvaluateBatch
             PROVE  IInv'
  OBVIOUS
<1> USE DEF IInv, EvaluateBatch, history
<1>0. /\ batch \in BatchIds /\ batch <= NBatches /\ NBatches \in Nat
      /\ Width(batch) \in Nat /\ Width(batch) <= MaxWidth /\ started = Width(batch)
  BY Bounds DEF TypeOK, PhaseInv
<1>3. AddressInv' /\ ForeignInv'
  BY AddressKept
<1>1. CASE BatchRaises
  <2>1. TypeOK'
    BY <1>1 DEF TypeOK, Phases, Outcomes, NBatches
  <2>2. PhaseInv'
    BY <1>1, <1>0 DEF PhaseInv, NBatches, Width, TypeOK
  <2>3. ActiveInv'
    BY <1>1, <1>0 DEF ActiveInv, AllJoined, Active, NBatches, Width, Slots
  <2>4. AnswerInv' /\ MapInv' /\ ResultInv'
    BY <1>1 DEF AnswerInv, MapInv, ResultInv, NBatches, Width, Verdict
  <2> QED
    BY <2>1, <2>2, <2>3, <2>4, <1>3
<1>2. CASE ~BatchRaises
  <2>0. /\ results' = Append(results, BatchVerdicts) /\ batch' = batch + 1
        /\ pc' = "batch"
    BY <1>2
  <2>1. BatchVerdicts \in Seq(Verdicts) /\ Len(BatchVerdicts) = Width(batch)
    <3>1. BatchVerdicts \in [1 .. Width(batch) -> Verdicts]
      BY DEF BatchVerdicts, Verdicts, Verdict
    <3> QED
      BY <3>1, <1>0, MadeSeq
  <2>2. /\ results' \in Seq(Seq(Verdicts)) /\ Len(results') = Len(results) + 1
        /\ \A b \in 1 .. Len(results) : results'[b] = results[b]
        /\ results'[Len(results) + 1] = BatchVerdicts
    BY <2>0, <2>1 DEF TypeOK
  <2>3. TypeOK'
    BY <1>2, <1>0, <2>2 DEF TypeOK, Phases, Outcomes, NBatches
  <2>4. PhaseInv'
    BY <1>2, <1>0, <2>2 DEF PhaseInv, NBatches, Width, TypeOK
  <2>5. ActiveInv'
    BY <1>2, <1>0 DEF ActiveInv, AllJoined, Active, NBatches, Width, Slots
  <2>6. AnswerInv' /\ MapInv'
    BY <1>2, <1>0 DEF AnswerInv, MapInv, NBatches, Width, BatchIds
  <2>7. ResultInv'
    <3>1. SUFFICES ASSUME NEW b \in 1 .. Len(results')
                   PROVE  /\ Len(results'[b]) = Width(b)
                          /\ \A i \in 1 .. Width(b) :
                               /\ answer[b][i] # None
                               /\ results'[b][i] = Verdict(b, i, answer[b][i])
      BY <1>2 DEF ResultInv, Width, Verdict
    <3>2. CASE b \in 1 .. Len(results)
      BY <3>2, <2>2 DEF ResultInv
    <3>3. CASE b = Len(results) + 1
      <4>1. b = batch
        BY <3>3, <1>0 DEF PhaseInv, BatchIds
      <4>2. ASSUME NEW i \in 1 .. Width(b)
            PROVE  answer[b][i] # None /\ results'[b][i] = Verdict(b, i, answer[b][i])
        <5>1. response[i] # None /\ i \in Slots
          BY <1>2, <1>0, <4>1, ScenarioAssumption DEF BatchRaises, Slots
        <5>2. response[i] = answer[b][i]
          BY <5>1, <4>1 DEF MapInv
        <5> QED
          BY <5>1, <5>2, <4>1, <2>2, <3>3 DEF BatchVerdicts
      <4> QED
        BY <4>1, <4>2, <2>1, <2>2, <3>3
    <3> QED
      BY <3>2, <3>3, <2>2 DEF TypeOK
  <2> QED
    BY <2>3, <2>4, <2>5, <2>6, <2>7, <1>3
<1> QED
  BY <1>1, <1>2

(* The report comes after the last batch. *)
LEMMA ReportResultsInv == IInv /\ ReportResults => IInv'
<1> SUFFICES ASSUME IInv, ReportResults
             PROVE  IInv'
  OBVIOUS
<1> USE DEF IInv, ReportResults, history
<1>1. TypeOK'
  <2>1. HasFailures \in BOOLEAN
    BY DEF HasFailures
  <2>2. dumped' \in BOOLEAN
    BY <2>1, ScenarioAssumption DEF TypeOK
  <2> QED
    BY <2>2 DEF TypeOK, Phases, Outcomes, NBatches
<1>2. PhaseInv'
  BY Bounds DEF PhaseInv, NBatches, Width, TypeOK
<1>3. ActiveInv'
  BY DEF ActiveInv, PhaseInv, Active, NBatches, Width
<1>4. AnswerInv' /\ MapInv' /\ ResultInv'
  BY DEF AnswerInv, MapInv, ResultInv, NBatches, Width, Verdict
<1>5. AddressInv' /\ ForeignInv'
  BY AddressKept
<1> QED
  BY <1>1, <1>2, <1>3, <1>4, <1>5

(* The finally clause leaves no container. *)
LEMMA KillContainerInv == IInv /\ KillContainer => IInv'
<1> SUFFICES ASSUME IInv, KillContainer
             PROVE  IInv'
  OBVIOUS
<1> USE DEF IInv, KillContainer, history
<1>1. TypeOK'
  BY DEF TypeOK, Phases, NBatches
<1>2. PhaseInv'
  BY DEF PhaseInv, NBatches, Width, None
<1>3. ActiveInv'
  BY DEF ActiveInv, Active, NBatches, Width
<1>4. AnswerInv' /\ MapInv' /\ ResultInv'
  BY DEF AnswerInv, MapInv, ResultInv, NBatches, Width, Verdict
<1>5. AddressInv' /\ ForeignInv'
  BY AddressKept
<1> QED
  BY <1>1, <1>2, <1>3, <1>4, <1>5

(* The steps of the request threads and of the container. *)

(* A thread wakes, receives its answer or dies: only its own entries change. *)
LEMMA ThreadInv ==
  IInv /\ (\E i \in Slots : Wake(i) \/ Receive(i) \/ Fail(i)) => IInv'
<1> SUFFICES ASSUME IInv, NEW k \in Slots, Wake(k) \/ Receive(k) \/ Fail(k)
             PROVE  IInv'
  OBVIOUS
<1> USE DEF IInv, Wake, Receive, Fail, mainVars, history
<1>0. Active(k) /\ batch \in BatchIds /\ batch <= NBatches
  BY Bounds DEF Active, ActiveInv, TypeOK
<1>1. TypeOK'
  <2>1. thread' \in [Slots -> ThreadStates]
    BY DEF TypeOK, ThreadStates
  <2>2. response' \in [Slots -> MaybeAnswer]
    BY <1>0 DEF TypeOK
  <2> QED
    BY <2>1, <2>2 DEF TypeOK, NBatches
<1>2. PhaseInv'
  BY DEF PhaseInv, NBatches, Width
<1>3. ActiveInv'
  BY DEF ActiveInv, Active, NBatches, Width, TypeOK
<1>4. AnswerInv' /\ ResultInv'
  BY DEF AnswerInv, ResultInv, NBatches, Width, Verdict
<1>5. MapInv'
  BY DEF MapInv, TypeOK
<1>6. AddressInv' /\ ForeignInv'
  BY <1>0, AddressKept DEF ActiveInv, PhaseInv
<1> QED
  BY <1>1, <1>2, <1>3, <1>4, <1>5, <1>6

(* An answer is to a request in flight, so it is of the current batch. *)
LEMMA AnswerStepInv ==
  IInv /\ (\E i \in Slots : Answer(i) \/ StrangerAnswers(i)) => IInv'
<1> SUFFICES ASSUME IInv, NEW k \in Slots, Answer(k) \/ StrangerAnswers(k)
             PROVE  IInv'
  OBVIOUS
<1> USE DEF IInv, Answer, StrangerAnswers, IsAnswered, mainVars
<1>0. /\ Active(k) /\ batch \in BatchIds /\ batch <= NBatches /\ k <= Width(batch)
      /\ pc \notin {"start", "batch"}
  <2>1. Active(k)
    BY DEF Active
  <2>2. pc \notin {"start", "batch"}
    BY <2>1 DEF ActiveInv, PhaseInv
  <2> QED
    BY <2>1, <2>2, Bounds, ScenarioAssumption DEF ActiveInv, TypeOK, Slots
<1>1. PICK a \in Answers : answer' = [answer EXCEPT ![batch][k] = a]
  OBVIOUS
<1>2. /\ answer' \in [BatchIds -> [Slots -> MaybeAnswer]]
      /\ answer'[batch][k] = a
      /\ \A b \in BatchIds, i \in Slots :
           <<b, i>> # <<batch, k>> => answer'[b][i] = answer[b][i]
  BY <1>0, <1>1 DEF TypeOK, MaybeAnswer
<1>3. TypeOK'
  <2>1. foreign' \subseteq BatchIds \X Slots
    BY <1>0 DEF TypeOK
  <2> QED
    BY <1>2, <2>1 DEF TypeOK, NBatches
<1>4. PhaseInv' /\ ActiveInv'
  BY DEF PhaseInv, ActiveInv, Active, NBatches, Width
<1>5. AnswerInv'
  BY <1>0, <1>2 DEF AnswerInv, NBatches, Width, BatchIds
<1>6. MapInv'
  BY <1>0, <1>2 DEF MapInv
<1>7. ResultInv'
  <2>1. \A b \in 1 .. Len(results) : b \in BatchIds /\ b # batch
    BY <1>0, ScenarioAssumption DEF PhaseInv, BatchIds, TypeOK
  <2>2. \A b \in 1 .. Len(results) : \A i \in 1 .. Width(b) :
          i \in Slots /\ answer'[b][i] = answer[b][i]
    <3> SUFFICES ASSUME NEW b \in 1 .. Len(results), NEW i \in 1 .. Width(b)
                 PROVE  i \in Slots /\ answer'[b][i] = answer[b][i]
      OBVIOUS
    <3>1. b \in 1 .. NBatches
      BY <1>0, Bounds, ScenarioAssumption DEF PhaseInv, BatchIds
    <3>2. i \in Slots
      BY <3>1, Bounds, ScenarioAssumption DEF Slots
    <3> QED
      BY <3>2, <2>1, <1>2
  <2> QED
    BY <2>2 DEF ResultInv, Width, Verdict
<1>8. AddressInv'
  BY DEF AddressInv
<1>9. ForeignInv'
  <2>1. \A b \in BatchIds, i \in Slots :
          answer'[b][i] # None <=> <<b, i>> = <<batch, k>> \/ answer[b][i] # None
    BY <1>0, <1>2 DEF Answers, None
  <2>2. CASE Answer(k)
    BY <2>2 DEF ForeignInv
  <2>3. CASE StrangerAnswers(k)
    BY <2>1, <2>3, <1>0 DEF ForeignInv
  <2> QED
    BY <2>2, <2>3
<1> QED
  BY <1>3, <1>4, <1>5, <1>6, <1>7, <1>8, <1>9

(* The container exits; nothing of the call changes. *)
LEMMA ContainerExitsInv == IInv /\ ContainerExits => IInv'
<1> SUFFICES ASSUME IInv, ContainerExits
             PROVE  IInv'
  OBVIOUS
<1> USE DEF IInv, ContainerExits, mainVars, history
<1>1. TypeOK' /\ PhaseInv' /\ ActiveInv' /\ AnswerInv' /\ MapInv' /\ ResultInv'
  BY DEF None, TypeOK, PhaseInv, ActiveInv, AnswerInv, MapInv, ResultInv, Active, NBatches,
         Width, Verdict
<1>2. AddressInv' /\ ForeignInv'
  BY DEF AddressInv, ForeignInv, PhaseInv, None
<1> QED
  BY <1>1, <1>2

(* Stuttering keeps the invariant. *)
LEMMA StutterInv == IInv /\ UNCHANGED vars => IInv'
BY DEF IInv, vars, mainVars, history, TypeOK, PhaseInv, ActiveInv, AnswerInv, MapInv,
       ResultInv, AddressInv, ForeignInv, Active, NBatches, Width, Verdict

(***************************************************************************)
(* The invariant holds in every reachable state of every instance.         *)
(***************************************************************************)
THEOREM Invariance == Spec => []IInv
<1>1. IInv /\ [Next]_vars => IInv'
  BY StartContainerInv, BeginBatchInv, StartThreadInv, EvaluateBatchInv,
     ReportResultsInv, KillContainerInv, ThreadInv, AnswerStepInv,
     ContainerExitsInv, StutterInv
  DEF Next, MainThread
<1> QED
  BY InitInv, <1>1, PTL DEF Spec

(* Type correctness of execute_concurrent's state, for every scenario. *)
THEOREM TypeCorrect == Spec => []TypeOK
<1>1. IInv => TypeOK
  BY DEF IInv
<1> QED
  BY <1>1, Invariance, PTL

(***************************************************************************)
(* No interleaving of the request threads, and nothing left behind by an   *)
(* earlier batch, gives a request the verdict on another answer.           *)
(***************************************************************************)
THEOREM OwnResults == Spec => []ResultsAreOwn
<1>1. IInv => ResultsAreOwn
  <2> SUFFICES ASSUME IInv
               PROVE  ResultsAreOwn
    OBVIOUS
  <2>1. ASSUME NEW b \in DOMAIN results, NEW i \in DOMAIN results[b]
        PROVE  answer[b][i] # None /\ results[b][i] = Verdict(b, i, answer[b][i])
    <3>1. b \in 1 .. Len(results) /\ results[b] \in Seq(Verdicts)
      BY DEF IInv, TypeOK
    <3>2. i \in 1 .. Width(b)
      BY <3>1 DEF IInv, ResultInv
    <3> QED
      BY <3>1, <3>2 DEF IInv, ResultInv
  <2>2. ASSUME foreign # {}
        PROVE  /\ container = "gone" /\ address = "fallback"
               /\ foreign = {r \in BatchIds \X Slots : answer[r[1]][r[2]] # None}
    BY <2>2 DEF IInv, AddressInv, ForeignInv
  <2> QED
    BY <2>1, <2>2 DEF ResultsAreOwn
<1> QED
  BY <1>1, Invariance, PTL

(* A call of execute_concurrent that returns dropped no request. *)
THEOREM CompleteReport == Spec => []ReturnedIsComplete
<1>1. IInv => ReturnedIsComplete
  <2> SUFFICES ASSUME IInv, outcome = "returned"
               PROVE  /\ DOMAIN results = 1 .. NBatches
                      /\ \A b \in 1 .. NBatches : DOMAIN results[b] = 1 .. Width(b)
    BY DEF ReturnedIsComplete
  <2>1. Len(results) = NBatches /\ NBatches \in Nat
    BY Bounds DEF IInv, PhaseInv
  <2>2. DOMAIN results = 1 .. NBatches
    BY <2>1 DEF IInv, TypeOK
  <2>3. ASSUME NEW b \in 1 .. NBatches
        PROVE  DOMAIN results[b] = 1 .. Width(b)
    BY <2>1, <2>2, <2>3 DEF IInv, TypeOK, ResultInv
  <2> QED
    BY <2>2, <2>3
<1> QED
  BY <1>1, Invariance, PTL

(* No request is answered before the batches ahead of its own have ended. *)
THEOREM Barrier == Spec => []BatchBarrier
<1>1. IInv => BatchBarrier
  <2> SUFFICES ASSUME IInv, NEW b \in BatchIds, NEW i \in Slots, answer[b][i] # None,
                      NEW c \in 1 .. (b - 1)
               PROVE  /\ c \in DOMAIN results
                      /\ \A j \in 1 .. Width(c) : answer[c][j] # None
    BY DEF BatchBarrier
  <2>1. b <= batch
    BY DEF IInv, AnswerInv
  <2>2. c \in 1 .. Len(results)
    BY <2>1, Bounds DEF IInv, PhaseInv, TypeOK, BatchIds
  <2> QED
    BY <2>2 DEF IInv, ResultInv, TypeOK
<1> QED
  BY <1>1, Invariance, PTL

(* The finally clause finds requests in flight only after a failed start. *)
THEOREM QuietKill == Spec => []KilledQuiet
<1>1. IInv => KilledQuiet
  BY DEF IInv, ActiveInv, PhaseInv, KilledQuiet
<1> QED
  BY <1>1, Invariance, PTL

(* No container outlives the call. *)
THEOREM Released == Spec => []ContainerReleased
<1>1. IInv => ContainerReleased
  BY DEF IInv, PhaseInv, ContainerReleased
<1> QED
  BY <1>1, Invariance, PTL

-------------------------------------------------------------------------------
(* The refinement: every step is one of ScenarioContract or changes nothing *)
(* that the contract sees.                                                  *)

(* A request of the contract is an index of the scenario's batches. *)
LEMMA RequestType ==
  ASSUME TypeOK, NEW r \in Requests
  PROVE  /\ r[1] \in BatchIds /\ r[1] \in 1 .. NBatches
         /\ r[2] \in Slots /\ r[2] \in 1 .. Width(r[1])
         /\ r = <<r[1], r[2], <<r[1], r[2]>> \in scenario.asserting>>
<1>1. PICK q \in BatchIds \X Slots :
        /\ q[1] <= NBatches /\ q[2] <= Width(q[1])
        /\ r = <<q[1], q[2], q \in scenario.asserting>>
  BY DEF Requests, RequestsOf, NBatches, Width
<1>2. r[1] = q[1] /\ r[2] = q[2] /\ q = <<r[1], r[2]>>
  BY <1>1
<1>3. q[1] \in BatchIds /\ q[2] \in Slots
  OBVIOUS
<1>4. NBatches \in Nat /\ q[1] \in 1 .. NBatches
  BY <1>1, <1>3, Bounds DEF BatchIds
<1>5. Width(q[1]) \in Nat /\ q[2] \in 1 .. Width(q[1])
  BY <1>1, <1>3, <1>4, Bounds DEF Slots
<1> QED
  BY <1>1, <1>2, <1>3, <1>4, <1>5

(* Until a call returns, its report has no verdicts. *)
LEMMA NoVerdicts ==
  ASSUME outcome # "returned"
  PROVE  Report = [outcome |-> outcome, verdicts |-> Contract!Nothing]
<1>1. Reported = {}
  BY DEF Reported
<1> QED
  BY <1>1 DEF Report, Contract!Nothing

(* The same, of the next state. *)
LEMMA NoVerdictsNext ==
  ASSUME outcome' # "returned"
  PROVE  Report' = [outcome |-> outcome', verdicts |-> Contract!Nothing]
<1>1. Reported' = {}
  BY DEF Reported
<1> QED
  BY <1>1 DEF Report, Contract!Nothing

(* What the contract sees of a call that has not decided anything. *)
LEMMA PendingReport == outcome = "pending" => Report = Contract!Pending
BY NoVerdicts DEF Contract!Pending, Contract!Decided

(* A decided call is not pending. *)
LEMMA DecidedReport == outcome # "pending" => Report # Contract!Pending
<1>1. Report.outcome = outcome
  BY DEF Report
<1>2. Contract!Pending.outcome = "pending"
  BY DEF Contract!Pending, Contract!Decided
<1> QED
  BY <1>1, <1>2

(* Nothing the contract sees changes when these variables do not. *)
LEMMA Unseen ==
  ASSUME UNCHANGED <<scenario, outcome, answer>>, outcome # "returned" \/ results' = results
  PROVE  UNCHANGED <<Requests, Seen, Report>>
<1>1. UNCHANGED <<Requests, Answered, Seen, Reported>>
  BY DEF Requests, Answered, Seen, Reported
<1>2. CASE outcome # "returned"
  BY <1>2, NoVerdicts, NoVerdictsNext, <1>1
<1>3. CASE results' = results
  BY <1>1, <1>3 DEF Report
<1> QED
  BY <1>1, <1>2, <1>3

(* The body raises: the contract gives up. *)
LEMMA RaisesGivesUp ==
  ASSUME IInv, UNCHANGED <<scenario, container, address, answer>>,
         outcome = "pending", outcome' = "raised", pc' # "over"
  PROVE  Contract!GiveUp
<1>1. UNCHANGED <<Requests, Seen>>
  BY DEF Requests, Answered, Seen
<1>2. Report = Contract!Pending
  BY PendingReport
<1>3. Report' = Contract!Decided("raised", Contract!Nothing)
  BY NoVerdictsNext DEF Contract!Decided
<1>4. pc # "over"
  BY DEF IInv, PhaseInv
<1> QED
  BY <1>1, <1>2, <1>3, <1>4 DEF Contract!GiveUp

(* docker run is the contract's launch, unless nothing runs after it. *)
LEMMA StartRefines ==
  ASSUME IInv, StartContainer
  PROVE  [Contract!Next]_(Contract!vars)
<1>1. /\ outcome = "pending" /\ container = None /\ pc = "start" /\ pc' # "over"
      /\ address = None
      /\ UNCHANGED <<scenario, answer, results>>
  BY DEF StartContainer, IInv, PhaseInv, AddressInv, history
<1>2. CASE outcome' = "raised"
  <2>1. UNCHANGED <<container, address>>
    BY <1>2, <1>1 DEF StartContainer
  <2> QED
    BY <1>1, <1>2, <2>1, RaisesGivesUp DEF Contract!Next
<1>3. CASE outcome' = outcome
  <2>1. UNCHANGED <<Requests, Seen, Report>>
    BY <1>1, <1>3, Unseen
  <2>2. Report = Contract!Pending
    BY <1>1, PendingReport
  <2>3. DOMAIN Seen = {}
    <3>1. ASSUME NEW r \in Answered
          PROVE  FALSE
      <4>1. r[1] \in BatchIds /\ r[2] \in Slots /\ answer[r[1]][r[2]] # None
        BY <3>1, RequestType DEF Answered, IInv
      <4>2. r[1] <= 1 /\ r[1] # 1
        BY <1>1, <4>1 DEF IInv, PhaseInv, AnswerInv
      <4> QED
        BY <4>1, <4>2 DEF BatchIds
    <3> QED
      BY <3>1 DEF Seen
  <2>4. container # "up"
    BY <1>1 DEF None
  <2>5. \/ (container' = "up") = TRUE /\ address' = "container"
        \/ (container' = "up") = (container = "up") /\ address' = "fallback"
    BY <1>1, <1>3, <2>4 DEF StartContainer
  <2> QED
    BY <1>1, <2>1, <2>2, <2>3, <2>4, <2>5 DEF Contract!Next, Contract!Launch, None
<1> QED
  BY <1>2, <1>3 DEF StartContainer

(* The loop over the batches, and the threads, are inside the contract's call. *)
LEMMA LoopRefines ==
  ASSUME IInv,
         BeginBatch \/ StartThread \/ EvaluateBatch
         \/ \E i \in Slots : Wake(i) \/ Receive(i) \/ Fail(i)
  PROVE  [Contract!Next]_(Contract!vars)
<1>1. UNCHANGED <<scenario, container, address, answer>> /\ (pc' = "over" <=> pc = "over")
  BY DEF BeginBatch, StartThread, EvaluateBatch, Wake, Receive, Fail, mainVars,
         history
<1>2. \/ outcome = "pending" /\ outcome' = "raised" /\ pc' # "over"
      \/ outcome' = outcome /\ (outcome # "returned" \/ results' = results)
  BY DEF BeginBatch, StartThread, EvaluateBatch, Wake, Receive, Fail, mainVars, IInv, PhaseInv
<1>3. CASE outcome' = outcome /\ (outcome # "returned" \/ results' = results)
  BY <1>1, <1>3, Unseen DEF Contract!vars
<1> QED
  BY <1>1, <1>2, <1>3, RaisesGivesUp DEF Contract!Next

(* The report is complete, and judges what was answered. *)
LEMMA ReportRefines ==
  ASSUME IInv, ReportResults
  PROVE  [Contract!Next]_(Contract!vars)
<1>1. /\ UNCHANGED <<scenario, container, address, answer, results>>
      /\ pc # "over" /\ pc' # "over" /\ outcome = "pending"
      /\ outcome' \in {"returned", "raised"}
  BY DEF ReportResults, IInv, PhaseInv, history
<1>2. CASE outcome' = "raised"
  BY <1>1, <1>2, RaisesGivesUp DEF Contract!Next
<1>3. CASE outcome' = "returned"
  <2>1. UNCHANGED <<Requests, Answered, Seen>>
    BY <1>1 DEF Requests, Answered, Seen
  <2>2. Len(results) = NBatches
    BY Bounds DEF ReportResults, IInv, PhaseInv, TypeOK
  <2>3. ASSUME NEW r \in Requests
        PROVE  /\ r \in Answered
               /\ results[r[1]][r[2]] = Contract!Judge(r, Seen[r])
    <3> DEFINE asks == <<r[1], r[2]>> \in scenario.asserting
    <3>0. r = <<r[1], r[2], asks>>
      BY <2>3, RequestType DEF IInv
    <3>1. r[1] \in 1 .. Len(results) /\ r[2] \in 1 .. Width(r[1])
      BY <2>2, <2>3, RequestType DEF IInv
    <3>6. r[3] = asks
      <4> HIDE DEF asks
      <4> QED
        BY ONLY <3>0
    <3>7. r[3] <=> <<r[1], r[2]>> \in scenario.asserting
      BY ONLY <3>6, Zenon
    <3>2. /\ answer[r[1]][r[2]] # None
          /\ results[r[1]][r[2]] = Verdict(r[1], r[2], answer[r[1]][r[2]])
      BY <3>1 DEF IInv, ResultInv
    <3>3. r \in Answered
      BY <3>2 DEF Answered
    <3>4. Seen[r] = answer[r[1]][r[2]]
      BY <3>3 DEF Seen
    <3>5. Verdict(r[1], r[2], Seen[r]) = Contract!Judge(r, Seen[r])
      BY <3>7 DEF Verdict, Contract!Judge
    <3> QED
      BY <3>2, <3>3, <3>4, <3>5
  <2>4. DOMAIN Seen = Requests
    BY <2>3 DEF Seen, Answered
  <2>5. Report' = Contract!Decided("returned", [r \in Requests |-> Contract!Judge(r, Seen[r])])
    <3>1. Reported' = Requests
      BY <1>3, <2>1 DEF Reported
    <3>2. Report' = [outcome |-> "returned", verdicts |-> [r \in Requests |-> results[r[1]][r[2]]]]
      BY <1>1, <1>3, <3>1 DEF Report
    <3> QED
      BY <2>3, <3>2 DEF Contract!Decided
  <2>6. Report = Contract!Pending
    BY <1>1, PendingReport
  <2> QED
    BY <1>1, <2>1, <2>4, <2>5, <2>6 DEF Contract!Next, Contract!Complete
<1> QED
  BY <1>1, <1>2, <1>3

(* docker kill closes the call. *)
LEMMA KillRefines ==
  ASSUME IInv, KillContainer
  PROVE  [Contract!Next]_(Contract!vars)
<1>1. /\ UNCHANGED <<scenario, outcome, address, answer, results>>
      /\ pc = "finally" /\ pc' = "over" /\ container' # "up" /\ outcome # "pending"
  BY DEF KillContainer, IInv, PhaseInv, None, history
<1>2. UNCHANGED <<Requests, Seen, Report>>
  BY <1>1, Unseen
<1>3. Report # Contract!Pending
  BY <1>1, DecidedReport
<1> QED
  BY <1>1, <1>2, <1>3 DEF Contract!Next, Contract!Close

(* An answer is one the contract allows: the batches before are answered. *)
LEMMA AnswerRefines ==
  ASSUME IInv, NEW k \in Slots, Answer(k) \/ StrangerAnswers(k)
  PROVE  [Contract!Next]_(Contract!vars)
<1>1. PICK a \in Answers : answer' = [answer EXCEPT ![batch][k] = a]
  BY DEF Answer, StrangerAnswers, IsAnswered
<1>2. /\ UNCHANGED <<scenario, pc, outcome, address, results, container, batch>>
      /\ address = "fallback" \/ (address = "container" /\ container = "up")
      /\ thread[k] = "sending" /\ answer[batch][k] = None
  BY DEF Answer, StrangerAnswers, IsAnswered, mainVars
<1>3. /\ batch \in BatchIds /\ batch <= NBatches /\ k <= Width(batch)
      /\ Len(results) = batch - 1 /\ NBatches \in Nat
  BY <1>2, Bounds, ScenarioAssumption DEF IInv, ActiveInv, PhaseInv, TypeOK, Active, Slots
<1> DEFINE r == <<batch, k, <<batch, k>> \in scenario.asserting>>
<1>4. r \in Requests
  <2>1. <<batch, k>> \in BatchIds \X Slots
    BY <1>3
  <2> QED
    BY <2>1, <1>3 DEF Requests, RequestsOf, NBatches, Width
<1>5. r \notin Answered
  BY <1>2 DEF Answered
<1>6. /\ answer'[batch][k] = a /\ a # None
      /\ \A b \in BatchIds, i \in Slots : <<b, i>> # <<batch, k>> => answer'[b][i] = answer[b][i]
  BY <1>1, <1>3 DEF IInv, TypeOK, Answers, None
<1>7. Requests' = Requests
  BY <1>2 DEF Requests
<1>8. \A q \in Requests : q # r =>
        <<q[1], q[2]>> # <<batch, k>> /\ answer'[q[1]][q[2]] = answer[q[1]][q[2]]
  <2> SUFFICES ASSUME NEW q \in Requests, q # r
               PROVE  <<q[1], q[2]>> # <<batch, k>> /\ answer'[q[1]][q[2]] = answer[q[1]][q[2]]
    OBVIOUS
  <2>1. /\ q[1] \in BatchIds /\ q[2] \in Slots
        /\ q = <<q[1], q[2], <<q[1], q[2]>> \in scenario.asserting>>
    BY RequestType DEF IInv
  <2>2. <<q[1], q[2]>> # <<batch, k>>
    BY <2>1
  <2> QED
    BY <1>6, <2>1, <2>2
<1>9. Answered' = Answered \cup {r}
  <2>1. \A q \in Requests : answer'[q[1]][q[2]] # None <=> q = r \/ answer[q[1]][q[2]] # None
    BY <1>6, <1>8
  <2> QED
    BY <1>4, <1>7, <2>1 DEF Answered
<1>10. Seen' = [q \in DOMAIN Seen \cup {r} |-> IF q = r THEN a ELSE Seen[q]]
  <2>1. Seen' = [q \in Answered \cup {r} |-> answer'[q[1]][q[2]]]
    BY <1>9 DEF Seen
  <2>2. DOMAIN Seen = Answered /\ \A q \in Answered : Seen[q] = answer[q[1]][q[2]]
    BY DEF Seen
  <2>3. \A q \in Answered \cup {r} :
          answer'[q[1]][q[2]] = IF q = r THEN a ELSE Seen[q]
    <3>1. \A q \in Answered : q \in Requests /\ q # r
      BY <1>5 DEF Answered
    <3>2. answer'[r[1]][r[2]] = a
      BY <1>6
    <3> HIDE DEF r
    <3> QED
      BY <1>8, <2>2, <3>1, <3>2
  <2> HIDE DEF r
  <2> QED
    BY <2>1, <2>2, <2>3
<1>11. Contract!Due(r)
  <2> SUFFICES ASSUME NEW q \in Requests, q[1] < batch
               PROVE  q \in DOMAIN Seen
    BY DEF Contract!Due
  <2>1. q[1] \in 1 .. NBatches /\ q[2] \in 1 .. Width(q[1])
    BY RequestType DEF IInv
  <2>2. q[1] \in 1 .. Len(results)
    BY <2>1, <1>3 DEF BatchIds
  <2>3. answer[q[1]][q[2]] # None
    BY <2>1, <2>2 DEF IInv, ResultInv
  <2> QED
    BY <2>3 DEF Seen, Answered
<1>12. Report' = Report
  BY <1>2, <1>7 DEF Report, Reported
<1>13. r \notin DOMAIN Seen
  BY <1>5 DEF Seen
<1>14. Contract!Reply(r)
  <2> HIDE DEF r
  <2> QED
    BY <1>2, <1>3, <1>7, <1>10, <1>11, <1>12, <1>13 DEF Contract!Reply
<1> QED
  BY <1>4, <1>14 DEF Contract!Next

(* The container exits, or nothing changes. *)
LEMMA RestRefines ==
  ASSUME IInv, ContainerExits \/ UNCHANGED vars
  PROVE  [Contract!Next]_(Contract!vars)
<1>1. UNCHANGED <<scenario, outcome, address, results, answer, pc>>
  BY DEF ContainerExits, vars, mainVars, history
<1>2. UNCHANGED <<Requests, Seen, Report>>
  BY <1>1, Unseen
<1> QED
  BY <1>1, <1>2 DEF ContainerExits, vars, Contract!Next, Contract!Stop, Contract!vars

(***************************************************************************)
(* execute_concurrent implements ScenarioContract, for all scenarios and   *)
(* however its threads interleave.                                         *)
(***************************************************************************)
THEOREM Refinement == Spec => ImplementsContract
<1>1. Init => Contract!Init
  <2> SUFFICES ASSUME Init
               PROVE  Contract!Init
    OBVIOUS
  <2>1. Report = Contract!Pending
    BY PendingReport DEF Init
  <2>2. Answered = {}
    <3>1. IInv
      BY InitInv
    <3>2. \A r \in Requests : answer[r[1]][r[2]] = None
      BY <3>1, RequestType DEF Init, IInv
    <3> QED
      BY <3>2 DEF Answered
  <2>3. Seen = Contract!Nothing
    BY <2>2 DEF Seen, Contract!Nothing
  <2>4. Requests \in {RequestsOf(s) : s \in Scenarios}
    BY DEF Init, Requests
  <2> QED
    BY <2>1, <2>3, <2>4 DEF Init, Contract!Init, None
<1>2. IInv /\ [Next]_vars => [Contract!Next]_(Contract!vars)
  BY StartRefines, LoopRefines, ReportRefines, KillRefines, AnswerRefines, RestRefines
  DEF Next, MainThread
<1> QED
  BY <1>1, <1>2, Invariance, PTL DEF Spec, ImplementsContract, Contract!Spec
================================================================================
