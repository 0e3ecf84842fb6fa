------------------------ MODULE RunnerLifecycleProofs ------------------------
(***************************************************************************)
(* Theorems about RunnerLifecycle, for any number of suites, both callers  *)
(* and whatever the calls of the driver raise.                             *)
(***************************************************************************)
EXTENDS RunnerLifecycle, SequenceTheorems, TLAPS

(***************************************************************************)
(* The inductive invariant.  The properties look at the whole history, but *)
(* a step only adds to its end, so it is enough to know the last call.     *)
(***************************************************************************)

(* Where the Runner can be: no exception is on its way inside the loop, and *)
(* a suite is at hand wherever one is needed.                              *)
Whereabouts ==
  /\ pc \in {"load", "enter", "read", "macros", "prepare", "tests"} => ~ raising
  /\ pc \in {"macros", "prepare", "tests", "cleanup"} => at <= suites
  /\ pc = "cleanup" => caller = "run"
  /\ pc \in {"enter", "exit"} => entered
  /\ caller = "command" => entered
  /\ pc \in {"exit", "over"} /\ ~ raising => at = suites + 1

(* Of the calls all but the last are followed by what they must be.        *)
LastPrepared ==
  caller = "run" =>
    \A i \in DOMAIN calls :
      Is(i, "prepare") =>
        IF i < Len(calls)
          THEN calls[i + 1] = [method |-> "cleanup", suite |-> calls[i].suite]
          ELSE calls[i].suite = at /\ pc \in {"tests", "cleanup"}

(* Setup is the first call, teardown the last.                             *)
Ends ==
  /\ pc \in {"load", "enter"} => calls = <<>>
  /\ entered /\ pc \notin {"load", "enter", "over"} => Len(calls) >= 1
  /\ \A i \in DOMAIN calls :
       /\ Is(i, "setup") <=> entered /\ i = 1
       /\ Is(i, "teardown") => entered /\ i = Len(calls) /\ pc = "over"
  /\ pc = "over" /\ entered /\ Len(calls) > 1 => Is(Len(calls), "teardown")

(* The calls are about the suites in turn, none behind the one at hand.    *)
InTurn ==
  /\ \A i \in DOMAIN calls : calls[i].suite <= at
  /\ \A i, j \in DOMAIN calls : i < j => calls[i].suite <= calls[j].suite

(* The suites behind are done, and the one at hand as far as the loop is.  *)
Done(n) == Got(n, "prepare") /\ (caller = "run" => Got(n, "cleanup"))
Progress ==
  /\ \A n \in 1 .. (at - 1) : Done(n)
  /\ pc = "tests" \/ (pc = "cleanup" /\ ~ raising) => Got(at, "prepare")

IInv ==
  TypeOK /\ Whereabouts /\ LastPrepared /\ Ends /\ InTurn /\ Progress

(* A call of the driver is one more entry of the history.                  *)
Grows(m) ==
  /\ DOMAIN calls = 1 .. Len(calls) /\ Len(calls) \in Nat
  /\ DOMAIN calls' = 1 .. (Len(calls) + 1) /\ Len(calls') = Len(calls) + 1
  /\ \A i \in DOMAIN calls : calls'[i] = calls[i]
  /\ calls'[Len(calls) + 1] = [method |-> m, suite |-> at]

LEMMA CallAppends ==
  ASSUME TypeOK, NEW m \in Methods, Call(m)
  PROVE  calls' \in Seq([method : Methods, suite : 1 .. (MaxSuites + 1)]) /\ Grows(m)
<1> DEFINE Entries == [method : Methods, suite : 1 .. (MaxSuites + 1)]
           e == [method |-> m, suite |-> at]
<1>1. e \in Entries
  BY SuitesAssumption DEF TypeOK
<1>2. calls \in Seq(Entries) /\ calls' = Append(calls, e)
  BY DEF TypeOK, Call
<1> HIDE DEF Entries, e
<1>3. /\ calls' \in Seq(Entries) /\ Len(calls') = Len(calls) + 1
      /\ \A i \in 1 .. Len(calls) : calls'[i] = calls[i]
      /\ calls'[Len(calls) + 1] = e
  BY <1>1, <1>2, AppendProperties
<1>4. DOMAIN calls = 1 .. Len(calls) /\ Len(calls) \in Nat /\ DOMAIN calls' = 1 .. Len(calls')
  BY <1>2, <1>3, LenProperties
<1> QED
  BY <1>3, <1>4 DEF Entries, e, Grows

(* Inside the loop there is a suite at hand, so that there is a next at.   *)
LEMMA InHand ==
  ASSUME TypeOK, Whereabouts
  PROVE  /\ suites \in Nat /\ at \in 1 .. (suites + 1)
         /\ pc \in {"tests", "cleanup"} => at + 1 \in 1 .. (suites + 1)
BY SuitesAssumption DEF TypeOK, Whereabouts

LEMMA TypeInvariance ==
  ASSUME TypeOK, Whereabouts, [Next]_vars
  PROVE  TypeOK'
<1> DEFINE Known == calls \in Seq([method : Methods, suite : 1 .. (MaxSuites + 1)])
<1>0. /\ "setup" \in Methods /\ "prepare" \in Methods
      /\ "cleanup" \in Methods /\ "teardown" \in Methods
  BY DEF Methods
<1>1. CASE LoadDriver
  BY <1>1 DEF LoadDriver, TypeOK, fixed
<1>2. CASE Setup
  <2>1. Known'
    BY <1>0, <1>2, CallAppends DEF Setup
  <2> QED
    BY <1>2, <2>1 DEF Setup, TypeOK, fixed
<1>3. CASE ReadSuites
  BY <1>3 DEF ReadSuites, Leave, TypeOK, fixed
<1>4. CASE LoadMacros
  BY <1>4 DEF LoadMacros, SuiteRaises, Leave, TypeOK, fixed
<1>5. CASE Prepare
  <2>1. Known'
    BY <1>0, <1>5, CallAppends DEF Prepare
  <2> QED
    BY <1>5, <2>1 DEF Prepare, SuiteRaises, Leave, TypeOK, fixed
<1>6. CASE RunTests
  <2>1. at' \in {at, at + 1} /\ UNCHANGED suites
    BY <1>6 DEF RunTests, SuiteRaises, fixed
  <2>2. at' \in 1 .. (suites' + 1)
    BY <1>6, <2>1, InHand DEF RunTests
  <2> QED
    BY <1>6, <2>2 DEF RunTests, SuiteRaises, Leave, TypeOK, fixed
<1>7. CASE Cleanup
  <2>1. Known'
    BY <1>0, <1>7, CallAppends DEF Cleanup
  <2>2. at' \in {at, at + 1} /\ UNCHANGED suites
    BY <1>7 DEF Cleanup, fixed
  <2>3. at' \in 1 .. (suites' + 1)
    BY <1>7, <2>2, InHand DEF Cleanup
  <2> QED
    BY <1>7, <2>1, <2>3 DEF Cleanup, Leave, TypeOK, fixed
<1>8. CASE Teardown
  <2>1. Known'
    BY <1>0, <1>8, CallAppends DEF Teardown
  <2> QED
    BY <1>8, <2>1 DEF Teardown, TypeOK, fixed
<1>9. CASE UNCHANGED vars
  BY <1>9 DEF vars, TypeOK
<1> QED
  BY <1>1, <1>2, <1>3, <1>4, <1>5, <1>6, <1>7, <1>8, <1>9 DEF Next

LEMMA WhereaboutsInvariance ==
  ASSUME TypeOK, Whereabouts, [Next]_vars
  PROVE  Whereabouts'
<1>1. CASE LoadDriver
  BY <1>1 DEF LoadDriver, TypeOK, Whereabouts, fixed
<1>2. CASE Setup
  BY <1>2 DEF Setup, TypeOK, Whereabouts, fixed
<1>3. CASE ReadSuites
  BY <1>3 DEF ReadSuites, Leave, TypeOK, Whereabouts, fixed
<1>4. CASE LoadMacros
  BY <1>4 DEF LoadMacros, SuiteRaises, Leave, TypeOK, Whereabouts, fixed
<1>5. CASE Prepare
  BY <1>5 DEF Prepare, SuiteRaises, Leave, TypeOK, Whereabouts, fixed
<1>6. CASE RunTests
  BY <1>6 DEF RunTests, SuiteRaises, Leave, TypeOK, Whereabouts, fixed
<1>7. CASE Cleanup
  BY <1>7 DEF Cleanup, Leave, TypeOK, Whereabouts, fixed
<1>8. CASE Teardown
  <2>1. ~ raising' => ~ raising
    BY <1>8 DEF Teardown
  <2> QED
    BY <1>8, <2>1 DEF Teardown, Whereabouts, fixed
<1>9. CASE UNCHANGED vars
  BY <1>9 DEF vars, Whereabouts
<1> QED
  BY <1>1, <1>2, <1>3, <1>4, <1>5, <1>6, <1>7, <1>8, <1>9 DEF Next

(* What a step does to the history: nothing, or one of four calls.         *)
Silent == LoadDriver \/ ReadSuites \/ LoadMacros \/ RunTests \/ UNCHANGED vars
Calls(m) ==
  \/ Setup /\ m = "setup"
  \/ Prepare /\ m = "prepare"
  \/ Cleanup /\ m = "cleanup"
  \/ Teardown /\ m = "teardown"

LEMMA HistoryGrows ==
  ASSUME TypeOK, [Next]_vars
  PROVE  \/ Silent /\ UNCHANGED calls
         \/ \E m : Calls(m) /\ Grows(m)
<1>0. /\ "setup" \in Methods /\ "prepare" \in Methods
      /\ "cleanup" \in Methods /\ "teardown" \in Methods
  BY DEF Methods
<1>1. CASE Setup
  BY <1>0, <1>1, CallAppends DEF Setup, Calls
<1>2. CASE Prepare
  BY <1>0, <1>2, CallAppends DEF Prepare, Calls
<1>3. CASE Cleanup
  BY <1>0, <1>3, CallAppends DEF Cleanup, Calls
<1>4. CASE Teardown
  BY <1>0, <1>4, CallAppends DEF Teardown, Calls
<1>5. CASE Silent
  BY <1>5 DEF Silent, LoadDriver, ReadSuites, LoadMacros, RunTests, vars
<1> QED
  BY <1>1, <1>2, <1>3, <1>4, <1>5 DEF Next, Silent

(* Between prepare and the tests, and before cleanup, run asks nothing else. *)
LEMMA LastPreparedInvariance ==
  ASSUME TypeOK, Whereabouts, LastPrepared, [Next]_vars
  PROVE  LastPrepared'
<1>1. UNCHANGED caller
  BY DEF Next, LoadDriver, Setup, ReadSuites, LoadMacros, Prepare, RunTests, Cleanup,
         Teardown, fixed, vars
<1> SUFFICES ASSUME caller = "run", NEW i \in DOMAIN calls', Is(i, "prepare")'
             PROVE  IF i < Len(calls')
                      THEN calls'[i + 1] = [method |-> "cleanup", suite |-> calls'[i].suite]
                      ELSE calls'[i].suite = at' /\ pc' \in {"tests", "cleanup"}
  BY <1>1 DEF LastPrepared
<1>2. CASE Silent /\ UNCHANGED calls
  <2>1. pc \in {"tests", "cleanup"} => at' = at /\ pc' \in {"tests", "cleanup"}
    BY <1>2 DEF Silent, LoadDriver, ReadSuites, LoadMacros, RunTests, SuiteRaises, vars
  <2> QED
    BY <1>2, <2>1 DEF LastPrepared, Is
<1>3. ASSUME NEW m, Calls(m), Grows(m)
      PROVE  IF i < Len(calls')
               THEN calls'[i + 1] = [method |-> "cleanup", suite |-> calls'[i].suite]
               ELSE calls'[i].suite = at' /\ pc' \in {"tests", "cleanup"}
  <2> USE <1>3 DEF Grows
  <2>1. CASE i < Len(calls)
    BY <2>1 DEF LastPrepared, Is
  <2>2. CASE i = Len(calls)
    <3>1. Is(i, "prepare") /\ i \in DOMAIN calls
      BY <2>2 DEF Is
    <3>2. calls[i].suite = at /\ pc \in {"tests", "cleanup"}
      <4>1. ~ (i < Len(calls))
        BY <2>2
      <4> QED
        BY <3>1, <4>1 DEF LastPrepared, Is
    <3>3. m = "cleanup"
      BY <3>2 DEF Calls, Setup, Prepare, Teardown
    <3> QED
      BY <2>2, <3>1, <3>2, <3>3
  <2>3. CASE i = Len(calls) + 1
    <3>1. Prepare
      BY <2>3 DEF Is, Calls
    <3>2. calls'[i].suite = at /\ at' = at /\ pc' \in {"tests", "cleanup"}
      BY <2>3, <3>1 DEF Prepare, SuiteRaises
    <3> QED
      BY <2>3, <3>2
  <2> QED
    BY <2>1, <2>2, <2>3
<1> QED
  BY <1>2, <1>3, HistoryGrows

(* Nothing is asked before setup or after teardown.                        *)
LEMMA EndsInvariance ==
  ASSUME TypeOK, Whereabouts, Ends, [Next]_vars
  PROVE  Ends'
<1>1. UNCHANGED entered
  BY DEF Next, LoadDriver, Setup, ReadSuites, LoadMacros, Prepare, RunTests, Cleanup,
         Teardown, fixed, vars
<1>2. CASE Silent /\ UNCHANGED calls
  <2>1. CASE LoadDriver
    <3>1. calls' = <<>> /\ DOMAIN calls' = {} /\ Len(calls') = 0
      BY <1>2, <2>1 DEF LoadDriver, Ends
    <3>2. entered => pc' \in {"enter", "over"}
      BY <2>1 DEF LoadDriver
    <3> QED
      BY <1>1, <3>1, <3>2 DEF Ends
  <2>2. CASE ReadSuites \/ LoadMacros \/ RunTests
    <3>1. /\ pc \in {"read", "macros", "tests"}
          /\ pc' \notin {"load", "enter"} /\ (entered => pc' # "over")
      BY <2>2 DEF ReadSuites, LoadMacros, RunTests, SuiteRaises, Leave
    <3> QED
      BY <1>1, <1>2, <3>1 DEF Ends, Is
  <2>3. CASE UNCHANGED vars
    BY <2>3 DEF vars, Ends, Is
  <2> QED
    BY <1>2, <2>1, <2>2, <2>3 DEF Silent
<1>3. ASSUME NEW m, Calls(m), Grows(m)
      PROVE  Ends'
  <2> USE <1>3
  <2>1. CASE Setup
    <3>1. m = "setup" /\ entered /\ pc' \in {"read", "over"}
      BY <2>1 DEF Calls, Setup, Prepare, Cleanup, Teardown, Whereabouts
    <3>2. Len(calls') = 1 /\ DOMAIN calls' = {1} /\ calls'[1].method = "setup"
      BY <2>1, <3>1 DEF Setup, Ends, Grows
    <3> QED
      BY <1>1, <3>1, <3>2 DEF Ends, Is
  <2>2. CASE Prepare \/ Cleanup
    <3>1. /\ m \in {"prepare", "cleanup"} /\ pc \in {"prepare", "cleanup"}
          /\ pc' \notin {"load", "enter"} /\ (entered => pc' # "over")
      BY <2>2 DEF Calls, Setup, Prepare, Cleanup, Teardown, SuiteRaises, Leave
    <3>2. ASSUME NEW i \in DOMAIN calls'
          PROVE  /\ Is(i, "setup")' <=> entered' /\ i = 1
                 /\ ~ Is(i, "teardown")'
      <4>1. CASE i \in DOMAIN calls
        BY <1>1, <3>1, <4>1 DEF Ends, Is, Grows
      <4>2. CASE i = Len(calls) + 1
        <5>1. calls'[i].method \notin {"setup", "teardown"}
          BY <3>1, <4>2 DEF Grows
        <5>2. entered => i # 1
          BY <3>1, <4>2 DEF Ends, Grows
        <5> QED
          BY <1>1, <5>1, <5>2 DEF Is
      <4> QED
        BY <4>1, <4>2 DEF Grows
    <3>3. Len(calls') >= 1
      BY DEF Grows
    <3> QED
      BY <1>1, <3>1, <3>2, <3>3 DEF Ends
  <2>3. CASE Teardown
    <3>1. m = "teardown" /\ pc = "exit" /\ pc' = "over" /\ entered
      BY <2>3 DEF Calls, Setup, Prepare, Cleanup, Teardown, Whereabouts
    <3>2. ASSUME NEW i \in DOMAIN calls'
          PROVE  /\ Is(i, "setup")' <=> entered' /\ i = 1
                 /\ Is(i, "teardown")' => i = Len(calls')
      <4>1. CASE i \in DOMAIN calls
        BY <1>1, <3>1, <4>1 DEF Ends, Is, Grows
      <4>2. CASE i = Len(calls) + 1
        <5>1. calls'[i].method = "teardown" /\ i # 1
          BY <3>1, <4>2 DEF Ends, Grows
        <5> QED
          BY <1>1, <4>2, <5>1 DEF Is, Grows
      <4> QED
        BY <4>1, <4>2 DEF Grows
    <3>3. Is(Len(calls), "teardown")'
      BY <3>1 DEF Is, Grows
    <3> QED
      BY <1>1, <3>1, <3>2, <3>3 DEF Ends
  <2> QED
    BY <2>1, <2>2, <2>3 DEF Calls
<1> QED
  BY <1>2, <1>3, HistoryGrows

(* The loop only moves on.                                                 *)
LEMMA InTurnInvariance ==
  ASSUME TypeOK, Whereabouts, InTurn, [Next]_vars
  PROVE  InTurn'
<1>1. at \in Nat /\ at' \in {at, at + 1}
  <2>1. at \in Nat
    BY InHand
  <2>2. LoadDriver \/ Setup \/ ReadSuites \/ LoadMacros \/ Teardown \/ UNCHANGED vars => at' = at
    BY DEF LoadDriver, Setup, ReadSuites, LoadMacros, Teardown, fixed, vars
  <2>3. Prepare \/ RunTests \/ Cleanup => at' \in {at, at + 1}
    BY DEF Prepare, RunTests, Cleanup, fixed
  <2> QED
    BY <2>1, <2>2, <2>3 DEF Next
<1>2. \A i \in DOMAIN calls : calls[i].suite \in Nat
  <2>1. \A i \in DOMAIN calls : calls[i] \in [method : Methods, suite : 1 .. (MaxSuites + 1)]
    <3> DEFINE Entries == [method : Methods, suite : 1 .. (MaxSuites + 1)]
    <3>1. calls \in Seq(Entries)
      BY DEF TypeOK
    <3> HIDE DEF Entries
    <3>2. \A i \in DOMAIN calls : calls[i] \in Entries
      BY <3>1, ElementOfSeq, LenProperties
    <3> QED
      BY <3>2 DEF Entries
  <2> QED
    BY <2>1, SuitesAssumption
<1>3. CASE Silent /\ UNCHANGED calls
  BY <1>1, <1>2, <1>3 DEF InTurn
<1>4. ASSUME NEW m, Calls(m), Grows(m)
      PROVE  InTurn'
  <2>1. \A i \in DOMAIN calls' : i \in DOMAIN calls \/ i = Len(calls) + 1
    BY <1>4 DEF Grows
  <2>2. calls'[Len(calls) + 1].suite = at
    BY <1>4 DEF Grows
  <2>3. \A i \in DOMAIN calls' : calls'[i].suite <= at /\ calls'[i].suite \in Nat
    BY <1>1, <1>2, <1>4, <2>1, <2>2 DEF InTurn, Grows
  <2>4. \A i \in DOMAIN calls' : calls'[i].suite <= at'
    BY <1>1, <2>3
  <2>5. ASSUME NEW i \in DOMAIN calls', NEW j \in DOMAIN calls', i < j
        PROVE  calls'[i].suite <= calls'[j].suite
    <3>1. CASE j \in DOMAIN calls
      BY <1>4, <2>5, <3>1 DEF InTurn, Grows
    <3>2. CASE j = Len(calls) + 1
      BY <2>2, <2>3, <3>2
    <3> QED
      BY <2>1, <3>1, <3>2
  <2> QED
    BY <2>4, <2>5 DEF InTurn
<1> QED
  BY <1>3, <1>4, HistoryGrows

(* A call once made stays in the history.                                  *)
LEMMA GotStays ==
  ASSUME TypeOK, [Next]_vars, NEW n, NEW m, Got(n, m)
  PROVE  Got(n, m)'
<1>1. CASE UNCHANGED calls
  BY <1>1 DEF Got, Is
<1>2. ASSUME NEW k, Grows(k)
      PROVE  Got(n, m)'
  BY <1>2 DEF Got, Is, Grows
<1> QED
  BY <1>1, <1>2, HistoryGrows

(* The loop moves on from a suite only when all is done for it.            *)
LEMMA ProgressInvariance ==
  ASSUME TypeOK, Whereabouts, Progress, [Next]_vars
  PROVE  Progress'
<1>1. UNCHANGED caller
  BY DEF Next, LoadDriver, Setup, ReadSuites, LoadMacros, Prepare, RunTests, Cleanup,
         Teardown, fixed, vars
<1>0. PICK n : n = at  \* the suite at hand before the step
  OBVIOUS
<1>2. ASSUME NEW k, Done(k)
      PROVE  Done(k)'
  BY <1>1, <1>2, GotStays DEF Done
<1>3. ASSUME NEW m, m \in {"prepare", "cleanup"}, Grows(m)
      PROVE  Got(n, m)'
  BY <1>3, <1>0 DEF Got, Is, Grows
<1>4. at \in Nat /\ at >= 1
  BY InHand
<1>5. CASE at' = at
  <2>1. pc' = "tests" \/ (pc' = "cleanup" /\ ~ raising') => Got(n, "prepare")'
    <3>1. CASE Prepare
      <4>1. Grows("prepare")
        BY <3>1, CallAppends DEF Prepare, Methods
      <4> QED
        BY <1>3, <4>1
    <3>2. CASE RunTests
      BY <1>0, <3>2, GotStays DEF RunTests, Progress
    <3>3. CASE UNCHANGED vars
      <4>1. pc' = pc /\ raising' = raising
        BY <3>3 DEF vars
      <4>2. Got(n, "prepare") => Got(n, "prepare")'
        BY GotStays
      <4> QED
        BY <1>0, <4>1, <4>2 DEF Progress
    <3>4. CASE LoadDriver \/ Setup \/ ReadSuites \/ LoadMacros \/ Cleanup \/ Teardown
      BY <3>4 DEF LoadDriver, Setup, ReadSuites, LoadMacros, Cleanup, Teardown, SuiteRaises, Leave
    <3> QED
      BY <3>1, <3>2, <3>3, <3>4 DEF Next
  <2> QED
    <3>1. (pc = "tests" \/ (pc = "cleanup" /\ ~ raising) => Got(at, "prepare"))'
      BY <1>0, <1>5, <2>1 DEF Got, Is
    <3>2. \A k \in 1 .. (at' - 1) : Done(k)'
      BY <1>2, <1>5 DEF Progress
    <3> QED
      BY <3>1, <3>2 DEF Progress
<1>6. CASE at' # at
  <2>1. /\ at' = at + 1 /\ pc' = "read"
        /\ pc = "tests" \/ (pc = "cleanup" /\ ~ raising)
        /\ caller = "run" => Cleanup
    BY <1>6 DEF Next, LoadDriver, Setup, ReadSuites, LoadMacros, Prepare, RunTests, Cleanup,
         Teardown, fixed, vars
  <2>2. Got(n, "prepare")'
    BY <1>0, <2>1, GotStays DEF Progress
  <2>3. caller = "run" => Got(n, "cleanup")'
    <3>1. Cleanup => Grows("cleanup")
      BY CallAppends DEF Cleanup, Methods
    <3> QED
      BY <1>3, <2>1, <3>1
  <2>4. Done(n)'
    <3>1. Got(n, "prepare")' /\ (caller' = "run" => Got(n, "cleanup")')
      BY <1>1, <2>2, <2>3
    <3> QED
      BY <3>1 DEF Done
  <2>5. \A k \in 1 .. (at' - 1) : k \in 1 .. (at - 1) \/ k = n
    BY <1>0, <1>4, <2>1
  <2>6. \A k \in 1 .. (at - 1) : Done(k)'
    BY <1>2 DEF Progress
  <2> QED
    <3>1. ~ (pc' = "tests" \/ (pc' = "cleanup" /\ ~ raising'))
      BY <2>1
    <3>2. \A k \in 1 .. (at' - 1) : Done(k)'
      BY <2>4, <2>5, <2>6
    <3> QED
      BY <3>1, <3>2 DEF Progress
<1> QED
  BY <1>5, <1>6

-------------------------------------------------------------------------------
(* The theorems.                                                           *)

(* What holds at the start, and every step preserves it.                   *)
LEMMA Inductive == Spec => []IInv
<1>1. Init => IInv
  <2> SUFFICES ASSUME Init
               PROVE  IInv
    OBVIOUS
  <2>1. calls = <<>> /\ DOMAIN calls = {} /\ pc = "load" /\ at = 1 /\ ~ raising
    BY DEF Init
  <2>2. TypeOK
    <3>1. calls \in Seq([method : Methods, suite : 1 .. (MaxSuites + 1)])
      BY <2>1
    <3>2. suites \in 0 .. MaxSuites /\ at \in 1 .. (suites + 1)
      BY <2>1, SuitesAssumption DEF Init
    <3> QED
      BY <3>1, <3>2 DEF Init, TypeOK
  <2>3. Whereabouts
    BY <2>1 DEF Init, Whereabouts
  <2>4. LastPrepared /\ Ends /\ InTurn
    BY <2>1 DEF LastPrepared, Ends, InTurn
  <2>5. Progress
    BY <2>1 DEF Progress
  <2> QED
    BY <2>2, <2>3, <2>4, <2>5 DEF IInv
<1>2. IInv /\ [Next]_vars => IInv'
  BY TypeInvariance, WhereaboutsInvariance, LastPreparedInvariance, EndsInvariance,
     InTurnInvariance, ProgressInvariance DEF IInv
<1> QED
  BY <1>1, <1>2, PTL DEF Spec

(***************************************************************************)
(* The type invariant of the Runner's life, however many suites there are. *)
(***************************************************************************)
THEOREM TypeCorrect == Spec => []TypeOK
BY Inductive, PTL DEF IInv

(***************************************************************************)
(* In Runner.run every prepare of the driver is followed by the cleanup of *)
(* the same suite, at once, whatever raised in between.                    *)
(***************************************************************************)
THEOREM Cleaned == Spec => []PreparedIsCleaned
<1>1. IInv => PreparedIsCleaned
  BY LenProperties DEF IInv, TypeOK, LastPrepared, PreparedIsCleaned
<1> QED
  BY <1>1, Inductive, PTL

(***************************************************************************)
(* A Runner that is entered calls setup first and teardown last, unless it *)
(* is setup that raises; one that is not entered calls neither.            *)
(***************************************************************************)
THEOREM Bracketing == Spec => []Bracketed
<1>1. IInv => Bracketed
  <2> SUFFICES ASSUME IInv
               PROVE  Bracketed
    OBVIOUS
  <2>1. Len(calls) \in Nat /\ DOMAIN calls = 1 .. Len(calls)
    BY LenProperties DEF IInv, TypeOK
  <2>2. ~ entered => \A i \in DOMAIN calls : ~ Is(i, "teardown")
    BY DEF IInv, Ends
  <2>3. pc = "over" /\ Len(calls) > 1 => (entered <=> Is(Len(calls), "teardown"))
    BY <2>1, <2>2 DEF IInv, Ends
  <2> QED
    BY <2>3 DEF IInv, Ends, Bracketed
<1> QED
  BY <1>1, Inductive, PTL

(***************************************************************************)
(* A Runner that ends without an exception has prepared every suite, and   *)
(* cleaned each up in run, one after the other: neither the loop nor the   *)
(* finally clause nor __exit__ loses what a driver's call raised.          *)
(***************************************************************************)
THEOREM NoLoss == Spec => []NothingSwallowed
<1>1. IInv => NothingSwallowed
  <2> SUFFICES ASSUME IInv, pc = "over", ~ raising
               PROVE  /\ \A n \in 1 .. suites : Done(n)
                      /\ \A i, j \in DOMAIN calls : i < j => calls[i].suite <= calls[j].suite
    BY DEF NothingSwallowed, Done
  <2>1. at - 1 = suites
    BY InHand DEF IInv, Whereabouts
  <2> QED
    BY <2>1 DEF IInv, Progress, InTurn
<1> QED
  BY <1>1, Inductive, PTL
===============================================================================
