--------------------------- MODULE TestHarnessProofs ---------------------------
(***************************************************************************)
(* Theorems about TestHarness, for all inputs and every number of tests.   *)
(*                                                                         *)
(* The totals of the summary are sums along a list.  What they are is      *)
(* proved by induction, which rests on the numbers being well-founded.     *)
(***************************************************************************)
EXTENDS TestHarness, SequenceTheorems, FiniteSetTheorems, WellFoundedInduction, TLAPS

(* The report follows what was found, and is complete when it is printed. *)
Track ==
  /\ \A i \in DOMAIN run_results : run_results[i].name = (suites \o scenarios)[i]
  /\ Len(run_results) <= Len(suites) + Len(scenarios)
  /\ pc \in {"start", "find", "load"} => run_results = <<>>
  /\ pc \in {"start", "find"} => scenarios = <<>>
  /\ pc = "start" => suites = <<>>
  /\ pc = "suites" => Len(run_results) <= Len(suites)
  /\ pc = "scenarios" => Len(run_results) >= Len(suites)
  /\ pc \in {"summary", "exit"} => Len(run_results) = Len(suites) + Len(scenarios)
  /\ pc \in {"suites", "scenarios", "summary", "exit"} => Len(suites) + Len(scenarios) > 0

(* The flag is set exactly when the report has a run that did not go well. *)
Flag == exit_unsuccessfully <=> \E i \in DOMAIN run_results : ~ WentWell(i)

IInv == ProcessOK /\ Track /\ Flag /\ HonestExit

(* A process that has not looked for anything has run nothing. *)
LEMMA InitInv == Init => IInv
<1> SUFFICES ASSUME Init
             PROVE  IInv
  OBVIOUS
<1>1. ProcessOK
  <2>1. exit_code \in {Running, 0, 1}
    BY DEF Init
  <2>2. run_results \in Seq(Results)
    BY DEF Init
  <2>3. input \in Inputs /\ pc = "start" /\ next \in Nat \ {0}
    BY DEF Init
  <2>4. suites \in Seq(Names) /\ scenarios \in Seq(Names)
    BY DEF Init
  <2>5. exit_unsuccessfully \in BOOLEAN
    BY DEF Init
  <2> QED BY <2>1, <2>2, <2>3, <2>4, <2>5 DEF ProcessOK
<1>2. Track /\ Flag /\ HonestExit
  BY DEF Init, Track, Flag, HonestExit
<1> QED
  BY <1>1, <1>2 DEF IInv

(* Two sequences with the same length and the same elements are one. *)
LEMMA SameNames ==
  ASSUME NEW R \in Seq(Results), NEW S \in Seq(Names), Len(R) = Len(S),
         \A i \in DOMAIN R : R[i].name = S[i]
  PROVE  [i \in DOMAIN R |-> R[i].name] = S
<1>1. DOMAIN R = DOMAIN S /\ S = [i \in DOMAIN S |-> S[i]]
  OBVIOUS
<1> QED
  BY <1>1

(* Appending a list of names to another gives a list of names. *)
LEMMA Concatenated ==
  ASSUME NEW S, NEW a \in Seq(S), NEW b \in Seq(S)
  PROVE  a \o b \in Seq(S)
OBVIOUS

(* An element of a list of names is a name. *)
LEMMA Element ==
  ASSUME NEW S, NEW q \in Seq(S), NEW i \in 1 .. Len(q)
  PROVE  q[i] \in S
OBVIOUS

(* What precedes the runs changes nothing of the report. *)
LEMMA ChooseInv ==
  ASSUME IInv, ChooseDriver
  PROVE  IInv'
<1>1. /\ UNCHANGED <<found, run_results, exit_unsuccessfully, summary>>
      /\ run_results = <<>> /\ suites = <<>> /\ scenarios = <<>>
  BY DEF ChooseDriver, IInv, Track
<1>2. \/ pc' = "over" /\ exit_code' = 1
      \/ pc' = "find" /\ exit_code' = exit_code
  BY DEF ChooseDriver, Quit
<1>3. ProcessOK'
  BY <1>1, <1>2 DEF IInv, ProcessOK, found
<1>4. Track' /\ Flag'
  BY <1>1, <1>2 DEF IInv, Track, Flag, WentWell, found
<1>5. HonestExit'
  <2>1. suites' \o scenarios' = <<>>
    BY <1>1 DEF found
  <2> QED
    BY <1>2, <2>1 DEF HonestExit
<1> QED
  BY <1>3, <1>4, <1>5 DEF IInv

(* The loops that find suites and scenarios: nothing has run yet. *)
LEMMA FindInv ==
  ASSUME IInv, FindSuites \/ SuitesFound \/ LoadScenarios \/ ScenariosLoaded
  PROVE  IInv'
<1>1. input \in Inputs /\ next \in Nat \ {0} /\ suites \in Seq(Names) /\ scenarios \in Seq(Names)
  BY DEF IInv, ProcessOK
<1>2. /\ input.patterns \in Seq(Seq(Names))
      /\ input.getters \in Seq([loads : BOOLEAN, returns : BOOLEAN, scenarios : Seq(Names)])
  BY <1>1, HarnessAssumption
<1>3. run_results = <<>>
  BY DEF IInv, Track, FindSuites, SuitesFound, LoadScenarios, ScenariosLoaded
<1>4. UNCHANGED <<input, run_results, exit_unsuccessfully, summary>>
  BY DEF FindSuites, SuitesFound, LoadScenarios, ScenariosLoaded, found
<1>5. /\ suites' \in Seq(Names) /\ scenarios' \in Seq(Names)
      /\ next' \in Nat \ {0}
  <2>1. CASE FindSuites
    <3>1. next \in 1 .. Len(input.patterns)
      BY <1>1, <1>2, <2>1 DEF FindSuites
    <3>2. input.patterns[next] \in Seq(Names)
      BY <1>2, <3>1, Element
    <3>3. scenarios' = scenarios /\ (suites' = suites \/ suites' = suites \o input.patterns[next])
      BY <2>1 DEF FindSuites
    <3>4. next' = next \/ next' = next + 1
      BY <2>1 DEF FindSuites
    <3>5. suites \o input.patterns[next] \in Seq(Names)
      BY <1>1, <3>2, Concatenated
    <3>6. next + 1 \in Nat \ {0}
      BY <1>1
    <3> QED
      BY <1>1, <3>3, <3>4, <3>5, <3>6
  <2>2. CASE LoadScenarios
    <3>0. next \in 1 .. Len(input.getters)
      BY <1>1, <1>2, <2>2 DEF LoadScenarios
    <3>1. input.getters[next].scenarios \in Seq(Names)
      <4>1. input.getters[next] \in [loads : BOOLEAN, returns : BOOLEAN, scenarios : Seq(Names)]
        BY <1>2, <3>0, Element
      <4> QED
        BY <4>1
    <3>2. scenarios' = scenarios \/ scenarios' = scenarios \o input.getters[next].scenarios
      BY <2>2 DEF LoadScenarios
    <3>3. suites' = suites /\ next' = next + 1
      BY <2>2 DEF LoadScenarios
    <3>4. scenarios \o input.getters[next].scenarios \in Seq(Names)
      BY <1>1, <3>1, Concatenated
    <3>5. next + 1 \in Nat \ {0}
      BY <1>1
    <3> QED
      BY <1>1, <3>2, <3>3, <3>4, <3>5
  <2>3. CASE SuitesFound \/ ScenariosLoaded
    BY <1>1, <2>3 DEF SuitesFound, ScenariosLoaded, found
  <2> QED
    BY <2>1, <2>2, <2>3
<1>6. pc' \in {"find", "load", "suites", "over"} /\ exit_code' \in {Running, 0, 1}
  BY DEF FindSuites, SuitesFound, LoadScenarios, ScenariosLoaded, Quit, IInv, ProcessOK
<1>7. ProcessOK'
  BY <1>1, <1>4, <1>5, <1>6 DEF IInv, ProcessOK
<1>8. pc' = "find" => scenarios' = <<>>
  <2>1. pc' = "find" => FindSuites
    BY DEF SuitesFound, LoadScenarios, ScenariosLoaded, Quit
  <2> QED
    BY <2>1 DEF FindSuites, IInv, Track
<1>9. pc' = "suites" => suites' # <<>> \/ scenarios' # <<>>
  <2>1. pc' = "suites" => ScenariosLoaded
    BY DEF FindSuites, SuitesFound, LoadScenarios, Quit
  <2> QED
    BY <2>1 DEF ScenariosLoaded, Quit, found
<1>10. Track'
  BY <1>3, <1>4, <1>5, <1>6, <1>8, <1>9 DEF Track
<1>11. Flag'
  BY <1>3, <1>4 DEF IInv, Flag
<1>12. HonestExit'
  <2> SUFFICES ASSUME pc' = "over"
               PROVE  exit_code' = 1 /\ (suites' \o scenarios' = <<>> \/ Len(run_results') < Len(suites'))
    BY DEF HonestExit
  <2>1. exit_code' = 1 /\ UNCHANGED <<suites, scenarios>>
    BY DEF FindSuites, SuitesFound, LoadScenarios, ScenariosLoaded, Quit, found
  <2>2. suites = <<>> => scenarios = <<>>
    BY DEF FindSuites, SuitesFound, LoadScenarios, ScenariosLoaded, IInv, Track
  <2> QED
    BY <1>1, <1>3, <1>4, <2>1, <2>2
<1> QED
  BY <1>7, <1>10, <1>11, <1>12 DEF IInv

(* A run appends one entry, with the name that is due, and only that one. *)
LEMMA Appended ==
  ASSUME IInv, NEW r \in Results, UNCHANGED <<suites, scenarios>>,
         run_results' = Append(run_results, r)
  PROVE  /\ run_results' \in Seq(Results)
         /\ Len(run_results') = Len(run_results) + 1
         /\ run_results'[Len(run_results) + 1] = r
         /\ \A i \in DOMAIN run_results : run_results'[i] = run_results[i]
         /\ (\E i \in DOMAIN run_results' : ~ WentWell(i)') <=>
              \/ \E i \in DOMAIN run_results : ~ WentWell(i)
              \/ r.failed # 0 \/ (Len(run_results) + 1 <= Len(suites) /\ ~ r.evaluated > 0)
<1>1. run_results \in Seq(Results)
  BY DEF IInv, ProcessOK
<1>2. /\ run_results' \in Seq(Results)
      /\ Len(run_results') = Len(run_results) + 1
      /\ run_results'[Len(run_results) + 1] = r
      /\ \A i \in DOMAIN run_results : run_results'[i] = run_results[i]
      /\ DOMAIN run_results' = DOMAIN run_results \cup {Len(run_results) + 1}
  BY <1>1
<1>3. \A i \in DOMAIN run_results : WentWell(i)' <=> WentWell(i)
  BY <1>2 DEF WentWell
<1>4. ASSUME NEW i, i = Len(run_results) + 1
      PROVE  WentWell(i)' <=> r.failed = 0 /\ (i <= Len(suites) => r.evaluated > 0)
  BY <1>2, <1>4 DEF WentWell
<1>5. \A i \in DOMAIN run_results' : i \in DOMAIN run_results \/ i = Len(run_results) + 1
  BY <1>2
<1>6. Len(run_results) + 1 \in DOMAIN run_results' /\ DOMAIN run_results \subseteq DOMAIN run_results'
  BY <1>2
<1> QED
  BY <1>2, <1>3, <1>4, <1>5, <1>6

(* What is found and not yet run. *)
LEMMA Due ==
  ASSUME IInv
  PROVE  /\ Len(suites) \in Nat /\ Len(scenarios) \in Nat /\ Len(run_results) \in Nat
         /\ suites \o scenarios \in Seq(Names)
         /\ Len(suites \o scenarios) = Len(suites) + Len(scenarios)
         /\ \A i \in 1 .. Len(suites) :
              (suites \o scenarios)[i] = suites[i] /\ suites[i] \in Names
         /\ \A i \in 1 .. Len(scenarios) :
              /\ (suites \o scenarios)[Len(suites) + i] = scenarios[i]
              /\ scenarios[i] \in Names
BY DEF IInv, ProcessOK

(* The scenario loop is at a scenario exactly up to the last one. *)
LEMMA DuePosition ==
  ASSUME IInv
  PROVE  /\ Position \in Int
         /\ DOMAIN scenarios = 1 .. Len(scenarios)
         /\ Position \in DOMAIN scenarios => Len(run_results) < Len(suites) + Len(scenarios)
<1>1. DOMAIN scenarios = 1 .. Len(scenarios)
  BY DEF IInv, ProcessOK
<1> QED
  BY <1>1, Due DEF Position

(* The loop over suites and the loop over scenarios. *)
LEMMA RunInv ==
  ASSUME IInv, RunSuite \/ RunScenario \/ ScenarioRaises
  PROVE  IInv'
<1> DEFINE n == Len(run_results) + 1
           name == (suites \o scenarios)[n]
<1>1. /\ n \in 1 .. Len(suites) + Len(scenarios)
      /\ pc = "suites" => n <= Len(suites)
      /\ pc = "scenarios" => n > Len(suites)
      /\ pc \in {"suites", "scenarios"}
  BY Due, DuePosition DEF IInv, Track, RunSuite, RunScenario, ScenarioRaises, Named, Position
<1>2. UNCHANGED <<input, next, suites, scenarios, pc, summary, exit_code>>
  BY DEF RunSuite, RunScenario, ScenarioRaises, found
<1>3. PICK r \in Results :
        /\ run_results' = Append(run_results, r)
        /\ r.name = name
        /\ exit_unsuccessfully' <=>
             exit_unsuccessfully \/ r.failed > 0 \/ (n <= Len(suites) /\ r.evaluated = 0)
  <2>1. CASE RunSuite
    <3>1. PICK succeeded, failed, skipped \in Counts :
            LET evaluated == succeeded + failed + skipped
                r == Result(suites[n], evaluated, succeeded, failed, skipped) IN
            /\ evaluated <= MaxTests
            /\ run_results' = Append(run_results, r)
            /\ exit_unsuccessfully' = (exit_unsuccessfully \/ Unsuccessful(r))
      BY <2>1 DEF RunSuite
    <3> DEFINE r == Result(suites[n], succeeded + failed + skipped, succeeded, failed, skipped)
    <3>2. suites[n] = name /\ name \in Names /\ n <= Len(suites)
      BY <1>1, <2>1, Due DEF RunSuite
    <3>3. r \in Results /\ r.name = name
      BY <3>1, <3>2, HarnessAssumption DEF Results, Result, Counts
    <3>4. exit_unsuccessfully' <=> exit_unsuccessfully \/ r.failed > 0 \/ r.evaluated = 0
      BY <3>1 DEF Unsuccessful
    <3> QED
      BY <3>1, <3>2, <3>3, <3>4
  <2>2. CASE RunScenario
    <3>1. PICK succeeded, failed \in Counts :
            /\ succeeded + failed <= MaxTests
            /\ run_results' = Append(run_results,
                 Result(scenarios[Position], succeeded + failed, succeeded, failed, 0))
            /\ exit_unsuccessfully' = (exit_unsuccessfully \/ failed > 0)
      BY <2>2 DEF RunScenario
    <3> DEFINE r == Result(scenarios[Position], succeeded + failed, succeeded, failed, 0)
    <3>2. scenarios[Position] = name /\ name \in Names /\ ~ (n <= Len(suites))
      BY <1>1, <2>2, Due DEF RunScenario, Position
    <3>0. succeeded + failed \in Counts /\ failed \in Nat /\ 0 \in Counts
      BY <3>1, HarnessAssumption DEF Counts
    <3>3. r \in Results /\ r.name = name /\ r.failed = failed
      BY <3>0, <3>2 DEF Results, Result
    <3> QED
      BY <3>1, <3>2, <3>3
  <2>3. CASE ScenarioRaises
    <3> DEFINE r == Result(scenarios[Position], 0, 0, 1, 0)
    <3>1. run_results' = Append(run_results, r) /\ exit_unsuccessfully' = TRUE
      BY <2>3 DEF ScenarioRaises
    <3>2. scenarios[Position] = name /\ name \in Names
      BY <1>1, <2>3, Due DEF ScenarioRaises, Position
    <3>3. r \in Results /\ r.name = name /\ r.failed > 0
      <4>1. 0 \in Counts
        BY HarnessAssumption DEF Counts
      <4> QED
        BY <3>2, <4>1, 1 \in Nat, 1 > 0 DEF Results, Result
    <3> QED
      BY <3>1, <3>3
  <2> QED
    BY <2>1, <2>2, <2>3
<1>4. /\ run_results' \in Seq(Results)
      /\ Len(run_results') = n
      /\ run_results'[n] = r
      /\ \A i \in DOMAIN run_results : run_results'[i] = run_results[i]
      /\ (\E i \in DOMAIN run_results' : ~ WentWell(i)') <=>
           \/ \E i \in DOMAIN run_results : ~ WentWell(i)
           \/ r.failed # 0 \/ (n <= Len(suites) /\ ~ r.evaluated > 0)
  BY <1>2, <1>3, Appended
<1>5. exit_unsuccessfully' \in BOOLEAN
  BY DEF RunSuite, RunScenario, ScenarioRaises
<1>6. ProcessOK'
  BY <1>2, <1>4, <1>5 DEF IInv, ProcessOK
<1>7. Track'
  <2>1. \A i \in DOMAIN run_results' : run_results'[i].name = (suites \o scenarios)[i]
    <3>1. DOMAIN run_results' = 1 .. n /\ DOMAIN run_results = 1 .. n - 1
      BY <1>4 DEF IInv, ProcessOK
    <3>2. \A i \in 1 .. n : i = n \/ i \in 1 .. n - 1
      BY Due
    <3>3. \A i \in DOMAIN run_results : run_results[i].name = (suites \o scenarios)[i]
      BY DEF IInv, Track
    <3> QED
      BY <1>3, <1>4, <3>1, <3>2, <3>3
  <2> QED
    BY <1>1, <1>2, <1>4, <2>1, Due DEF IInv, Track
<1>8. Flag'
  <2>1. r.failed \in Nat /\ r.evaluated \in Nat
    BY HarnessAssumption DEF Results, Counts
  <2>2. r.failed # 0 <=> r.failed > 0
    BY <2>1
  <2>3. ~ r.evaluated > 0 <=> r.evaluated = 0
    BY <2>1
  <2> QED
    BY <1>3, <1>4, <2>2, <2>3 DEF IInv, Flag
<1>9. HonestExit'
  BY <1>1, <1>2 DEF HonestExit
<1> QED
  BY <1>6, <1>7, <1>8, <1>9 DEF IInv

(* The steps that end a loop, the summary and the exit. *)
LEMMA EndInv ==
  ASSUME IInv,
         SuiteRaises \/ ScenarioNameless \/ SuitesDone \/ ScenariosDone \/ WriteSummary \/ Exit
  PROVE  IInv'
<1>1. UNCHANGED <<found, run_results, exit_unsuccessfully>>
  BY DEF SuiteRaises, ScenarioNameless, SuitesDone, ScenariosDone, WriteSummary, Exit
<1>2. /\ pc' \in {"scenarios", "summary", "exit", "over"}
      /\ exit_code' \in {Running, 0, 1}
  BY DEF SuiteRaises, ScenarioNameless, SuitesDone, ScenariosDone, WriteSummary, Exit, Quit, IInv, ProcessOK
<1>3. ProcessOK'
  BY <1>1, <1>2 DEF IInv, ProcessOK, found
<1>4. Track'
  <2>1. pc' = "scenarios" => pc = "suites" /\ Len(run_results) = Len(suites)
    BY DEF SuiteRaises, ScenarioNameless, SuitesDone, ScenariosDone, WriteSummary, Exit, Quit
  <2>2. pc' = "summary" => pc = "scenarios" /\ Position > Len(scenarios)
    BY DEF SuiteRaises, ScenarioNameless, SuitesDone, ScenariosDone, WriteSummary, Exit, Quit
  <2>3. pc' = "exit" => pc = "summary"
    BY DEF SuiteRaises, ScenarioNameless, SuitesDone, ScenariosDone, WriteSummary, Exit, Quit
  <2> QED
    BY <1>1, <1>2, <2>1, <2>2, <2>3, Due DEF IInv, Track, Position, found
<1>5. Flag'
  BY <1>1 DEF IInv, Flag, WentWell, found
<1>6. HonestExit'
  <2>1. CASE SuiteRaises
    BY <1>1, <2>1 DEF SuiteRaises, Quit, HonestExit, found
  <2>2. CASE ScenarioNameless
    <3>1. exit_code' = 1 /\ Unnamed'
      BY <1>1, <2>2 DEF ScenarioNameless, Quit, Unnamed, Position, found
    <3> QED
      BY <3>1 DEF HonestExit
  <2>3. CASE Exit
    <3>1. /\ Len(run_results) = Len(suites) + Len(scenarios)
          /\ Len(suites) + Len(scenarios) > 0
          /\ \A i \in DOMAIN run_results : run_results[i].name = (suites \o scenarios)[i]
      BY <2>3 DEF Exit, IInv, Track
    <3>2. run_results \in Seq(Results) /\ run_results # <<>>
      BY <3>1, Due DEF IInv, ProcessOK
    <3>3. [i \in DOMAIN run_results |-> run_results[i].name] = suites \o scenarios
      BY <3>1, <3>2, Due, SameNames
    <3>4. exit_code' = 0 <=> \A i \in DOMAIN run_results : WentWell(i)
      BY <2>3 DEF Exit, IInv, Flag, ProcessOK
    <3> QED
      BY <1>1, <3>2, <3>3, <3>4 DEF HonestExit, WentWell, found
  <2>4. CASE SuitesDone \/ ScenariosDone \/ WriteSummary
    BY <2>4 DEF SuitesDone, ScenariosDone, WriteSummary, HonestExit
  <2> QED
    BY <2>1, <2>2, <2>3, <2>4
<1> QED
  BY <1>3, <1>4, <1>5, <1>6 DEF IInv

(* Stuttering keeps the invariant. *)
LEMMA StutterInv == IInv /\ UNCHANGED vars => IInv'
BY DEF IInv, ProcessOK, Track, Flag, HonestExit, WentWell, Unnamed, Position, vars, found

(* IInv holds of every reachable state of the test command. *)
THEOREM Invariance == Spec => []IInv
<1>1. IInv /\ [Next]_vars => IInv'
  BY ChooseInv, FindInv, RunInv, EndInv, StutterInv DEF Next
<1> QED
  BY InitInv, <1>1, PTL DEF Spec

(***************************************************************************)
(* The exit code of the test command is 0 exactly when everything it found *)
(* ran and went well, for every input.                                     *)
(***************************************************************************)
THEOREM ExitCode == Spec => []HonestExit
<1>1. IInv => HonestExit
  BY DEF IInv
<1> QED
  BY Invariance, <1>1, PTL

-------------------------------------------------------------------------------
(* What a failure to load costs. *)

(* Two sets that have nothing in common count together.                    *)
LEMMA DisjointCount ==
  ASSUME NEW S, NEW T, IsFiniteSet(S), IsFiniteSet(T), S \cap T = {}
  PROVE  IsFiniteSet(S \cup T) /\ Cardinality(S \cup T) = Cardinality(S) + Cardinality(T)
<1>1. Cardinality({}) = 0 /\ Cardinality(S) \in Nat /\ Cardinality(T) \in Nat
  BY FS_EmptySet, FS_CardinalityType
<1>2. /\ IsFiniteSet(S \cup T)
      /\ Cardinality(S \cup T) = Cardinality(S) + Cardinality(T) - Cardinality(S \cap T)
  BY FS_Union
<1>3. Cardinality(S \cap T) = 0
  BY <1>1
<1> QED
  BY <1>1, <1>2, <1>3

(* Sets of which one numbers the other count the same.                     *)
LEMMA Renumbered ==
  ASSUME NEW S, IsFiniteSet(S), NEW T, NEW f \in [S -> T],
         \A x, y \in S : f[x] = f[y] => x = y,
         \A z \in T : \E x \in S : f[x] = z
  PROVE  IsFiniteSet(T) /\ Cardinality(T) = Cardinality(S)
<1>1. f \in Bijection(S, T)
  BY DEF Bijection, Injection, Surjection, IsInjective
<1> QED
  BY <1>1, FS_Bijection DEF ExistsBijection

(* Where a name is in a list, and how often in one list behind another.    *)
Where(s, n) == {i \in DOMAIN s : s[i] = n}

LEMMA WhereFinite ==
  ASSUME NEW S, NEW s \in Seq(S), NEW n
  PROVE  IsFiniteSet(Where(s, n)) /\ Cardinality(Where(s, n)) \in Nat
<1>1. DOMAIN s = 1 .. Len(s) /\ Len(s) \in Nat
  OBVIOUS
<1>2. IsFiniteSet(1 .. Len(s)) /\ Where(s, n) \in SUBSET (1 .. Len(s))
  BY <1>1, FS_Interval DEF Where
<1>3. IsFiniteSet(Where(s, n))
  BY <1>2, FS_Subset
<1> QED
  BY <1>3, FS_CardinalityType

LEMMA WhereConcat ==
  ASSUME NEW S, NEW a \in Seq(S), NEW b \in Seq(S), NEW n
  PROVE  Cardinality(Where(a \o b, n)) = Cardinality(Where(a, n)) + Cardinality(Where(b, n))
<1> DEFINE A == Where(a, n)
           B == Where(b, n)
           C == {Len(a) + i : i \in B}
           f == [i \in B |-> Len(a) + i]
<1>1. /\ Len(a) \in Nat /\ Len(b) \in Nat
      /\ DOMAIN a = 1 .. Len(a) /\ DOMAIN b = 1 .. Len(b)
      /\ DOMAIN (a \o b) = 1 .. Len(a) + Len(b)
  OBVIOUS
<1>2. \A i \in DOMAIN (a \o b) : (a \o b)[i] = IF i <= Len(a) THEN a[i] ELSE b[i - Len(a)]
  OBVIOUS
<1>3. A \subseteq 1 .. Len(a) /\ B \subseteq 1 .. Len(b)
  BY <1>1 DEF Where
<1>4. Where(a \o b, n) = A \cup C
  <2>1. ASSUME NEW i \in Where(a \o b, n)
        PROVE  i \in A \cup C
    <3>1. i \in 1 .. Len(a) + Len(b) /\ (a \o b)[i] = n
      BY <1>1 DEF Where
    <3>2. CASE i <= Len(a)
      BY <1>1, <1>2, <3>1, <3>2 DEF Where
    <3>3. CASE ~ (i <= Len(a))
      <4>1. i - Len(a) \in 1 .. Len(b) /\ b[i - Len(a)] = n /\ i = Len(a) + (i - Len(a))
        BY <1>1, <1>2, <3>1, <3>3
      <4>2. i - Len(a) \in B
        BY <1>1, <4>1 DEF Where
      <4> QED
        BY <4>1, <4>2
    <3> QED
      BY <3>2, <3>3
  <2>2. ASSUME NEW i \in A
        PROVE  i \in Where(a \o b, n)
    <3>1. i \in 1 .. Len(a) /\ a[i] = n
      BY <1>1 DEF Where
    <3>2. i \in DOMAIN (a \o b) /\ i <= Len(a)
      BY <1>1, <3>1
    <3> QED
      BY <1>2, <3>1, <3>2 DEF Where
  <2>3. ASSUME NEW i \in B
        PROVE  Len(a) + i \in Where(a \o b, n)
    <3>1. i \in 1 .. Len(b) /\ b[i] = n
      BY <1>1 DEF Where
    <3>2. Len(a) + i \in DOMAIN (a \o b) /\ ~ (Len(a) + i <= Len(a)) /\ (Len(a) + i) - Len(a) = i
      BY <1>1, <3>1
    <3> QED
      BY <1>2, <3>1, <3>2 DEF Where
  <2> QED
    BY <2>1, <2>2, <2>3
<1>5. IsFiniteSet(A) /\ IsFiniteSet(B)
  BY WhereFinite
<1>6. IsFiniteSet(C) /\ Cardinality(C) = Cardinality(B)
  <2>1. \A x, y \in B : f[x] = f[y] => x = y
    BY <1>1, <1>3
  <2>2. f \in [B -> C] /\ \A z \in C : \E x \in B : f[x] = z
    OBVIOUS
  <2> HIDE DEF f, B, C
  <2> QED
    BY <1>5, <2>1, <2>2, Renumbered
<1>7. A \cap C = {}
  BY <1>1, <1>3
<1> HIDE DEF A, B, C
<1> QED
  BY <1>4, <1>5, <1>6, <1>7, DisjointCount DEF A, B

(* Where a name is in what the getters before one of them returned.        *)
Returned(g) == input.getters[g].loads /\ input.getters[g].returns
Cells(n, m) ==
  UNION {{<<g, j>> : j \in Where(input.getters[g].scenarios, n)} :
         g \in {h \in DOMAIN input.getters : Returned(h) /\ h < m}}

LEMMA CellsFacts ==
  ASSUME NEW n, NEW m
  PROVE  \A c : c \in Cells(n, m) <=>
           \E g \in DOMAIN input.getters : \E j \in Where(input.getters[g].scenarios, n) :
             c = <<g, j>> /\ Returned(g) /\ g < m
BY DEF Cells

(* The next getter adds to them as often as it returned the name.          *)
LEMMA CellsStep ==
  ASSUME NEW n, ProcessOK, next \in 1 .. Len(input.getters), IsFiniteSet(Cells(n, next))
  PROVE  /\ IsFiniteSet(Cells(n, next + 1))
         /\ Cardinality(Cells(n, next + 1)) =
              IF Returned(next)
                THEN Cardinality(Cells(n, next)) + Cardinality(Where(input.getters[next].scenarios, n))
                ELSE Cardinality(Cells(n, next))
<1> DEFINE W == Where(input.getters[next].scenarios, n)
           New == {<<next, j>> : j \in W}
           f == [j \in W |-> <<next, j>>]
<1>1. input.getters \in Seq([loads : BOOLEAN, returns : BOOLEAN, scenarios : Seq(Names)])
  BY HarnessAssumption DEF ProcessOK
<1>2. DOMAIN input.getters = 1 .. Len(input.getters) /\ next \in Nat
  BY <1>1
<1>3. \A g \in DOMAIN input.getters : g < next + 1 <=> g < next \/ g = next
  BY <1>2
<1>4. CASE ~ Returned(next)
  <2>1. \A c : c \in Cells(n, next + 1) <=> c \in Cells(n, next)
    BY <1>3, <1>4, CellsFacts
  <2>2. Cells(n, next + 1) = Cells(n, next)
    BY <2>1
  <2> QED
    BY <1>4, <2>2
<1>5. CASE Returned(next)
  <2>1. \A c : c \in Cells(n, next + 1) <=> c \in Cells(n, next) \/ c \in New
    BY <1>2, <1>3, <1>5, CellsFacts
  <2>2. Cells(n, next + 1) = Cells(n, next) \cup New
    BY <2>1
  <2>3. IsFiniteSet(W)
    <3>1. input.getters[next] \in [loads : BOOLEAN, returns : BOOLEAN, scenarios : Seq(Names)]
      BY <1>1, Element
    <3> QED
      BY <3>1, WhereFinite
  <2>4. IsFiniteSet(New) /\ Cardinality(New) = Cardinality(W)
    <3>1. f \in [W -> New] /\ \A z \in New : \E x \in W : f[x] = z
      OBVIOUS
    <3>2. \A x, y \in W : f[x] = f[y] => x = y
      OBVIOUS
    <3> HIDE DEF f, W, New
    <3> QED
      BY <2>3, <3>1, <3>2, Renumbered
  <2>5. Cells(n, next) \cap New = {}
    <3>1. ASSUME NEW c \in Cells(n, next), c \in New
          PROVE  FALSE
      <4>1. PICK g \in DOMAIN input.getters :
              \E j \in Where(input.getters[g].scenarios, n) : c = <<g, j>> /\ g < next
        BY CellsFacts
      <4>2. g = next
        BY <3>1, <4>1
      <4> QED
        BY <1>2, <4>1, <4>2
    <3> QED
      BY <3>1
  <2> HIDE DEF New, W
  <2>6. IsFiniteSet(Cells(n, next) \cup New)
        /\ Cardinality(Cells(n, next) \cup New) = Cardinality(Cells(n, next)) + Cardinality(New)
    BY <2>4, <2>5, DisjointCount
  <2> QED
    BY <1>5, <2>2, <2>4, <2>6 DEF W
<1> QED
  BY <1>4, <1>5

(***************************************************************************)
(* While the getters are called, what has been loaded is what those called *)
(* so far have returned.                                                   *)
(***************************************************************************)
Loaded ==
  pc = "load" =>
    \A n \in Names :
      /\ IsFiniteSet(Cells(n, next))
      /\ Cardinality(Where(scenarios, n)) = Cardinality(Cells(n, next))

(* Before the first call nothing has been loaded, and nothing returned.    *)
LEMMA LoadedStart ==
  ASSUME IInv, SuitesFound
  PROVE  Loaded'
<1>1. UNCHANGED <<input, scenarios>> /\ scenarios = <<>> /\ next' = 1
  BY DEF SuitesFound, IInv, Track
<1> SUFFICES ASSUME NEW n \in Names
             PROVE  /\ IsFiniteSet(Cells(n, next)')
                    /\ Cardinality(Where(scenarios, n)') = Cardinality(Cells(n, next)')
  BY DEF Loaded
<1>2. input.getters \in Seq([loads : BOOLEAN, returns : BOOLEAN, scenarios : Seq(Names)])
  BY HarnessAssumption DEF IInv, ProcessOK
<1>3. \A g \in DOMAIN input.getters : ~ (g < 1)
  BY <1>2
<1>4. Cells(n, 1) = {}
  BY <1>3, CellsFacts
<1>5. Cells(n, next)' = {} /\ Where(scenarios, n)' = {}
  BY <1>1, <1>4 DEF Where, Cells, Returned
<1> QED
  BY <1>5, FS_EmptySet

(* A getter that is called adds what it returns, and only that.            *)
LEMMA LoadedStep ==
  ASSUME IInv, Loaded, LoadScenarios
  PROVE  Loaded'
<1> DEFINE s == input.getters[next].scenarios
<1>1. /\ UNCHANGED input /\ pc = "load" /\ next' = next + 1
      /\ scenarios' = IF Returned(next) THEN scenarios \o s ELSE scenarios
  BY DEF LoadScenarios, Returned
<1> SUFFICES ASSUME NEW n \in Names
             PROVE  /\ IsFiniteSet(Cells(n, next)')
                    /\ Cardinality(Where(scenarios, n)') = Cardinality(Cells(n, next)')
  BY DEF Loaded
<1>2. input.getters \in Seq([loads : BOOLEAN, returns : BOOLEAN, scenarios : Seq(Names)])
  BY HarnessAssumption DEF IInv, ProcessOK
<1>3. next \in 1 .. Len(input.getters)
  BY <1>2 DEF IInv, ProcessOK, LoadScenarios
<1>4. scenarios \in Seq(Names) /\ s \in Seq(Names)
  <2>1. input.getters[next] \in [loads : BOOLEAN, returns : BOOLEAN, scenarios : Seq(Names)]
    BY <1>2, <1>3, Element
  <2> QED
    BY <2>1 DEF IInv, ProcessOK
<1>5. IsFiniteSet(Cells(n, next)) /\ Cardinality(Where(scenarios, n)) = Cardinality(Cells(n, next))
  BY <1>1 DEF Loaded
<1>6. /\ IsFiniteSet(Cells(n, next + 1))
      /\ Cardinality(Cells(n, next + 1)) =
           IF Returned(next) THEN Cardinality(Cells(n, next)) + Cardinality(Where(s, n))
                             ELSE Cardinality(Cells(n, next))
  BY <1>3, <1>5, CellsStep DEF IInv
<1>7. Cardinality(Where(scenarios \o s, n)) = Cardinality(Where(scenarios, n)) + Cardinality(Where(s, n))
  BY <1>4, WhereConcat
<1>8. Cells(n, next)' = Cells(n, next + 1)
  BY <1>1 DEF Cells, Returned
<1>9. Where(scenarios, n)' = IF Returned(next) THEN Where(scenarios \o s, n) ELSE Where(scenarios, n)
  BY <1>1 DEF Where
<1> HIDE DEF s
<1>10. CASE Returned(next)
  BY <1>5, <1>6, <1>7, <1>8, <1>9, <1>10
<1>11. CASE ~ Returned(next)
  BY <1>5, <1>6, <1>8, <1>9, <1>11
<1> QED
  BY <1>10, <1>11

(* When all have been called, what has been loaded is what all returned.   *)
LEMMA LoadedEnd ==
  ASSUME IInv, Loaded, ScenariosLoaded
  PROVE  LossContained'
<1>1. UNCHANGED <<input, scenarios>> /\ pc = "load" /\ next > Len(input.getters)
  BY DEF ScenariosLoaded, found
<1> SUFFICES ASSUME NEW n \in Names
             PROVE  Cardinality(Where(scenarios, n)) =
                    Cardinality(UNION {{<<g, j>> : j \in Where(input.getters[g].scenarios, n)} :
                                       g \in {h \in DOMAIN input.getters : Returned(h)}})
  BY <1>1 DEF LossContained, Where, Returned
<1>2. input.getters \in Seq([loads : BOOLEAN, returns : BOOLEAN, scenarios : Seq(Names)])
  BY HarnessAssumption DEF IInv, ProcessOK
<1>3. \A h \in DOMAIN input.getters : h < next
  BY <1>1, <1>2 DEF IInv, ProcessOK
<1>4. {h \in DOMAIN input.getters : Returned(h) /\ h < next} = {h \in DOMAIN input.getters : Returned(h)}
  BY <1>3
<1>5. Cardinality(Where(scenarios, n)) = Cardinality(Cells(n, next))
  BY <1>1 DEF Loaded
<1> QED
  BY <1>4, <1>5 DEF Cells

LEMMA LoadedInvariance ==
  ASSUME IInv, Loaded, LossContained, [Next]_vars
  PROVE  Loaded' /\ LossContained'
<1>1. CASE SuitesFound
  BY <1>1, LoadedStart DEF SuitesFound, LossContained
<1>2. CASE LoadScenarios
  BY <1>2, LoadedStep DEF LoadScenarios, LossContained
<1>3. CASE ScenariosLoaded
  BY <1>3, LoadedEnd DEF ScenariosLoaded, Loaded, Quit
<1>4. CASE ChooseDriver \/ FindSuites
  <2>1. pc' \in {"find", "over"}
    BY <1>4 DEF ChooseDriver, FindSuites, Quit
  <2> QED
    BY <2>1 DEF Loaded, LossContained
<1>5. CASE RunSuite \/ SuiteRaises \/ SuitesDone \/ RunScenario \/ ScenarioRaises
           \/ ScenarioNameless \/ ScenariosDone \/ WriteSummary \/ Exit
  <2>1. /\ pc \in {"suites", "scenarios", "summary", "exit"}
        /\ UNCHANGED <<input, scenarios>>
    BY <1>5 DEF RunSuite, SuiteRaises, SuitesDone, RunScenario, ScenarioRaises,
                ScenarioNameless, ScenariosDone, WriteSummary, Exit, found
  <2>2. pc' # "load"
    BY <1>5 DEF RunSuite, SuiteRaises, SuitesDone, RunScenario, ScenarioRaises,
                ScenarioNameless, ScenariosDone, WriteSummary, Exit, Quit
  <2>3. LossContained'
    BY <2>1 DEF LossContained
  <2> QED
    BY <2>2, <2>3 DEF Loaded
<1>6. CASE UNCHANGED vars
  BY <1>6 DEF Loaded, LossContained, Cells, Returned, Where, vars, found
<1> QED
  BY <1>1, <1>2, <1>3, <1>4, <1>5, <1>6 DEF Next

(***************************************************************************)
(* A failure to load costs the scenarios of the getter that failed, or of  *)
(* the file that could not be imported, and no other's: for every scenario *)
(* directory, what runs is what the others returned, each as often.        *)
(***************************************************************************)
THEOREM LossIsContained == Spec => []LossContained
<1>1. Init => Loaded /\ LossContained
  BY DEF Init, Loaded, LossContained
<1>2. IInv /\ Loaded /\ LossContained /\ [Next]_vars => Loaded' /\ LossContained'
  BY LoadedInvariance
<1> QED
  BY <1>1, <1>2, Invariance, PTL DEF Spec

-------------------------------------------------------------------------------
(* The totals. *)

LEMMA LeastNumber ==
  ASSUME NEW T \in SUBSET Nat, T # {}
  PROVE  \E x \in T : \A y \in T : x <= y
<1> DEFINE Less == OpToRel(<, Nat)
<1>1. IsWellFoundedOn(Less, Nat)
  BY NatLessThanWellFounded
<1>2. \A x, y \in Nat : <<y, x>> \in Less <=> y < x
  BY DEF OpToRel
<1> HIDE DEF Less
<1>3. PICK x \in T : \A y \in T : <<y, x>> \notin Less
  BY <1>1, WFMin
<1>4. \A y \in T : ~ (y < x)
  BY <1>2, <1>3
<1> QED
  BY <1>4

(* Induction over the numbers, for a property given as a set.              *)
LEMMA SetInduction ==
  ASSUME NEW S, 0 \in S, \A n \in Nat : n \in S => n + 1 \in S
  PROVE  Nat \subseteq S
<1> SUFFICES ASSUME Nat \ S # {}
             PROVE  FALSE
  OBVIOUS
<1>1. PICK x \in Nat \ S : \A y \in Nat \ S : x <= y
  BY LeastNumber
<1>2. x - 1 \in Nat /\ x - 1 \notin Nat \ S
  BY <1>1
<1> QED
  BY <1>1, <1>2

-------------------------------------------------------------------------------
(* Lists. *)

(* The recursive function that Total is defined by exists.                 *)
LEMMA TotalStep ==
  ASSUME NEW field, Len(run_results) \in Nat
  PROVE  \E g : /\ Total(field) = g[Len(run_results)]
                /\ g = [i \in 0 .. Len(run_results) |->
                          IF i = 0 THEN 0 ELSE g[i - 1] + run_results[i][field]]
<1> DEFINE Step(g, n) ==
             [i \in 0 .. n |-> IF i = 0 THEN 0 ELSE g[i - 1] + run_results[i][field]]
           S == {n \in Nat : \E g : g = Step(g, n)}
<1>1. 0 \in S
  <2>1. [i \in {0} |-> 0] = Step([i \in {0} |-> 0], 0)
    OBVIOUS
  <2> QED
    BY <2>1
<1>2. ASSUME NEW n \in Nat, n \in S
      PROVE  n + 1 \in S
  <2>1. PICK g : g = Step(g, n)
    BY <1>2
  <2> DEFINE h == Step(g, n + 1)
  <2>2. \A i \in 0 .. n : h[i] = g[i]
    <3>1. \A i \in 0 .. n : g[i] = Step(g, n)[i]
      BY <2>1
    <3> QED
      BY <3>1
  <2>3. h = Step(h, n + 1)
    <3>1. \A i \in 0 .. (n + 1) : i # 0 => i - 1 \in 0 .. n
      OBVIOUS
    <3> QED
      BY <2>2, <3>1
  <2>4. \E f : f = Step(f, n + 1)
    <3> HIDE DEF h, Step
    <3> QED
      BY <2>3
  <2> HIDE DEF Step
  <2> QED
    BY <2>4
<1>3. Len(run_results) \in S
  <2> HIDE DEF S
  <2> QED
    BY <1>1, <1>2, SetInduction
<1>4. \E g : g = Step(g, Len(run_results))
  BY <1>3
<1>5. Total(field) = (CHOOSE g : g = Step(g, Len(run_results)))[Len(run_results)]
  BY DEF Total
<1> QED
  BY <1>4, <1>5

(* A scenario that raised is one failure, of nothing that was evaluated.   *)
Raised(i) ==
  i > Len(suites) /\ run_results[i].evaluated = 0 /\ run_results[i].failed = 1

(* Every entry of the report counts each of its tests once.                *)
Accounts ==
  \A i \in DOMAIN run_results :
    run_results[i].succeeded + run_results[i].failed + run_results[i].skipped =
    run_results[i].evaluated + (IF Raised(i) THEN 1 ELSE 0)

(* Then so do the totals; and nothing failed in all if nothing did in any. *)
LEMMA TotalFacts ==
  ASSUME IInv, Accounts
  PROVE  /\ Total("succeeded") + Total("failed") + Total("skipped") =
              Total("evaluated") + Cardinality({i \in Empty : Raised(i)})
         /\ Total("failed") = 0 <=> \A i \in DOMAIN run_results : run_results[i].failed = 0
         /\ \A field \in {"evaluated", "succeeded", "failed", "skipped"} : Total(field) \in Nat
<1> DEFINE L == Len(run_results)
           Sums(g, field) ==
             g = [i \in 0 .. L |-> IF i = 0 THEN 0 ELSE g[i - 1] + run_results[i][field]]
           R(n) == {i \in 1 .. n : Raised(i)}
<1>1. /\ L \in Nat /\ DOMAIN run_results = 1 .. L
      /\ \A i \in 1 .. L :
           /\ run_results[i].evaluated \in Nat /\ run_results[i].succeeded \in Nat
           /\ run_results[i].failed \in Nat /\ run_results[i].skipped \in Nat
  <2>1. run_results \in Seq(Results)
    BY DEF IInv, ProcessOK
  <2>2. L \in Nat /\ DOMAIN run_results = 1 .. L /\ \A i \in 1 .. L : run_results[i] \in Results
    BY <2>1
  <2> QED
    BY <2>2, HarnessAssumption DEF Results, Counts
<1> HIDE DEF L
<1>2. PICK e : Total("evaluated") = e[L] /\ Sums(e, "evaluated")
  BY <1>1, TotalStep DEF L
<1>3. PICK s : Total("succeeded") = s[L] /\ Sums(s, "succeeded")
  BY <1>1, TotalStep DEF L
<1>4. PICK f : Total("failed") = f[L] /\ Sums(f, "failed")
  BY <1>1, TotalStep DEF L
<1>5. PICK k : Total("skipped") = k[L] /\ Sums(k, "skipped")
  BY <1>1, TotalStep DEF L
<1> DEFINE Good(n) ==
             /\ e[n] \in Nat /\ s[n] \in Nat /\ f[n] \in Nat /\ k[n] \in Nat
             /\ IsFiniteSet(R(n))
             /\ s[n] + f[n] + k[n] = e[n] + Cardinality(R(n))
             /\ f[n] = 0 <=> \A i \in 1 .. n : run_results[i].failed = 0
           S == {n \in Nat : n \in 0 .. L => Good(n)}
<1>6. 0 \in S
  <2>1. e[0] = 0 /\ s[0] = 0 /\ f[0] = 0 /\ k[0] = 0
    BY <1>1, <1>2, <1>3, <1>4, <1>5
  <2>2. R(0) = {}
    OBVIOUS
  <2>3. IsFiniteSet(R(0)) /\ Cardinality(R(0)) = 0
    BY <2>2, FS_EmptySet
  <2> QED
    BY <2>1, <2>3
<1>7. ASSUME NEW n \in Nat, n \in S
      PROVE  n + 1 \in S
  <2> SUFFICES ASSUME n + 1 \in 0 .. L
               PROVE  Good(n + 1)
    OBVIOUS
  <2>0. n \in 0 .. L /\ n + 1 \in 1 .. L /\ n + 1 # 0 /\ (n + 1) - 1 = n
    BY <1>1
  <2>1. Good(n)
    BY <1>7, <2>0
  <2> DEFINE r == run_results[n + 1]
  <2>2. /\ e[n + 1] = e[n] + r.evaluated /\ s[n + 1] = s[n] + r.succeeded
        /\ f[n + 1] = f[n] + r.failed /\ k[n + 1] = k[n] + r.skipped
    BY <1>2, <1>3, <1>4, <1>5, <2>0
  <2>3. /\ r.evaluated \in Nat /\ r.succeeded \in Nat /\ r.failed \in Nat /\ r.skipped \in Nat
        /\ r.succeeded + r.failed + r.skipped = r.evaluated + (IF Raised(n + 1) THEN 1 ELSE 0)
    BY <1>1, <2>0 DEF Accounts
  <2>4. R(n + 1) = IF Raised(n + 1) THEN R(n) \cup {n + 1} ELSE R(n)
    OBVIOUS
  <2>5. n + 1 \notin R(n)
    OBVIOUS
  <2>6. IsFiniteSet(R(n)) /\ Cardinality(R(n)) \in Nat
    BY <2>1, FS_CardinalityType
  <2>7. /\ IsFiniteSet(R(n + 1))
        /\ Cardinality(R(n + 1)) = Cardinality(R(n)) + (IF Raised(n + 1) THEN 1 ELSE 0)
    <3>1. IsFiniteSet(R(n) \cup {n + 1}) /\ Cardinality(R(n) \cup {n + 1}) = Cardinality(R(n)) + 1
      <4> HIDE DEF R
      <4> QED
        BY <2>5, <2>6, FS_AddElement
    <3> HIDE DEF R
    <3>2. CASE Raised(n + 1)
      BY <2>4, <3>1, <3>2
    <3>3. CASE ~ Raised(n + 1)
      BY <2>4, <2>6, <3>3
    <3> QED
      BY <3>2, <3>3
  <2>8. (\A i \in 1 .. n + 1 : run_results[i].failed = 0) <=>
           (\A i \in 1 .. n : run_results[i].failed = 0) /\ r.failed = 0
    <3>1. \A i \in 1 .. n + 1 : i \in 1 .. n \/ i = n + 1
      OBVIOUS
    <3>2. n + 1 \in 1 .. n + 1 /\ 1 .. n \subseteq 1 .. n + 1
      OBVIOUS
    <3> QED
      BY <3>1, <3>2
  <2> HIDE DEF R, r
  <2>9. f[n + 1] = 0 <=> f[n] = 0 /\ r.failed = 0
    BY <2>1, <2>2, <2>3
  <2>10. s[n + 1] + f[n + 1] + k[n + 1] = e[n + 1] + Cardinality(R(n + 1))
    <3>1. CASE Raised(n + 1)
      BY <2>1, <2>2, <2>3, <2>6, <2>7, <3>1
    <3>2. CASE ~ Raised(n + 1)
      BY <2>1, <2>2, <2>3, <2>6, <2>7, <3>2
    <3> QED
      BY <3>1, <3>2
  <2>11. e[n + 1] \in Nat /\ s[n + 1] \in Nat /\ f[n + 1] \in Nat /\ k[n + 1] \in Nat
    BY <2>1, <2>2, <2>3
  <2> QED
    BY <2>1, <2>7, <2>8, <2>9, <2>10, <2>11
<1>8. Good(L)
  <2> HIDE DEF Good
  <2>1. Nat \subseteq S
    <3> HIDE DEF S
    <3> QED
      BY <1>6, <1>7, SetInduction
  <2> QED
    BY <1>1, <2>1
<1>9. {i \in Empty : Raised(i)} = R(L)
  BY <1>1 DEF Empty, Raised
<1>10. \A field \in {"evaluated", "succeeded", "failed", "skipped"} : Total(field) \in Nat
  BY <1>2, <1>3, <1>4, <1>5, <1>8
<1> HIDE DEF R
<1> QED
  BY <1>1, <1>2, <1>3, <1>4, <1>5, <1>8, <1>9, <1>10

(* What the summary says of the report, and what the exit code makes of it. *)
Printed ==
  /\ summary \in Summaries
  /\ pc \notin {"exit", "over"} => summary = NoSummary
  /\ summary # NoSummary =>
       /\ summary.succeeded + summary.failed + summary.skipped =
            summary.evaluated + Cardinality({i \in summary.empty : Raised(i)})
       /\ summary.notice <=> \A i \in DOMAIN run_results : run_results[i].failed = 0
       /\ summary.empty = Empty
       /\ pc = "over" => (exit_code = 0 <=> \A i \in DOMAIN run_results : WentWell(i))

(* Every run accounts for its tests: a suite and a scenario that returned
   give each one verdict, a scenario that raised has evaluated none. *)
LEMMA AccountsStep ==
  ASSUME IInv, Accounts, NEW r \in Results,
         UNCHANGED <<suites, scenarios>>, run_results' = Append(run_results, r),
         r.succeeded + r.failed + r.skipped =
           r.evaluated +
           (IF Len(run_results) + 1 > Len(suites) /\ r.evaluated = 0 /\ r.failed = 1 THEN 1 ELSE 0)
  PROVE  Accounts'
<1>1. /\ run_results' \in Seq(Results)
      /\ Len(run_results') = Len(run_results) + 1
      /\ run_results'[Len(run_results) + 1] = r
      /\ \A i \in DOMAIN run_results : run_results'[i] = run_results[i]
  BY Appended
<1>2. run_results \in Seq(Results)
  BY DEF IInv, ProcessOK
<1>3. \A i \in DOMAIN run_results' : i \in DOMAIN run_results \/ i = Len(run_results) + 1
  BY <1>1, <1>2
<1> SUFFICES ASSUME NEW i \in DOMAIN run_results'
             PROVE  run_results'[i].succeeded + run_results'[i].failed + run_results'[i].skipped =
                    run_results'[i].evaluated + (IF Raised(i)' THEN 1 ELSE 0)
  BY DEF Accounts
<1>4. CASE i \in DOMAIN run_results
  <2>1. run_results'[i] = run_results[i] /\ (Raised(i)' <=> Raised(i))
    BY <1>1, <1>4 DEF Raised
  <2> QED
    BY <1>4, <2>1 DEF Accounts
<1>5. CASE i = Len(run_results) + 1
  <2>1. run_results'[i] = r
    BY <1>1, <1>5
  <2>2. Raised(i)' <=> i > Len(suites) /\ r.evaluated = 0 /\ r.failed = 1
    BY <2>1 DEF Raised
  <2> QED
    BY <1>5, <2>1, <2>2
<1> QED
  BY <1>3, <1>4, <1>5

LEMMA AccountsInvariance ==
  ASSUME IInv, Accounts, [Next]_vars
  PROVE  Accounts'
<1> DEFINE n == Len(run_results) + 1
<1>0. Len(run_results) \in Nat /\ Len(suites) \in Nat /\ 0 \in Counts /\ Counts \subseteq Nat
  BY Due, HarnessAssumption DEF Counts
<1>1. CASE RunSuite
  <2>1. PICK succeeded, failed, skipped \in Counts :
          LET evaluated == succeeded + failed + skipped
              r == Result(suites[n], evaluated, succeeded, failed, skipped) IN
          /\ evaluated <= MaxTests
          /\ run_results' = Append(run_results, r)
    BY <1>1 DEF RunSuite
  <2> DEFINE r == Result(suites[n], succeeded + failed + skipped, succeeded, failed, skipped)
  <2>2. n \in 1 .. Len(suites)
    BY <1>0, <1>1 DEF RunSuite
  <2>3. r \in Results
    <3>1. suites[n] \in Names
      BY <2>2, Due
    <3>2. succeeded + failed + skipped \in Counts /\ failed \in Nat
      BY <1>0, <2>1, HarnessAssumption DEF Counts
    <3> QED
      BY <3>1, <3>2 DEF Results, Result
  <2>4. r.succeeded + r.failed + r.skipped = r.evaluated /\ ~ (n > Len(suites))
    BY <1>0, <2>2 DEF Result
  <2>5. r.evaluated \in Nat
    BY <1>0, <2>3 DEF Results
  <2>6. UNCHANGED <<suites, scenarios>> /\ run_results' = Append(run_results, r)
    BY <1>1, <2>1 DEF RunSuite, found
  <2> HIDE DEF r
  <2> QED
    BY <2>3, <2>4, <2>5, <2>6, AccountsStep
<1>2. CASE RunScenario
  <2>1. PICK succeeded, failed \in Counts :
          /\ succeeded + failed <= MaxTests
          /\ run_results' = Append(run_results,
               Result(scenarios[Position], succeeded + failed, succeeded, failed, 0))
    BY <1>2 DEF RunScenario
  <2> DEFINE r == Result(scenarios[Position], succeeded + failed, succeeded, failed, 0)
  <2>2. r \in Results
    <3>1. scenarios[Position] \in Names
      BY <1>2, Due, DuePosition DEF RunScenario, Named
    <3>2. succeeded + failed \in Counts /\ failed \in Nat
      BY <1>0, <2>1, HarnessAssumption DEF Counts
    <3> QED
      BY <1>0, <3>1, <3>2 DEF Results, Result
  <2>3. /\ r.succeeded + r.failed + r.skipped = r.evaluated /\ r.evaluated \in Nat
        /\ ~ (r.evaluated = 0 /\ r.failed = 1)
    BY <1>0 DEF Result
  <2>4. UNCHANGED <<suites, scenarios>> /\ run_results' = Append(run_results, r)
    BY <1>2, <2>1 DEF RunScenario, found
  <2> HIDE DEF r
  <2> QED
    BY <2>2, <2>3, <2>4, AccountsStep
<1>3. CASE ScenarioRaises
  <2> DEFINE r == Result(scenarios[Position], 0, 0, 1, 0)
  <2>1. r \in Results
    <3>1. scenarios[Position] \in Names
      BY <1>3, Due, DuePosition DEF ScenarioRaises, Named
    <3> QED
      BY <1>0, <3>1, 1 \in Nat DEF Results, Result
  <2>2. n > Len(suites)
    BY <1>0, <1>3, DuePosition DEF ScenarioRaises, Named, Position
  <2>3. r.succeeded = 0 /\ r.failed = 1 /\ r.skipped = 0 /\ r.evaluated = 0
    BY DEF Result
  <2>4. UNCHANGED <<suites, scenarios>> /\ run_results' = Append(run_results, r)
    BY <1>3 DEF ScenarioRaises, found
  <2> HIDE DEF r
  <2> QED
    BY <2>1, <2>2, <2>3, <2>4, AccountsStep
<1>4. CASE ChooseDriver \/ FindSuites \/ SuitesFound \/ LoadScenarios \/ ScenariosLoaded
  <2>1. run_results' = <<>>
    BY <1>4 DEF ChooseDriver, FindSuites, SuitesFound, LoadScenarios, ScenariosLoaded, IInv, Track
  <2> QED
    BY <2>1 DEF Accounts
<1>5. CASE UNCHANGED <<suites, run_results>>
  BY <1>5 DEF Accounts, Raised
<1>6. SuiteRaises \/ SuitesDone \/ ScenarioNameless \/ ScenariosDone \/ WriteSummary \/ Exit
        \/ UNCHANGED vars => UNCHANGED <<suites, run_results>>
  BY DEF SuiteRaises, SuitesDone, ScenarioNameless, ScenariosDone, WriteSummary, Exit, vars, found
<1> QED
  BY <1>1, <1>2, <1>3, <1>4, <1>5, <1>6 DEF Next

(* The summary is written once, when the report is complete, and the exit
   code follows; every other way to end leaves before it is written. *)
LEMMA PrintedInvariance ==
  ASSUME IInv, Accounts, Printed, [Next]_vars
  PROVE  Printed'
<1>1. CASE WriteSummary
  <2>1. /\ UNCHANGED <<suites, run_results>> /\ pc' = "exit"
        /\ summary'.evaluated = Total("evaluated") /\ summary'.succeeded = Total("succeeded")
        /\ summary'.failed = Total("failed") /\ summary'.skipped = Total("skipped")
        /\ summary'.empty = Empty /\ (summary'.notice <=> Total("failed") = 0)
    BY <1>1 DEF WriteSummary, found
  <2>2. Empty' = Empty /\ \A i : Raised(i)' <=> Raised(i)
    BY <2>1 DEF Empty, Raised
  <2>3. {i \in summary'.empty : Raised(i)'} = {i \in Empty : Raised(i)}
    BY <2>1, <2>2
  <2>4. summary' \in Summaries'
    <3>1. Empty \in SUBSET DOMAIN run_results
      BY DEF Empty
    <3>2. summary' = [evaluated |-> Total("evaluated"),
                      succeeded |-> Total("succeeded"), failed |-> Total("failed"),
                      skipped |-> Total("skipped"), empty |-> Empty,
                      notice |-> Total("failed") = 0]
      BY <1>1 DEF WriteSummary
    <3>3. /\ Total("evaluated") \in Nat /\ Total("succeeded") \in Nat
          /\ Total("failed") \in Nat /\ Total("skipped") \in Nat
      BY TotalFacts
    <3>4. summary' \in [evaluated : Nat, succeeded : Nat, failed : Nat, skipped : Nat,
                        empty : SUBSET DOMAIN run_results, notice : BOOLEAN]
      BY <3>1, <3>2, <3>3
    <3> QED
      BY <2>1, <3>4 DEF Summaries
  <2> QED
    BY <2>1, <2>2, <2>3, <2>4, TotalFacts DEF Printed
<1>2. CASE Exit
  <2>1. /\ UNCHANGED <<suites, run_results, summary>> /\ pc' = "over"
        /\ exit_code' = IF exit_unsuccessfully THEN 1 ELSE 0
    BY <1>2 DEF Exit, found
  <2>2. /\ Empty' = Empty
        /\ \A i : (Raised(i)' <=> Raised(i)) /\ (WentWell(i)' <=> WentWell(i))
    BY <2>1 DEF Empty, Raised, WentWell
  <2>3. exit_code' = 0 <=> \A i \in DOMAIN run_results : WentWell(i)
    BY <2>1 DEF IInv, Flag, ProcessOK
  <2>4. {i \in summary.empty : Raised(i)'} = {i \in summary.empty : Raised(i)}
    BY <2>2
  <2>5. summary' \in Summaries'
    BY <2>1 DEF Printed, Summaries
  <2> QED
    BY <2>1, <2>2, <2>3, <2>4, <2>5 DEF Printed
<1>3. CASE UNCHANGED vars
  <2>1. {i \in summary.empty : Raised(i)}' = {i \in summary.empty : Raised(i)}
    BY <1>3 DEF Raised, vars, found
  <2> QED
    BY <1>3, <2>1 DEF Printed, Summaries, Empty, WentWell, vars, found
<1>4. CASE pc \notin {"exit", "over"} /\ UNCHANGED summary
  BY <1>4 DEF Printed, Summaries
<1>5. CASE ChooseDriver \/ FindSuites \/ SuitesFound \/ LoadScenarios \/ ScenariosLoaded
           \/ RunSuite \/ SuiteRaises \/ SuitesDone \/ RunScenario \/ ScenarioRaises
           \/ ScenarioNameless \/ ScenariosDone
  <2>1. pc \notin {"exit", "over"} /\ UNCHANGED summary
    BY <1>5 DEF ChooseDriver, FindSuites, SuitesFound, LoadScenarios, ScenariosLoaded, RunSuite,
      SuiteRaises, SuitesDone, RunScenario, ScenarioRaises, ScenarioNameless, ScenariosDone
  <2> QED
    BY <1>4, <2>1
<1> QED
  BY <1>1, <1>2, <1>3, <1>5 DEF Next

(* The report accounts for its tests throughout, and the summary for them. *)
THEOREM SummaryInvariance == Spec => [](IInv /\ Accounts /\ Printed)
<1>1. Init => Accounts /\ Printed
  BY DEF Init, Accounts, Printed, Summaries
<1>2. IInv /\ Accounts /\ Printed /\ [Next]_vars => Accounts' /\ Printed'
  BY AccountsInvariance, PrintedInvariance
<1> QED
  BY <1>1, <1>2, Invariance, PTL DEF Spec

(***************************************************************************)
(* Every variable of the test command has its type, the summary that it    *)
(* prints included: its totals are numbers, and the runs that it lists as  *)
(* empty are runs of the report.                                           *)
(***************************************************************************)
THEOREM TypeCorrect == Spec => []TypeOK
<1>1. IInv /\ Accounts /\ Printed => TypeOK
  BY DEF IInv, Printed, TypeOK
<1> QED
  BY <1>1, SummaryInvariance, PTL

(***************************************************************************)
(* The summary accounts for every test once and agrees with the exit code, *)
(* for every report: the exceptions are a scenario that raised, a failure  *)
(* of which nothing was evaluated, and a suite without tests.              *)
(***************************************************************************)
THEOREM SummaryIsHonest == Spec => []SummaryAgrees
<1>1. IInv /\ Accounts /\ Printed => SummaryAgrees
  <2> SUFFICES ASSUME IInv, Accounts, Printed, summary # NoSummary
               PROVE  SummaryAgrees
    BY DEF SummaryAgrees
  <2>1. /\ summary.empty = Empty
        /\ summary.succeeded + summary.failed + summary.skipped =
             summary.evaluated + Cardinality({i \in Empty : Raised(i)})
        /\ summary.notice <=> \A i \in DOMAIN run_results : run_results[i].failed = 0
        /\ pc = "over" => (exit_code = 0 <=> \A i \in DOMAIN run_results : WentWell(i))
    BY DEF Printed
  <2>2. {i \in Empty : Raised(i)} = {i \in Empty : i > Len(suites) /\ run_results[i].failed = 1}
    BY DEF Empty, Raised
  <2>3. (\A i \in DOMAIN run_results : WentWell(i)) <=>
          /\ \A i \in DOMAIN run_results : run_results[i].failed = 0
          /\ \A i \in Empty : i > Len(suites)
    <3>1. \A i \in DOMAIN run_results :
            /\ i \in Nat /\ run_results[i].evaluated \in Nat
            /\ WentWell(i) <=> run_results[i].failed = 0 /\ (i \in Empty => i > Len(suites))
      <4>1. run_results \in Seq(Results) /\ Counts \subseteq Nat /\ Len(suites) \in Nat
        BY HarnessAssumption DEF IInv, ProcessOK, Counts
      <4>2. \A i \in DOMAIN run_results : i \in Nat /\ run_results[i] \in Results
        BY <4>1
      <4>3. \A i \in DOMAIN run_results : run_results[i].evaluated \in Nat
        BY <4>1, <4>2 DEF Results
      <4> QED
        BY <4>1, <4>2, <4>3 DEF WentWell, Empty
    <3> QED
      BY <3>1 DEF Empty
  <2> QED
    BY <2>1, <2>2, <2>3 DEF SummaryAgrees
<1> QED
  BY <1>1, SummaryInvariance, PTL
===============================================================================
