------------------------------ MODULE TestHarness ------------------------------
(***************************************************************************)
(* execute_tests and write_test_summary (cli.py) with the ScenarioLoader   *)
(* (scenario_loader.py): one process of the test command finds its suites  *)
(* and scenarios, runs the suites and then the scenarios, prints a summary *)
(* and exits with a code.                                                  *)
(*                                                                         *)
(* What running one suite or scenario does is the subject of SuiteRun and  *)
(* ConcurrentScenario; here a run ends in any of the ways they allow.      *)
(*                                                                         *)
(* The input of the process is a record of                                 *)
(*   driver    the driver asked for: "docker", "webapp" or "unknown",      *)
(*   patterns  for each suite argument, the files that it matches,         *)
(*   getters   the getters of the *_scenarios.py files in the scenario     *)
(*             directory, in order, <<>> when it is not given or does not  *)
(*             exist: whether the file can be imported, whether the getter *)
(*             returns a list, and the scenarios in it,                    *)
(*   nameless  the elements of these lists that are objects without a name.*)
(***************************************************************************)
EXTENDS Naturals, Sequences, FiniteSets

CONSTANTS
  Names,    \* the names of suites and scenarios
  Inputs,   \* the inputs a process may be given
  MaxTests  \* bound: no suite has more tests, no scenario more requests

ASSUME HarnessAssumption ==
  /\ MaxTests \in Nat
  /\ \A in \in Inputs :
       /\ in.driver \in {"docker", "webapp", "unknown"} /\ in.nameless \subseteq Names
       /\ in.patterns \in Seq(Seq(Names))
       /\ in.getters \in Seq([loads : BOOLEAN, returns : BOOLEAN, scenarios : Seq(Names)])

VARIABLES
  input,               \* the input of this process
  pc,                  \* "start", "find", "load", "suites", "scenarios", "summary", "exit", "over"
  next,                \* index of the next pattern, then of the next getter
  suites,              \* the suite files, in the order they are run
  scenarios,           \* the scenarios, likewise
  run_results,         \* one entry per suite or scenario run so far
  exit_unsuccessfully, \* the flag that decides the exit code
  summary,             \* what write_test_summary printed, NoSummary before
  exit_code            \* Running, 0 or 1

found == <<input, next, suites, scenarios>>
vars == <<found, pc, run_results, exit_unsuccessfully, summary, exit_code>>

Running   == 2
NoSummary == [empty |-> {}]

Init ==
  /\ input \in Inputs
  /\ pc = "start" /\ next = 1
  /\ suites = <<>> /\ scenarios = <<>> /\ run_results = <<>>
  /\ exit_unsuccessfully = FALSE
  /\ summary = NoSummary /\ exit_code = Running

(* sys.exit(1), or an exception that nothing in the process catches. *)
Quit == pc' = "over" /\ exit_code' = 1

-------------------------------------------------------------------------------
(* A driver of another name is never bound, and using it raises. *)
ChooseDriver ==
  /\ pc = "start"
  /\ IF input.driver = "unknown" THEN Quit ELSE pc' = "find" /\ UNCHANGED exit_code
  /\ UNCHANGED <<found, run_results, exit_unsuccessfully, summary>>

(* A pattern that matches nothing ends the process before anything runs. *)
FindSuites ==
  /\ pc = "find" /\ next <= Len(input.patterns)
  /\ IF input.patterns[next] = <<>>
       THEN Quit /\ UNCHANGED <<next, suites>>
       ELSE /\ suites' = suites \o input.patterns[next]
            /\ next' = next + 1
            /\ UNCHANGED <<pc, exit_code>>
  /\ UNCHANGED <<input, scenarios, run_results, exit_unsuccessfully, summary>>

SuitesFound ==
  /\ pc = "find" /\ next > Len(input.patterns)
  /\ pc' = "load" /\ next' = 1
  /\ UNCHANGED <<input, suites, scenarios, run_results, exit_unsuccessfully, summary, exit_code>>

(* A file that cannot be imported, or a getter that fails, is only logged. *)
Mut_LoadScenarios ==
  /\ pc = "load" /\ next <= Len(input.getters)
  /\ LET g == input.getters[next] IN
     IF g.loads /\ g.returns
       THEN scenarios' = scenarios \o g.scenarios /\ next' = next + 1
       ELSE UNCHANGED scenarios /\ next' = Len(input.getters) + 1
  /\ UNCHANGED <<input, pc, suites, run_results, exit_unsuccessfully, summary, exit_code>>
LoadScenarios ==
  /\ pc = "load" /\ next <= Len(input.getters)
  /\ LET g == input.getters[next] IN
     scenarios' = IF g.loads /\ g.returns THEN scenarios \o g.scenarios ELSE scenarios
  /\ next' = next + 1
  /\ UNCHANGED <<input, pc, suites, run_results, exit_unsuccessfully, summary, exit_code>>

Mut_ScenariosLoaded ==
  /\ pc = "load" /\ next > Len(input.getters)
  /\ pc' = "suites"
  /\ UNCHANGED <<found, run_results, exit_unsuccessfully, summary, exit_code>>
ScenariosLoaded ==
  /\ pc = "load" /\ next > Len(input.getters)
  /\ IF suites = <<>> /\ scenarios = <<>>
       THEN Quit
       ELSE pc' = "suites" /\ UNCHANGED exit_code
  /\ UNCHANGED <<found, run_results, exit_unsuccessfully, summary>>

(* ExecutionTestResults, as the counts that the command looks at. *)
Counts == 0 .. MaxTests
Mut_Result(name, evaluated, succeeded, failed, skipped) ==
  [name |-> name, evaluated |-> evaluated + failed, succeeded |-> succeeded,
   failed |-> failed, skipped |-> skipped]
Result(name, evaluated, succeeded, failed, skipped) ==
  [name |-> name, evaluated |-> evaluated, succeeded |-> succeeded,
   failed |-> failed, skipped |-> skipped]

(***************************************************************************)
(* One suite.  run_suite gives every evaluated test one verdict, see       *)
(* VerdictsDeserved of SuiteRun.  Failed tests and a suite without tests   *)
(* set the flag.                                                           *)
(***************************************************************************)
Mut_Unsuccessful(r) == r.failed > 0
Unsuccessful(r) == r.failed > 0 \/ r.evaluated = 0

RunSuite ==
  /\ pc = "suites" /\ Len(run_results) < Len(suites)
  /\ \E succeeded, failed, skipped \in Counts :
       LET evaluated == succeeded + failed + skipped
           r == Result(suites[Len(run_results) + 1], evaluated, succeeded, failed, skipped) IN
       /\ evaluated <= MaxTests
       /\ run_results' = Append(run_results, r)
       /\ exit_unsuccessfully' = (exit_unsuccessfully \/ Unsuccessful(r))
  /\ UNCHANGED <<found, pc, summary, exit_code>>

(***************************************************************************)
(* A suite file that is no suite, or an exception that run_suite does not  *)
(* catch: it ends the process, with whatever ran before unreported.        *)
(***************************************************************************)
SuiteRaises ==
  /\ pc = "suites" /\ Len(run_results) < Len(suites)
  /\ Quit
  /\ UNCHANGED <<found, run_results, exit_unsuccessfully, summary>>

SuitesDone ==
  /\ pc = "suites" /\ Len(run_results) = Len(suites)
  /\ pc' = "scenarios"
  /\ UNCHANGED <<found, run_results, exit_unsuccessfully, summary, exit_code>>

(* The scenario the second loop is at. *)
Position == Len(run_results) - Len(suites) + 1

Named   == Position \in DOMAIN scenarios /\ scenarios[Position] \notin input.nameless
Unnamed == Position \in DOMAIN scenarios /\ scenarios[Position] \in input.nameless

(***************************************************************************)
(* One scenario: execute_concurrent, which only one driver has, returned a *)
(* verdict for each request, see ReturnedIsComplete of ConcurrentScenario. *)
(***************************************************************************)
RunScenario ==
  /\ pc = "scenarios" /\ Named /\ input.driver = "docker"
  /\ \E succeeded, failed \in Counts :
       /\ succeeded + failed <= MaxTests
       /\ run_results' = Append(run_results,
            Result(scenarios[Position], succeeded + failed, succeeded, failed, 0))
       /\ exit_unsuccessfully' = (exit_unsuccessfully \/ failed > 0)
  /\ UNCHANGED <<found, pc, summary, exit_code>>

(* It raised, whatever it raised: one failure, and nothing was evaluated. *)
Mut_ScenarioQuits ==
  /\ pc = "scenarios" /\ Named
  /\ pc' = "summary"
  /\ exit_unsuccessfully' = TRUE
  /\ UNCHANGED <<found, run_results, summary, exit_code>>
ScenarioRaises ==
  /\ pc = "scenarios" /\ Named
  /\ run_results' = Append(run_results, Result(scenarios[Position], 0, 0, 1, 0))
  /\ exit_unsuccessfully' = TRUE
  /\ UNCHANGED <<found, pc, summary, exit_code>>

(* scenario.name is read before the try: this one ends the process. *)
ScenarioNameless ==
  /\ pc = "scenarios" /\ Unnamed
  /\ Quit
  /\ UNCHANGED <<found, run_results, exit_unsuccessfully, summary>>

ScenariosDone ==
  /\ pc = "scenarios" /\ Position > Len(scenarios)
  /\ pc' = "summary"
  /\ UNCHANGED <<found, run_results, exit_unsuccessfully, summary, exit_code>>

(***************************************************************************)
(* write_test_summary: the totals, the suites without tests and whether    *)
(* the notice of success is printed.  It prints and decides nothing else.  *)
(***************************************************************************)
Total(field) ==
  LET upTo[i \in 0 .. Len(run_results)] ==
        IF i = 0 THEN 0 ELSE upTo[i - 1] + run_results[i][field]
  IN  upTo[Len(run_results)]
Empty == {i \in DOMAIN run_results : run_results[i].evaluated = 0}

WriteSummary ==
  /\ pc = "summary"
  /\ summary' = [evaluated |-> Total("evaluated"),
                 succeeded |-> Total("succeeded"), failed |-> Total("failed"),
                 skipped |-> Total("skipped"), empty |-> Empty,
                 notice |-> Total("failed") = 0]
  /\ pc' = "exit"
  /\ UNCHANGED <<found, run_results, exit_unsuccessfully, exit_code>>

Exit ==
  /\ pc = "exit"
  /\ exit_code' = IF exit_unsuccessfully THEN 1 ELSE 0
  /\ pc' = "over"
  /\ UNCHANGED <<found, run_results, exit_unsuccessfully, summary>>

Next ==
  \/ ChooseDriver
  \/ FindSuites \/ SuitesFound
  \/ LoadScenarios \/ ScenariosLoaded
  \/ RunSuite \/ SuiteRaises \/ SuitesDone
  \/ RunScenario \/ ScenarioRaises \/ ScenarioNameless \/ ScenariosDone
  \/ WriteSummary
  \/ Exit

(* The process keeps running: running a suite or a scenario ends. *)
Spec == Init /\ [][Next]_vars /\ WF_vars(Next)

-------------------------------------------------------------------------------
(* Properties. *)

Results ==
  [name : Names, evaluated : Counts, succeeded : Counts, failed : Nat, skipped : Counts]

(* What write_test_summary may print, or that it has not been called. *)
Summaries ==
  {NoSummary} \cup
  [evaluated : Nat, succeeded : Nat, failed : Nat, skipped : Nat,
   empty : SUBSET DOMAIN run_results, notice : BOOLEAN]

(* The variables that decide what the process does. *)
ProcessOK ==
  /\ input \in Inputs
  /\ pc \in {"start", "find", "load", "suites", "scenarios", "summary", "exit", "over"}
  /\ next \in Nat \ {0}
  /\ suites \in Seq(Names) /\ scenarios \in Seq(Names)
  /\ run_results \in Seq(Results)
  /\ exit_unsuccessfully \in BOOLEAN
  /\ exit_code \in {Running, 0, 1}

(***************************************************************************)
(* Every variable has its type; the runs a summary lists as empty are runs *)
(* of the report (one invariant for the whole module).                     *)
(***************************************************************************)
TypeOK == ProcessOK /\ summary \in Summaries

(* A run that went well; only a suite must also have had tests. *)
WentWell(i) ==
  run_results[i].failed = 0 /\ (i <= Len(suites) => run_results[i].evaluated > 0)

(***************************************************************************)
(* The exit code is honest both ways.  A process that exits with 0 ran     *)
(* something, ran every suite and scenario it had found, each in its turn, *)
(* and all of them went well; one that exits with 1 had nothing to run,    *)
(* left a suite by an exception or met a scenario without a name, or had a *)
(* run that did not go well.                                               *)
(***************************************************************************)
HonestExit ==
  pc = "over" =>
    IF exit_code = 0
      THEN /\ run_results # <<>>
           /\ [i \in DOMAIN run_results |-> run_results[i].name] = suites \o scenarios
           /\ \A i \in DOMAIN run_results : WentWell(i)
      ELSE \/ suites \o scenarios = <<>>
           \/ Len(run_results) < Len(suites)
           \/ Unnamed
           \/ \E i \in DOMAIN run_results : ~ WentWell(i)

(***************************************************************************)
(* The summary accounts for every test once, except that a scenario that   *)
(* raised is a failure of which nothing was evaluated; and it agrees with  *)
(* the exit code, except that the notice of success is also printed when   *)
(* the process is about to fail because of a suite without tests, which is *)
(* then listed as empty.                                                   *)
(***************************************************************************)
SummaryAgrees ==
  summary # NoSummary =>
    /\ summary.succeeded + summary.failed + summary.skipped =
         summary.evaluated +
         Cardinality({i \in summary.empty : i > Len(suites) /\ run_results[i].failed = 1})
    /\ pc = "over" =>
         (exit_code = 0 <=> summary.notice /\ \A i \in summary.empty : i > Len(suites))

(***************************************************************************)
(* Every process ends, and a scenario that raises keeps no later one from  *)
(* running: once the suites are behind, every scenario gets its entry in   *)
(* the report, up to the first that has no name.                           *)
(***************************************************************************)
AllScenariosRun ==
  /\ <>(pc = "over")
  /\ pc = "scenarios" ~> pc = "over" /\ (Unnamed \/ Position = Len(scenarios) + 1)

(***************************************************************************)
(* What a failure to load costs.  The scenarios run are those of every     *)
(* getter that returned, of every file that could be imported, each as     *)
(* often as it was returned: a failure takes no other getter's with it.    *)
(***************************************************************************)
LossContained ==
  pc \in {"suites", "scenarios", "summary", "exit"} =>
    \A n \in Names :
      Cardinality({i \in DOMAIN scenarios : scenarios[i] = n}) =
      Cardinality(UNION {{<<g, j>> : j \in {k \in DOMAIN input.getters[g].scenarios :
                                           input.getters[g].scenarios[k] = n}} :
                         g \in {h \in DOMAIN input.getters :
                                input.getters[h].loads /\ input.getters[h].returns}})
===============================================================================
