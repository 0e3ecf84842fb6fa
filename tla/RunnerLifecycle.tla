---------------------------- MODULE RunnerLifecycle ----------------------------
(***************************************************************************)
(* The life of a Runner (runner.py) and the calls it makes to its driver   *)
(* (driver.py) around the suites: Driver.load, setup, prepare, cleanup and *)
(* teardown.  What happens within a suite is the subject of SuiteRun.      *)
(*                                                                         *)
(* A Runner is used in two ways.  The test command (cli.py) enters it as a *)
(* context manager and calls run_suite for one suite after another; other  *)
(* callers, the repository's tests among them, call run, which loads every *)
(* suite first and cleans up after each, with or without entering it.      *)
(*                                                                         *)
(* Drivers may redefine every call, and every call may raise.              *)
(***************************************************************************)
EXTENDS Naturals, Sequences

CONSTANT MaxSuites  \* bound: the number of suites

ASSUME SuitesAssumption == MaxSuites \in Nat

VARIABLES
  caller,     \* "command" or "run"
  entered,    \* whether the Runner is a context manager here
  suites,     \* how many suites there are
  pc,         \* "load", "enter", "read", "macros", "prepare", "tests",
              \* "cleanup", "exit" or "over"
  at,         \* the suite the loop is at
  raising,    \* an exception is on its way, sys.exit at the end aside
  calls       \* history: the calls of the driver that were made, in order

vars == <<caller, entered, suites, pc, at, raising, calls>>
fixed == <<caller, entered, suites>>

Init ==
  /\ caller \in {"command", "run"} /\ suites \in 0 .. MaxSuites
  /\ entered \in IF caller = "command" THEN {TRUE} ELSE BOOLEAN
  /\ pc = "load" /\ at = 1 /\ raising = FALSE /\ calls = <<>>

-------------------------------------------------------------------------------
Call(method) == calls' = Append(calls, [method |-> method, suite |-> at])

(* Where an exception, or the end of the body, leads from outside a suite. *)
Mut_Leave == pc' = "over"
Leave     == pc' = IF entered THEN "exit" ELSE "over"

(***************************************************************************)
(* Runner.__init__: Driver.load takes an instance as it is; by name, a     *)
(* driver that is not in the table or cannot be made raises.               *)
(***************************************************************************)
LoadDriver ==
  /\ pc = "load"
  /\ \/ pc' = (IF entered THEN "enter" ELSE "read") /\ UNCHANGED raising
     \/ caller = "run" /\ pc' = "over" /\ raising' = TRUE
  /\ UNCHANGED <<fixed, at, calls>>

(* __enter__; when it raises the with statement has not begun. *)
Setup ==
  /\ pc = "enter"
  /\ Call("setup")
  /\ \/ pc' = "read" /\ UNCHANGED raising
     \/ pc' = "over" /\ raising' = TRUE
  /\ UNCHANGED <<fixed, at>>

(* The suite files: run reads them all at once, the command one by one. *)
Mut_ReadSuites ==
  /\ pc = "read"
  /\ \/ /\ IF at <= suites + 1 THEN pc' = "macros" ELSE Leave
        /\ UNCHANGED raising
     \/ /\ caller = "command" \/ (at = 1 /\ suites > 0)
        /\ Leave /\ raising' = TRUE
  /\ UNCHANGED <<fixed, at, calls>>
ReadSuites ==
  /\ pc = "read"
  /\ \/ /\ IF at <= suites THEN pc' = "macros" ELSE Leave
        /\ UNCHANGED raising
     \/ /\ caller = "command" \/ (at = 1 /\ suites > 0)
        /\ Leave /\ raising' = TRUE
  /\ UNCHANGED <<fixed, at, calls>>

(* An exception out of run_suite: run has a finally clause, the command none. *)
Mut_SuiteRaises == raising' = TRUE /\ Leave
SuiteRaises ==
  /\ raising' = TRUE
  /\ IF caller = "run" THEN pc' = "cleanup" ELSE Leave

(* _get_test_macros loads the resources, before the driver knows the suite. *)
LoadMacros ==
  /\ pc = "macros"
  /\ \/ pc' = "prepare" /\ UNCHANGED raising
     \/ SuiteRaises
  /\ UNCHANGED <<fixed, at, calls>>

Prepare ==
  /\ pc = "prepare"
  /\ Call("prepare")
  /\ \/ pc' = "tests" /\ UNCHANGED raising
     \/ SuiteRaises
  /\ UNCHANGED <<fixed, at>>

(* fetch, the expansion and the tests. *)
RunTests ==
  /\ pc = "tests"
  /\ \/ /\ IF caller = "run" THEN pc' = "cleanup" /\ UNCHANGED at
                             ELSE pc' = "read" /\ at' = at + 1
        /\ UNCHANGED raising
     \/ SuiteRaises /\ UNCHANGED at
  /\ UNCHANGED <<fixed, calls>>

(* The finally clause of run; an exception of its own replaces the other. *)
Cleanup ==
  /\ pc = "cleanup"
  /\ Call("cleanup")
  /\ \/ /\ ~ raising
        /\ pc' = "read" /\ at' = at + 1 /\ UNCHANGED raising
     \/ Leave /\ raising' = TRUE /\ UNCHANGED at
  /\ UNCHANGED fixed

(* __exit__ does not swallow the exception. *)
Mut_Teardown ==
  /\ pc = "exit"
  /\ Call("teardown")
  /\ pc' = "over"
  /\ raising' = FALSE
  /\ UNCHANGED <<fixed, at>>
Teardown ==
  /\ pc = "exit"
  /\ Call("teardown")
  /\ pc' = "over"
  /\ raising' \in {raising, TRUE}
  /\ UNCHANGED <<fixed, at>>

Next ==
  \/ LoadDriver \/ Setup
  \/ ReadSuites \/ LoadMacros \/ Prepare \/ RunTests \/ Cleanup
  \/ Teardown

Spec == Init /\ [][Next]_vars

-------------------------------------------------------------------------------
(* Properties. *)

Methods == {"setup", "prepare", "cleanup", "teardown"}

(* Every variable has its type; the loop ends behind the last suite. *)
TypeOK ==
  /\ caller \in {"command", "run"} /\ entered \in BOOLEAN
  /\ suites \in 0 .. MaxSuites /\ at \in 1 .. (suites + 1)
  /\ pc \in {"load", "enter", "read", "macros", "prepare", "tests", "cleanup", "exit", "over"}
  /\ raising \in BOOLEAN
  /\ calls \in Seq([method : Methods, suite : 1 .. (MaxSuites + 1)])

Is(i, method) == calls[i].method = method
Got(n, method) == \E i \in DOMAIN calls : Is(i, method) /\ calls[i].suite = n

(***************************************************************************)
(* In run a suite the driver has prepared is cleaned up before anything    *)
(* else is asked of the driver, whether its tests ran or something raised. *)
(* (The command calls run_suite itself and never cleans up.)               *)
(***************************************************************************)
PreparedIsCleaned ==
  caller = "run" =>
    \A i \in DOMAIN calls :
      Is(i, "prepare") /\ (i < Len(calls) \/ pc \notin {"tests", "cleanup"}) =>
        i < Len(calls) /\ calls[i + 1] = [method |-> "cleanup", suite |-> calls[i].suite]

(***************************************************************************)
(* The driver of a Runner that is entered is set up before anything else   *)
(* is asked of it and torn down last, on every way out but one: when its   *)
(* setup raises.  A Runner that is not entered does neither.               *)
(***************************************************************************)
Bracketed ==
  /\ \A i \in DOMAIN calls :
       /\ Is(i, "setup") <=> entered /\ i = 1
       /\ Is(i, "teardown") => i = Len(calls) /\ pc = "over"
  /\ pc = "over" /\ Len(calls) > 1 => (entered <=> Is(Len(calls), "teardown"))

(***************************************************************************)
(* No exception is lost: when the end is reached without one, every suite  *)
(* was prepared, and cleaned up by run, one after the other.               *)
(***************************************************************************)
NothingSwallowed ==
  pc = "over" /\ ~ raising =>
    /\ \A n \in 1 .. suites : Got(n, "prepare") /\ (caller = "run" => Got(n, "cleanup"))
    /\ \A i, j \in DOMAIN calls : i < j => calls[i].suite <= calls[j].suite
===============================================================================
