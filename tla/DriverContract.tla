---------------------------- MODULE DriverContract ----------------------------
(***************************************************************************)
(* What a driver promises Runner.run_suite (runner.py) about one container *)
(* it runs for a test: there is at most one, a response comes from a       *)
(* container that was started, and a container is not left running unless  *)
(* the driver raises something that run_suite does not catch.  Both        *)
(* drivers implement it: see Invocation and WebInvocation.                 *)
(***************************************************************************)

VARIABLES
  verdict,   \* "pending", "response", "failed" or "raw" (not ExecutionTestFailed)
  container  \* "none", "up" or "gone"

vars == <<verdict, container>>

Init == verdict = "pending" /\ container = "none"

Start ==
  /\ verdict = "pending" /\ container = "none"
  /\ container' \in {"up", "gone"}
  /\ UNCHANGED verdict

(* By itself, or killed on the way to the verdict. *)
Stop ==
  /\ container = "up"
  /\ container' = "gone"
  /\ UNCHANGED verdict

Respond ==
  /\ verdict = "pending" /\ container # "none"
  /\ verdict' = "response" /\ container' = "gone"

Fail ==
  /\ verdict = "pending"
  /\ verdict' = "failed"
  /\ container' = IF container = "none" THEN "none" ELSE "gone"

Raise ==
  /\ verdict = "pending"
  /\ verdict' = "raw"
  /\ UNCHANGED container

Next == Start \/ Stop \/ Respond \/ Fail \/ Raise

Spec == Init /\ [][Next]_vars
===============================================================================
