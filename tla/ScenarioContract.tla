--------------------------- MODULE ScenarioContract ---------------------------
(***************************************************************************)
(* What execute_concurrent promises to the harness that calls it, without  *)
(* threads, maps or a main loop: requests are answered batch after batch,  *)
(* the report is decided once, it is either a verdict for every request,   *)
(* judged on the answer that request got, or an exception, and the call is *)
(* over only when its container no longer runs.  It does not promise that  *)
(* the container answered: where the requests go is settled once, and when *)
(* the container is lost before that, they go to a fallback address, where *)
(* anybody may answer them.                                                *)
(***************************************************************************)
EXTENDS Naturals

CONSTANTS
  Workloads,  \* the sets of requests <<batch, index, asserting>> a call may be given
  Replies     \* what may be answered

VARIABLES
  work,    \* the requests of this call
  seen,    \* the answers so far, a function on the requests answered
  report,  \* how the call ended, with a verdict for each request if it returned
  live,    \* whether the container runs
  target,  \* where the requests go: "none" yet, the "container" or the "fallback"
  closed   \* whether the call has ended

vars == <<work, seen, report, live, target, closed>>

Nothing == [r \in {} |-> "none"]
Decided(outcome, verdicts) == [outcome |-> outcome, verdicts |-> verdicts]
Pending == Decided("pending", Nothing)

(* A request with assertions fails unless they hold of its answer. *)
Judge(r, a) == IF r[3] /\ a # "match" THEN "failed" ELSE "succeeded"

Init ==
  /\ work \in Workloads
  /\ seen = Nothing
  /\ report = Pending /\ ~live /\ target = "none" /\ ~closed

(* The container is started before anything is answered, or lost. *)
Launch ==
  /\ report = Pending /\ DOMAIN seen = {} /\ ~live /\ target = "none"
  /\ \/ live' = TRUE /\ target' = "container"
     \/ UNCHANGED live /\ target' = "fallback"
  /\ UNCHANGED <<work, seen, report, closed>>

(* A request is due when every request of an earlier batch is answered. *)
Due(r) == \A q \in work : q[1] < r[1] => q \in DOMAIN seen

(* The container replies while it runs; a stranger even when the call is over. *)
Reply(r) ==
  /\ target = "fallback" \/ (target = "container" /\ live)
  /\ r \notin DOMAIN seen /\ Due(r)
  /\ \E a \in Replies :
       seen' = [q \in DOMAIN seen \cup {r} |-> IF q = r THEN a ELSE seen[q]]
  /\ UNCHANGED <<work, report, live, target, closed>>

Complete ==
  /\ report = Pending /\ DOMAIN seen = work
  /\ report' = Decided("returned", [r \in work |-> Judge(r, seen[r])])
  /\ UNCHANGED <<work, seen, live, target, closed>>

GiveUp ==
  /\ report = Pending
  /\ report' = Decided("raised", Nothing)
  /\ UNCHANGED <<work, seen, live, target, closed>>

Stop ==
  /\ live
  /\ live' = FALSE
  /\ UNCHANGED <<work, seen, report, target, closed>>

(* The call ends; it takes the container down first if it still runs. *)
Close ==
  /\ report # Pending /\ ~closed
  /\ closed' = TRUE /\ live' = FALSE
  /\ UNCHANGED <<work, seen, report, target>>

Next == Launch \/ (\E r \in work : Reply(r)) \/ Complete \/ GiveUp \/ Stop \/ Close

Spec == Init /\ [][Next]_vars
===============================================================================
