------------------------------ MODULE Invocation ------------------------------
(***************************************************************************)
(* DockerDriver._capture (docker.py): one test is run in a container of    *)
(* its own.  The driver starts the container, looks up its address, posts  *)
(* the request until something other than a connection error happens or    *)
(* the start-up timeout is over, and a finally clause prints the logs (in  *)
(* debug mode) and kills the container.                                    *)
(*                                                                         *)
(* The driver and the container interleave: the container may exit at any  *)
(* moment, and a request may reach the function although its answer does   *)
(* not come back.  Time is the seconds since the polling loop started; it  *)
(* passes only inside an attempt and in the sleep after it.  The loop does *)
(* not see it: it reads time.time(), which an adjustment of the system's   *)
(* clock moves in either direction at any moment.                          *)
(*                                                                         *)
(* Where the driver runs decides how it asks for the container's address:  *)
(* on the host, in a container (docker in docker), or in one with          *)
(* DOCKER_SHARED_NETWORK set.  docker itself answers truthfully.           *)
(***************************************************************************)
EXTENDS Integers

CONSTANTS
  Timeout,         \* TIMEOUT_FOR_CONTAINER_TO_BE_READY_IN_SECONDS
  ConnectTimeout,  \* the connect part of REQUEST_TIMEOUT
  ReadTimeout,     \* the read part of REQUEST_TIMEOUT
  MaxSkew,         \* bound: how far the system's clock is ever moved
  Debug            \* whether the driver's logger is enabled for DEBUG

ASSUME TimingAssumption ==
  /\ Timeout \in Nat
  /\ ConnectTimeout \in Nat
  /\ ReadTimeout \in Nat
  /\ MaxSkew \in Nat
  /\ Debug \in BOOLEAN

VARIABLES
  place,      \* where the driver runs: "host", "docker" or "shared"
  pc,         \* where the driver is in _capture
  outcome,    \* "pending", "response", a type of ExecutionTestFailed, or "raw"
  container,  \* "none" before docker run, then "up", then "gone"
  address,    \* local_address: "none", then "ip", "port" or "localhost"
  clock,      \* seconds since _wait_for_container was entered
  skew,       \* external: what time.time() shows beyond them
  attempts,   \* how many times the request was posted
  inflight,   \* external: the current post has reached the function
  delivered,  \* external: how often the function was given the request
  cuts        \* external: how often a delivered post ended in a connection error

posts == <<attempts, inflight, delivered, cuts>>
time == <<clock, skew>>
vars == <<place, pc, outcome, container, address, time, posts>>

Longest == ConnectTimeout + ReadTimeout

Init ==
  /\ place \in {"host", "docker", "shared"}
  /\ pc = "prepare" /\ outcome = "pending"
  /\ container = "none" /\ address = "none"
  /\ clock = 0 /\ skew = 0 /\ attempts = 0
  /\ inflight = FALSE /\ delivered = 0 /\ cuts = 0

(***************************************************************************)
(* Everything before docker run: a resource that is missing or an          *)
(* environment that is no dictionary fails the test; a test without a name *)
(* or handler raises something else.  No container exists yet.             *)
(***************************************************************************)
Prepare ==
  /\ pc = "prepare"
  /\ \/ pc' = "launch" /\ UNCHANGED outcome
     \/ pc' = "over" /\ outcome' \in {"resource-error", "raw"}
  /\ UNCHANGED <<place, container, address, time, posts>>

(* Anything raised in the try becomes UNKNOWN_ERROR, COMMAND_FAILED as well. *)
Mut_Fail == pc' = "finally" /\ outcome' = "command-failed"
Fail     == pc' = "finally" /\ outcome' = "unknown-error"

(* docker run, after which the container may exit at any moment. *)
Launch ==
  /\ pc = "launch"
  /\ \/ /\ container' \in {"up", "gone"}
        /\ pc' = (IF place = "host" THEN "port" ELSE "inspect") /\ UNCHANGED outcome
     \/ Fail /\ UNCHANGED container
  /\ UNCHANGED <<place, address, time, posts>>

(***************************************************************************)
(* docker inspect.  _capture starts its container on the default network   *)
(* only, so that one which runs has no address on a shared network.        *)
(***************************************************************************)
Inspectable     == container = "up" /\ place = "docker"

Inspect ==
  /\ pc = "inspect"
  /\ \/ IF Inspectable THEN address' = "ip" /\ pc' = "poll" /\ UNCHANGED outcome
                        ELSE pc' = "port" /\ UNCHANGED <<address, outcome>>
     \/ Fail /\ UNCHANGED address
  /\ UNCHANGED <<place, container, time, posts>>

(* docker port, and the fallback to 127.0.0.1:8080. *)
Mut_LookUpPort ==
  /\ pc = "port"
  /\ \/ address' = (IF place = "host" THEN "port" ELSE "localhost")
        /\ pc' = "poll" /\ UNCHANGED outcome
     \/ Fail /\ UNCHANGED address
  /\ UNCHANGED <<place, container, time, posts>>
LookUpPort ==
  /\ pc = "port"
  /\ \/ address' = (IF container = "up" THEN "port" ELSE "localhost")
        /\ pc' = "poll" /\ UNCHANGED outcome
     \/ Fail /\ UNCHANGED address
  /\ UNCHANGED <<place, container, time, posts>>

(* The condition of the while loop. *)
Mut_InTime == clock + skew <= Timeout
InTime     == clock + skew < Timeout

Post ==
  /\ pc = "poll" /\ InTime
  /\ pc' = "posting" /\ attempts' = attempts + 1 /\ inflight' = FALSE
  /\ UNCHANGED <<place, outcome, container, address, time, delivered, cuts>>

(* The loop ran out, and the missing response is raised as a failure. *)
GiveUp ==
  /\ pc = "poll" /\ ~InTime
  /\ Fail
  /\ UNCHANGED <<place, container, address, time, posts>>

(* The seconds the loop sleeps after a connection error. *)
Pause == 1

(***************************************************************************)
(* requests.exceptions.ConnectionError: refused or not connected within    *)
(* ConnectTimeout, or cut off while the function had the request already.  *)
(* The loop sleeps and posts the same request again.                       *)
(***************************************************************************)
ConnectionError ==
  /\ pc = "posting"
  /\ \E spent \in 0 .. (IF inflight THEN Longest ELSE ConnectTimeout) :
       clock' = clock + spent + Pause
  /\ cuts' = IF inflight THEN cuts + 1 ELSE cuts
  /\ inflight' = FALSE
  /\ pc' = "poll"
  /\ UNCHANGED <<place, outcome, container, address, skew, attempts, delivered>>

(* Any other exception, a read timeout above all, leaves the loop. *)
Mut_PostRaises ==
  /\ pc = "posting"
  /\ \E spent \in 0 .. Longest : clock' = clock + spent + Pause
  /\ inflight' = FALSE
  /\ pc' = "poll"
  /\ UNCHANGED <<place, outcome, container, address, skew, attempts, delivered, cuts>>
PostRaises ==
  /\ pc = "posting"
  /\ \E spent \in 0 .. Longest : clock' = clock + spent
  /\ Fail
  /\ UNCHANGED <<place, container, address, skew, posts>>

(***************************************************************************)
(* The current post is answered: by the function, or by whatever listens   *)
(* on port 8080 when that is what the lookup fell back to.                 *)
(***************************************************************************)
Answered ==
  /\ pc = "posting" /\ (inflight \/ address = "localhost")
  /\ \E spent \in 0 .. Longest : clock' = clock + spent
  /\ pc' = "finally" /\ outcome' = "response"
  /\ UNCHANGED <<place, container, address, skew, posts>>

(***************************************************************************)
(* The finally clause.  In debug mode the logs are decoded first: logs     *)
(* that are not UTF-8 raise out of the clause, before docker kill and in   *)
(* place of whatever the body returned or raised.                          *)
(***************************************************************************)
Kill == container' = IF container = "none" THEN "none" ELSE "gone"

(* The logs followed to their end, which only docker kill would bring about. *)
Mut_ReleaseFollows ==
  /\ pc = "finally"
  /\ Debug => container # "up"
  /\ Kill /\ UNCHANGED outcome
  /\ pc' = "over"
  /\ UNCHANGED <<place, address, time, posts>>
Mut_Release ==
  /\ pc = "finally"
  /\ container' = IF outcome = "response" THEN "gone" ELSE container
  /\ UNCHANGED outcome
  /\ pc' = "over"
  /\ UNCHANGED <<place, address, time, posts>>
Release ==
  /\ pc = "finally"
  /\ \/ Kill /\ UNCHANGED outcome
     \/ Debug /\ container # "none" /\ outcome' = "raw" /\ UNCHANGED container
  /\ pc' = "over"
  /\ UNCHANGED <<place, address, time, posts>>

Driver ==
  \/ Prepare
  \/ Launch \/ Inspect \/ LookUpPort
  \/ Post \/ GiveUp \/ ConnectionError \/ PostRaises \/ Answered
  \/ Release

-------------------------------------------------------------------------------
(* The world around the driver. *)

(* A published port is bound to the loopback interface of the host. *)
Reachable == container = "up" /\ (address = "ip" \/ (address = "port" /\ place = "host"))

(* The container hands the request to the function. *)
Deliver ==
  /\ Reachable /\ pc = "posting" /\ ~inflight
  /\ inflight' = TRUE /\ delivered' = delivered + 1
  /\ UNCHANGED <<place, pc, outcome, container, address, time, attempts, cuts>>

ContainerExits ==
  /\ container = "up"
  /\ container' = "gone"
  /\ UNCHANGED <<place, pc, outcome, address, time, posts>>

AdjustClock ==
  /\ pc \in {"poll", "posting"}
  /\ skew' \in (- MaxSkew) .. MaxSkew
  /\ UNCHANGED <<place, pc, outcome, container, address, clock, posts>>

Next == Driver \/ Deliver \/ ContainerExits \/ AdjustClock

(* Every call of the driver returns: the posts have timeouts. *)
Spec == Init /\ [][Next]_vars /\ WF_vars(Driver)

-------------------------------------------------------------------------------
(* Properties. *)

(* Every variable has its type; in particular COMMAND_FAILED, raised inside
   the try of _capture, never leaves it under that name. *)
TypeOK ==
  /\ place \in {"host", "docker", "shared"}
  /\ pc \in {"prepare", "launch", "inspect", "port", "poll", "posting", "finally", "over"}
  /\ outcome \in {"pending", "response", "resource-error", "unknown-error", "raw"}
  /\ container \in {"none", "up", "gone"}
  /\ address \in {"none", "ip", "port", "localhost"}
  /\ clock \in Nat /\ skew \in (- MaxSkew) .. MaxSkew
  /\ attempts \in Nat /\ delivered \in Nat /\ cuts \in Nat
  /\ inflight \in BOOLEAN

(***************************************************************************)
(* The polling loop posts at most once per second of the timeout and is    *)
(* left at most one whole attempt and one sleep after its last second,     *)
(* however the attempts fail: failing fast does not make it spin, failing  *)
(* slowly does not make it start another attempt too late.  A clock that   *)
(* is set back prolongs it by what it is set back and no more.             *)
(***************************************************************************)
PollingBounded ==
  /\ attempts <= Timeout + MaxSkew
  /\ clock <= Timeout + MaxSkew + Longest

(***************************************************************************)
(* The function is given the same request a second time only when a post   *)
(* it had already received was cut off by a connection error (a time-out   *)
(* while the body is read is one to the code).  One whose time-out is not, *)
(* and one that was answered, is never repeated.                           *)
(***************************************************************************)
RepeatedOnlyAfterCut ==
  /\ delivered <= cuts + 1
  /\ outcome = "response" /\ delivered > 0 => delivered = cuts + 1

(***************************************************************************)
(* Whose answer a response is.  One the function had no part in comes from *)
(* a stranger on port 8080, and only when the container was gone before    *)
(* its address was known.  With a shared network the function is never     *)
(* reached at all, although its container runs.                            *)
(***************************************************************************)
AnsweredByOwn ==
  /\ outcome = "response" /\ delivered = 0 => address = "localhost" /\ container = "gone"
  /\ place = "shared" => delivered = 0

(***************************************************************************)
(* The container is released on every way out of _capture but one: in      *)
(* debug mode, when its logs cannot be decoded, it is left running and the *)
(* exception is not one the runner can turn into a failed test.            *)
(***************************************************************************)
ReleasedOrUndecodable ==
  pc = "over" /\ container = "up" => Debug /\ outcome = "raw"

(***************************************************************************)
(* _capture keeps what a driver promises run_suite.  A verdict is given    *)
(* when the call ends.                                                     *)
(***************************************************************************)
Verdict ==
  IF pc # "over" THEN "pending"
  ELSE IF outcome \in {"response", "raw"} THEN outcome ELSE "failed"
Contract == INSTANCE DriverContract WITH verdict <- Verdict
ImplementsContract == Contract!Spec

(* The call ends however the container behaves. *)
Termination == <>(pc = "over")

(***************************************************************************)
(* docker.py:406 says "Docker-in-docker: resolve via container IP (shared  *)
(* network or default bridge)", and docker.py:412 "Running on host: use    *)
(* the host-mapped port".  A container of _capture is not on the shared    *)
(* network, and the driver resolves it by the port inside a container.     *)
(***************************************************************************)
PortOnlyOnHost == address = "port" => place = "host"
===============================================================================
