----------------------------- MODULE WebInvocation -----------------------------
(***************************************************************************)
(* DockerWebAppDriver._capture (docker_webapp.py): one test of a web       *)
(* application.  The driver starts the container, has it initialised by a  *)
(* request sent from inside it, runs hurl in a second container against    *)
(* its port, and a finally clause takes the container's logs and kills it. *)
(* The response is not an answer: it is made of what was logged on stdout. *)
(*                                                                         *)
(* The container runs with --rm: it may exit at any moment, and its logs   *)
(* go with it.  No command has a timeout, so nothing is claimed about the  *)
(* call coming to an end.                                                  *)
(***************************************************************************)
EXTENDS Naturals, Sequences, FiniteSets

CONSTANT MaxLines  \* bound: lines the container logs on both streams

ASSUME LinesAssumption == MaxLines \in Nat

(***************************************************************************)
(* The lines the code tells apart: JSON documents, among them an error     *)
(* object and the string "errorType", and lines that are none, among them  *)
(* one of nothing but blanks and one that cannot be decoded as text.       *)
(***************************************************************************)
Documents == {"document", "error", "errorType"}
Lines     == Documents \cup {"blank", "text", "bytes"}

VARIABLES
  pc,         \* where the driver is in _capture
  outcome,    \* "pending", "response", a type of ExecutionTestFailed, or "raw"
  container,  \* "none" before docker run, then "up", then "gone"
  hurl,       \* how hurl ended: "none", "passed", "assert" or "other"
  stdout,     \* external: the lines the container has logged there
  stderr,     \* external: the lines it has logged there
  seen,       \* external: how many of stdout docker logs showed
  response    \* what _render_response made of them

vars == <<pc, outcome, container, hurl, stdout, stderr, seen, response>>

NoResponse == [class |-> "none"]

Init ==
  /\ pc = "prepare" /\ outcome = "pending" /\ container = "none"
  /\ hurl = "none" /\ stdout = <<>> /\ stderr = <<>>
  /\ seen = 0 /\ response = NoResponse

(***************************************************************************)
(* As in the other driver; here the hurl file is one more key a test must  *)
(* have, and the only thing it is checked for.                             *)
(***************************************************************************)
Prepare ==
  /\ pc = "prepare"
  /\ \/ pc' = "launch" /\ UNCHANGED outcome
     \/ pc' = "over" /\ outcome' \in {"resource-error", "raw"}
  /\ UNCHANGED <<container, hurl, stdout, stderr, seen, response>>

(* The except clause: whatever was raised, COMMAND_FAILED and ASSERTION_FAILED
   included, goes on as UNKNOWN_ERROR. *)
Mut_Fail == pc' = "logs" /\ outcome' = "assertion-failed"
Fail     == pc' = "logs" /\ outcome' = "unknown-error"

(* docker run; it is checked by its return code. *)
Launch ==
  /\ pc = "launch"
  /\ \/ container' \in {"up", "gone"} /\ pc' = "init" /\ UNCHANGED outcome
     \/ Fail /\ UNCHANGED container
  /\ UNCHANGED <<hurl, stdout, stderr, seen, response>>

(* docker exec curl, a second later: it can succeed only in a container. *)
Initialise ==
  /\ pc = "init"
  /\ \/ container = "up" /\ pc' = "hurl" /\ UNCHANGED outcome
     \/ Fail
  /\ UNCHANGED <<container, hurl, stdout, stderr, seen, response>>

(***************************************************************************)
(* docker port, whose output may be empty, and hurl.  The return code of   *)
(* hurl is not looked at: an "error: Assert" among its messages raises,    *)
(* and any other failure passes for a success.                             *)
(***************************************************************************)
Mut_RunHurl ==
  /\ pc = "hurl"
  /\ hurl' \in {"passed", "assert", "other"}
  /\ pc' = "logs" /\ UNCHANGED outcome
  /\ UNCHANGED <<container, stdout, stderr, seen, response>>
RunHurl ==
  /\ pc = "hurl"
  /\ \/ /\ hurl' \in IF container = "up" THEN {"passed", "other"} ELSE {"other"}
        /\ pc' = "logs" /\ UNCHANGED outcome
     \/ hurl' \in {"assert", "other"} /\ Fail
  /\ UNCHANGED <<container, stdout, stderr, seen, response>>

(* _convert_json_lines_to_array: a line that is no document is passed over. *)
Mut_Convert(lines) ==
  LET array[i \in 0 .. Len(lines)] ==
        IF i = 0 THEN <<>>
        ELSE IF lines[i] \in Documents /\ Len(array[i - 1]) = i - 1 THEN Append(array[i - 1], lines[i])
        ELSE array[i - 1]
  IN  [isList |-> TRUE, items |-> array[Len(lines)]]
Convert(lines) ==
  LET array[i \in 0 .. Len(lines)] ==
        IF i = 0 THEN <<>>
        ELSE IF lines[i] \in Documents THEN Append(array[i - 1], lines[i])
        ELSE array[i - 1]
  IN  [isList |-> TRUE, items |-> array[Len(lines)]]

(***************************************************************************)
(* _render_response.  The test for "errorType" finds a key of a dictionary *)
(* but an element of a list, and a list has no such index: it raises.      *)
(***************************************************************************)
Tagged(v) ==
  IF v.isList THEN \E i \in DOMAIN v.items : v.items[i] = "errorType"
              ELSE v.items = <<"error">>
Render(v) ==
  [class   |-> IF Tagged(v) /\ ~ v.isList THEN "ErrorResponse" ELSE "Response",
   content |-> IF Tagged(v) /\ v.isList THEN "unknown" ELSE "json",
   data    |-> v.items]

(***************************************************************************)
(* docker logs keeps the two streams apart, and shows nothing of a         *)
(* container that is gone.  Both are decoded, only stdout is used.         *)
(***************************************************************************)
Logs == IF container = "up" THEN stdout ELSE <<>>

HasBytes(lines) == \E i \in DOMAIN lines : lines[i] = "bytes"
Undecodable == container = "up" /\ (HasBytes(stdout) \/ HasBytes(stderr))

(***************************************************************************)
(* The finally clause.  container_id is unbound when docker run failed,    *)
(* and logs that are no text raise in subprocess.run: either exception     *)
(* replaces the one on its way and leaves before docker kill.              *)
(***************************************************************************)
Mut_ReadLogs ==
  /\ pc = "logs"
  /\ IF container = "none" THEN pc' = "over" /\ UNCHANGED <<outcome, seen, response>>
     ELSE IF Undecodable
       THEN outcome' = "raw" /\ pc' = "over" /\ UNCHANGED <<seen, response>>
       ELSE /\ pc' = "kill" /\ seen' = Len(Logs)
            /\ response' = IF outcome = "pending" THEN Render(Convert(Logs)) ELSE response
            /\ UNCHANGED outcome
  /\ UNCHANGED <<container, hurl, stdout, stderr>>
ReadLogs ==
  /\ pc = "logs"
  /\ IF container = "none" \/ Undecodable
       THEN outcome' = "raw" /\ pc' = "over" /\ UNCHANGED <<seen, response>>
       ELSE /\ pc' = "kill" /\ seen' = Len(Logs)
            /\ response' = IF outcome = "pending" THEN Render(Convert(Logs)) ELSE response
            /\ UNCHANGED outcome
  /\ UNCHANGED <<container, hurl, stdout, stderr>>

Mut_Kill ==
  /\ pc = "kill"
  /\ UNCHANGED container
  /\ outcome' = IF outcome = "pending" THEN "response" ELSE outcome
  /\ pc' = "over"
  /\ UNCHANGED <<hurl, stdout, stderr, seen, response>>
Kill ==
  /\ pc = "kill"
  /\ container' = "gone"
  /\ outcome' = IF outcome = "pending" THEN "response" ELSE outcome
  /\ pc' = "over"
  /\ UNCHANGED <<hurl, stdout, stderr, seen, response>>

Prints ==
  /\ container = "up" /\ Len(stdout) + Len(stderr) < MaxLines
  /\ \E line \in Lines :
       \/ stdout' = Append(stdout, line) /\ UNCHANGED stderr
       \/ stderr' = Append(stderr, line) /\ UNCHANGED stdout
  /\ UNCHANGED <<pc, outcome, container, hurl, seen, response>>

ContainerExits ==
  /\ container = "up"
  /\ container' = "gone"
  /\ UNCHANGED <<pc, outcome, hurl, stdout, stderr, seen, response>>

Next ==
  \/ Prepare \/ Launch \/ Initialise \/ RunHurl \/ ReadLogs \/ Kill
  \/ Prints \/ ContainerExits

Spec == Init /\ [][Next]_vars

-------------------------------------------------------------------------------
(* Properties. *)

(* What _render_response makes. *)
Responses ==
  [class : {"Response", "ErrorResponse"}, content : {"json", "unknown"},
   data : Seq(Documents)]

(* Every variable has its type; in particular no failure leaves _capture as
   assertion-failed or command-failed, whatever was raised in it. *)
TypeOK ==
  /\ pc \in {"prepare", "launch", "init", "hurl", "logs", "kill", "over"}
  /\ outcome \in {"pending", "response", "resource-error", "unknown-error", "raw"}
  /\ container \in {"none", "up", "gone"}
  /\ hurl \in {"none", "passed", "assert", "other"}
  /\ stdout \in Seq(Lines) /\ stderr \in Seq(Lines)
  /\ Len(stdout) + Len(stderr) <= MaxLines
  /\ seen \in 0 .. Len(stdout)
  /\ response \in Responses \cup {NoResponse}

(***************************************************************************)
(* When an exception escapes that run_suite does not catch, the test was   *)
(* incomplete, its container never started or its logs are no text; and a  *)
(* container that does not start is never reported as a failed test.       *)
(***************************************************************************)
RawExplained ==
  pc = "over" =>
    /\ outcome = "raw" =>
         container = "none" \/ HasBytes(stdout) \/ HasBytes(stderr)
    /\ outcome = "unknown-error" => container # "none"

(* A container outlives the call only if its logs cannot be decoded. *)
ReleasedOrUndecodable ==
  pc = "over" /\ container = "up" =>
    outcome = "raw" /\ (HasBytes(stdout) \/ HasBytes(stderr))

(***************************************************************************)
(* A response means that hurl was run and reported no assertion to fail,   *)
(* and is never an ErrorResponse, even if all that was logged is an error: *)
(* no assertion on "error" or "errorType" can pass with this driver.       *)
(***************************************************************************)
ResponseEarned ==
  outcome = "response" =>
    hurl \in {"passed", "other"} /\ response.class = "Response"

(***************************************************************************)
(* The data of a response are the documents among the lines that the logs  *)
(* showed of stdout, all of them and in their order, whatever lies between *)
(* them, and nothing else: a document logged on stderr is lost.            *)
(***************************************************************************)
DocumentsUpTo(n) == Cardinality({i \in 1 .. n : stdout[i] \in Documents})
AllDocumentsKept ==
  outcome = "response" =>
    /\ Len(response.data) = DocumentsUpTo(seen)
    /\ \A i \in 1 .. seen :
         stdout[i] \in Documents => response.data[DocumentsUpTo(i)] = stdout[i]

(***************************************************************************)
(* _capture keeps what a driver promises run_suite.  A verdict is given    *)
(* when the call ends.                                                     *)
(***************************************************************************)
Verdict ==
  IF pc # "over" THEN "pending"
  ELSE IF outcome \in {"response", "raw"} THEN outcome ELSE "failed"
Contract == INSTANCE DriverContract WITH verdict <- Verdict
ImplementsContract == Contract!Spec
===============================================================================
