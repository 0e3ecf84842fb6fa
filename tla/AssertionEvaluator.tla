-------------------------- MODULE AssertionEvaluator --------------------------
(***************************************************************************)
(* AssertionEvaluator.test (tester.py) and DockerDriver._render_response   *)
(* (docker.py): a response is judged by a list of assertions.  A failed    *)
(* comparison is remembered and the loop goes on; every other failure      *)
(* leaves the loop at once.  The value an assertion asks for and the one   *)
(* it is compared with are locals of the method that outlive an iteration. *)
(*                                                                         *)
(* An assertion is a record of                                             *)
(*   keys       the keys it has, known or not,                             *)
(*   want       the value given for each key, or Invalid for a resource    *)
(*              that could not be loaded,                                  *)
(*   transform  the jq program, a function on the values it has a result   *)
(*              for (the identity on Values when there is none).           *)
(***************************************************************************)
EXTENDS Naturals, Sequences, FiniteSets

CONSTANTS
  Assertions,  \* the assertions a test may have
  MaxLength,   \* bound: the length of a test's list of assertions
  Bodies,      \* what the function may answer, see Render
  Strict       \* strict_syntax

Invalid == "invalid"

(* The types of ExecutionTestFailed that test() raises before it compares. *)
FailureTypes ==
  {"missing-assertion-component", "wrong-assertion-syntax", "resource-error",
   "response-type-mismatch", "transform-failed"}

(* The keys that count for the syntax check, and the blocks of the loop. *)
ASSERTION_KEYS ==
  {"response", "error", "responseContentType", "contentType", "errorType",
   "tail-logs", "logs", "metrics", "init_metrics", "invoke_metrics"}
Mut_BlockOrder ==
  <<"response", "error", "contentType", "responseContentType", "errorType",
    "metrics", "init_metrics", "invoke_metrics">>
BlockOrder ==
  <<"response", "error", "contentType", "responseContentType", "errorType",
    "tail-logs", "logs", "metrics", "init_metrics", "invoke_metrics">>

(***************************************************************************)
(* The bodies the code tells apart: a JSON object with or without an       *)
(* "errorType", a JSON list or string, one in which "errorType" occurs     *)
(* (indexing it raises), null, a JSON number or boolean (the test for      *)
(* membership raises), and bytes that are no JSON document.                *)
(***************************************************************************)
BodyKinds == {"object", "error", "text", "tagged", "null", "scalar", "bytes"}

(* __str__ slices what is no object: a number or a boolean raises TypeError. *)
Printable(b) == b # "scalar"

(* _render_response. *)
Render(b) ==
  [class     |-> IF b = "error" THEN "ErrorResponse" ELSE "Response",
   data      |-> b,
   content   |-> IF b \in {"object", "error", "text"} THEN "json" ELSE "unknown",
   printable |-> Printable(b)]

(* The part of the response that a key is about. *)
Part(r, k) ==
  CASE k \in {"response", "error"} -> r.data
    [] k \in {"contentType", "responseContentType"} -> r.content
    [] k = "errorType" -> "type"
    [] k \in {"tail-logs", "logs"} -> "null"
    [] OTHER -> "empty"

Values == BodyKinds \cup {"json", "unknown", "type", "empty"}

ASSUME EvaluatorAssumption ==
  /\ MaxLength \in Nat
  /\ Bodies \subseteq BodyKinds
  /\ Strict \in BOOLEAN
  /\ \A a \in Assertions :
       /\ IsFiniteSet(a.keys)
       /\ a.want \in [a.keys -> Values \cup {Invalid}]
       /\ DOMAIN a.transform \subseteq Values
       /\ \A v \in DOMAIN a.transform : a.transform[v] \in Values

VARIABLES
  assertions,  \* the list the evaluator was made with
  response,    \* the response under test
  next,        \* index of the next assertion of the loop
  toThrow,     \* to_throw: "none" or the failure of the first comparison that failed
  check,       \* check_value, a local that survives an iteration
  actual,      \* assert_value, likewise
  outcome      \* "pending", "passed", a type of ExecutionTestFailed, or "raw"

vars == <<assertions, response, next, toThrow, check, actual, outcome>>

Lists == UNION {[1 .. n -> Assertions] : n \in 0 .. MaxLength}

Init ==
  /\ assertions \in Lists
  /\ response \in {Render(b) : b \in Bodies}
  /\ next = 1 /\ toThrow = "none" /\ outcome = "pending"
  /\ check = "unbound" /\ actual = "unbound"

-------------------------------------------------------------------------------
(* _verify_assertion_syntax. *)
SyntaxError(a) ==
  IF a.keys \cap ASSERTION_KEYS = {} THEN "missing-assertion-component"
  ELSE IF Strict /\ Cardinality(a.keys \cap ASSERTION_KEYS) > 1
    THEN "wrong-assertion-syntax"
    ELSE "none"

(* The class that _as_type demands of the response, if the block calls it. *)
Demanded(a, k) ==
  CASE k = "response" -> {"Response"}
    [] k \in {"error", "errorType"} -> {"ErrorResponse"}
    [] k = "responseContentType" ->
         IF "error" \in a.keys THEN {"ErrorResponse"} ELSE {"Response"}
    [] OTHER -> {"Response", "ErrorResponse"}

(* _as_resource and _as_type in the block of one key. *)
BlockError(a, k) ==
  IF a.want[k] = Invalid THEN "resource-error"
  ELSE IF response.class \notin Demanded(a, k)
    THEN IF response.printable THEN "response-type-mismatch" ELSE "raw"
    ELSE "none"

(* The blocks that are entered; the first error counts, the last assignment. *)
Present(a) == {i \in DOMAIN BlockOrder : BlockOrder[i] \in a.keys}
FirstError(a) ==
  LET bad == {i \in Present(a) : BlockError(a, BlockOrder[i]) # "none"} IN
  IF bad = {} THEN "none"
  ELSE BlockError(a, BlockOrder[CHOOSE i \in bad : \A j \in bad : i <= j])
LastBlock(a) == BlockOrder[CHOOSE i \in Present(a) : \A j \in Present(a) : j <= i]

(* check_value and assert_value when the blocks are behind. *)
Wanted(a) == IF Present(a) = {} THEN check ELSE a.want[LastBlock(a)]
Found(a)  == IF Present(a) = {} THEN actual ELSE Part(response, LastBlock(a))

(* _transform applies the jq program; no result at all is a failure. *)
TransformError(a) == IF Found(a) \in DOMAIN a.transform THEN "none" ELSE "transform-failed"

(* The failures that end the loop, in the order the code meets them. *)
Immediate(a) ==
  IF SyntaxError(a) # "none" THEN SyntaxError(a)
  ELSE IF FirstError(a) # "none" THEN FirstError(a)
  ELSE TransformError(a)

Raise ==
  /\ outcome = "pending" /\ next <= Len(assertions)
  /\ Immediate(assertions[next]) # "none"
  /\ outcome' = Immediate(assertions[next])
  /\ UNCHANGED <<assertions, response, next, toThrow, check, actual>>

(* to_throw = to_throw or e *)
Remember(old, differs) ==
  IF old # "none" THEN old ELSE IF differs THEN "assertion-failed" ELSE "none"

(* One iteration that gets as far as _compare_values. *)
Compare ==
  /\ outcome = "pending" /\ next <= Len(assertions)
  /\ LET a == assertions[next] IN
       /\ Immediate(a) = "none"
       /\ check' = Wanted(a)
       /\ actual' = a.transform[Found(a)]
       /\ toThrow' = Remember(toThrow, actual' # check')
  /\ next' = next + 1
  /\ UNCHANGED <<assertions, response, outcome>>

(* After the loop: the response is logged before to_throw is raised. *)
Mut_Finish ==
  /\ outcome = "pending" /\ next > Len(assertions)
  /\ outcome' = IF toThrow = "none" THEN "passed" ELSE "raw"
  /\ UNCHANGED <<assertions, response, next, toThrow, check, actual>>
Mut_FinishUnguarded ==
  /\ outcome = "pending" /\ next > Len(assertions)
  /\ outcome' = toThrow
  /\ UNCHANGED <<assertions, response, next, toThrow, check, actual>>
Finish ==
  /\ outcome = "pending" /\ next > Len(assertions)
  /\ outcome' = IF toThrow = "none" THEN "passed"
                ELSE IF response.printable THEN toThrow ELSE "raw"
  /\ UNCHANGED <<assertions, response, next, toThrow, check, actual>>

Next == Raise \/ Compare \/ Finish

Spec == Init /\ [][Next]_vars

-------------------------------------------------------------------------------
(* Properties. *)

(***************************************************************************)
(* Every variable has its type.  The outcome is one the caller can meet,   *)
(* and what is compared with a response is never a resource that could not *)
(* be loaded: _as_resource raises before the value gets that far.          *)
(***************************************************************************)
TypeOK ==
  /\ assertions \in Lists
  /\ response \in {Render(b) : b \in Bodies}
  /\ next \in 1 .. (Len(assertions) + 1)
  /\ toThrow \in {"none", "assertion-failed"}
  /\ check \in Values \cup {"unbound"}
  /\ actual \in Values \cup {"unbound"}
  /\ outcome \in {"pending", "passed", "assertion-failed", "raw"} \cup FailureTypes

(***************************************************************************)
(* What an assertion says of a response, without blocks, order or locals:  *)
(* it names exactly one part of the response, the response is of the kind  *)
(* that has that part, and the part, transformed, is the value given.      *)
(***************************************************************************)
Holds(a) ==
  \E k \in ASSERTION_KEYS :
    /\ a.keys \cap ASSERTION_KEYS = {k}
    /\ a.want[k] # Invalid
    /\ response.class \in Demanded(a, k)
    /\ Part(response, k) \in DOMAIN a.transform
    /\ a.transform[Part(response, k)] = a.want[k]

(***************************************************************************)
(* A response passes exactly when every assertion of the list holds of it: *)
(* no assertion is skipped, none is judged by a value that an earlier one  *)
(* left in a local, and a later success does not cancel an earlier         *)
(* failure.                                                                *)
(***************************************************************************)
PassesIffAllHold ==
  Strict /\ outcome # "pending" =>
    (outcome = "passed" <=> \A i \in DOMAIN assertions : Holds(assertions[i]))

(***************************************************************************)
(* What test() raises: the first failure that ends the loop when there is  *)
(* one, even if an earlier comparison failed; else assertion-failed when   *)
(* any comparison failed, in a form the caller does not expect (TypeError) *)
(* when the response cannot be printed.  raw has no other cause.           *)
(***************************************************************************)
FailureIsTyped ==
  /\ outcome = "raw" => ~response.printable
  /\ outcome = "assertion-failed" =>
       /\ \A i \in DOMAIN assertions : Immediate(assertions[i]) = "none"
       /\ \E i \in DOMAIN assertions : ~Strict \/ ~Holds(assertions[i])
  /\ outcome \in FailureTypes =>
       \E i \in DOMAIN assertions :
         /\ Immediate(assertions[i]) = outcome
         /\ \A j \in 1 .. (i - 1) : Immediate(assertions[j]) = "none"
===============================================================================
