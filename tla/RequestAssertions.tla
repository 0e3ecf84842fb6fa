--------------------------- MODULE RequestAssertions ---------------------------
(***************************************************************************)
(* Request.create (models.py) and _evaluate_request_response (docker.py):  *)
(* what a scenario author gives as the assertions of a request is made a   *)
(* list, and the answer is judged by it.  The judging is the loop of       *)
(* AssertionEvaluator; with an empty list it is not even entered, which    *)
(* comes to the same.                                                      *)
(*                                                                         *)
(* What is given is a record: its kind ("none", "dict", "list" or "other", *)
(* a tuple for one) with the list, or the dictionary's keys in their       *)
(* order, the values it gives them and its jq program under "transform".   *)
(***************************************************************************)
EXTENDS AssertionEvaluator

CONSTANT Givens  \* what may be given

VARIABLE given   \* the argument of create

(* The dictionary {k: v}.  Without a block, "transform" is no assertion. *)
Single(g, k) ==
  [keys      |-> {k} \ {"transform"},
   want      |-> [x \in {k} \ {"transform"} |-> g.want[x]],
   transform |-> IF k = "transform" THEN g.transform ELSE [v \in Values |-> v]]

Mut_Create(g) ==
  LET entries == SelectSeq(g.items, LAMBDA k : k # "transform") IN
  CASE g.kind = "dict" -> [i \in DOMAIN entries |-> Single(g, entries[i])]
    [] g.kind = "list" -> g.list
    [] OTHER -> <<>>
Create(g) ==
  CASE g.kind = "dict" -> [i \in DOMAIN g.items |-> Single(g, g.items[i])]
    [] g.kind = "list" -> g.list
    [] OTHER -> <<>>

ASSUME CreateAssumption ==
  \A g \in Givens :
    /\ g.kind \in {"none", "dict", "list", "other"}
    /\ g.kind = "list" => g.list \in Lists
    /\ g.kind = "dict" =>
         /\ Len(g.items) \in 0 .. MaxLength /\ DOMAIN g.items = 1 .. Len(g.items)
         /\ \A i \in DOMAIN g.items : Single(g, g.items[i]) \in Assertions

RequestInit ==
  /\ given \in Givens
  /\ assertions = Create(given)
  /\ Init
RequestNext == Next /\ UNCHANGED given

RequestSpec == RequestInit /\ [][RequestNext]_<<vars, given>>

-------------------------------------------------------------------------------
(* Properties. *)

(* What the entry k: v of a dictionary says of the response, by itself. *)
KeyHolds(g, k) ==
  /\ k \in ASSERTION_KEYS
  /\ g.want[k] # Invalid
  /\ response.class \in
       (CASE k \in {"response", "responseContentType"} -> {"Response"}
          [] k \in {"error", "errorType"} -> {"ErrorResponse"}
          [] OTHER -> {"Response", "ErrorResponse"})
  /\ Part(response, k) = g.want[k]

(***************************************************************************)
(* What a request passes by.  With a dictionary, exactly when every entry  *)
(* holds by itself, in whatever order they are written; with a list, when  *)
(* every assertion does; with nothing, or with what is neither, always.    *)
(***************************************************************************)
PassesAsWritten ==
  outcome # "pending" =>
    (outcome = "passed" <=>
       CASE given.kind = "dict" ->
              \A i \in DOMAIN given.items : KeyHolds(given, given.items[i])
         [] given.kind = "list" -> \A i \in DOMAIN given.list : Holds(given.list[i])
         [] OTHER -> TRUE)

(***************************************************************************)
(* Some assertions that can be written are met by no answer at all: a      *)
(* dictionary with a transform, which is cut off from the value it was     *)
(* for, and one about an error and the content type of a response.         *)
(***************************************************************************)
NeverPasses ==
  given.kind = "dict" =>
    LET keys == {given.items[i] : i \in DOMAIN given.items} IN
    "transform" \in keys \/ {"error", "responseContentType"} \subseteq keys =>
      outcome # "passed"

===============================================================================
