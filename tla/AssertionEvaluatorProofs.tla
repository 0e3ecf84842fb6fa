------------------------ MODULE AssertionEvaluatorProofs ------------------------
(***************************************************************************)
(* Theorems about AssertionEvaluator under the strict syntax, the only one *)
(* the drivers of this repository use, and what they mean for the          *)
(* dictionaries that scenario authors write (RequestAssertions).           *)
(***************************************************************************)
EXTENDS RequestAssertions, FiniteSetTheorems, TLAPS

(* Every key of the syntax check has a block, and only one. *)
LEMMA BlockOfKey ==
  ASSUME NEW k \in ASSERTION_KEYS
  PROVE  \E i \in 1 .. 10 :
           /\ i \in DOMAIN BlockOrder /\ BlockOrder[i] = k
           /\ \A j \in DOMAIN BlockOrder : BlockOrder[j] = k => j = i
BY DEF ASSERTION_KEYS, BlockOrder

(* Conversely, every block is for a key that the syntax check knows. *)
LEMMA BlocksAreKeys ==
  DOMAIN BlockOrder = 1 .. 10 /\ \A i \in 1 .. 10 : BlockOrder[i] \in ASSERTION_KEYS
BY DEF ASSERTION_KEYS, BlockOrder

(* Under the strict syntax an assertion without syntax error has one key. *)
LEMMA OneKey ==
  ASSUME Strict, NEW a \in Assertions, SyntaxError(a) = "none"
  PROVE  \E k \in ASSERTION_KEYS : a.keys \cap ASSERTION_KEYS = {k}
<1> DEFINE K == a.keys \cap ASSERTION_KEYS
<1>1. IsFiniteSet(K)
  BY EvaluatorAssumption, FS_Intersection
<1>2. K # {} /\ ~(Cardinality(K) > 1)
  BY DEF SyntaxError
<1>3. Cardinality(K) \in Nat /\ Cardinality(K) # 0
  BY <1>1, <1>2, FS_CardinalityType, FS_EmptySet
<1>4. Cardinality(K) = 1
  BY <1>2, <1>3
<1>5. \E k : K = {k}
  BY <1>1, <1>4, FS_Singleton
<1> QED
  BY <1>5

(* With one key, its block alone is entered and assigns the locals. *)
LEMMA OneBlock ==
  ASSUME NEW a, NEW k \in ASSERTION_KEYS, a.keys \cap ASSERTION_KEYS = {k}
  PROVE  /\ Wanted(a) = a.want[k] /\ Found(a) = Part(response, k)
         /\ FirstError(a) = BlockError(a, k)
<1>1. PICK i \in 1 .. 10 :
        /\ i \in DOMAIN BlockOrder /\ BlockOrder[i] = k
        /\ \A j \in DOMAIN BlockOrder : BlockOrder[j] = k => j = i
  BY BlockOfKey
<1>2. Present(a) = {i}
  BY <1>1, BlocksAreKeys DEF Present
<1>3. LastBlock(a) = k
  BY <1>1, <1>2 DEF LastBlock
<1>4. Wanted(a) = a.want[k] /\ Found(a) = Part(response, k)
  BY <1>2, <1>3 DEF Wanted, Found
<1>5. FirstError(a) = BlockError(a, k)
  <2> DEFINE bad == {j \in Present(a) : BlockError(a, BlockOrder[j]) # "none"}
  <2>1. CASE BlockError(a, k) = "none"
    <3>1. bad = {}
      BY <1>1, <1>2, <2>1
    <3> QED
      BY <2>1, <3>1 DEF FirstError
  <2>2. CASE BlockError(a, k) # "none"
    <3>1. bad = {i}
      BY <1>1, <1>2, <2>2
    <3>2. (CHOOSE j \in bad : \A l \in bad : j <= l) = i
      BY <3>1
    <3> QED
      BY <1>1, <3>1, <3>2 DEF FirstError
  <2> QED
    BY <2>1, <2>2
<1> QED
  BY <1>4, <1>5

(***************************************************************************)
(* One iteration decides what the assertion says: it gets to the           *)
(* comparison and finds equal values exactly when the assertion holds.     *)
(***************************************************************************)
LEMMA IterationDecides ==
  ASSUME Strict, NEW a \in Assertions
  PROVE  Holds(a) <=> Immediate(a) = "none" /\ a.transform[Found(a)] = Wanted(a)
<1>1. CASE SyntaxError(a) = "none"
  <2>1. PICK k \in ASSERTION_KEYS : a.keys \cap ASSERTION_KEYS = {k}
    BY <1>1, OneKey
  <2>2. /\ Wanted(a) = a.want[k] /\ Found(a) = Part(response, k)
        /\ FirstError(a) = BlockError(a, k)
    BY <2>1, OneBlock
  <2>3. Holds(a) <=> /\ a.want[k] # Invalid
                     /\ response.class \in Demanded(a, k)
                     /\ Part(response, k) \in DOMAIN a.transform
                     /\ a.transform[Part(response, k)] = a.want[k]
    BY <2>1 DEF Holds
  <2>4. BlockError(a, k) = "none" <=>
          a.want[k] # Invalid /\ response.class \in Demanded(a, k)
    BY DEF BlockError
  <2> QED
    BY <1>1, <2>2, <2>3, <2>4 DEF Immediate, TransformError
<1>2. CASE SyntaxError(a) # "none"
  <2>1. Immediate(a) # "none"
    BY <1>2 DEF Immediate
  <2>2. ASSUME NEW k \in ASSERTION_KEYS, a.keys \cap ASSERTION_KEYS = {k}
        PROVE  FALSE
    <3>1. Cardinality({k}) = 1
      BY FS_Singleton
    <3> QED
      BY <1>2, <2>2, <3>1 DEF SyntaxError
  <2> QED
    BY <2>1, <2>2 DEF Holds
<1> QED
  BY <1>1, <1>2

(* What the loop has established before iteration next, and after its end. *)
LoopInv ==
  /\ assertions \in Lists /\ next \in Nat \ {0}
  /\ toThrow \in {"none", "assertion-failed"}
  /\ outcome = "pending" =>
       /\ next <= Len(assertions) + 1
       /\ toThrow = "none" <=> \A i \in 1 .. (next - 1) : Holds(assertions[i])
  /\ outcome = "passed" => \A i \in DOMAIN assertions : Holds(assertions[i])
  /\ outcome \notin {"pending", "passed"} =>
       \E i \in DOMAIN assertions : ~Holds(assertions[i])

(* The elements of a list of assertions are assertions. *)
LEMMA ListType ==
  ASSUME NEW l \in Lists
  PROVE  Len(l) \in Nat /\ DOMAIN l = 1 .. Len(l)
         /\ \A i \in DOMAIN l : l[i] \in Assertions
<1>1. PICK n \in 0 .. MaxLength : l \in [1 .. n -> Assertions]
  BY DEF Lists
<1>2. n \in Nat
  BY EvaluatorAssumption
<1> QED
  BY <1>1, <1>2

(* Every iteration, and the end of the loop, keeps the loop invariant. *)
LEMMA NextInv ==
  ASSUME Strict, LoopInv, [Next]_vars
  PROVE  LoopInv'
<1> USE DEF LoopInv
<1>0. /\ Len(assertions) \in Nat /\ DOMAIN assertions = 1 .. Len(assertions)
      /\ \A i \in DOMAIN assertions : assertions[i] \in Assertions
  BY ListType
<1>1. CASE Raise
  <2>1. ~Holds(assertions[next])
    BY <1>1, <1>0, IterationDecides DEF Raise
  <2>2. \A i \in DOMAIN assertions : Holds(assertions[i])' <=> Holds(assertions[i])
    BY <1>1 DEF Raise, Holds
  <2>3. outcome' \notin {"pending", "passed"}
    BY <1>1 DEF Raise, Immediate, SyntaxError, FirstError, BlockError, TransformError
  <2> QED
    BY <1>1, <1>0, <2>1, <2>2, <2>3 DEF Raise
<1>2. CASE Compare
  <2>1. \A i \in DOMAIN assertions : Holds(assertions[i])' <=> Holds(assertions[i])
    BY <1>2 DEF Compare, Holds
  <2>2. Holds(assertions[next]) <=> actual' = check'
    BY <1>2, <1>0, IterationDecides DEF Compare
  <2>3. /\ toThrow' = "none" <=> toThrow = "none" /\ Holds(assertions[next])
        /\ toThrow' \in {"none", "assertion-failed"}
    BY <1>2, <2>2 DEF Compare, Remember
  <2> QED
    BY <1>2, <1>0, <2>1, <2>3 DEF Compare
<1>3. CASE Finish
  <2>1. \A i \in DOMAIN assertions : Holds(assertions[i])' <=> Holds(assertions[i])
    BY <1>3 DEF Finish, Holds
  <2>2. toThrow = "none" <=> \A i \in DOMAIN assertions : Holds(assertions[i])
    BY <1>3, <1>0 DEF Finish
  <2> QED
    BY <1>3, <1>0, <2>1, <2>2 DEF Finish
<1>4. CASE UNCHANGED vars
  BY <1>4 DEF vars, Holds
<1> QED
  BY <1>1, <1>2, <1>3, <1>4 DEF Next

(***************************************************************************)
(* AssertionEvaluator.test lets a response pass exactly when every         *)
(* assertion holds of it, for every set of assertions, whatever the jq     *)
(* programs compute and however long the list is.                          *)
(***************************************************************************)
THEOREM EvaluatorCorrect == Spec => []PassesIffAllHold
<1>1. CASE Strict
  <2>1. Init => LoopInv
    BY ListType DEF Init, LoopInv
  <2>2. LoopInv /\ [Next]_vars => LoopInv'
    BY <1>1, NextInv
  <2>3. LoopInv => PassesIffAllHold
    BY DEF LoopInv, PassesIffAllHold
  <2> QED
    BY <2>1, <2>2, <2>3, PTL DEF Spec
<1>2. CASE ~Strict
  <2>1. PassesIffAllHold
    BY <1>2 DEF PassesIffAllHold
  <2> QED
    BY <2>1, PTL
<1> QED
  BY <1>1, <1>2

-------------------------------------------------------------------------------
(* What test() raises, whether the syntax is strict or not. *)

(* Past the syntax check some block has assigned the locals anew. *)
LEMMA SomeBlock ==
  ASSUME NEW a \in Assertions, SyntaxError(a) = "none"
  PROVE  Found(a) = Part(response, LastBlock(a))
<1>1. PICK k \in ASSERTION_KEYS : k \in a.keys
  BY DEF SyntaxError
<1>2. Present(a) # {}
  BY <1>1, BlockOfKey DEF Present
<1> QED
  BY <1>2 DEF Found

(* So whether an iteration fails depends on the assertion and the response. *)
LEMMA ImmediateStable ==
  ASSUME NEW a \in Assertions, response' = response
  PROVE  Immediate(a)' = Immediate(a)
<1>1. SyntaxError(a)' = SyntaxError(a)
  BY DEF SyntaxError
<1>2. FirstError(a)' = FirstError(a)
  BY DEF FirstError, Present, BlockError, Demanded
<1>3. CASE SyntaxError(a) # "none"
  BY <1>1, <1>3 DEF Immediate
<1>4. CASE SyntaxError(a) = "none"
  <2>1. Found(a) = Part(response, LastBlock(a))
    BY <1>4, SomeBlock
  <2>2. Present(a) # {}
    <3>1. PICK k \in ASSERTION_KEYS : k \in a.keys
      BY <1>4 DEF SyntaxError
    <3> QED
      BY <3>1, BlockOfKey DEF Present
  <2>3. Found(a)' = Part(response, LastBlock(a))
    BY <2>2 DEF Found, Present, LastBlock
  <2> QED
    BY <1>1, <1>2, <2>1, <2>3 DEF Immediate, TransformError
<1> QED
  BY <1>3, <1>4

(* The failures of an iteration, and the one that is no test failure. *)
LEMMA ImmediateType ==
  ASSUME NEW a
  PROVE  /\ Immediate(a) \in {"none", "raw"} \cup FailureTypes
         /\ Immediate(a) = "raw" => ~response.printable
<1>1. FirstError(a) \in {"none", "raw", "resource-error", "response-type-mismatch"}
  BY DEF FirstError, BlockError
<1>2. FirstError(a) = "raw" => ~response.printable
  <2> DEFINE bad == {i \in Present(a) : BlockError(a, BlockOrder[i]) # "none"}
             first == BlockOrder[CHOOSE i \in bad : \A j \in bad : i <= j]
  <2>1. FirstError(a) = "raw" => BlockError(a, first) = "raw"
    BY DEF FirstError
  <2> HIDE DEF first
  <2> QED
    BY <2>1 DEF BlockError
<1>3. /\ SyntaxError(a) \in {"none", "missing-assertion-component", "wrong-assertion-syntax"}
      /\ TransformError(a) \in {"none", "transform-failed"}
  BY DEF SyntaxError, TransformError
<1> QED
  BY <1>1, <1>2, <1>3 DEF Immediate, FailureTypes

(* A set of blocks that is not empty has a first and a last one. *)
LEMMA FirstAndLast ==
  ASSUME NEW S, S \subseteq 1 .. 10, S # {}
  PROVE  /\ \E i \in S : \A j \in S : i <= j
         /\ \E i \in S : \A j \in S : j <= i
<1> DEFINE Below(n) == \A i \in S : i > n
           Above(n) == \A i \in S : i < n
<1>1. Below(0) /\ ~Below(10) /\ Above(11) /\ ~Above(1)
  <2>1. \A i \in S : i \in Int /\ 1 <= i /\ i <= 10
    OBVIOUS
  <2>2. PICK i \in S : TRUE
    OBVIOUS
  <2>3. i \in Int /\ ~(i > 10) /\ ~(i < 1)
    BY <2>1
  <2>4. ~Below(10) /\ ~Above(1)
    BY <2>2, <2>3
  <2>5. Below(0) /\ Above(11)
    BY <2>1
  <2> QED
    BY <2>4, <2>5
<1>2. \E n \in 1 .. 10 : Below(n - 1) /\ ~Below(n)
  <2> HIDE DEF Below
  <2>1. SUFFICES ASSUME \A n \in 1 .. 10 : Below(n - 1) => Below(n) PROVE FALSE
    OBVIOUS
  <2>2. Below(1 - 1) /\ Below(2 - 1) => Below(2)
    BY <1>1, <2>1
  <2>3. Below(1) /\ Below(2) /\ Below(3)
    BY <1>1, <2>1, <2>2
  <2> QED
    BY <1>1, <2>1, <2>3
<1>3. \E n \in 1 .. 10 : Above(n + 1) /\ ~Above(n)
  <2> HIDE DEF Above
  <2> QED
    BY <1>1
<1> QED
  BY <1>2, <1>3

(***************************************************************************)
(* The locals have their types after an iteration that compares: the last  *)
(* block entered has a value, and it is a resource that was loaded.        *)
(***************************************************************************)
LEMMA LocalsTyped ==
  ASSUME NEW a \in Assertions, Immediate(a) = "none",
         check \in Values \cup {"unbound"}
  PROVE  /\ Wanted(a) \in Values \cup {"unbound"}
         /\ a.transform[Found(a)] \in Values
<1>1. FirstError(a) = "none" /\ TransformError(a) = "none"
  BY DEF Immediate
<1>2. a.transform[Found(a)] \in Values
  BY <1>1, EvaluatorAssumption DEF TransformError
<1>3. ASSUME Present(a) # {}
      PROVE  a.want[LastBlock(a)] \in Values
  <2> DEFINE Bad(i) == BlockError(a, BlockOrder[i]) # "none"
             bad == {i \in Present(a) : Bad(i)}
             last == CHOOSE i \in Present(a) : \A j \in Present(a) : j <= i
  <2>1. Present(a) \subseteq 1 .. 10
    BY BlocksAreKeys DEF Present
  <2>2. last \in Present(a)
    BY <1>3, <2>1, FirstAndLast
  <2>3. bad = {}
    <3>1. SUFFICES ASSUME bad # {} PROVE FALSE
      OBVIOUS
    <3> DEFINE first == CHOOSE i \in bad : \A j \in bad : i <= j
    <3>2. bad \subseteq 1 .. 10
      BY <2>1
    <3>3. first \in bad
      <4> HIDE DEF bad
      <4> QED
        BY <3>1, <3>2, FirstAndLast
    <3>4. BlockError(a, BlockOrder[first]) # "none"
      BY <3>3
    <3>5. FirstError(a) = BlockError(a, BlockOrder[first])
      BY <3>1 DEF FirstError
    <3> QED
      BY <1>1, <3>4, <3>5
  <2>4. BlockError(a, BlockOrder[last]) = "none" /\ BlockOrder[last] \in a.keys
    <3>1. ~Bad(last)
      BY <2>2, <2>3
    <3> QED
      BY <2>2, <3>1 DEF Present
  <2>5. a.want[BlockOrder[last]] # Invalid
    BY <2>4 DEF BlockError
  <2>6. a.want[BlockOrder[last]] \in Values \cup {Invalid}
    BY <2>4, EvaluatorAssumption
  <2> QED
    BY <2>5, <2>6 DEF LastBlock
<1> QED
  BY <1>2, <1>3 DEF Wanted

(* No iteration behind the loop's index has failed at once. *)
FailureInv ==
  /\ TypeOK
  /\ outcome \in {"pending", "passed", "assertion-failed"} =>
       \A j \in 1 .. (next - 1) : Immediate(assertions[j]) = "none"
  /\ outcome = "assertion-failed" => next > Len(assertions)
  /\ toThrow # "none" \/ outcome = "assertion-failed" => next > 1
  /\ outcome = "raw" => ~response.printable
  /\ outcome \in FailureTypes =>
       \E i \in DOMAIN assertions :
         /\ Immediate(assertions[i]) = outcome
         /\ \A j \in 1 .. (i - 1) : Immediate(assertions[j]) = "none"

(* Every iteration, and the end of the loop, keeps it. *)
LEMMA FailureNext ==
  ASSUME FailureInv, [Next]_vars
  PROVE  FailureInv'
<1>0. /\ Len(assertions) \in Nat /\ DOMAIN assertions = 1 .. Len(assertions)
      /\ \A i \in DOMAIN assertions : assertions[i] \in Assertions
      /\ next \in 1 .. (Len(assertions) + 1)
  BY ListType DEF FailureInv, TypeOK
<1>1. response' = response /\ assertions' = assertions
  BY DEF Next, Raise, Compare, Finish, vars
<1>2. \A i \in DOMAIN assertions : Immediate(assertions[i])' = Immediate(assertions[i])
  BY <1>0, <1>1, ImmediateStable
<1>3. CASE Raise
  <2> DEFINE error == Immediate(assertions[next])
  <2>1. /\ outcome' = error /\ error # "none" /\ outcome = "pending"
        /\ next \in DOMAIN assertions /\ UNCHANGED <<next, toThrow, check, actual>>
    BY <1>0, <1>3 DEF Raise
  <2>2. error \in {"raw"} \cup FailureTypes /\ (error = "raw" => ~response.printable)
    BY <2>1, ImmediateType
  <2> HIDE DEF error
  <2>3. TypeOK'
    BY <1>0, <1>1, <2>1, <2>2 DEF FailureInv, TypeOK
  <2>4. \A j \in 1 .. (next - 1) : Immediate(assertions[j])' = "none"
    BY <1>0, <1>2, <2>1 DEF FailureInv
  <2>5. Immediate(assertions[next])' = outcome'
    BY <1>2, <2>1 DEF error
  <2> QED
    BY <1>0, <1>1, <2>1, <2>2, <2>3, <2>4, <2>5 DEF FailureInv, FailureTypes
<1>4. CASE Compare
  <2>1. /\ outcome = "pending" /\ outcome' = outcome /\ next' = next + 1
        /\ next \in DOMAIN assertions /\ Immediate(assertions[next]) = "none"
        /\ toThrow' \in {"none", "assertion-failed"}
        /\ check' = Wanted(assertions[next])
        /\ actual' = assertions[next].transform[Found(assertions[next])]
    BY <1>0, <1>4 DEF Compare, Remember, FailureInv, TypeOK
  <2>2. TypeOK'
    <3>1. assertions[next] \in Assertions /\ check \in Values \cup {"unbound"}
      BY <1>0, <2>1 DEF FailureInv, TypeOK
    <3>2. check' \in Values \cup {"unbound"} /\ actual' \in Values
      BY <2>1, <3>1, LocalsTyped
    <3> QED
      BY <1>0, <1>1, <2>1, <3>2 DEF FailureInv, TypeOK
  <2>3. \A j \in 1 .. (next' - 1) : Immediate(assertions[j])' = "none"
    BY <1>0, <1>2, <2>1 DEF FailureInv
  <2> QED
    BY <1>0, <1>1, <2>1, <2>2, <2>3 DEF FailureInv, FailureTypes
<1>5. CASE Finish
  <2>1. /\ outcome = "pending" /\ next > Len(assertions)
        /\ UNCHANGED <<next, toThrow, check, actual>>
        /\ outcome' \in {"passed", "assertion-failed", "raw"}
        /\ outcome' = "raw" => ~response.printable
    BY <1>5 DEF Finish, FailureInv, TypeOK
  <2>2. TypeOK'
    BY <1>0, <1>1, <2>1 DEF FailureInv, TypeOK
  <2>3. \A j \in 1 .. (next' - 1) : Immediate(assertions[j])' = "none"
    BY <1>0, <1>2, <2>1 DEF FailureInv
  <2>4. outcome' = "assertion-failed" => next' > 1
    BY <2>1, <1>5 DEF Finish, FailureInv
  <2>5. toThrow' # "none" => next' > 1
    BY <2>1 DEF FailureInv
  <2>6. outcome' \notin FailureTypes
    BY <2>1 DEF FailureTypes
  <2> QED
    BY <1>0, <1>1, <2>1, <2>2, <2>3, <2>4, <2>5, <2>6 DEF FailureInv
<1>6. CASE UNCHANGED vars
  <2>1. UNCHANGED <<outcome, next, toThrow, check, actual>>
    BY <1>6 DEF vars
  <2> QED
    BY <1>0, <1>1, <1>2, <2>1 DEF FailureInv, TypeOK
<1> QED
  BY <1>3, <1>4, <1>5, <1>6 DEF Next

(* The invariant holds throughout. *)
THEOREM FailureInvariance == Spec => []FailureInv
<1>1. Init => FailureInv
  <2> SUFFICES ASSUME Init PROVE FailureInv
    OBVIOUS
  <2>1. Len(assertions) \in Nat
    BY ListType DEF Init
  <2> QED
    BY <2>1 DEF Init, FailureInv, TypeOK, FailureTypes
<1> QED
  BY <1>1, FailureNext, PTL DEF Spec

(***************************************************************************)
(* Type correctness of the loop: the outcome of test() is one its caller   *)
(* can name, and the value compared with a response was loaded.            *)
(***************************************************************************)
THEOREM TypeCorrect == Spec => []TypeOK
<1>1. FailureInv => TypeOK
  BY DEF FailureInv
<1> QED
  BY <1>1, FailureInvariance, PTL

(***************************************************************************)
(* test() raises the first failure that ends the loop, a failed comparison *)
(* only when there is none, and something that is no test failure only     *)
(* when the response cannot be printed; for every list of assertions,      *)
(* strict syntax or not.                                                   *)
(***************************************************************************)
THEOREM FailureCorrect == Spec => []FailureIsTyped
<1>1. FailureInv /\ (Strict => LoopInv) => FailureIsTyped
  <2> SUFFICES ASSUME FailureInv, Strict => LoopInv
               PROVE  FailureIsTyped
    OBVIOUS
  <2>1. ASSUME outcome = "assertion-failed"
        PROVE  /\ \A i \in DOMAIN assertions : Immediate(assertions[i]) = "none"
               /\ \E i \in DOMAIN assertions : ~Strict \/ ~Holds(assertions[i])
    <3>1. /\ DOMAIN assertions = 1 .. Len(assertions) /\ Len(assertions) \in Nat
          /\ next = Len(assertions) + 1
      BY <2>1, ListType DEF FailureInv, TypeOK
    <3>2. \A i \in DOMAIN assertions : Immediate(assertions[i]) = "none"
      BY <2>1, <3>1 DEF FailureInv
    <3>3. CASE Strict
      BY <2>1, <3>2, <3>3 DEF LoopInv
    <3>4. CASE ~Strict
      <4>1. Len(assertions) # 0
        BY <2>1, <3>1 DEF FailureInv, TypeOK
      <4> QED
        BY <3>1, <3>2, <3>4, <4>1
    <3> QED
      BY <3>3, <3>4
  <2> QED
    BY <2>1 DEF FailureInv, FailureIsTyped
<1>2. CASE Strict
  <2>1. Init => LoopInv
    BY ListType DEF Init, LoopInv
  <2>2. LoopInv /\ [Next]_vars => LoopInv'
    BY <1>2, NextInv
  <2>3. FailureInv /\ LoopInv => FailureIsTyped
    BY <1>1
  <2> QED
    BY <2>1, <2>2, <2>3, FailureInvariance, PTL DEF Spec
<1>3. CASE ~Strict
  <2>1. FailureInv => FailureIsTyped
    BY <1>1, <1>3
  <2> QED
    BY <2>1, FailureInvariance, PTL
<1> QED
  BY <1>2, <1>3

-------------------------------------------------------------------------------
(* Requests (RequestAssertions). *)

(* The request, its list and its answer stay what they are. *)
Fixed ==
  /\ given \in Givens /\ assertions = Create(given)
  /\ response \in {Render(b) : b \in Bodies}

(* Judging a request is judging a list of assertions. *)
LEMMA RequestImplementsEvaluator == RequestSpec => Spec
<1>1. RequestInit => Init
  BY DEF RequestInit
<1>2. [RequestNext]_<<vars, given>> => [Next]_vars
  BY DEF RequestNext
<1> QED
  BY <1>1, <1>2, PTL DEF RequestSpec, Spec

(* Neither the request nor the answer changes while it is judged. *)
LEMMA FixedInv == RequestSpec => []Fixed
<1>1. RequestInit => Fixed
  BY DEF RequestInit, Init, Fixed
<1>2. Fixed /\ [RequestNext]_<<vars, given>> => Fixed'
  BY DEF Fixed, RequestNext, Next, Raise, Compare, Finish, vars
<1> QED
  BY <1>1, <1>2, PTL DEF RequestSpec

(* Every part of an answer is a value a jq program may be given. *)
LEMMA PartIsValue ==
  ASSUME Fixed, NEW k
  PROVE  Part(response, k) \in Values
<1>1. PICK b \in Bodies : response = Render(b)
  BY DEF Fixed
<1>2. response.data \in Values /\ response.content \in Values
  BY <1>1, EvaluatorAssumption DEF Render, Values
<1> QED
  BY <1>2 DEF Part, Values, BodyKinds

(* The assertion made of one entry says what the entry says. *)
LEMMA SingleHolds ==
  ASSUME Fixed, NEW g, NEW k
  PROVE  Holds(Single(g, k)) <=> KeyHolds(g, k)
<1> DEFINE a == Single(g, k)
<1>1. CASE k \in ASSERTION_KEYS
  <2>1. a.keys = {k} /\ a.want[k] = g.want[k] /\ a.transform = [v \in Values |-> v]
    BY <1>1 DEF Single, ASSERTION_KEYS
  <2>2. a.keys \cap ASSERTION_KEYS = {k}
    BY <1>1, <2>1
  <2>3. /\ Part(response, k) \in DOMAIN a.transform
        /\ a.transform[Part(response, k)] = Part(response, k)
    BY <2>1, PartIsValue
  <2>4. Demanded(a, k) =
          CASE k \in {"response", "responseContentType"} -> {"Response"}
            [] k \in {"error", "errorType"} -> {"ErrorResponse"}
            [] OTHER -> {"Response", "ErrorResponse"}
    <3> HIDE DEF a
    <3> QED
      BY <1>1, <2>1 DEF Demanded
  <2>5. Holds(a) <=> /\ g.want[k] # Invalid
                     /\ response.class \in Demanded(a, k)
                     /\ Part(response, k) = g.want[k]
    <3> HIDE DEF a
    <3> QED
      BY <1>1, <2>1, <2>2, <2>3 DEF Holds
  <2> QED
    BY <1>1, <2>4, <2>5 DEF KeyHolds
<1>2. CASE k \notin ASSERTION_KEYS
  <2>1. a.keys \cap ASSERTION_KEYS = {}
    BY <1>2 DEF Single
  <2> QED
    BY <1>2, <2>1 DEF Holds, KeyHolds
<1> QED
  BY <1>1, <1>2

(* From the evaluator's guarantee to the author's. *)
LEMMA Conjunction ==
  ASSUME Strict, Fixed, PassesIffAllHold
  PROVE  PassesAsWritten
<1> SUFFICES ASSUME outcome # "pending"
             PROVE  PassesAsWritten
  BY DEF PassesAsWritten
<1>1. outcome = "passed" <=> \A i \in DOMAIN assertions : Holds(assertions[i])
  BY DEF PassesIffAllHold
<1>2. CASE given.kind = "dict"
  <2>1. assertions = [i \in DOMAIN given.items |-> Single(given, given.items[i])]
    BY <1>2 DEF Fixed, Create
  <2>2. \A i \in DOMAIN given.items :
          Holds(assertions[i]) <=> KeyHolds(given, given.items[i])
    BY <2>1, SingleHolds
  <2> QED
    BY <1>1, <1>2, <2>1, <2>2 DEF PassesAsWritten
<1>3. CASE given.kind = "list"
  <2>1. assertions = given.list
    BY <1>3 DEF Fixed, Create
  <2> QED
    BY <1>1, <1>3, <2>1 DEF PassesAsWritten
<1>4. CASE given.kind \notin {"dict", "list"}
  <2>1. assertions = <<>>
    BY <1>4 DEF Fixed, Create
  <2>2. outcome = "passed"
    BY <1>1, <2>1
  <2> QED
    BY <1>4, <2>2 DEF PassesAsWritten
<1> QED
  BY <1>2, <1>3, <1>4

(***************************************************************************)
(* A request passes by what its author wrote: a dictionary exactly when    *)
(* every entry holds by itself, for all dictionaries, lists and answers.   *)
(***************************************************************************)
THEOREM AsWritten ==
  ASSUME Strict
  PROVE  RequestSpec => []PassesAsWritten
<1>1. Fixed /\ PassesIffAllHold => PassesAsWritten
  BY Conjunction
<1> QED
  BY <1>1, RequestImplementsEvaluator, FixedInv, EvaluatorCorrect, PTL

(***************************************************************************)
(* No answer passes a dictionary with a transform, or one about an error   *)
(* and the content type of a response.                                     *)
(***************************************************************************)
THEOREM CannotPass ==
  ASSUME Strict
  PROVE  RequestSpec => []NeverPasses
<1>1. Fixed /\ PassesAsWritten => NeverPasses
  <2> SUFFICES ASSUME PassesAsWritten, given.kind = "dict", outcome = "passed"
               PROVE  LET keys == {given.items[i] : i \in DOMAIN given.items} IN
                      ~ ("transform" \in keys \/ {"error", "responseContentType"} \subseteq keys)
    BY DEF NeverPasses
  <2>1. \A i \in DOMAIN given.items : KeyHolds(given, given.items[i])
    BY DEF PassesAsWritten
  <2>2. ~ KeyHolds(given, "transform")
    BY DEF KeyHolds, ASSERTION_KEYS
  <2>3. ~ (KeyHolds(given, "error") /\ KeyHolds(given, "responseContentType"))
    BY DEF KeyHolds
  <2> QED
    BY <2>1, <2>2, <2>3
<1> QED
  BY <1>1, AsWritten, FixedInv, PTL
================================================================================
