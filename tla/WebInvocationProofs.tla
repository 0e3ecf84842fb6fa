-------------------------- MODULE WebInvocationProofs --------------------------
(***************************************************************************)
(* Theorems about WebInvocation, for logs of any length, and that this     *)
(* driver's _capture keeps DriverContract as well.                         *)
(*                                                                         *)
(* The lines of the logs are converted by a loop.  What it returns is      *)
(* proved by induction, which rests on the numbers being well-founded.     *)
(***************************************************************************)
EXTENDS WebInvocation, SequenceTheorems, FiniteSetTheorems, WellFoundedInduction, TLAPS

(* The conversion. *)

LEMMA LeastNumber ==
  ASSUME NEW T \in SUBSET Nat, T # {}
  PROVE  \E x \in T : \A y \in T : x <= y
<1> DEFINE Less == OpToRel(<, Nat)
<1>1. IsWellFoundedOn(Less, Nat)
  BY NatLessThanWellFounded
<1>2. \A x, y \in Nat : <<y, x>> \in Less <=> y < x
  BY DEF OpToRel
<1> HIDE DEF Less
<1>3. PICK x \in T : \A y \in T : <<y, x>> \notin Less
  BY <1>1, WFMin
<1>4. \A y \in T : ~ (y < x)
  BY <1>2, <1>3
<1> QED
  BY <1>4

(* Induction over the numbers, for a property given as a set.              *)
LEMMA SetInduction ==
  ASSUME NEW S, 0 \in S, \A n \in Nat : n \in S => n + 1 \in S
  PROVE  Nat \subseteq S
<1> SUFFICES ASSUME Nat \ S # {}
             PROVE  FALSE
  OBVIOUS
<1>1. PICK x \in Nat \ S : \A y \in Nat \ S : x <= y
  BY LeastNumber
<1>2. x - 1 \in Nat /\ x - 1 \notin Nat \ S
  BY <1>1
<1> QED
  BY <1>1, <1>2

(* The recursive function that Convert is defined by exists.               *)
Keep(g, lines, i) ==
  IF i = 0 THEN <<>>
  ELSE IF lines[i] \in Documents THEN Append(g[i - 1], lines[i])
  ELSE g[i - 1]

LEMMA ConvertStep ==
  ASSUME NEW lines, Len(lines) \in Nat
  PROVE  \E g : /\ Convert(lines).items = g[Len(lines)]
                /\ g = [i \in 0 .. Len(lines) |-> Keep(g, lines, i)]
<1> DEFINE Step(g, n) == [i \in 0 .. n |-> Keep(g, lines, i)]
           S == {n \in Nat : \E g : g = Step(g, n)}
<1>1. 0 \in S
  <2>1. [i \in {0} |-> <<>>] = Step([i \in {0} |-> <<>>], 0)
    BY DEF Keep
  <2> QED
    BY <2>1
<1>2. ASSUME NEW n \in Nat, n \in S
      PROVE  n + 1 \in S
  <2>1. PICK g : g = Step(g, n)
    BY <1>2
  <2> DEFINE h == Step(g, n + 1)
  <2>2. \A i \in 0 .. n : h[i] = g[i]
    <3>1. \A i \in 0 .. n : g[i] = Step(g, n)[i]
      BY <2>1
    <3> QED
      BY <3>1
  <2>3. h = Step(h, n + 1)
    <3>1. \A i \in 0 .. (n + 1) : i # 0 => i - 1 \in 0 .. n
      OBVIOUS
    <3>2. \A i \in 0 .. (n + 1) : Keep(h, lines, i) = Keep(g, lines, i)
      <4> HIDE DEF h
      <4> QED
        BY <2>2, <3>1 DEF Keep
    <3> QED
      BY <3>2
  <2>4. \E f : f = Step(f, n + 1)
    <3> HIDE DEF h, Step
    <3> QED
      BY <2>3
  <2> HIDE DEF Step
  <2> QED
    BY <2>4
<1>3. Len(lines) \in S
  <2> HIDE DEF S
  <2> QED
    BY <1>1, <1>2, SetInduction
<1>4. \E g : g = Step(g, Len(lines))
  BY <1>3
<1>5. Convert(lines).items = (CHOOSE g : g = Step(g, Len(lines)))[Len(lines)]
  BY DEF Convert, Keep
<1> QED
  BY <1>4, <1>5

(***************************************************************************)
(* Convert keeps every document of the lines: it returns as many, and the  *)
(* one on line i in the place that its number gives it.                    *)
(***************************************************************************)
Documented(lines, n) == {i \in 1 .. n : lines[i] \in Documents}

LEMMA ConvertFacts ==
  ASSUME NEW lines \in Seq(Lines)
  PROVE  /\ Convert(lines).items \in Seq(Documents)
         /\ Len(Convert(lines).items) = Cardinality(Documented(lines, Len(lines)))
         /\ \A i \in 1 .. Len(lines) :
              lines[i] \in Documents =>
                Convert(lines).items[Cardinality(Documented(lines, i))] = lines[i]
<1> DEFINE L == Len(lines)
           C(n) == Cardinality(Documented(lines, n))
<1>1. L \in Nat
  OBVIOUS
<1>2. PICK g : Convert(lines).items = g[L] /\ g = [i \in 0 .. L |-> Keep(g, lines, i)]
  BY <1>1, ConvertStep
<1> HIDE DEF L
<1> DEFINE Good(n) ==
             /\ g[n] \in Seq(Documents)
             /\ IsFiniteSet(Documented(lines, n))
             /\ Len(g[n]) = C(n)
             /\ \A i \in 1 .. n : lines[i] \in Documents => C(i) \in 1 .. C(n) /\ g[n][C(i)] = lines[i]
           S == {n \in Nat : n \in 0 .. L => Good(n)}
<1>3. 0 \in S
  <2>1. g[0] = <<>>
    BY <1>1, <1>2 DEF Keep
  <2>2. Documented(lines, 0) = {}
    BY DEF Documented
  <2>3. IsFiniteSet(Documented(lines, 0)) /\ C(0) = 0
    BY <2>2, FS_EmptySet
  <2>4. g[0] \in Seq(Documents) /\ Len(g[0]) = 0
    BY <2>1
  <2> HIDE DEF C
  <2>5. Good(0)
    BY <2>3, <2>4
  <2> HIDE DEF Good
  <2> QED
    BY <2>5
<1>4. ASSUME NEW n \in Nat, n \in S
      PROVE  n + 1 \in S
  <2> SUFFICES ASSUME n + 1 \in 0 .. L
               PROVE  Good(n + 1)
    OBVIOUS
  <2>1. n \in 0 .. L /\ n + 1 # 0 /\ (n + 1) - 1 = n
    BY <1>1
  <2>2. Good(n)
    BY <1>4, <2>1
  <2>3. g[n + 1] = IF lines[n + 1] \in Documents THEN Append(g[n], lines[n + 1]) ELSE g[n]
    BY <1>2, <2>1 DEF Keep
  <2>4. Documented(lines, n + 1) =
          IF lines[n + 1] \in Documents THEN Documented(lines, n) \cup {n + 1} ELSE Documented(lines, n)
    BY DEF Documented
  <2>5. n + 1 \notin Documented(lines, n)
    BY DEF Documented
  <2>6. \A i \in 1 .. n + 1 : i \in 1 .. n \/ i = n + 1
    OBVIOUS
  <2>7. CASE lines[n + 1] \in Documents
    <3>1. IsFiniteSet(Documented(lines, n + 1)) /\ C(n + 1) = C(n) + 1 /\ C(n) \in Nat
      BY <2>2, <2>4, <2>5, <2>7, FS_AddElement, FS_CardinalityType
    <3> HIDE DEF C
    <3>2. /\ g[n + 1] \in Seq(Documents) /\ Len(g[n + 1]) = C(n + 1)
          /\ g[n + 1][C(n + 1)] = lines[n + 1]
          /\ \A j \in 1 .. C(n) : g[n + 1][j] = g[n][j]
      BY <2>2, <2>3, <2>7, <3>1, AppendProperties
    <3>3. ASSUME NEW i \in 1 .. n + 1, lines[i] \in Documents
          PROVE  C(i) \in 1 .. C(n + 1) /\ g[n + 1][C(i)] = lines[i]
      <4>1. CASE i \in 1 .. n
        <5>1. C(i) \in 1 .. C(n) /\ g[n][C(i)] = lines[i]
          BY <2>2, <3>3, <4>1
        <5> QED
          BY <3>1, <3>2, <5>1
      <4>2. CASE i = n + 1
        BY <3>1, <3>2, <4>2
      <4> QED
        BY <2>6, <4>1, <4>2
    <3> QED
      BY <3>1, <3>2, <3>3
  <2>8. CASE lines[n + 1] \notin Documents
    <3>1. g[n + 1] = g[n] /\ Documented(lines, n + 1) = Documented(lines, n)
      BY <2>3, <2>4, <2>8
    <3>2. C(n + 1) = C(n)
      BY <3>1
    <3> HIDE DEF C
    <3>3. ASSUME NEW i \in 1 .. n + 1, lines[i] \in Documents
          PROVE  i \in 1 .. n
      BY <2>6, <2>8, <3>3
    <3> QED
      BY <2>2, <3>1, <3>2, <3>3
  <2> QED
    BY <2>7, <2>8
<1>5. Good(L)
  <2> HIDE DEF Good
  <2>1. Nat \subseteq S
    <3> HIDE DEF S
    <3> QED
      BY <1>3, <1>4, SetInduction
  <2> QED
    BY <1>1, <2>1
<1> HIDE DEF C
<1>6. Convert(lines).items \in Seq(Documents) /\ Len(Convert(lines).items) = C(L)
  BY <1>2, <1>5
<1>7. \A i \in 1 .. L : lines[i] \in Documents => Convert(lines).items[C(i)] = lines[i]
  BY <1>2, <1>5
<1> QED
  BY <1>6, <1>7 DEF C, L

-------------------------------------------------------------------------------
(* The call. *)

Bytes == HasBytes(stdout) \/ HasBytes(stderr)

Logged ==
  /\ stdout \in Seq(Lines) /\ stderr \in Seq(Lines)
  /\ Len(stdout) + Len(stderr) <= MaxLines
  /\ seen \in 0 .. Len(stdout)
  /\ response \in Responses \cup {NoResponse}

Labels ==
  /\ pc \in {"prepare", "launch", "init", "hurl", "logs", "kill", "over"}
  /\ outcome \in {"pending", "response", "resource-error", "unknown-error", "raw"}
  /\ container \in {"none", "up", "gone"}
  /\ hurl \in {"none", "passed", "assert", "other"}

(* How far the call has come. *)
Course ==
  /\ pc \in {"prepare", "launch"} => container = "none"
  /\ pc \in {"init", "hurl", "kill"} => container # "none"
  /\ pc \in {"prepare", "launch", "init", "hurl"} => outcome = "pending"
  /\ pc \in {"logs", "kill"} => outcome \in {"pending", "unknown-error"}
  /\ pc = "over" => outcome # "pending"

(* What it takes to have a response, or to be about to have one. *)
Earned ==
  /\ pc \in {"logs", "kill"} /\ outcome = "pending" =>
       container # "none" /\ hurl \in {"passed", "other"}
  /\ pc = "kill" /\ outcome = "pending" => response.class = "Response"
  /\ outcome = "response" => hurl \in {"passed", "other"} /\ response.class = "Response"

(* What explains the other ways to end. *)
Explained ==
  /\ outcome = "raw" => container = "none" \/ Bytes
  /\ pc = "over" /\ outcome = "unknown-error" => container # "none"
  /\ pc = "over" /\ container = "up" => outcome = "raw" /\ Bytes

IInv == Logged /\ Labels /\ Course /\ Earned /\ Explained

(* A call of _capture starts with nothing done. *)
LEMMA InitInv == Init => IInv
<1> SUFFICES ASSUME Init
             PROVE  IInv
  OBVIOUS
<1>1. Logged
  BY LinesAssumption DEF Init, Logged
<1> QED
  BY <1>1 DEF Init, IInv, Labels, Course, Earned, Explained

(* The steps of the driver before the finally clause. *)
LEMMA BodyInv ==
  ASSUME IInv, Prepare \/ Launch \/ Initialise \/ RunHurl
  PROVE  IInv'
<1>1. /\ UNCHANGED <<stdout, stderr, seen, response>>
      /\ pc \in {"prepare", "launch", "init", "hurl"} /\ pc' # "kill"
      /\ outcome' # "response"
  BY DEF Prepare, Launch, Initialise, RunHurl, Fail, IInv, Course
<1>2. Logged'
  BY <1>1 DEF IInv, Logged
<1>3. Labels'
  BY DEF Prepare, Launch, Initialise, RunHurl, Fail, IInv, Labels
<1>4. Course'
  BY DEF Prepare, Launch, Initialise, RunHurl, Fail, IInv, Course
<1>5. Earned'
  BY <1>1 DEF Prepare, Launch, Initialise, RunHurl, Fail, IInv, Course, Earned
<1>6. Explained'
  BY DEF Prepare, Launch, Initialise, RunHurl, Fail, IInv, Course, Explained
<1> QED
  BY <1>2, <1>3, <1>4, <1>5, <1>6 DEF IInv

(* What is rendered is never an error: the converted logs are a list. *)
LEMMA RenderedType ==
  ASSUME IInv
  PROVE  Render(Convert(Logs)) \in Responses /\ Render(Convert(Logs)).class = "Response"
<1>1. Logs \in Seq(Lines)
  BY DEF Logs, IInv, Logged
<1>2. Convert(Logs).items \in Seq(Documents)
  BY <1>1, ConvertFacts
<1>3. Convert(Logs).isList = TRUE
  BY DEF Convert
<1>4. Render(Convert(Logs)).class = "Response"
  BY <1>3 DEF Render
<1> QED
  BY <1>2, <1>4 DEF Render, Responses

(* The finally clause. *)
LEMMA FinallyInv ==
  ASSUME IInv, ReadLogs \/ Kill
  PROVE  IInv'
<1>1. CASE ReadLogs
  <2>1. /\ UNCHANGED <<container, hurl, stdout, stderr>> /\ pc = "logs"
        /\ \/ outcome' = "raw" /\ pc' = "over" /\ UNCHANGED <<seen, response>>
              /\ (container = "none" \/ Undecodable)
           \/ /\ pc' = "kill" /\ seen' = Len(Logs) /\ outcome' = outcome /\ container # "none"
              /\ response' = IF outcome = "pending" THEN Render(Convert(Logs)) ELSE response
    BY <1>1 DEF ReadLogs
  <2>2. Len(Logs) \in 0 .. Len(stdout)
    BY DEF Logs, IInv, Logged
  <2>3. Undecodable => Bytes
    BY DEF Undecodable, Bytes
  <2>4. Logged'
    BY <2>1, <2>2, RenderedType DEF IInv, Logged
  <2>5. Earned'
    BY <2>1, RenderedType DEF IInv, Earned, Course
  <2>6. Bytes' <=> Bytes
    BY <2>1 DEF Bytes, HasBytes
  <2>7. Labels' /\ Course' /\ Explained'
    BY <2>1, <2>3, <2>6 DEF IInv, Labels, Course, Explained
  <2> QED
    BY <2>4, <2>5, <2>7 DEF IInv
<1>2. CASE Kill
  <2>1. Logged' /\ Labels' /\ Course' /\ Earned'
    BY <1>2 DEF Kill, IInv, Logged, Labels, Course, Earned
  <2>2. Explained'
    BY <1>2 DEF Kill, IInv, Course, Explained
  <2> QED
    BY <2>1, <2>2 DEF IInv
<1> QED
  BY <1>1, <1>2

(* The container's own steps, and stuttering. *)
LEMMA ContainerInv ==
  ASSUME IInv, Prints \/ ContainerExits \/ UNCHANGED vars
  PROVE  IInv'
<1>1. CASE Prints
  <2>1. /\ stdout \in Seq(Lines) /\ stderr \in Seq(Lines)
        /\ Len(stdout) + Len(stderr) < MaxLines /\ seen \in 0 .. Len(stdout)
        /\ UNCHANGED <<seen, response>>
    BY <1>1 DEF Prints, IInv, Logged
  <2>2. PICK line \in Lines :
          \/ stdout' = Append(stdout, line) /\ UNCHANGED stderr
          \/ stderr' = Append(stderr, line) /\ UNCHANGED stdout
    BY <1>1 DEF Prints
  <2>7. Len(stdout) \in Nat /\ Len(stderr) \in Nat
    BY <2>1
  <2>3. /\ stdout' \in Seq(Lines) /\ stderr' \in Seq(Lines)
        /\ Len(stdout') + Len(stderr') = Len(stdout) + Len(stderr) + 1
        /\ Len(stdout) <= Len(stdout')
        /\ \A i \in DOMAIN stdout : i \in DOMAIN stdout' /\ stdout'[i] = stdout[i]
        /\ \A i \in DOMAIN stderr : i \in DOMAIN stderr' /\ stderr'[i] = stderr[i]
    <3>1. \A lines \in Seq(Lines) :
            /\ Append(lines, line) \in Seq(Lines) /\ Len(Append(lines, line)) = Len(lines) + 1
            /\ \A i \in DOMAIN lines :
                 i \in DOMAIN Append(lines, line) /\ Append(lines, line)[i] = lines[i]
      OBVIOUS
    <3>2. CASE stdout' = Append(stdout, line) /\ UNCHANGED stderr
      <4>1. /\ stdout' \in Seq(Lines) /\ Len(stdout') = Len(stdout) + 1
            /\ \A i \in DOMAIN stdout : i \in DOMAIN stdout' /\ stdout'[i] = stdout[i]
        BY <2>1, <3>1, <3>2
      <4> QED
        BY <2>1, <2>7, <3>2, <4>1
    <3>3. CASE stderr' = Append(stderr, line) /\ UNCHANGED stdout
      <4>1. /\ stderr' \in Seq(Lines) /\ Len(stderr') = Len(stderr) + 1
            /\ \A i \in DOMAIN stderr : i \in DOMAIN stderr' /\ stderr'[i] = stderr[i]
        BY <2>1, <3>1, <3>3
      <4> QED
        BY <2>1, <2>7, <3>3, <4>1
    <3> QED
      BY <2>2, <3>2, <3>3
  <2>8. Len(stdout') \in Nat /\ Len(stderr') \in Nat
    BY <2>3
  <2>4. Logged'
    <3>1. seen' \in 0 .. Len(stdout')
      BY <2>1, <2>3, <2>7, <2>8
    <3>2. Len(stdout') + Len(stderr') <= MaxLines
      BY <2>1, <2>3, <2>7, <2>8, LinesAssumption
    <3> QED
      BY <2>1, <2>3, <3>1, <3>2 DEF IInv, Logged
  <2>5. Bytes => Bytes'
    BY <2>3 DEF Bytes, HasBytes
  <2>6. UNCHANGED <<pc, outcome, container, hurl, response>>
    BY <1>1 DEF Prints
  <2>9. Labels' /\ Course' /\ Earned' /\ Explained'
    BY <2>5, <2>6 DEF IInv, Labels, Course, Earned, Explained
  <2> QED
    BY <2>4, <2>9 DEF IInv
<1>2. CASE ContainerExits
  <2>1. Logged' /\ (Bytes' <=> Bytes)
    BY <1>2 DEF ContainerExits, IInv, Logged, Bytes, HasBytes
  <2> QED
    BY <1>2, <2>1 DEF ContainerExits, IInv, Labels, Course, Earned, Explained
<1>3. CASE UNCHANGED vars
  BY <1>3 DEF vars, IInv, Logged, Labels, Course, Earned, Explained, Bytes, HasBytes
<1> QED
  BY <1>1, <1>2, <1>3

(* The invariant holds in every reachable state. *)
THEOREM Invariance == Spec => []IInv
<1>1. IInv /\ [Next]_vars => IInv'
  BY BodyInv, FinallyInv, ContainerInv DEF Next
<1> QED
  BY InitInv, <1>1, PTL DEF Spec

(* Every variable has its type; no failure leaves _capture under the name
   it was raised with. *)
THEOREM TypeCorrect == Spec => []TypeOK
<1>1. IInv => TypeOK
  BY DEF IInv, Logged, Labels, TypeOK
<1> QED
  BY <1>1, Invariance, PTL

(* An exception that run_suite does not catch has one of three causes. *)
THEOREM RawCauses == Spec => []RawExplained
<1>1. IInv => RawExplained
  BY DEF IInv, Explained, Bytes, RawExplained
<1> QED
  BY <1>1, Invariance, PTL

(* The container is killed unless its logs cannot be decoded. *)
THEOREM Released == Spec => []ReleasedOrUndecodable
<1>1. IInv => ReleasedOrUndecodable
  BY DEF IInv, Explained, Bytes, ReleasedOrUndecodable
<1> QED
  BY <1>1, Invariance, PTL

(* No response without hurl, and none is an ErrorResponse. *)
THEOREM Earning == Spec => []ResponseEarned
<1>1. IInv => ResponseEarned
  BY DEF IInv, Earned, ResponseEarned
<1> QED
  BY <1>1, Invariance, PTL

-------------------------------------------------------------------------------
(* The refinement. *)

(* Only the first steps and the finally clause change what the contract sees. *)
LEMMA StepKeepsContract ==
  ASSUME IInv, [Next]_vars
  PROVE  [Contract!Next]_(Contract!vars)
<1> USE DEF Contract!vars, Verdict
<1>1. CASE Prepare
  <2>1. container = "none" /\ container' = "none" /\ pc = "prepare"
    BY <1>1 DEF Prepare, IInv, Course
  <2> QED
    BY <1>1, <2>1 DEF Prepare, Contract!Next, Contract!Fail, Contract!Raise
<1>2. CASE Launch
  <2>1. container = "none" /\ pc = "launch" /\ pc' # "over"
    BY <1>2 DEF Launch, Fail, IInv, Course
  <2> QED
    BY <1>2, <2>1 DEF Launch, Contract!Next, Contract!Start
<1>3. CASE Initialise \/ RunHurl
  <2>1. pc # "over" /\ pc' # "over" /\ container' = container
    BY <1>3 DEF Initialise, RunHurl, Fail
  <2> QED
    BY <2>1
<1>4. CASE ReadLogs
  <2>1. /\ pc = "logs" /\ container' = container
        /\ pc' = "kill" \/ (pc' = "over" /\ outcome' = "raw")
    BY <1>4 DEF ReadLogs
  <2> QED
    BY <2>1 DEF Contract!Next, Contract!Raise
<1>5. CASE Kill
  <2>1. /\ pc = "kill" /\ pc' = "over" /\ container # "none" /\ container' = "gone"
        /\ outcome' \in {"response", "unknown-error"}
    BY <1>5 DEF Kill, IInv, Course
  <2> QED
    BY <2>1 DEF Contract!Next, Contract!Respond, Contract!Fail
<1>6. CASE Prints
  BY <1>6 DEF Prints
<1>7. CASE ContainerExits
  BY <1>7 DEF ContainerExits, Contract!Next, Contract!Stop
<1>8. CASE UNCHANGED vars
  BY <1>8 DEF vars
<1> QED
  BY <1>1, <1>2, <1>3, <1>4, <1>5, <1>6, <1>7, <1>8 DEF Next

(* DockerWebAppDriver._capture implements what run_suite relies on. *)
THEOREM Refinement == Spec => ImplementsContract
<1>1. Init => Contract!Init
  BY DEF Init, Contract!Init, Verdict
<1>2. IInv /\ [Next]_vars => [Contract!Next]_(Contract!vars)
  BY StepKeepsContract
<1> QED
  BY <1>1, <1>2, Invariance, PTL DEF Spec, ImplementsContract, Contract!Spec

-------------------------------------------------------------------------------
(* The documents of a response. *)

(* A response, also one that is still to be returned, has the documents of
   the lines that were shown; what the container logs later changes neither. *)
Kept ==
  /\ Len(response.data) = DocumentsUpTo(seen)
  /\ \A i \in 1 .. seen :
       stdout[i] \in Documents => response.data[DocumentsUpTo(i)] = stdout[i]
Rendered == outcome = "response" \/ (pc = "kill" /\ outcome = "pending") => Kept

(* The first lines stay what they are. *)
LEMMA KeptStays ==
  ASSUME IInv, Kept, UNCHANGED <<seen, response>>,
         \A i \in 1 .. seen : stdout'[i] = stdout[i]
  PROVE  Kept'
<1>1. \A n \in 0 .. seen : {i \in 1 .. n : stdout'[i] \in Documents} = {i \in 1 .. n : stdout[i] \in Documents}
  BY DEF IInv, Logged
<1>2. seen \in 0 .. seen /\ 1 .. seen \subseteq 0 .. seen
  BY DEF IInv, Logged
<1>3. \A n \in 0 .. seen :
        Cardinality({i \in 1 .. n : stdout'[i] \in Documents}) = DocumentsUpTo(n)
  BY <1>1 DEF DocumentsUpTo
<1> QED
  BY <1>2, <1>3 DEF Kept, DocumentsUpTo

LEMMA RenderedInvariance ==
  ASSUME IInv, Rendered, [Next]_vars
  PROVE  Rendered'
<1>1. CASE Prepare \/ Launch \/ Initialise \/ RunHurl
  <2>1. outcome' # "response" /\ pc' # "kill"
    BY <1>1 DEF Prepare, Launch, Initialise, RunHurl, Fail, IInv, Course
  <2> QED
    BY <2>1 DEF Rendered
<1>2. CASE ReadLogs
  <2> SUFFICES ASSUME outcome' = "response" \/ (pc' = "kill" /\ outcome' = "pending")
               PROVE  Kept'
    BY DEF Rendered
  <2>1. pc = "logs" /\ outcome # "response"
    BY <1>2 DEF ReadLogs, IInv, Course
  <2>2. /\ seen' = Len(Logs) /\ response' = Render(Convert(Logs)) /\ stdout' = stdout
    BY <1>2, <2>1 DEF ReadLogs
  <2>3. Logs \in Seq(Lines) /\ \A i \in 1 .. Len(Logs) : Logs[i] = stdout[i]
    BY DEF Logs, IInv, Logged
  <2>4. response'.data = Convert(Logs).items
    BY <2>2 DEF Render
  <2>5. \A n \in 0 .. Len(Logs) : Documented(Logs, n) = {i \in 1 .. n : stdout[i] \in Documents}
    BY <2>3 DEF Documented
  <2>6. Len(Logs) \in 0 .. Len(Logs) /\ 1 .. Len(Logs) \subseteq 0 .. Len(Logs)
    BY <2>3
  <2>7. \A n \in 0 .. Len(Logs) : Cardinality(Documented(Logs, n)) = DocumentsUpTo(n)
    BY <2>5 DEF DocumentsUpTo
  <2>8. Len(response'.data) = DocumentsUpTo(Len(Logs))
    BY <2>3, <2>4, <2>6, <2>7, ConvertFacts
  <2>9. \A i \in 1 .. Len(Logs) :
          stdout[i] \in Documents => response'.data[DocumentsUpTo(i)] = stdout[i]
    BY <2>3, <2>4, <2>6, <2>7, ConvertFacts
  <2> QED
    BY <2>2, <2>8, <2>9 DEF Kept, DocumentsUpTo
<1>3. CASE Kill
  <2> SUFFICES ASSUME outcome' = "response"
               PROVE  Kept'
    BY <1>3 DEF Rendered, Kill
  <2>1. UNCHANGED <<stdout, seen, response>> /\ Kept
    BY <1>3 DEF Kill, IInv, Course, Rendered
  <2> QED
    BY <2>1, KeptStays
<1>4. CASE Prints
  <2>1. UNCHANGED <<pc, outcome, seen, response>>
    BY <1>4 DEF Prints
  <2>2. \A i \in 1 .. seen : stdout'[i] = stdout[i]
    <3>1. stdout' = stdout \/ \E line \in Lines : stdout' = Append(stdout, line)
      BY <1>4 DEF Prints
    <3>2. stdout \in Seq(Lines) /\ seen \in 0 .. Len(stdout)
      BY DEF IInv, Logged
    <3> QED
      BY <3>1, <3>2
  <2> QED
    BY <2>1, <2>2, KeptStays DEF Rendered
<1>5. CASE ContainerExits \/ UNCHANGED vars
  <2>1. UNCHANGED <<pc, outcome, stdout, seen, response>>
    BY <1>5 DEF ContainerExits, vars
  <2> QED
    BY <2>1, KeptStays DEF Rendered
<1> QED
  BY <1>1, <1>2, <1>3, <1>4, <1>5 DEF Next

(***************************************************************************)
(* No document that the logs showed of stdout is missing from a response,  *)
(* whatever the lines between them and however many there are, and nothing *)
(* from stderr is in it.                                                   *)
(***************************************************************************)
THEOREM NothingIsDropped == Spec => []AllDocumentsKept
<1>1. Init => Rendered
  BY DEF Init, Rendered
<1>2. IInv /\ Rendered /\ [Next]_vars => Rendered'
  BY RenderedInvariance
<1>3. Rendered => AllDocumentsKept
  BY DEF Rendered, Kept, AllDocumentsKept
<1> QED
  BY <1>1, <1>2, <1>3, Invariance, PTL DEF Spec
===============================================================================
