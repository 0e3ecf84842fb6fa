---------------------------- MODULE InvocationProofs ----------------------------
(***************************************************************************)
(* Theorems about Invocation, for all values of the timeouts and of the    *)
(* adjustments of the clock, and that _capture keeps DriverContract.       *)
(***************************************************************************)
EXTENDS Invocation, TLAPS

(* Nothing has been posted before the address is known. *)
BeforeLoop ==
  /\ pc \in {"prepare", "launch"} => container = "none"
  /\ pc \in {"prepare", "launch", "inspect", "port"} =>
       /\ clock = 0 /\ skew = 0 /\ attempts = 0 /\ delivered = 0 /\ cuts = 0
       /\ address = "none"
  /\ pc \in {"inspect", "port", "poll", "posting"} => container # "none"

(* Every failed attempt has cost a second, and none starts too late. *)
Deadline == Timeout + MaxSkew
Pace ==
  /\ pc = "poll" => attempts <= clock
  /\ pc = "posting" => attempts <= clock + 1 /\ clock + 1 <= Deadline
  /\ attempts <= Deadline /\ clock <= Deadline + Longest

(* Deliveries are the cut posts and, at most, the post under way. *)
Deliveries ==
  /\ pc = "poll" => delivered = cuts
  /\ pc = "posting" => delivered = IF inflight THEN cuts + 1 ELSE cuts
  /\ delivered <= cuts + 1
  /\ outcome = "response" /\ delivered > 0 => delivered = cuts + 1

(* Where the request can have gone. *)
Owner ==
  /\ address = "localhost" => container = "gone" /\ delivered = 0
  /\ place = "shared" => address # "ip" /\ delivered = 0
  /\ outcome = "response" /\ delivered = 0 => address = "localhost"

(* What the body of the try has come to. *)
Decided ==
  /\ outcome = "pending" <=> pc \notin {"finally", "over"}
  /\ outcome = "response" => container # "none"
  /\ pc = "finally" => outcome \in {"response", "unknown-error"}

Numbers ==
  /\ clock \in Nat /\ skew \in (- MaxSkew) .. MaxSkew
  /\ attempts \in Nat /\ delivered \in Nat /\ cuts \in Nat
Labels ==
  /\ place \in {"host", "docker", "shared"}
  /\ pc \in {"prepare", "launch", "inspect", "port", "poll", "posting", "finally", "over"}
  /\ outcome \in {"pending", "response", "resource-error", "unknown-error", "raw"}
  /\ container \in {"none", "up", "gone"}
  /\ address \in {"none", "ip", "port", "localhost"}

IInv ==
  /\ Labels /\ Numbers /\ inflight \in BOOLEAN
  /\ BeforeLoop /\ Pace /\ Deliveries /\ Owner /\ Decided /\ ReleasedOrUndecodable

(* The deadline and the longest attempt are numbers of seconds. *)
LEMMA Seconds == Longest \in Nat /\ Deadline \in Nat /\ MaxSkew \in Nat /\ Timeout \in Nat
BY TimingAssumption DEF Longest, Deadline

(* A call of _capture starts with nothing done. *)
LEMMA InitInv == Init => IInv
<1> SUFFICES ASSUME Init
             PROVE  IInv
  OBVIOUS
<1>1. Labels /\ inflight \in BOOLEAN
  BY DEF Init, Labels
<1>2. BeforeLoop /\ Owner /\ Decided /\ ReleasedOrUndecodable
  BY DEF Init, BeforeLoop, Owner, Decided, ReleasedOrUndecodable
<1>3. Pace /\ Numbers
  BY Seconds DEF Init, Pace, Numbers
<1>4. Deliveries
  BY DEF Init, Deliveries
<1> QED
  BY <1>1, <1>2, <1>3, <1>4 DEF IInv

(* The steps before the first post: nothing is counted yet. *)
LEMMA LookUpInv ==
  ASSUME IInv, Prepare \/ Launch \/ Inspect \/ LookUpPort
  PROVE  IInv'
<1>1. UNCHANGED <<place, time, posts>>
  BY DEF Prepare, Launch, Inspect, LookUpPort
<1>2. /\ pc \in {"prepare", "launch", "inspect", "port"}
      /\ pc' \in {"launch", "inspect", "port", "poll", "finally", "over"}
      /\ outcome' \in {"pending", "resource-error", "unknown-error", "raw"}
      /\ address' = "localhost" => container' = "gone"
      /\ place = "shared" => address' # "ip"
      /\ container' \in {"none", "up", "gone"} /\ address' \in {"none", "ip", "port", "localhost"}
  BY DEF Prepare, Launch, Inspect, LookUpPort, Inspectable, Fail, IInv, Labels, BeforeLoop, Decided
<1>3. clock = 0 /\ skew = 0 /\ attempts = 0 /\ delivered = 0 /\ cuts = 0
  BY <1>2 DEF IInv, BeforeLoop
<1>4. Labels' /\ inflight' \in BOOLEAN
  BY <1>1, <1>2 DEF IInv, Labels, posts
<1>5. Numbers' /\ Pace' /\ Deliveries'
  <2>1. clock' = 0 /\ skew' = 0 /\ attempts' = 0 /\ delivered' = 0 /\ cuts' = 0
    BY <1>1, <1>3 DEF time, posts
  <2>2. pc' # "posting"
    BY <1>2
  <2> QED
    BY ONLY <2>1, <2>2, Seconds DEF Numbers, Pace, Deliveries
<1>6. Owner' /\ ReleasedOrUndecodable'
  <2>1. delivered' = 0 /\ outcome' # "response" /\ place' = place
    BY <1>1, <1>2, <1>3 DEF posts
  <2>2. pc' = "over" => container' = "none"
    BY DEF Prepare, Launch, Inspect, LookUpPort, Fail, IInv, BeforeLoop
  <2> QED
    BY <1>2, <2>1, <2>2 DEF Owner, ReleasedOrUndecodable
<1>7. Decided' /\ BeforeLoop'
  <2>1. clock' = 0 /\ skew' = 0 /\ attempts' = 0 /\ delivered' = 0 /\ cuts' = 0
    BY <1>1, <1>3 DEF time, posts
  <2>2. Decided'
    BY <1>2 DEF Decided, IInv, Prepare, Launch, Inspect, LookUpPort, Fail
  <2>3. /\ pc' \in {"prepare", "launch"} => container' = "none"
        /\ pc' \in {"prepare", "launch", "inspect", "port"} => address' = "none"
        /\ pc' \in {"inspect", "port", "poll", "posting"} => container' # "none"
    BY DEF BeforeLoop, IInv, Prepare, Launch, Inspect, LookUpPort, Fail
  <2> QED
    BY <2>1, <2>2, <2>3 DEF BeforeLoop
<1> QED
  BY <1>4, <1>5, <1>6, <1>7 DEF IInv

(* The polling loop starts a post, or is over. *)
LEMMA PollInv ==
  ASSUME IInv, Post \/ GiveUp
  PROVE  IInv'
<1>1. UNCHANGED <<place, container, address, time, delivered, cuts>> /\ pc = "poll"
  BY DEF Post, GiveUp, posts
<1>2. \/ /\ pc' = "posting" /\ outcome' = outcome /\ inflight' = FALSE
         /\ attempts' = attempts + 1 /\ clock + skew < Timeout
      \/ /\ pc' = "finally" /\ outcome' = "unknown-error"
         /\ attempts' = attempts /\ inflight' = inflight
  BY DEF Post, GiveUp, Fail, InTime, posts
<1>3. outcome = "pending" /\ container # "none" /\ delivered = cuts /\ attempts <= clock
  BY <1>1 DEF IInv, Decided, BeforeLoop, Deliveries, Pace
<1>4. clock' = clock /\ skew' = skew /\ Numbers
  BY <1>1 DEF time, IInv
<1>5. Labels' /\ inflight' \in BOOLEAN
  BY <1>1, <1>2 DEF IInv, Labels
<1>6. Numbers' /\ Pace'
  <2>1. clock + skew < Timeout => clock + 1 <= Deadline
    BY <1>4, Seconds DEF Numbers, Deadline
  <2>2. Pace /\ (pc' = "posting" \/ pc' = "finally")
    BY <1>2 DEF IInv
  <2>3. \/ pc' = "posting" /\ attempts' = attempts + 1 /\ clock + 1 <= Deadline
        \/ pc' = "finally" /\ attempts' = attempts
    BY <1>2, <2>1
  <2> QED
    BY ONLY <1>1, <1>3, <1>4, <2>2, <2>3, Seconds DEF Numbers, Pace
<1>7. Deliveries'
  <2>1. outcome' # "response" /\ pc' # "poll"
    BY <1>2, <1>3
  <2>2. delivered' = cuts' /\ cuts' \in Nat
    BY <1>1, <1>3, <1>4 DEF Numbers
  <2>3. pc' = "posting" => ~ inflight'
    BY <1>2
  <2>4. pc' = "posting" => delivered' = IF inflight' THEN cuts' + 1 ELSE cuts'
    BY <2>2, <2>3, Zenon
  <2>5. delivered' <= cuts' + 1
    BY <1>1 DEF IInv, Deliveries
  <2> QED
    BY <2>1, <2>4, <2>5, Zenon DEF Deliveries
<1>8. Owner' /\ Decided' /\ BeforeLoop' /\ ReleasedOrUndecodable'
  BY <1>1, <1>2, <1>3 DEF IInv, Owner, Decided, BeforeLoop, ReleasedOrUndecodable
<1> QED
  BY <1>5, <1>6, <1>7, <1>8 DEF IInv

(* A post ends: cut off, in another exception, or with an answer. *)
LEMMA PostInv ==
  ASSUME IInv, ConnectionError \/ PostRaises \/ Answered
  PROVE  IInv'
<1>1. /\ UNCHANGED <<place, container, address, skew, attempts, delivered>> /\ pc = "posting"
      /\ inflight' \in BOOLEAN
  BY DEF ConnectionError, PostRaises, Answered, posts, IInv
<1>2. /\ outcome = "pending" /\ container # "none"
      /\ attempts <= clock + 1 /\ clock + 1 <= Deadline /\ attempts <= Deadline
      /\ delivered = IF inflight THEN cuts + 1 ELSE cuts
  BY <1>1 DEF IInv, Decided, BeforeLoop, Pace, Deliveries
<1>3. /\ clock' \in Nat /\ clock' <= clock + Longest + 1
      /\ pc' = "poll" => clock' >= clock + 1
  <2>1. clock \in Nat /\ ConnectTimeout \in 0 .. Longest
    BY TimingAssumption DEF IInv, Numbers, Longest
  <2>2. CASE ConnectionError
    BY <2>1, <2>2, Seconds DEF ConnectionError, Pause
  <2>3. CASE PostRaises \/ Answered
    BY <2>1, <2>3, Seconds DEF PostRaises, Answered, Fail
  <2> QED
    BY <2>2, <2>3
<1>4. /\ pc' \in {"poll", "finally"}
      /\ pc' = "poll" => outcome' = "pending" /\ cuts' = delivered
      /\ pc' = "finally" => outcome' \in {"response", "unknown-error"} /\ cuts' = cuts
      /\ outcome' = "response" => pc' = "finally" /\ (inflight \/ address = "localhost")
  BY <1>2 DEF ConnectionError, PostRaises, Answered, Fail, posts
<1>5. Labels'
  BY <1>1, <1>4 DEF IInv, Labels
<1>6. Numbers' /\ Pace'
  <2>1. Numbers /\ cuts' \in Nat
    BY <1>4 DEF IInv, Numbers
  <2>2. UNCHANGED <<skew, attempts, delivered>> /\ pc' # "posting"
    BY <1>1, <1>4
  <2>3. attempts <= clock + 1 /\ clock + 1 <= Deadline /\ attempts <= Deadline
    BY <1>2
  <2> QED
    <3>1. Numbers'
      BY ONLY <1>3, <2>1, <2>2 DEF Numbers
    <3>2. clock' <= Deadline + Longest /\ attempts' <= Deadline
      BY ONLY <1>3, <2>1, <2>2, <2>3, Seconds DEF Numbers
    <3>3. pc' = "poll" => attempts' <= clock'
      BY ONLY <1>3, <2>1, <2>2, <2>3 DEF Numbers
    <3> QED
      BY ONLY <2>2, <3>1, <3>2, <3>3 DEF Pace
<1>7. Deliveries' /\ Owner'
  <2>1. Numbers /\ (address = "localhost" => delivered = 0)
    BY DEF IInv, Owner
  <2>2. delivered = cuts \/ delivered = cuts + 1
    BY <1>2
  <2>3. outcome' = "response" => delivered = cuts + 1 \/ (address = "localhost" /\ delivered = 0)
    BY <1>2, <1>4, <2>1
  <2>4. Deliveries'
    BY ONLY <1>1, <1>4, <2>1, <2>2, <2>3 DEF Deliveries, Numbers
  <2>5. Owner'
    <3>1. delivered = cuts + 1 => delivered # 0
      BY <2>1 DEF Numbers
    <3> QED
      BY <1>1, <2>3, <3>1 DEF Owner, IInv
  <2> QED
    BY <2>4, <2>5
<1>8. Decided' /\ BeforeLoop' /\ ReleasedOrUndecodable'
  BY <1>1, <1>2, <1>4 DEF Decided, BeforeLoop, ReleasedOrUndecodable
<1> QED
  BY <1>1, <1>5, <1>6, <1>7, <1>8 DEF IInv

(* The finally clause. *)
LEMMA ReleaseInv ==
  ASSUME IInv, Release
  PROVE  IInv'
<1>1. /\ UNCHANGED <<place, address, time, posts>> /\ pc = "finally" /\ pc' = "over"
      /\ \/ container' = (IF container = "none" THEN "none" ELSE "gone") /\ outcome' = outcome
         \/ Debug /\ container # "none" /\ outcome' = "raw" /\ container' = container
  BY DEF Release, Kill
<1>2. Labels' /\ inflight' \in BOOLEAN /\ Numbers'
  BY <1>1 DEF IInv, Labels, Numbers, posts, time
<1>3. Pace' /\ Deliveries'
  BY <1>1 DEF IInv, Pace, Deliveries, posts, time
<1>4. Owner' /\ Decided' /\ BeforeLoop' /\ ReleasedOrUndecodable'
  BY <1>1 DEF IInv, Labels, Owner, Decided, BeforeLoop, ReleasedOrUndecodable, posts
<1> QED
  BY <1>2, <1>3, <1>4 DEF IInv

(* The steps of the container and of the clock, and stuttering. *)
LEMMA OtherInv ==
  ASSUME IInv, Deliver \/ ContainerExits \/ AdjustClock \/ UNCHANGED vars
  PROVE  IInv'
<1>1. CASE Deliver
  <2>1. /\ UNCHANGED <<place, pc, outcome, container, address, clock, skew, attempts, cuts>>
        /\ inflight = FALSE /\ inflight' = TRUE /\ delivered' = delivered + 1
        /\ Reachable /\ pc = "posting"
    BY <1>1 DEF Deliver, time, IInv
  <2>2. delivered = cuts /\ outcome = "pending"
    BY <2>1 DEF IInv, Deliveries, Decided
  <2>3. Numbers' /\ Pace' /\ Deliveries'
    BY <2>1, <2>2 DEF IInv, Numbers, Pace, Deliveries
  <2>4. Labels' /\ Owner'
    BY <2>1, <2>2 DEF IInv, Labels, Owner, Reachable
  <2>5. Decided' /\ BeforeLoop' /\ ReleasedOrUndecodable'
    BY <2>1 DEF IInv, Decided, BeforeLoop, ReleasedOrUndecodable
  <2> QED
    BY <2>1, <2>3, <2>4, <2>5 DEF IInv
<1>2. CASE ContainerExits
  <2>1. /\ UNCHANGED <<place, pc, outcome, address, clock, skew,
                       attempts, inflight, delivered, cuts>>
        /\ container = "up" /\ container' = "gone"
    BY <1>2 DEF ContainerExits, time, posts
  <2>2. Numbers' /\ Pace' /\ Deliveries' /\ inflight' \in BOOLEAN
    BY <2>1 DEF IInv, Numbers, Pace, Deliveries
  <2>3. Labels' /\ Owner' /\ Decided' /\ BeforeLoop' /\ ReleasedOrUndecodable'
    BY <2>1 DEF IInv, Labels, Owner, Decided, BeforeLoop, ReleasedOrUndecodable
  <2> QED
    BY <2>2, <2>3 DEF IInv
<1>3. CASE AdjustClock
  <2>1. /\ UNCHANGED <<place, pc, outcome, container, address, clock,
                       attempts, inflight, delivered, cuts>>
        /\ pc \in {"poll", "posting"} /\ skew' \in (- MaxSkew) .. MaxSkew
    BY <1>3 DEF AdjustClock, posts
  <2>2. Numbers' /\ Pace' /\ Deliveries' /\ inflight' \in BOOLEAN
    BY <2>1 DEF IInv, Numbers, Pace, Deliveries
  <2>3. Labels' /\ Owner' /\ Decided' /\ BeforeLoop' /\ ReleasedOrUndecodable'
    BY <2>1 DEF IInv, Labels, Owner, Decided, BeforeLoop, ReleasedOrUndecodable
  <2> QED
    BY <2>2, <2>3 DEF IInv
<1>4. CASE UNCHANGED vars
  BY <1>4 DEF vars, time, posts, IInv, Labels, Numbers, BeforeLoop, Pace, Deliveries,
              Owner, Decided, ReleasedOrUndecodable
<1> QED
  BY <1>1, <1>2, <1>3, <1>4

(* The invariant holds in every reachable state, whatever the timeouts. *)
THEOREM Invariance == Spec => []IInv
<1>1. IInv /\ [Next]_vars => IInv'
  BY LookUpInv, PollInv, PostInv, ReleaseInv, OtherInv DEF Next, Driver
<1> QED
  BY InitInv, <1>1, PTL DEF Spec

(* Every variable has its type; COMMAND_FAILED never leaves _capture. *)
THEOREM TypeCorrect == Spec => []TypeOK
<1>1. IInv => TypeOK
  BY DEF IInv, Labels, Numbers, TypeOK
<1> QED
  BY <1>1, Invariance, PTL

(* The polling loop of _wait_for_container is bounded in posts and time. *)
THEOREM BoundedPolling == Spec => []PollingBounded
<1>1. IInv => PollingBounded
  BY DEF IInv, Pace, Deadline, PollingBounded
<1> QED
  BY <1>1, Invariance, PTL

(* A request is repeated only after one of its posts was cut off. *)
THEOREM Repetition == Spec => []RepeatedOnlyAfterCut
<1>1. IInv => RepeatedOnlyAfterCut
  BY DEF IInv, Deliveries, RepeatedOnlyAfterCut
<1> QED
  BY <1>1, Invariance, PTL

(* A response the function had no part in comes from a stranger, and with a
   shared network the function is never reached. *)
THEOREM Ownership == Spec => []AnsweredByOwn
<1>1. IInv => AnsweredByOwn
  BY DEF IInv, Owner, AnsweredByOwn
<1> QED
  BY <1>1, Invariance, PTL

(* _capture leaves a container behind only when decoding its logs raises. *)
THEOREM Released == Spec => []ReleasedOrUndecodable
<1>1. IInv => ReleasedOrUndecodable
  BY DEF IInv
<1> QED
  BY <1>1, Invariance, PTL

-------------------------------------------------------------------------------
(* The refinement. *)

(* Only the first steps and the last one change what the contract sees. *)
LEMMA StepKeepsContract ==
  ASSUME IInv, [Next]_vars
  PROVE  [Contract!Next]_(Contract!vars)
<1> USE DEF Contract!vars, Verdict
<1>1. CASE Prepare
  <2>1. container = "none" /\ container' = "none" /\ pc = "prepare"
    BY <1>1 DEF Prepare, IInv, BeforeLoop
  <2> QED
    BY <1>1, <2>1 DEF Prepare, Contract!Next, Contract!Fail, Contract!Raise
<1>2. CASE Launch
  <2>1. container = "none" /\ pc = "launch" /\ pc' # "over"
    BY <1>2 DEF Launch, Fail, IInv, BeforeLoop
  <2> QED
    BY <1>2, <2>1 DEF Launch, Contract!Next, Contract!Start
<1>3. CASE Inspect \/ LookUpPort \/ Post \/ GiveUp \/ ConnectionError \/ PostRaises \/ Answered
           \/ Deliver \/ AdjustClock
  <2>1. pc # "over" /\ pc' # "over" /\ container' = container
    BY <1>3 DEF Inspect, LookUpPort, Post, GiveUp, ConnectionError, PostRaises, Answered,
                Deliver, AdjustClock, Fail
  <2> QED
    BY <2>1
<1>4. CASE Release
  <2>1. /\ pc = "finally" /\ pc' = "over"
        /\ outcome \in {"response", "unknown-error"}
        /\ outcome = "response" => container # "none"
        /\ \/ container' = (IF container = "none" THEN "none" ELSE "gone") /\ outcome' = outcome
           \/ outcome' = "raw" /\ container' = container
    BY <1>4 DEF Release, Kill, IInv, Decided
  <2> QED
    BY <2>1 DEF Contract!Next, Contract!Respond, Contract!Fail, Contract!Raise
<1>5. CASE ContainerExits
  BY <1>5 DEF ContainerExits, Contract!Next, Contract!Stop
<1>6. CASE UNCHANGED vars
  BY <1>6 DEF vars
<1> QED
  BY <1>1, <1>2, <1>3, <1>4, <1>5, <1>6 DEF Next, Driver

(* DockerDriver._capture implements what run_suite relies on. *)
THEOREM Refinement == Spec => ImplementsContract
<1>1. Init => Contract!Init
  BY DEF Init, Contract!Init, Verdict
<1>2. IInv /\ [Next]_vars => [Contract!Next]_(Contract!vars)
  BY StepKeepsContract
<1> QED
  BY <1>1, <1>2, Invariance, PTL DEF Spec, ImplementsContract, Contract!Spec
=================================================================================
