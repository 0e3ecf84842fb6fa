----------------------------- MODULE ActionRunProofs -----------------------------
(***************************************************************************)
(* Theorems about ActionRun, for any number of suite files, runs of the    *)
(* action on a host and containers.                                        *)
(***************************************************************************)
EXTENDS ActionRun, TLAPS

(* TypeOK in two parts, the truth values and the rest. *)
Flags == multi \in BOOLEAN /\ network \in BOOLEAN
Typed ==
  /\ files \in 0 .. MaxFiles
  /\ pc \in {"create", "attach", "build", "loop", "wait", "inspect", "disconnect", "over"}
  /\ listed \subseteq {Self} \cup Containers
  /\ results \in Seq({"passed", "failed", "timeout"})
  /\ exit_code \in {None, 0, 1}
  /\ runs \in Nat
  /\ cli \in {"none", "running", "exit 0", "exit 1"}
  /\ started \in 0 .. MaxContainers /\ current \in {Self} \cup Containers
  /\ launching \subseteq Containers /\ running \subseteq Containers
  /\ attached \subseteq {Self} \cup Containers

(* What the action has recorded, given where it is in run(). *)
Progress ==
  /\ exit_code = None <=> pc # "over"
  /\ pc \in {"create", "attach", "build"} => results = <<>>
  /\ multi /\ pc = "wait" => results = <<>>
  /\ multi /\ pc = "loop" => Len(results) <= 1
  /\ pc \in {"inspect", "disconnect"} => multi /\ Len(results) = 1

(* There is a command only while the action waits for it; it ends tidily. *)
CommandState ==
  /\ cli # "none" => pc = "wait"
  /\ cli # "running" => current = Self

(* The only command of a run for scenarios was cut off. *)
CutOff == Len(results) = 1 /\ results[1] = "timeout"

(***************************************************************************)
(* Unless a command was cut off, the daemon starts no container but the    *)
(* one the command is waiting for, and none that docker network inspect    *)
(* has not seen can join the network.                                      *)
(***************************************************************************)
DaemonState ==
  /\ pc \in {"create", "attach", "build"} => launching = {}
  /\ multi /\ pc \in {"loop", "wait", "inspect", "disconnect"} /\ ~ CutOff =>
       launching \subseteq {current}
  /\ pc = "disconnect" /\ ~ CutOff => attached \subseteq listed

State == Typed /\ Progress /\ CommandState /\ DaemonState /\ HonestExit /\ NetworkLeftExplained
IInv  == Flags /\ State

(* A list of one result that is a timeout is the list the property names. *)
LEMMA CutOffList ==
  ASSUME results \in Seq({"passed", "failed", "timeout"}), CutOff
  PROVE  results = <<"timeout">>
<1>1. Len(<<"timeout">>) = 1 /\ <<"timeout">>[1] = "timeout"
  OBVIOUS
<1> QED
  BY <1>1 DEF CutOff

(* Appending a result to a list of them. *)
LEMMA OneMore ==
  ASSUME NEW r \in {"passed", "failed", "timeout"},
         results \in Seq({"passed", "failed", "timeout"})
  PROVE  /\ Append(results, r) \in Seq({"passed", "failed", "timeout"})
         /\ results = <<>> => Len(Append(results, r)) = 1 /\ Append(results, r)[1] = r
OBVIOUS

(* What the types say of the numbers of files and of results. *)
LEMMA Counting ==
  /\ Typed => files \in Nat /\ runs + 1 \in Nat
  /\ Typed /\ results # <<>> => Len(results) # 0 /\ Len(results) \in Nat
  /\ results = <<>> => ~ CutOff
<1>1. Typed => files \in 0 .. MaxFiles /\ runs \in Nat
               /\ results \in Seq({"passed", "failed", "timeout"})
  BY DEF Typed
<1>2. files \in 0 .. MaxFiles => files \in Nat
  BY ActionAssumption
<1>3. runs \in Nat => runs + 1 \in Nat
  OBVIOUS
<1>4. ASSUME results \in Seq({"passed", "failed", "timeout"}), results # <<>>
      PROVE  Len(results) # 0 /\ Len(results) \in Nat
  BY <1>4
<1>5. results = <<>> => ~ CutOff
  BY Len(<<>>) = 0 DEF CutOff
<1> QED
  BY <1>1, <1>2, <1>3, <1>4, <1>5

(* A host on which nothing has run. *)
LEMMA InitInv == Init => State
<1> SUFFICES ASSUME Init
             PROVE  State
  OBVIOUS
<1> USE DEF Init, Self, None
<1>1. Typed
  BY ActionAssumption DEF Typed, Containers
<1>2. Progress /\ CommandState
  BY DEF Progress, CommandState
<1>3. DaemonState
  BY DEF DaemonState
<1>4. HonestExit /\ NetworkLeftExplained
  BY DEF HonestExit, NetworkLeftExplained
<1> QED
  BY <1>1, <1>2, <1>3, <1>4 DEF IInv, State

(* Truth values stay truth values. *)
LEMMA FlagsInv == Flags /\ [Next]_vars => Flags'
<1> SUFFICES ASSUME Flags, [Next]_vars
             PROVE  Flags'
  OBVIOUS
<1> USE DEF Flags
<1>1. CASE Action
  BY <1>1 DEF Action, CreateNetwork, AttachSelf, Build, StartCommand, CommandEnded, TimeoutExpired,
     CommandsDone, Inspect, Disconnect, Remove, Leave, command, daemon
<1>2. CASE Command
  BY <1>2 DEF Command, RequestContainer, KillContainer, FinishCommand, action, daemon
<1>3. ASSUME NEW c \in 1 .. MaxContainers, LaunchContainer(c) \/ ContainerExits(c)
      PROVE  Flags'
  BY <1>3 DEF LaunchContainer, ContainerExits, action, command
<1>4. CASE RunAgain
  BY <1>4 DEF RunAgain, command, daemon
<1>5. CASE UNCHANGED vars
  BY <1>5 DEF vars, action, command, daemon
<1> QED
  BY <1>1, <1>2, <1>3, <1>4, <1>5 DEF Next

(* Setting up: an exit from here has run no command. *)
LEMMA SetUpInv == IInv /\ (CreateNetwork \/ AttachSelf \/ Build) => State'
<1> SUFFICES ASSUME IInv, CreateNetwork \/ AttachSelf \/ Build
             PROVE  State'
  OBVIOUS
<1> USE DEF IInv, State, CreateNetwork, AttachSelf, Build, Leave, command, Self, None
<1>1. Typed'
  BY DEF Typed, Containers
<1>2. results = <<>> /\ results' = results
  BY DEF Progress
<1>3. Progress'
  BY <1>2, Len(<<>>) = 0 DEF Progress
<1>4. CommandState' /\ DaemonState'
  BY DEF Typed, Progress, CommandState, DaemonState, CutOff
<1>5. HonestExit' /\ NetworkLeftExplained'
  BY DEF Progress, HonestExit, NetworkLeftExplained
<1> QED
  BY <1>1, <1>2, <1>3, <1>4, <1>5

(* A command starts, ends by itself, or is cut off. *)
LEMMA CommandStepInv == IInv /\ (StartCommand \/ CommandEnded \/ TimeoutExpired) => State'
<1> SUFFICES ASSUME IInv, StartCommand \/ CommandEnded \/ TimeoutExpired
             PROVE  State'
  OBVIOUS
<1>1. CASE StartCommand
  <2> USE <1>1 DEF IInv, State, StartCommand, Due, daemon, Self, None
  <2>1. files' \in 0 .. MaxFiles
    <3>1. files' = files \/ (files > 0 /\ files' = files - 1)
      OBVIOUS
    <3>2. files \in 0 .. MaxFiles
      BY DEF Typed
    <3> QED
      BY <3>1, <3>2, ActionAssumption
  <2>2. Typed'
    BY <2>1 DEF Typed, Containers
  <2>3. Progress' /\ CommandState'
    BY DEF Progress, CommandState
  <2>4. DaemonState'
    BY DEF DaemonState, CutOff
  <2>5. HonestExit' /\ NetworkLeftExplained'
    BY DEF Progress, HonestExit, NetworkLeftExplained
  <2> QED
    BY <2>2, <2>3, <2>4, <2>5
<1>2. CASE CommandEnded
  <2> USE <1>2 DEF IInv, State, CommandEnded, daemon, Self, None
  <2>1. Ended(cli) \in {"passed", "failed"}
    BY DEF Ended
  <2>2. Typed'
    BY <2>1, OneMore DEF Typed
  <2>3. multi => Len(results') = 1
    BY <2>1, OneMore DEF Typed, Progress
  <2>4. Progress' /\ CommandState'
    <3>1. pc' = "loop" /\ exit_code' = None /\ cli' = "none" /\ current' = Self
      BY DEF Progress, CommandState
    <3>2. multi' => Len(results') <= 1
      <4>1. multi' => Len(results') = 1
        BY <2>3
      <4>2. Len(results') = 1 => Len(results') <= 1
        BY ONLY TRUE
      <4> QED
        BY <4>1, <4>2
    <3> QED
      BY ONLY <3>1, <3>2 DEF Progress, CommandState, None
  <2>5. DaemonState'
    <3>1. multi => results = <<>>
      BY DEF Progress
    <3>2. multi => launching \subseteq {current}
      BY <3>1, Counting DEF DaemonState
    <3> QED
      BY <3>2 DEF DaemonState
  <2>6. exit_code' = 2 /\ pc' # "over"
    BY DEF Progress
  <2>7. HonestExit' /\ NetworkLeftExplained'
    BY ONLY <2>6 DEF HonestExit, NetworkLeftExplained
  <2> QED
    BY <2>2, <2>4, <2>5, <2>7
<1>3. CASE TimeoutExpired
  <2> USE <1>3 DEF IInv, State, TimeoutExpired, daemon, Self, None
  <2>1. Typed'
    BY OneMore DEF Typed
  <2>2. Progress'
    BY OneMore DEF Typed, Progress
  <2>3. CommandState'
    BY DEF CommandState
  <2>4. DaemonState'
    <3>1. multi => CutOff'
      BY OneMore DEF Typed, Progress, CutOff
    <3> QED
      BY <3>1 DEF DaemonState
  <2>5. HonestExit' /\ NetworkLeftExplained'
    BY DEF Progress, HonestExit, NetworkLeftExplained
  <2> QED
    BY <2>1, <2>2, <2>3, <2>4, <2>5
<1> QED
  BY <1>1, <1>2, <1>3

(* After the last command the action exits or turns to the network. *)
LEMMA CommandsDoneInv == IInv /\ CommandsDone => State'
<1> SUFFICES ASSUME IInv, CommandsDone
             PROVE  State'
  OBVIOUS
<1> USE DEF IInv, State, CommandsDone, Leave, Due, command, Self, None
<1>1. Verdict \in {0, 1} /\ (Verdict = 0 => \A i \in DOMAIN results : results[i] = "passed")
  BY DEF Verdict
<1>2. Typed'
  BY <1>1 DEF Typed, Containers
<1>3. Progress'
  <2>1. multi => Len(results) = 1
    <3>1. multi => results # <<>> /\ Len(results) <= 1
      BY DEF Progress
    <3>2. results # <<>> => Len(results) # 0 /\ Len(results) \in Nat
      BY Counting
    <3>3. ASSUME Len(results) # 0, Len(results) \in Nat, Len(results) <= 1
          PROVE  Len(results) = 1
      BY ONLY <3>3
    <3> QED
      BY <3>1, <3>2, <3>3
  <2> QED
    BY <1>1, <2>1 DEF Progress
<1>4. CommandState'
  BY DEF CommandState
<1>5. DaemonState'
  BY DEF DaemonState, CutOff
<1>6. HonestExit'
  <2>1. ~ multi => files = 0
    <3>1. ~ multi => ~ (files > 0)
      OBVIOUS
    <3>2. files \in Nat
      BY Counting
    <3> QED
      BY <3>1, <3>2
  <2>2. exit_code' = 0 => ~ multi /\ Verdict = 0
    BY DEF Progress
  <2> QED
    BY <1>1, <2>1, <2>2 DEF HonestExit
<1>7. NetworkLeftExplained'
  BY DEF NetworkLeftExplained
<1> QED
  BY <1>2, <1>3, <1>4, <1>5, <1>6, <1>7

(***************************************************************************)
(* Taking the network down.  What docker network inspect listed is all     *)
(* there is to disconnect, because nothing is being launched any more.     *)
(***************************************************************************)
LEMMA TakeDownInv == IInv /\ (Inspect \/ Disconnect \/ Remove) => State'
<1> SUFFICES ASSUME IInv, Inspect \/ Disconnect \/ Remove
             PROVE  State'
  OBVIOUS
<1>1. CASE Inspect
  <2> USE <1>1 DEF IInv, State, Inspect, command, daemon, Self, None
  <2>1. Typed' /\ Progress' /\ CommandState'
    BY DEF Typed, Progress, CommandState, Containers
  <2>2. DaemonState'
    BY DEF DaemonState, CutOff
  <2>3. HonestExit' /\ NetworkLeftExplained'
    BY DEF Progress, HonestExit, NetworkLeftExplained
  <2> QED
    BY <2>1, <2>2, <2>3
<1>2. CASE Disconnect
  <2> USE <1>2 DEF IInv, State, Disconnect, command, Self, None
  <2>1. Typed' /\ Progress' /\ CommandState'
    BY DEF Typed, Progress, CommandState, Containers
  <2>2. DaemonState'
    BY DEF DaemonState, CutOff
  <2>3. HonestExit' /\ NetworkLeftExplained'
    BY DEF Progress, HonestExit, NetworkLeftExplained
  <2> QED
    BY <2>1, <2>2, <2>3
<1>3. CASE Remove
  <2> USE <1>3 DEF IInv, State, Remove, Leave, command, Self, None
  <2>1. Verdict \in {0, 1} /\ (Verdict = 0 => \A i \in DOMAIN results : results[i] = "passed")
    BY DEF Verdict
  <2>2. Typed'
    BY <2>1 DEF Typed, Containers
  <2>3. Progress' /\ CommandState' /\ DaemonState'
    BY <2>1 DEF Progress, CommandState, DaemonState
  <2>4. HonestExit'
    BY <2>1 DEF Progress, HonestExit
  <2>5. NetworkLeftExplained'
    <3>1. attached # {} => results = <<"timeout">>
      BY CutOffList DEF Typed, DaemonState
    <3> QED
      BY <3>1 DEF NetworkLeftExplained
  <2> QED
    BY <2>2, <2>3, <2>4, <2>5
<1> QED
  BY <1>1, <1>2, <1>3

(* The command asks for containers one by one and waits for each of them. *)
LEMMA CommandInv == IInv /\ Command => State'
<1> SUFFICES ASSUME IInv, Command
             PROVE  State'
  OBVIOUS
<1> USE DEF IInv, State, action, daemon, Self, None
<1>1. pc = "wait" /\ cli = "running" /\ UNCHANGED <<multi, files, pc, listed, results, exit_code, runs>>
  BY DEF Command, RequestContainer, KillContainer, FinishCommand, CommandState
<1>2. Typed'
  <2>1. CASE RequestContainer
    BY <2>1, ActionAssumption DEF RequestContainer, Typed, Containers
  <2>2. CASE KillContainer
    BY <2>2 DEF KillContainer, Typed, Containers
  <2>3. CASE FinishCommand
    BY <2>3 DEF FinishCommand, Typed, Containers
  <2> QED
    BY <2>1, <2>2, <2>3 DEF Command
<1>3. Progress'
  BY <1>1 DEF Progress
<1>4. CommandState'
  BY <1>1 DEF Command, RequestContainer, KillContainer, FinishCommand, CommandState
<1>5. DaemonState'
  <2>1. multi /\ ~ CutOff => launching' \subseteq {current'}
    <3>1. CASE RequestContainer
      <4>1. multi /\ ~ CutOff => launching \subseteq {Self} /\ Self \notin launching
        BY <1>1, <3>1 DEF RequestContainer, Typed, DaemonState, Containers
      <4>2. launching' = launching \cup {current'}
        BY <3>1 DEF RequestContainer
      <4> QED
        BY <4>1, <4>2
    <3>2. CASE KillContainer
      BY <1>1, <3>2 DEF KillContainer, DaemonState
    <3>3. CASE FinishCommand
      BY <1>1, <3>3 DEF FinishCommand, DaemonState
    <3> QED
      BY <3>1, <3>2, <3>3 DEF Command
  <2> QED
    BY <1>1, <2>1 DEF DaemonState, CutOff
<1>6. exit_code' = 2 /\ pc' # "over"
  BY <1>1 DEF Progress
<1>7. HonestExit' /\ NetworkLeftExplained'
  BY ONLY <1>6 DEF HonestExit, NetworkLeftExplained
<1> QED
  BY <1>2, <1>3, <1>4, <1>5, <1>7

(* The daemon and the containers. *)
LEMMA DaemonInv ==
  IInv /\ (\E c \in 1 .. MaxContainers : LaunchContainer(c) \/ ContainerExits(c)) => State'
<1> SUFFICES ASSUME IInv, NEW c \in 1 .. MaxContainers, LaunchContainer(c) \/ ContainerExits(c)
             PROVE  State'
  OBVIOUS
<1> USE DEF IInv, State, LaunchContainer, ContainerExits, action, command, Self, None
<1>1. Typed'
  BY DEF Typed, Containers
<1>2. Progress' /\ CommandState'
  BY DEF Progress, CommandState
<1>3. DaemonState'
  BY DEF Progress, CommandState, DaemonState, CutOff
<1>4. HonestExit' /\ NetworkLeftExplained'
  BY DEF HonestExit, NetworkLeftExplained
<1> QED
  BY <1>1, <1>2, <1>3, <1>4

(* Another run of the action, and stuttering. *)
LEMMA OtherInv == IInv /\ (RunAgain \/ UNCHANGED vars) => State'
<1> SUFFICES ASSUME IInv, RunAgain \/ UNCHANGED vars
             PROVE  State'
  OBVIOUS
<1>1. CASE RunAgain
  <2> USE <1>1 DEF IInv, State, RunAgain, command, daemon, Self, None
  <2>1. Typed'
    <3>1. runs' \in Nat /\ files' \in 0 .. MaxFiles
      BY Counting
    <3>2. UNCHANGED <<cli, current, started, launching, attached, running>>
      OBVIOUS
    <3>3. pc' = "create" /\ listed' = {} /\ results' = <<>> /\ exit_code' = None
      OBVIOUS
    <3>4. started' \in 0 .. MaxContainers /\ current' \in {Self} \cup Containers
          /\ launching' \subseteq Containers /\ running' \subseteq Containers
          /\ attached' \subseteq {Self} \cup Containers
          /\ cli' \in {"none", "running", "exit 0", "exit 1"}
      BY <3>2 DEF Typed
    <3>5. results' \in Seq({"passed", "failed", "timeout"})
      BY <3>3
    <3> QED
      BY ONLY <3>1, <3>3, <3>4, <3>5 DEF Typed
  <2>2. Progress'
    BY DEF Progress
  <2>3. CommandState' /\ DaemonState'
    BY DEF CommandState, DaemonState
  <2>4. HonestExit' /\ NetworkLeftExplained'
    BY DEF HonestExit, NetworkLeftExplained
  <2> QED
    BY <2>1, <2>2, <2>3, <2>4
<1>2. CASE UNCHANGED vars
  BY <1>2 DEF IInv, State, vars, action, command, daemon, Typed, Progress, CommandState, DaemonState,
      CutOff, HonestExit, NetworkLeftExplained
<1> QED
  BY <1>1, <1>2

(* IInv holds of every reachable state of the action and the daemon. *)
THEOREM Invariance == Spec => []IInv
<1>1. Init => IInv
  BY InitInv DEF IInv, Init, Flags
<1>2. IInv /\ [Next]_vars => IInv'
  BY FlagsInv, SetUpInv, CommandStepInv, CommandsDoneInv, TakeDownInv, CommandInv, DaemonInv, OtherInv
  DEF Next, Action, IInv
<1> QED
  BY <1>1, <1>2, PTL DEF Spec

(* Every variable of the action and its host has its type. *)
THEOREM TypeCorrect == Spec => []TypeOK
<1>1. IInv => TypeOK
  BY DEF IInv, Flags, State, Typed, TypeOK
<1> QED
  BY <1>1, Invariance, PTL

(***************************************************************************)
(* main.run exits with 0 only when every command it ran succeeded and its  *)
(* network is gone, on any host and after any earlier runs.                *)
(***************************************************************************)
THEOREM ExitCode == Spec => []HonestExit
<1>1. IInv => HonestExit
  BY DEF IInv, State
<1> QED
  BY <1>1, Invariance, PTL

(***************************************************************************)
(* main.run leaves the network behind only with exit code 1, and only when *)
(* it ran no command or cut off its only one.                              *)
(***************************************************************************)
THEOREM NetworkLeft == Spec => []NetworkLeftExplained
<1>1. IInv => NetworkLeftExplained
  BY DEF IInv, State
<1> QED
  BY <1>1, Invariance, PTL
===============================================================================
