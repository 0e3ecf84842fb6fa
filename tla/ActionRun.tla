------------------------------- MODULE ActionRun -------------------------------
(***************************************************************************)
(* run (main.py), the entry point of the GitHub action: it sets up a       *)
(* network when scenarios are to be run, builds the image, runs the test   *)
(* command (TestHarness) once or once per suite file, each under a         *)
(* timeout that kills the command's process and nothing else, removes the  *)
(* network and exits.                                                      *)
(*                                                                         *)
(* Three actors interleave: the action, the command it waits for, and the  *)
(* docker daemon, which goes on starting a container that a command has    *)
(* asked for even when that command has been killed.  The daemon outlives  *)
(* the action: on a host that is used again, a later run of the action     *)
(* meets the network and the containers that an earlier one left behind.   *)
(***************************************************************************)
EXTENDS Naturals, Sequences

CONSTANTS
  MaxFiles,      \* bound: the suite files of the input
  MaxRuns,       \* bound: runs of the action on one host
  MaxContainers  \* bound: containers started on one host

ASSUME ActionAssumption == MaxFiles \in Nat /\ MaxRuns \in Nat /\ MaxContainers \in Nat

Self == 0  \* the container the action itself runs in
None == 2  \* no exit code yet

VARIABLES
  multi,      \* is_multi_concurrent()
  files,      \* the number of suite files, still to be run
  pc,         \* where the action is in run()
  listed,     \* the containers that docker network inspect reported
  results,    \* how each command of this run ended: "passed", "failed" or "timeout"
  exit_code,  \* None, 0 or 1
  runs,       \* how many runs the host has seen
  cli,        \* the command: "none", "running", or how it exited
  current,    \* the container the command works with, Self for none
  launching,  \* external: the containers the daemon was asked for and starts
  network,    \* external: whether the shared network exists
  attached,   \* external: the containers on it
  running,    \* external: the containers that run tests
  started     \* how many containers were asked for on this host

action == <<multi, files, pc, listed, results, exit_code, runs>>
command == <<cli, current, started>>
daemon == <<launching, network, attached, running>>
vars == <<action, command, daemon>>

Init ==
  /\ multi \in BOOLEAN /\ files \in 0 .. MaxFiles
  /\ pc = "create" /\ listed = {} /\ results = <<>> /\ exit_code = None /\ runs = 1
  /\ cli = "none" /\ current = Self /\ started = 0
  /\ launching = {} /\ network = FALSE /\ attached = {} /\ running = {}

-------------------------------------------------------------------------------
(* The action. *)

(* The process exits, and with it its container, wherever that was attached. *)
Leave(code) ==
  /\ pc' = "over" /\ exit_code' = code
  /\ attached' = attached \ {Self}

(***************************************************************************)
(* create_network and attach_to_network, in multi-concurrency mode only.   *)
(* docker refuses a second network of that name, check=True raises, and    *)
(* everything raised in run() ends in exit code 1.                         *)
(***************************************************************************)
Mut_CreateNetwork ==
  /\ pc = "create"
  /\ IF ~ multi THEN pc' = "build" /\ UNCHANGED <<exit_code, network, attached>>
     ELSE network' = TRUE /\ pc' = "attach" /\ UNCHANGED <<exit_code, attached>>
  /\ UNCHANGED <<multi, files, listed, results, runs, command, launching, running>>
CreateNetwork ==
  /\ pc = "create"
  /\ IF ~ multi THEN pc' = "build" /\ UNCHANGED <<exit_code, network, attached>>
     ELSE IF network THEN Leave(1) /\ UNCHANGED network
     ELSE network' = TRUE /\ pc' = "attach" /\ UNCHANGED <<exit_code, attached>>
  /\ UNCHANGED <<multi, files, listed, results, runs, command, launching, running>>

AttachSelf ==
  /\ pc = "attach"
  /\ \/ attached' = attached \cup {Self} /\ pc' = "build" /\ UNCHANGED exit_code
     \/ Leave(1)
  /\ UNCHANGED <<multi, files, listed, results, runs, command, launching, network, running>>

(***************************************************************************)
(* docker build, and reading the list of suite files.  A build that fails  *)
(* or a list that is none raises before the try that removes the network.  *)
(***************************************************************************)
Build ==
  /\ pc = "build"
  /\ \/ pc' = "loop" /\ UNCHANGED <<exit_code, attached>>
     \/ Leave(1)
  /\ UNCHANGED <<multi, files, listed, results, runs, command, launching, network, running>>

(* run_test_command: once for the scenarios, or once for each suite file. *)
Due == IF multi THEN results = <<>> ELSE files > 0

StartCommand ==
  /\ pc = "loop" /\ Due
  /\ pc' = "wait" /\ cli' = "running"
  /\ files' = IF multi THEN files ELSE files - 1
  /\ UNCHANGED <<multi, listed, results, exit_code, runs, current, started, daemon>>

(* The command ended by itself, and its code is looked at. *)
Mut_EndedCode(code) == code
Ended(code) == IF code = "exit 0" THEN "passed" ELSE "failed"

CommandEnded ==
  /\ pc = "wait" /\ cli \in {"exit 0", "exit 1"}
  /\ results' = Append(results, Ended(cli))
  /\ cli' = "none" /\ pc' = "loop"
  /\ UNCHANGED <<multi, files, listed, exit_code, runs, current, started, daemon>>

(* TimeoutExpired: the process of the command is killed, and only that. *)
Mut_TimeoutExpired ==
  /\ pc = "wait" /\ cli = "running" /\ current = Self
  /\ results' = Append(results, "timeout")
  /\ cli' = "none" /\ current' = Self /\ pc' = "loop"
  /\ UNCHANGED <<multi, files, listed, exit_code, runs, started, daemon>>
TimeoutExpired ==
  /\ pc = "wait" /\ cli = "running"
  /\ results' = Append(results, "timeout")
  /\ cli' = "none" /\ current' = Self /\ pc' = "loop"
  /\ UNCHANGED <<multi, files, listed, exit_code, runs, started, daemon>>

(* After the last command; only the scenarios had a network. *)
Mut_Verdict == IF results # <<>> /\ results[Len(results)] # "passed" THEN 1 ELSE 0
Verdict == IF \E i \in DOMAIN results : results[i] # "passed" THEN 1 ELSE 0

CommandsDone ==
  /\ pc = "loop" /\ ~ Due
  /\ IF multi THEN pc' = "inspect" /\ UNCHANGED <<exit_code, attached>> ELSE Leave(Verdict)
  /\ UNCHANGED <<multi, files, listed, results, runs, command, launching, network, running>>

(***************************************************************************)
(* remove_network: the containers are listed once and disconnected one by  *)
(* one, a failure to disconnect is ignored, and docker refuses to remove a *)
(* network that has a container by then; that raises out of the finally    *)
(* clause, past the exit code that was to follow it.                       *)
(***************************************************************************)
Mut_Inspect ==
  /\ pc = "inspect"
  /\ listed' = attached \ {Self}
  /\ pc' = "disconnect"
  /\ UNCHANGED <<multi, files, results, exit_code, runs, command, daemon>>
Inspect ==
  /\ pc = "inspect"
  /\ listed' = attached
  /\ pc' = "disconnect"
  /\ UNCHANGED <<multi, files, results, exit_code, runs, command, daemon>>

Disconnect ==
  /\ pc = "disconnect"
  /\ \E c \in listed :
       /\ listed' = listed \ {c}
       /\ attached' = attached \ {c}
  /\ UNCHANGED <<multi, files, pc, results, exit_code, runs, command, launching, network, running>>

Remove ==
  /\ pc = "disconnect" /\ listed = {}
  /\ IF attached # {}
       THEN Leave(1) /\ UNCHANGED network
       ELSE Leave(Verdict) /\ network' = FALSE
  /\ UNCHANGED <<multi, files, listed, results, runs, command, launching, running>>

Action ==
  \/ CreateNetwork \/ AttachSelf \/ Build
  \/ StartCommand \/ CommandEnded \/ TimeoutExpired \/ CommandsDone
  \/ Inspect \/ Disconnect \/ Remove

-------------------------------------------------------------------------------
(* The command: it has one container at a time, see SuiteRun and TestHarness. *)

RequestContainer ==
  /\ cli = "running" /\ current = Self /\ started < MaxContainers
  /\ started' = started + 1
  /\ current' = started'
  /\ launching' = launching \cup {started'}
  /\ UNCHANGED <<action, cli, network, attached, running>>

(***************************************************************************)
(* docker kill, in the finally clause of whoever started the container.    *)
(* A suite's test whose logs cannot be decoded skips it, see Release of    *)
(* Invocation: the command is always given --debug.                        *)
(***************************************************************************)
KillContainer ==
  /\ cli = "running" /\ current \notin launching \cup {Self}
  /\ \/ running' = running \ {current} /\ attached' = attached \ {current}
     \/ ~ multi /\ UNCHANGED <<running, attached>>
  /\ current' = Self
  /\ UNCHANGED <<action, cli, started, launching, network>>

FinishCommand ==
  /\ cli = "running" /\ current = Self
  /\ cli' \in {"exit 0", "exit 1"}
  /\ UNCHANGED <<action, current, started, daemon>>

Command == RequestContainer \/ KillContainer \/ FinishCommand

-------------------------------------------------------------------------------
(* The daemon and the host. *)

(* docker run fails when it refers to a network that is gone. *)
LaunchContainer(c) ==
  /\ c \in launching
  /\ launching' = launching \ {c}
  /\ \/ UNCHANGED <<attached, running>>
     \/ /\ multi => network
        /\ running' = running \cup {c}
        /\ attached' = IF multi THEN attached \cup {c} ELSE attached
  /\ UNCHANGED <<action, command, network>>

(* A container stops by itself; with --rm it is then gone. *)
ContainerExits(c) ==
  /\ c \in running
  /\ running' = running \ {c}
  /\ attached' = attached \ {c}
  /\ UNCHANGED <<action, command, launching, network>>

(* The host runs the action again, in a new container and in either mode. *)
RunAgain ==
  /\ pc = "over" /\ runs < MaxRuns /\ launching = {}
  /\ runs' = runs + 1
  /\ multi' \in BOOLEAN /\ files' \in 0 .. MaxFiles
  /\ pc' = "create" /\ listed' = {} /\ results' = <<>> /\ exit_code' = None
  /\ UNCHANGED <<command, daemon>>

Next ==
  \/ Action
  \/ Command
  \/ \E c \in 1 .. MaxContainers : LaunchContainer(c) \/ ContainerExits(c)
  \/ RunAgain

(***************************************************************************)
(* The action keeps running: docker build and the command have timeouts,   *)
(* the other docker commands are assumed to return.  Nothing is asked of   *)
(* the command, which may hang, or of the daemon.                          *)
(***************************************************************************)
Spec == Init /\ [][Next]_vars /\ WF_vars(Action)

-------------------------------------------------------------------------------
(* Properties. *)

Containers == 1 .. MaxContainers

(* Every variable has its type (one invariant for the whole module). *)
TypeOK ==
  /\ multi \in BOOLEAN /\ files \in 0 .. MaxFiles
  /\ pc \in {"create", "attach", "build", "loop", "wait", "inspect", "disconnect", "over"}
  /\ listed \subseteq {Self} \cup Containers
  /\ results \in Seq({"passed", "failed", "timeout"})
  /\ exit_code \in {None, 0, 1}
  /\ runs \in Nat
  /\ cli \in {"none", "running", "exit 0", "exit 1"}
  /\ started \in 0 .. MaxContainers /\ current \in {Self} \cup Containers
  /\ launching \subseteq Containers /\ running \subseteq Containers
  /\ network \in BOOLEAN /\ attached \subseteq {Self} \cup Containers

(***************************************************************************)
(* The action succeeds only when every command it ran ended by itself with *)
(* success, in multi-concurrency mode exactly one of them, and when the    *)
(* network, if it made one, is gone.                                       *)
(***************************************************************************)
HonestExit ==
  exit_code = 0 =>
    /\ \A i \in DOMAIN results : results[i] = "passed"
    /\ IF multi THEN Len(results) = 1 /\ ~ network ELSE files = 0

(***************************************************************************)
(* A run of the action that leaves the network behind says so by its exit  *)
(* code, and it either never got to run a command, or had to cut off the   *)
(* only one it ran, whose last container then joined too late to be        *)
(* disconnected.  In particular no run that the command ended does.        *)
(***************************************************************************)
NetworkLeftExplained ==
  pc = "over" /\ multi /\ network => exit_code = 1 /\ results \in {<<>>, <<"timeout">>}

(***************************************************************************)
(* A network left behind is never reclaimed: every later run for scenarios *)
(* on that host fails before it has tested anything.                       *)
(***************************************************************************)
StuckNetwork ==
  network /\ multi /\ pc = "create" ~> pc = "over" /\ exit_code = 1 /\ results = <<>>

(* Every run of the action ends, even when its command hangs. *)
Termination == pc = "create" ~> pc = "over"
===============================================================================
