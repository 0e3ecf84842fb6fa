# Containerized test runner for AWS Lambda: TLA+ specifications and proofs

The repository is a test runner: it starts a Lambda runtime image in docker,
sends it the requests of a test suite or of a concurrency scenario, judges the
answers with assertions and ends with an exit code that a CI job believes. It
comes as a command (`cli.py`) and as a GitHub action (`main.py`) that wraps the
command. These specifications say what the runner promises about verdicts, exit
codes and the containers and networks it creates, model-check those promises on
small instances, and prove the most important of them for every instance.

Paths below are relative to `src/src/containerized_test_runner/`.

## The system

| Component | State it keeps | Operations | Hard behaviour |
|---|---|---|---|
| `DockerDriver.execute_concurrent` (`docker.py`) | the container, the batch, `response_map`, `all_results` | start, run a batch in threads, join, evaluate, dump logs, kill | threads and the container interleave; threads die of timeouts; a batch raises in the middle; requests go to an address of somebody else |
| `DockerDriver._capture` (`docker.py`) | the container, its address, the time the polling began | start, look up the address, post until it answers, kill | retry of a request that may have been delivered; timeouts on a clock that is adjusted; an address of somebody else; the finally clause itself raising |
| `AssertionEvaluator` (`tester.py`) and `_render_response` | `to_throw`, `check_value`, `assert_value` across iterations | judge a response by a list of assertions | locals that outlive an iteration; a remembered failure; failures that cannot be printed |
| `Runner`, `SuiteLoader`, `Driver.load_resource_data` (`runner.py`, `suiteloader.py`, `driver.py`) | the suite, its tests, resources and defaults, `ExecutionTestResults` | fetch an index, expand a template, render, execute | lists shared between tests and extended in place; exceptions outside the `try` |
| `cli.execute_tests`, `write_test_summary`, `ScenarioLoader` (`cli.py`, `scenario_loader.py`) | `run_results`, `exit_unsuccessfully` | find, load, run suites, run scenarios, summarise, exit | exceptions caught in one loop and not in the other; what the exit code says |
| `main.run` (`main.py`) | the docker network, the running command | create, attach, build, run under a timeout, remove, exit | a timeout that kills half of the work; a check of the network that is stale when used; a host used again |
| `DockerWebAppDriver._capture` (`docker_webapp.py`) | the container, the outcome of `hurl` | start, init, run hurl, read the logs, kill | a finally clause that uses a variable the body may not have set; a response made of logs that may be gone |
| `Runner.run`, `__enter__`, `__exit__`, `Driver.load` (`runner.py`, `driver.py`) | the driver, the suite the loop is at | load a driver, set up, prepare, clean up, tear down | exceptions in every one of these calls, also in those made while another is on its way |
| `models.Request`, `ConcurrentTest` (`models.py`) | data only | `Request.create` normalises assertions | a dictionary becomes several assertions; anything but a dictionary or a list is dropped |
| `jq_utils.py`, `logger.py`, packaging, `github-action-test` | none | - | - |

How they meet. `main.run` starts `cli.py` as a process of its own. That calls
`Runner.run_suite` for each suite, which calls `driver.execute` for each test,
which is `_capture` followed by the evaluator; for each scenario it calls
`execute_concurrent`. Everything that is not caught on the way up ends the
process. The repository's own callers from outside the command use
`Runner.run` instead. Three things run beside the main thread: the request threads of a
batch, the container under test, and the docker daemon, which outlives all of
them.

The list of what is hard to test, line by line, is `hazards` in `PROJECT.json`;
each entry names the properties that would catch it, or says why none does.

What makes each part correct: a verdict belongs to the request or test that
earned it; nothing that was found to run is missing from a report that says
"success"; a call ends, whatever the container does; what was created is
released, and where it is not, the specification says exactly when.

## The modules

Each module is one component. The comment above a definition says what code it
is; `map` in `PROJECT.json` gives the lines.

**`ConcurrentScenario`** - `execute_concurrent`, `_execute_batch`,
`_execute_single_request` and `_evaluate_request_response`. `pc` is the main
thread's position; `MainThread` is the disjunction of its steps. Each thread of
the current batch is an entry of `thread`; it sleeps its delay (`Wake`), then
receives an answer (`Receive`) or dies (`Fail`) without leaving an entry in
`response`. A batch of one request is sent by the main thread and takes the path
of `BeginBatch` that skips the delay. `Answer` and `ContainerExits` are the
container. `StartContainer` settles the `address` too: a container that is gone
before it is known leaves the fallback 127.0.0.1:8080, as in `Invocation`, where
`StrangerAnswers` is whatever listens there; `foreign` records which requests
it answered. An answer is only what its assertions make of it: they hold, one
fails, or the failure report cannot be built.

**`ScenarioContract`** - what the caller of `execute_concurrent` may rely on:
no threads, no map, no loop; requests answered batch after batch, and one
report that is a verdict for each request or an exception. It promises that the
report judges the answers given, not that the container gave them: with the
`target` the fallback, anybody may have. `ConcurrentScenario` instantiates it (`Contract`) and implements it (`ImplementsContract`).

**`DriverContract`** - what `run_suite` may rely on of a driver that runs a
container for a test: at most one container, a response only from one that was
started, and none left running unless the driver raises something `run_suite`
does not catch. Both drivers implement it (`ImplementsContract`).

**`Invocation`** - `_capture`, `_get_local_addr`, `_resolve_via_docker_inspect`,
`_wait_for_container` and the container of a single test. `place` is where the
driver runs, which decides how it asks for the address; `address` is what it
found: the container's own, a port of the host, or the fallback. Time is counted
in seconds from the start of the polling loop and passes in an attempt and in
the sleep after it; the loop reads it through a clock that `AdjustClock` moves
by up to `MaxSkew`. `Deliver` is the function getting the request;
`ConnectionError` while it has it is the retry of something that may already
have been done.

**`WebInvocation`** - `_capture`, `_render_response` and
`_convert_json_lines_to_array` of `DockerWebAppDriver`. `Prints` is the
container logging a line of some kind on `stdout` or on `stderr`: the code
captures them apart, decodes both and renders the first. `ReadLogs` and `Kill`
are the two halves of the finally clause, between which the container may go on
or exit.

**`AssertionEvaluator`** - `test`, `_verify_assertion_syntax`, `_as_type`,
`_as_resource`, `_transform`, `_compare_values` and `_render_response`. One
action per iteration of the loop: `Raise` when it is left by an exception,
`Compare` when the comparison is reached. The blocks of an iteration are
`BlockOrder`; the last one entered determines the locals. A jq program is a
partial function on values. What a response is made of (`BodyKinds`) and
whether it has a string form (`Printable`) decide which failures can be raised.

**`RequestAssertions`** - `Request.create` composed with the evaluator: what a
scenario's author writes as the assertions of a request becomes a list, and the
list judges the answer. The evaluator's variables and actions are used as they
are, so that one run checks both.

**`SuiteRun`** - `run_suite` with `_render_test`, `_fill_resource`,
`expand_template`, `apply_defaults` and `load_resource_data`. A test is a
function on its keys; a resource is a record of what its description says, from
which `LoadResource` makes a value, `Invalid`, or the exception of a transform
that fails. Lists of assertions are references into `lists`, because the code
copies dictionaries and shares the lists in them, and then extends those in
place. `Execute` may end in any way the contract of the evaluator allows.
`driver` is the one at work: `Converted` are the keys whose resources it looks
at, which for the web application driver is only the environment variables.

**`TestHarness`** - `execute_tests`, `write_test_summary`, `ScenarioLoader`. A
suite or scenario ends as `SuiteRun` and `ConcurrentScenario` allow: that each
evaluated test has one verdict (`VerdictsDeserved`) and that a scenario that
returns has a verdict for each request (`ReturnedIsComplete`) is what
`RunSuite` and `RunScenario` rest on; both are proved (`CountsAddUp`,
`CompleteReport`).

**`RunnerLifecycle`** - `Runner.__init__`, `__enter__`, `run`, `__exit__` and
the calls of the driver around the suites, for both callers of a Runner: the
test command, and `run`. `calls` is a history of what the driver was asked.

**`ActionRun`** - `main.run`, `run_test_command`, `create_network`,
`attach_to_network` and `remove_network`. The command is reduced to what the
action and the daemon see of it: it asks for containers one after the other,
kills them, and exits with a code. The daemon finishes starting a container even
when the command that asked for it has been killed. `RunAgain` is another run
of the action on the same host.

`MC*` modules give the constants values; `*Proofs` modules hold the theorems.

## What the runs check

| Run | Question | Bounds |
|---|---|---|
| `scenario` | Can any interleaving give a request another's verdict, break the barrier between batches, or kill the container under a working thread? Do the call and every thread end? Does the call implement `ScenarioContract`: a verdict for each request or an exception, and no container left? | nine scenarios: no batch, an empty one, single and threaded ones in both orders, three threads, delays on and off the threaded path; debug mode, which only prints more; each with the container there, lost before its address is known, or not started |
| `scenario_delay`, `scenario_logs` | see Findings | one scenario; the same nine |
| `invocation` | How often and how long does it poll, whose answer does it take, when does the function see a request twice? Does it implement `DriverContract`? | the timeouts of the code: 5 s, 5 s, 30 s; a clock off by up to 1 s (`MaxSkew`); all three places |
| `invocation_shared` | see Findings | the same |
| `web_invocation` | What escapes it, what is a response worth and made of? Does it implement `DriverContract`? | three lines (`MaxLines`) of six kinds, spread over both streams in any way |
| `evaluator` | Does the loop agree with the meaning of the assertions, is what it raises explained, and does a request pass by what its author wrote? | `RequestAssertions` over the evaluator: lists of up to three of fourteen assertions, dictionaries of up to three of seven entries, what is neither; seven kinds of response |
| `suite` | Does sharing of lists change a verdict, is the expansion complete, are verdicts deserved, and with what inputs is a test run? | eleven suites, one per feature (among them a template that has a value twice), and one for each of the 72 descriptions of a resource; both drivers; every subset of assertions may hold |
| `suite_template` | see Findings | one suite |
| `harness` | Are exit code and summary honest, and what does a failure to load cost? | nineteen inputs: up to two suites, four getters, three scenarios, two tests in each; a nameless scenario; each driver |
| `runner_lifecycle` | Which calls can a driver count on when any of them may raise, and is an exception ever lost? | three suites (`MaxSuites`), both callers |
| `action` | Is the exit code honest, when is the network left behind, and what does that do to the next run? | two suite files, two runs, three containers |

Why these bounds are enough. Batches only meet their neighbours (a map or a
thread left over from the one before), so two suffice, and three threads
allow two to write the map while a third dies or still waits. A list of
three assertions has one that fails, one after it and one before it. The
evaluator's key sets contain each block once and the only pair of keys that
touches the same locals twice. Three lines have a document before and after one
that is none, or documents on one stream and bytes on the other. A clock off by one second is enough to start an attempt too many
or to leave one out. Three suites have one before and one after the suite that
raises. Two runs of the action are one that leaves
something behind and one that meets it; three containers let one command leave a
container and a later one start two. Where a theorem exists the bounds matter
only for the parts the theorem does not speak of.

`CHECK_DEADLOCK` is off in every run: each of these programs ends, and its end
has no successor.

### Fairness

* `ConcurrentScenario`: the main thread and each request thread keep running.
  A request ends one way or another since `requests` is given a connect and a
  read timeout (`REQUEST_TIMEOUT`), so `Receive \/ Fail` is fair; `Answer` and
  `ContainerExits` are not, because nothing obliges the container. (A server
  that trickles its answer byte by byte could stretch a read timeout; such a
  container is not modelled.) Two docker commands of the main thread have no
  timeout in the code and are assumed to return. Nothing obliges a stranger to
  answer either (`StrangerAnswers` is not fair).
* `Invocation`: the driver keeps running, for the same reason.
* `WebInvocation`: none. Neither `docker exec` nor `hurl` is given a timeout, so
  the code does not promise that the call ends, and no property says it does.
* `RunnerLifecycle`: none; its properties are about the order of calls.
* `TestHarness`: the process keeps running, since by the two items above a
  suite or scenario ends.
* `ActionRun`: the action keeps running. Building the image and the command have
  timeouts; the other docker commands are assumed to return. The command and
  the daemon are not fair: the command may hang.

### Findings

1. `DelayHonoured` is violated: a batch of one request is sent at once
   (`docker.py:154`) although `src/README.md:76` documents `delay` without
   exception.
2. `LogsDumpedOnFailure` is violated: when one batch has a failed request and a
   later one raises, the container is killed with its logs unprinted, although
   `docker.py:126` says logs are dumped on failure, always.
3. `TemplateKeysRespected` is violated: a test that sets all the template's keys
   is not "not templated", as `suiteloader.py:40` has it; the expansion indexes
   an empty list (`suiteloader.py:60`) and the whole suite is lost.
4. `PortOnlyOnHost` is violated: with `DOCKER_SHARED_NETWORK` set, `_capture`
   looks for its container on a network it never attached it to
   (`docker.py:392`; the command is at `docker.py:291`), and a driver in a
   container falls through to what `docker.py:412` calls "Running on host".
   `AnsweredByOwn` adds that the function is then never reached.

Beyond those, some properties that hold say something less than one would like,
on purpose, because that is what the code does: `ReleasedOrUndecodable` (a
container with undecodable logs is left running),
`RawExplained` (a container that cannot be started escapes as no test failure),
`ResultsAreOwn` (all the answers of a scenario may be a stranger's, if its
container was gone before its address was known), `AllDocumentsKept` (documents
logged on stderr are lost), `VerdictsDeserved` (under the web application driver
a test whose request could not be loaded can succeed),
`ResponseEarned` (no assertion on an error can pass with the web application
driver), `PassesAsWritten` and `NeverPasses` (assertions that every answer
meets, or fails), `InputsExplained` (a default's reference beats the test's own
value), `Bracketed` (no teardown after a setup that raised),
`RepeatedOnlyAfterCut` (a function may see a request twice), `JudgedByOwn` (a
shared list of assertions grows with each test), `SummaryAgrees` (the notice of
success can precede exit code 1), `NetworkLeftExplained` and `StuckNetwork` (a
network left behind fails every later run for scenarios).

## What is proved

Every invariant that a passing run checks is also a theorem, for arbitrary
values of the constants, and so are the three refinements. The proofs use the
assumptions named in the modules:

| Assumption | What it says | Why the code justifies it |
|---|---|---|
| `ScenarioAssumption`, `TimingAssumption`, `LinesAssumption`, `ActionAssumption`, `SuitesAssumption` | widths, timeouts and bounds are numbers and fit | they are constants of the code, or bounds of the model |
| `EvaluatorAssumption` | an assertion gives a value to each of its keys, and a transform makes values of values | it is a dictionary; the second part relates constants of the model |
| `CreateAssumption` | what an author writes is a dictionary, a list or neither, and what the entries of a dictionary become is among the assertions the evaluator is given | `Request.create` tells nothing else apart; the second part relates two constants of the model |
| `HarnessAssumption` | patterns and getters are lists of names | they come from `glob` and from lists |
| `SuiteAssumption` | a suite has its required keys; tests, template values and assertions are lists; tests, defaults and heap are dictionaries, which have a key once; a reference to a list of assertions is to one that exists, and not to the suite's own | `run_suite` has checked or read the keys when the model begins; JSON has lists and dictionaries, and every array in a JSON file is loaded as a list of its own |

Each theorem rests on an inductive invariant, model-checked before it was
proved. Some of the theorems state a property that no run lists because a listed
one has it as a part or nearly so: `ReturnedIsComplete`, `ContainerReleased` and
`ReleasedOrUndecodable` beside the contracts, `NeverPasses` beside
`PassesAsWritten`.

* `ConcurrentScenarioProofs`. None of the properties is inductive by itself: a
  verdict is right only if the map is. `IInv` adds where the main thread can be
  (`PhaseInv`), that active threads are inside their batch unless a failed start
  abandoned them (`ActiveInv`), that answers exist only up to the current batch
  (`AnswerInv`), what the address says of the container (`AddressInv`), that a
  stranger has given all the answers or none (`ForeignInv`), that the map holds this batch's answers (`MapInv`), and that
  what was collected was answered in full (`ResultInv`). From it: `TypeCorrect`,
  `OwnResults`, `CompleteReport`, `Barrier`, `QuietKill`, `Released`.
  `Refinement` takes each action to a step of `ScenarioContract` or to a stutter:
  a thread's answer is `Reply`, due because the earlier batches are answered
  (`AnswerRefines`); the report is `Complete`, because each result judges what
  was seen (`ReportRefines`); an exception is `GiveUp` (`RaisesGivesUp`).
* `InvocationProofs`. `Pace` says that each failed attempt has cost a second, so
  attempts cannot outrun the clock; `Deliveries` that deliveries are the posts
  cut off plus the one under way; what the address says of the container and
  the place gives `Ownership`. From them also: `TypeCorrect`, `BoundedPolling`,
  `Repetition`, `Released`, `Refinement`.
* `WebInvocationProofs`. The invariant says what each position knows of
  container, hurl and outcome; a container that is up at the end was left by
  undecodable logs. From it: `TypeCorrect`, `RawCauses`, `Released`, `Earning`,
  `Refinement`. `ConvertFacts` says what the loop over the lines returns, by
  induction; from it that `_render_response` makes a response of documents
  (`RenderedType`), which `TypeCorrect` needs, and with
  `KeptStays` (later lines move nothing): `NothingIsDropped`.
* `AssertionEvaluatorProofs`, about the evaluator and about `RequestAssertions`,
  which composes with it. `OneKey` and `OneBlock` show that under the strict
  syntax an iteration enters one block, so no local survives from another;
  `IterationDecides` that an iteration therefore decides what the assertion
  says; the loop invariant relates `toThrow` to the prefix judged so far. From
  it: `EvaluatorCorrect`. `ImmediateStable` says that how an iteration fails
  does not depend on the locals, strict syntax or not; from it: `FailureCorrect`
  and, with `LocalsTyped` (a comparison has a block, which has bound both
  locals), `TypeCorrect`. The composition implements the evaluator
  (`RequestImplementsEvaluator`), so `EvaluatorCorrect` carries over; what each
  entry of a dictionary becomes says the same as the entry (`SingleHolds`). From
  these: `AsWritten`, `CannotPass`. Both assume `Strict`, as the drivers do.
* `SuiteRunProofs`. First what the expansion computes: `TemplateKeysFacts`,
  `PickStep` and `ExpansionsFacts` follow the two recursions of
  `suiteloader.py`, `FlattenFacts` the nested loop. Then the run. The
  difficulty is the heap: a list of assertions is shared by template copies and
  by users of a default, and `Execute` judges a test by what the list is at that
  moment. `Growth` says that every list holds what it held in the file and
  nothing else but assertions of the suite, that it is no longer than one copy
  of these for each test rendered so far makes it, and that the suite's own list
  is untouched (`SuiteAssumption` is what keeps it so);
  `Rendering` that a test on its way still has the list it was written with;
  `Judged` and `Verdicts` say this of the tests already evaluated. `Typed` says
  that copying, merging and filling dictionaries brings in no data but the
  suite's and what was loaded (`TypedInvariance`). From them:
  `TypeCorrect`, `JudgedFairly`, `VerdictsAreDeserved`, `CountsAddUp`,
  `InputsAreExplained`;
  and from `Expanded`, which relates the expanded tests to the choices the
  template leaves: `ExpansionIsComplete`.
* `TestHarnessProofs`. `Track` says that the report is a prefix of what was
  found, `Flag` that the flag is up exactly when the prefix has a run that did
  not go well. From them: `ExitCode`. `Loaded` counts, for each
  name, what the getters called so far have returned (`Cells`): calling one more
  adds what it returns and nothing else (`CellsStep`, `WhereConcat`), hence
  `LossIsContained`. `Accounts` says that each entry of the report counts its
  tests once, and `TotalFacts` that sums along the report then do, by
  induction; with `Printed`, which ties summary, report and exit code:
  `SummaryIsHonest` and, since the totals are numbers, the part of `TypeCorrect`
  that is about the summary (`SummaryInvariance`).
* `RunnerLifecycleProofs`. The properties speak of the whole history of calls,
  the actions only of its end. `Whereabouts` and `LastPrepared` say what the
  last call is at each position, `Ends` which calls stand first and last,
  `InTurn` that the calls are about the suites in turn, and `Progress` that the
  suites behind the one at hand are done. From them: `TypeCorrect`,
  `Cleaned`, `Bracketing`, `NoLoss`.
* `ActionRunProofs`. That no network is left behind by a run whose command ended
  is a statement about the daemon: `DaemonState` says that, unless a command was
  cut off, only the container the command waits for is being launched, so that
  none joins after `docker network inspect`. `Progress` and `CommandState` say
  where the action and its command can be. From them: `TypeCorrect`, `ExitCode`,
  `NetworkLeft`.

Induction. The library's induction theorems take an operator as a parameter,
and no installed prover can instantiate one. What is needed of them here is
first-order, though: a set of numbers that is not empty has a least one
(`LeastNumber`, from the well-foundedness of `<` on the naturals), so a set that
holds 0 and with each number the next holds all (`SetInduction`). The functions
that the loops of the code become are recursive functions on `0 .. n`; that
the function exists, and what it returns, are both proved this way.

Only model-checked: the liveness properties (`Termination`, `AllScenariosRun`,
`StuckNetwork`), which need fairness and ENABLED and are out of the prover's
reach. No module that is proved about uses a RECURSIVE operator.

## What is not modelled

* Contents: payloads, headers, names of containers, the text of messages and
  logs. Answers are kept only as what the assertions make of them.
* An address of a container that has gone is assumed not to be given to another
  container or process while its driver still uses it.
* A scenario file that calls `sys.exit` when it is imported or asked for its
  scenarios: `scenario_loader.py:40` catches `Exception` only, so the test command
  ends there with the code the file chose. `TestHarness` takes scenario files
  that only define scenarios or fail, and `HonestExit` is about those.
* The `KeyError` of a templated test without a name; to `TestHarness` it is one of
  the ways `SuiteRaises` happens. Nor does `SuiteRun` model that references inside
  an assertion are filled in place: an assertion is one thing before and after.
* Python's equality across JSON types (`1 == True`): the evaluator compares
  values for identity.
* The text between the lines of a log, and log lines other than the six kinds
  `WebInvocation` tells apart. `docker logs` is assumed to show a running
  container's lines as they were printed.
* Drivers from elsewhere, except in `RunnerLifecycle`, where every call of a
  driver may raise, and in that a test may be skipped.
* Starting processes: `docker` and `python` are assumed to be there. Network
  commands are assumed to fail only for the state of the network: creating one
  that exists, removing one in use.
* In `ActionRun`, a host is used again only when the daemon has finished what
  it was asked for (the guard of `RunAgain`); later stops of containers are
  modelled.
* Reading and parsing files: a file that is no suite is one of the ways
  `SuiteRaises` happens (`ReadSuites` in `RunnerLifecycle`).
* `summarize_results`, which prints; `register`, `generate_tests` and
  `add_testsuite_prefix`, which nothing in the package calls. The overrides of
  `run_suite` are empty in every call the command makes.
* `logger.py` and `jq_utils.py`: formatting, and a call into a library.

## Plan

Done, in this order: `ConcurrentScenario` with its contract and proofs,
`Invocation`, `AssertionEvaluator`, `SuiteRun`, `TestHarness`, `ActionRun` and
proofs; then `DriverContract` with both drivers, `RequestAssertions`, resources
in `SuiteRun`, `RunnerLifecycle`, and the refinement proofs; then the proofs
about `SuiteRun`, `RunnerLifecycle`, the summary and loading of `TestHarness`,
and the documents of `WebInvocation`.

Next: the safety part of the liveness properties, where it says something by
itself.
