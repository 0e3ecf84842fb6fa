-------------------------------- MODULE SuiteRun --------------------------------
(***************************************************************************)
(* Runner.run_suite (runner.py) on one suite, with the SuiteLoader methods *)
(* it calls (suiteloader.py): an index suite is replaced by the suite it   *)
(* fetches, the tests are expanded from a template, and then each test is  *)
(* rendered and executed in turn.                                          *)
(*                                                                         *)
(* A test is a dictionary, here a function on its keys.  Dictionaries are  *)
(* copied by the code, but the lists of assertions in them are not: a      *)
(* value under "assertions" is a reference into lists, the heap, which all *)
(* the copies of a test and all the users of a default share, and which    *)
(* rendering extends in place.  Only the keys a property is about occur.   *)
(*                                                                         *)
(* A suite describes its resources by records of                           *)
(*   type       the content type: "none", "json" or "other",               *)
(*   src        the file named: "none", one that cannot be read, "missing",*)
(*              one that is JSON, "document", or one that is not, "text",  *)
(*   inline     whether data is given,                                     *)
(*   transform  the jq program: "none", "applies" or "fails".              *)
(* Loading makes a value of each, Invalid when it cannot be had.           *)
(***************************************************************************)
EXTENDS Naturals, Sequences, SequencesExt

CONSTANT Suites  \* the suites that may be run, see SuiteAssumption

Invalid    == "invalid"           \* a resource that could not be loaded,
Unloadable == "unloadable"        \* and one that raises when it is loaded
Glob       == "suite assertions"  \* the reference to the suite's own list

(* The keys with a resource name for value, and the keys they fill. *)
RefKeys == {"request.ref", "environmentVariables.ref", "xray.ref"}
Filled(r) ==
  CASE r = "request.ref" -> "request"
    [] r = "environmentVariables.ref" -> "environmentVariables"
    [] r = "xray.ref" -> "xray"

(* What loading makes of a resource that does not raise. *)
LoadedData == {Invalid, "transformed", "file", "data"}

Drivers == {"docker", "webapp"}

(* A suite has a template or an index only if it has that key. *)
Fields  == {"tests", "default", "resources"}
Has(s, field) == field \in DOMAIN s

IsList(s) == s \in Seq(Range(s))
IsMapping(d) == d \in [DOMAIN d -> Range(d)]
Descriptions ==
  [type : {"none", "json", "other"}, src : {"none", "missing", "text", "document"},
   inline : BOOLEAN, transform : {"none", "applies", "fails"}]

(* The suite's own assertions are a list apart in the file, so nothing else *)
(* in it refers to that list; and a dictionary has each key once.           *)
ASSUME SuiteAssumption ==
  \A s \in Suites :
    /\ Fields \cup {"lists"} \subseteq DOMAIN s
    /\ DOMAIN s \subseteq Fields \cup {"lists", "template", "index"}
    /\ IsMapping(s.lists)
    /\ Glob \in DOMAIN s.lists /\ \A l \in DOMAIN s.lists : IsList(s.lists[l])
    /\ Has(s, "index") => DOMAIN s.index = Fields
    /\ \A t \in {s} \cup (IF Has(s, "index") THEN {s.index} ELSE {}) :
         /\ Range(t.resources) \subseteq Descriptions
         /\ IsList(t.tests)
         /\ \A d \in Range(t.tests) \cup {t.default} :
              /\ IsMapping(d)
              /\ "assertions" \in DOMAIN d => d["assertions"] \in DOMAIN s.lists \ {Glob}
    /\ Has(s, "template") =>
         /\ IsList(s.template)
         /\ \A i, j \in DOMAIN s.template : s.template[i].key = s.template[j].key => i = j
         /\ \A t \in Range(s.template) :
              /\ IsList(t.values)
              /\ t.key = "assertions" => Range(t.values) \subseteq DOMAIN s.lists \ {Glob}

VARIABLES
  driver,     \* the driver of the runner
  suite,      \* the suite as it was loaded
  pc,         \* "load", "expand", "render", "execute", "done" or "crashed"
  resources,  \* test_resources, by name
  default,    \* test_default
  tests,      \* the tests after expansion, as the loop will see them
  lists,      \* the heap of assertion lists
  next,       \* index of the test the loop is at
  evaluated,  \* test_results.evaluated, with what each test was judged by
  succeeded,  \* test_results.succeeded, as indices into evaluated
  failed,     \* test_results.failed, likewise
  skipped     \* test_results.skipped, likewise

results == <<evaluated, succeeded, failed, skipped>>
vars == <<driver, suite, pc, resources, default, tests, lists, next, results>>

Init ==
  /\ driver \in Drivers
  /\ suite \in Suites
  /\ pc = "load"
  /\ resources = [name \in {} |-> Invalid] /\ default = suite.default
  /\ tests = <<>> /\ lists = suite.lists /\ next = 1
  /\ evaluated = <<>> /\ succeeded = <<>> /\ failed = <<>> /\ skipped = <<>>

-------------------------------------------------------------------------------
(* apply_defaults: the content's own values win. *)
WithDefaults(content, defaults) ==
  [k \in DOMAIN content \cup DOMAIN defaults |->
     IF k \in DOMAIN content THEN content[k] ELSE defaults[k]]

(* A test as the loop meets it: which test of the suite, and its dictionary. *)
Test(n, pick, dict) == [origin |-> n, pick |-> pick, dict |-> dict]

(***************************************************************************)
(* load_resource_data.  The file counts even if data is given as well; the *)
(* handler of a transform that fails reads data, which need not be there.  *)
(***************************************************************************)
Readable(d) == d.src = "document" \/ (d.src = "text" /\ d.type # "json")
Complete(d) == d.type # "none" /\ (d.src # "none" \/ d.inline)
Mut_LoadResource(d) ==
  IF ~ Complete(d) \/ (d.src # "none" /\ ~ Readable(d) /\ ~ d.inline) THEN Invalid
  ELSE IF d.transform = "fails" THEN IF d.inline THEN Invalid ELSE Unloadable
  ELSE IF d.transform = "applies" THEN "transformed"
  ELSE IF Readable(d) THEN "file" ELSE "data"
LoadResource(d) ==
  IF ~ Complete(d) \/ (d.src # "none" /\ ~ Readable(d)) THEN Invalid
  ELSE IF d.transform = "fails" THEN IF d.inline THEN Invalid ELSE Unloadable
  ELSE IF d.transform = "applies" THEN "transformed"
  ELSE IF d.src # "none" THEN "file" ELSE "data"

Loaded(s) == [name \in DOMAIN s.resources |-> LoadResource(s.resources[name])]

(***************************************************************************)
(* The tests of the suite, or of the suite that the index fetches.  The    *)
(* template and the suite assertions stay those of the outer suite; the    *)
(* resources are only the fetched suite's, and its defaults fill the gaps  *)
(* of the outer ones.  Fetching runs a container: any failure escapes, as  *)
(* does the KeyError of a resource read from a file whose transform fails. *)
(***************************************************************************)
Source == IF Has(suite, "index") THEN suite.index ELSE suite

AllLoad == \A s \in {suite, Source} : Unloadable \notin Range(Loaded(s))

Load ==
  /\ pc = "load"
  /\ \/ /\ AllLoad
        /\ tests' = [n \in DOMAIN Source.tests |-> Test(n, [k \in {} |-> ""], Source.tests[n])]
        /\ resources' = Loaded(Source)
        /\ default' = WithDefaults(default, Source.default)
        /\ pc' = IF Has(suite, "template") THEN "expand" ELSE "render"
     \/ /\ ~ AllLoad \/ Has(suite, "index")
        /\ pc' = "crashed"
        /\ UNCHANGED <<tests, resources, default>>
  /\ UNCHANGED <<driver, suite, lists, next, results>>

(* The keys of the template, in order, that a test does not set itself. *)
Mut_TemplateKeys(dict) == suite.template
TemplateKeys(dict) ==
  LET open[i \in 0 .. Len(suite.template)] ==
        IF i = 0 THEN <<>>
        ELSE IF suite.template[i].key \in DOMAIN dict THEN open[i - 1]
        ELSE Append(open[i - 1], suite.template[i])
  IN  open[Len(suite.template)]

(***************************************************************************)
(* _generate_template_expansion: every choice of a value for each key, the *)
(* values of the first key varying slowest.                                *)
(***************************************************************************)
Expansions(keys) ==
  LET Choose(t, v, rest) == WithDefaults([k \in {t.key} |-> v], rest)
      from[i \in 1 .. Len(keys)] ==
        FlattenSeq([j \in DOMAIN keys[i].values |->
          IF i = Len(keys)
            THEN <<Choose(keys[i], keys[i].values[j], [k \in {} |-> ""])>>
            ELSE [m \in DOMAIN from[i + 1] |->
                    Choose(keys[i], keys[i].values[j], from[i + 1][m])]])
  IN  from[1]

(***************************************************************************)
(* expand_template builds the whole list before any test runs.  A test     *)
(* that sets every key of the template leaves no key to begin with:        *)
(* keys[0] raises IndexError and nothing of the suite is run.              *)
(***************************************************************************)
Copies(t) ==
  LET states == Expansions(TemplateKeys(t.dict)) IN
  [m \in DOMAIN states |-> Test(t.origin, states[m], WithDefaults(t.dict, states[m]))]

Expand ==
  /\ pc = "expand"
  /\ IF \E n \in DOMAIN tests : TemplateKeys(tests[n].dict) = <<>>
       THEN pc' = "crashed" /\ UNCHANGED tests
       ELSE /\ tests' = FlattenSeq([n \in DOMAIN tests |-> Copies(tests[n])])
            /\ pc' = "render"
  /\ UNCHANGED <<driver, suite, resources, default, lists, next, results>>

(* _fill_resource: a key "k.ref" is popped and its resource put under "k". *)
Resource(name) == IF name \in DOMAIN resources THEN resources[name] ELSE Invalid
Fill(dict) ==
  LET refs == DOMAIN dict \cap RefKeys IN
  [k \in (DOMAIN dict \ refs) \cup {Filled(r) : r \in refs} |->
     IF \E r \in refs : Filled(r) = k
       THEN Resource(dict[CHOOSE r \in refs : Filled(r) = k])
       ELSE dict[k]]

(* test["assertions"] += glob_assertions extends the list it refers to. *)
Mut_Extend(heap, l) ==
  [heap EXCEPT ![l] = @ \o heap[Glob], ![Glob] = @ \o heap[l]]
Extend(heap, l) == [heap EXCEPT ![l] = @ \o heap[Glob]]

(***************************************************************************)
(* _render_test, outside the try of the loop: a test without assertions,   *)
(* its own or a default, raises KeyError; one whose xray comes from a      *)
(* resource raises when the xray defaults are applied to it.               *)
(***************************************************************************)
Render ==
  /\ pc = "render" /\ next <= Len(tests)
  /\ LET merged == WithDefaults(tests[next].dict, default)
         dict   == Fill(merged) IN
     IF "assertions" \notin DOMAIN dict
       THEN pc' = "crashed" /\ UNCHANGED <<tests, lists>>
       ELSE /\ lists' = Extend(lists, dict["assertions"])
            /\ tests' = [tests EXCEPT ![next].dict = dict]
            /\ pc' = IF "xray.ref" \in DOMAIN merged THEN "crashed" ELSE "execute"
  /\ UNCHANGED <<driver, suite, resources, default, next, results>>

(* The entry of a test, with the assertions that hold of its response. *)
Entry(holding) ==
  [test |-> tests[next], judged |-> lists[tests[next].dict["assertions"]],
   holding |-> holding]

(***************************************************************************)
(* driver.execute: an invalid resource under a key that the driver         *)
(* converts fails the test, one under another key is never looked at; then *)
(* the evaluator has the last word (its contract is PassesIffAllHold of    *)
(* AssertionEvaluator).  The driver may also skip the test, fail it before *)
(* it is judged, or raise something that nobody catches, and then the test *)
(* has been recorded as evaluated but has no verdict.  (Only a driver from *)
(* elsewhere skips: run_suite provides for it, the two here never do.)     *)
(***************************************************************************)
Converted ==
  IF driver = "docker"
    THEN {"request", "environmentVariables", "clientContext", "cognitoIdentity", "xray"}
    ELSE {"environmentVariables"}

Mut_Passes(e) ==
  e.judged = <<>> \/ e.judged[1] \in e.holding
Passes(e) ==
  Invalid \notin {e.test.dict[k] : k \in DOMAIN e.test.dict \cap Converted}
  /\ Range(e.judged) \subseteq e.holding

(* The index that the test now executed has in evaluated. *)
Mut_Latest == Len(evaluated)
Latest     == Len(evaluated) + 1

Execute ==
  /\ pc = "execute"
  /\ \E holding \in SUBSET Range(lists[tests[next].dict["assertions"]]) :
       LET e == Entry(holding) IN
       /\ evaluated' = Append(evaluated, e)
       /\ \/ /\ Passes(e) /\ succeeded' = Append(succeeded, Latest)
             /\ UNCHANGED <<failed, skipped>> /\ pc' = "render"
          \/ /\ failed' = Append(failed, Latest)
             /\ UNCHANGED <<succeeded, skipped>> /\ pc' = "render"
          \/ /\ skipped' = Append(skipped, Latest)
             /\ UNCHANGED <<succeeded, failed>> /\ pc' = "render"
          \/ UNCHANGED <<succeeded, failed, skipped>> /\ pc' = "crashed"
  /\ next' = next + 1
  /\ UNCHANGED <<driver, suite, resources, default, tests, lists>>

Finish ==
  /\ pc = "render" /\ next > Len(tests)
  /\ pc' = "done"
  /\ UNCHANGED <<driver, suite, resources, default, tests, lists, next, results>>

Next ==
  \/ Load
  \/ Expand
  \/ Render
  \/ Execute
  \/ Finish

Spec == Init /\ [][Next]_vars

-------------------------------------------------------------------------------
(* Properties. *)

Phases == {"load", "expand", "render", "execute", "done", "crashed"}

(***************************************************************************)
(* What may occur: the assertions written in the suite; and in a test or a *)
(* default, what the suite files and the template give, or a resource that *)
(* was loaded.                                                             *)
(***************************************************************************)
Assertions == UNION {Range(suite.lists[l]) : l \in DOMAIN suite.lists}
Offered ==
  IF Has(suite, "template") THEN UNION {Range(t.values) : t \in Range(suite.template)} ELSE {}
Data ==
  LoadedData \cup Offered
  \cup UNION {Range(d) : d \in Range(Source.tests) \cup {suite.default, Source.default}}

IsDictionary(d) == d \in [DOMAIN d -> Data]
IsTest(t) ==
  /\ t = Test(t.origin, t.pick, t.dict)
  /\ t.origin \in DOMAIN Source.tests /\ IsDictionary(t.pick) /\ IsDictionary(t.dict)
IsEntry(e) ==
  /\ e = [test |-> e.test, judged |-> e.judged, holding |-> e.holding]
  /\ IsTest(e.test) /\ e.judged \in Seq(Assertions) /\ e.holding \subseteq Assertions

(***************************************************************************)
(* Every variable has its type.  In particular a test has only data of its *)
(* suite, no resource that raised was kept, and a verdict refers to a test *)
(* that was evaluated.                                                     *)
(***************************************************************************)
TypeOK ==
  /\ driver \in Drivers /\ suite \in Suites /\ pc \in Phases
  /\ DOMAIN resources \subseteq DOMAIN Source.resources
  /\ resources \in [DOMAIN resources -> LoadedData]
  /\ IsDictionary(default)
  /\ IsList(tests) /\ \A n \in DOMAIN tests : IsTest(tests[n])
  /\ lists \in [DOMAIN suite.lists -> Seq(Assertions)]
  /\ next \in 1 .. (Len(tests) + 1)
  /\ IsList(evaluated) /\ \A n \in DOMAIN evaluated : IsEntry(evaluated[n])
  /\ Len(evaluated) = next - 1
  /\ \A s \in {succeeded, failed, skipped} : s \in Seq(DOMAIN evaluated)

(***************************************************************************)
(* The list of assertions a test was written with: its own, the one its    *)
(* template choice or else a default gives it.                             *)
(***************************************************************************)
Written(t) ==
  LET from(d) == "assertions" \in DOMAIN d
      ref == IF from(Source.tests[t.origin]) THEN Source.tests[t.origin]["assertions"]
             ELSE IF from(t.pick) THEN t.pick["assertions"]
             ELSE IF from(suite.default) THEN suite.default["assertions"]
             ELSE Source.default["assertions"]
  IN  suite.lists[ref]

(***************************************************************************)
(* A test is judged by the assertions it was written with and those of the *)
(* suite, and by no others: that template copies and users of a default    *)
(* share one list, which each of them extends, changes no verdict.  It is  *)
(* judged by at most one more copy of the suite's assertions for each test *)
(* rendered before it, and the suite's own list never grows.               *)
(***************************************************************************)
JudgedByOwn ==
  /\ lists[Glob] = suite.lists[Glob]
  /\ \A n \in DOMAIN evaluated :
       LET e == evaluated[n] IN
       /\ Range(e.judged) = Range(Written(e.test)) \cup Range(suite.lists[Glob])
       /\ Len(e.judged) <= Len(Written(e.test)) + n * Len(suite.lists[Glob])

(***************************************************************************)
(* Every test evaluated has exactly one verdict; only the last one may be  *)
(* without, when its exception left run_suite.  A test counted as a        *)
(* success met all its assertions, its own and the suite's, with every     *)
(* resource loaded that its driver uses: under the web application driver  *)
(* that is none but the environment variables, and a request that could    *)
(* not be loaded goes unnoticed.                                           *)
(***************************************************************************)
VerdictsDeserved ==
  /\ \A n \in DOMAIN evaluated :
       \/ \E s \in {succeeded, failed, skipped} : n \in Range(s)
       \/ pc = "crashed" /\ n = Len(evaluated)
  /\ Len(succeeded) + Len(failed) + Len(skipped) <= Len(evaluated)
  /\ \A n \in Range(succeeded) :
       LET e == evaluated[n] IN
       /\ Range(Written(e.test)) \cup Range(suite.lists[Glob]) \subseteq e.holding
       /\ \A k \in DOMAIN e.test.dict \cap Converted : e.test.dict[k] # Invalid

(***************************************************************************)
(* What a test is run with, key by key.  The first of the test itself, its *)
(* template choice, the suite's defaults and the fetched ones that has the *)
(* key gives the value, unless any of them refers to a resource for it:    *)
(* then it is that resource of the suite the test is from, even where a    *)
(* default refers and the test gives a value itself.                       *)
(***************************************************************************)
Given(t, k) ==
  LET layers == <<Source.tests[t.origin], t.pick, suite.default, Source.default>>
      have   == {i \in 1 .. 4 : k \in DOMAIN layers[i]}
  IN  {layers[i][k] : i \in {j \in have : \A other \in have : j <= other}}

Described(name) ==
  IF name \notin DOMAIN Source.resources THEN {Invalid}
  ELSE LET d == Source.resources[name]
           from == IF d.src = "document" \/ (d.src = "text" /\ d.type = "other") THEN "file"
                   ELSE IF d.src = "none" /\ d.inline THEN "data" ELSE Invalid
       IN  {IF d.type = "none" \/ from = Invalid \/ d.transform = "fails" THEN Invalid
            ELSE IF d.transform = "applies" THEN "transformed" ELSE from}

InputsExplained ==
  \A n \in DOMAIN evaluated :
    LET t == evaluated[n].test IN
    \A k \in DOMAIN t.dict :
      LET names == UNION {Given(t, r) : r \in {q \in RefKeys : Filled(q) = k}} IN
      t.dict[k] \in IF names # {} THEN UNION {Described(name) : name \in names}
                                  ELSE Given(t, k)

(***************************************************************************)
(* The templated tests, once expanded, are each test of the suite with     *)
(* every choice of values for the keys it leaves open, each choice once if *)
(* no key of the template has a value twice.                               *)
(***************************************************************************)
OpenKeys(n) == {t \in Range(suite.template) : t.key \notin DOMAIN Source.tests[n]}
Picks(n) ==
  {p \in [{t.key : t \in OpenKeys(n)} -> UNION {Range(t.values) : t \in OpenKeys(n)}] :
     \A t \in OpenKeys(n) : p[t.key] \in Range(t.values)}

ExpansionComplete ==
  Has(suite, "template") /\ pc \in {"render", "execute", "done"} =>
    /\ \A n \in DOMAIN Source.tests :
         {t.pick : t \in {u \in Range(tests) : u.origin = n}} = Picks(n)
    /\ (\A t \in Range(suite.template) : IsInjective(t.values)) =>
         \A i, j \in DOMAIN tests :
           tests[i].origin = tests[j].origin /\ tests[i].pick = tests[j].pick => i = j

(***************************************************************************)
(* suiteloader.py:40 says "If the test specifics a template key, then we   *)
(* do not template it".  A test that sets every key is therefore to be run *)
(* as it is; instead expanding the suite raises and no test of it is run.  *)
(***************************************************************************)
TemplateKeysRespected ==
  pc = "crashed" /\ evaluated = <<>> =>
    ~ \E n \in DOMAIN Source.tests : OpenKeys(n) = {}
===============================================================================
