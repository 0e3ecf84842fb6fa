------------------------------ MODULE MCSuiteRun ------------------------------
(* Suites for TLC, one per feature of a suite file that run_suite handles.   *)
EXTENDS SuiteRun, TLC

NoDict == [k \in {} |-> ""]

(* The assertions are "own" and "other"; "glob" is the suite's. *)
Heap == "L1" :> <<"own">> @@ "L2" :> <<"other">> @@ Glob :> <<"glob">>

Describe(type, src, inline, transform) ==
  [type |-> type, src |-> src, inline |-> inline, transform |-> transform]
Inline == Describe("other", "none", TRUE, "none")
Broken == Describe("json", "text", TRUE, "none")

Suite(ts, dflt) ==
  [tests |-> ts, default |-> dflt, lists |-> Heap,
   resources |-> "res" :> Inline @@ "broken" :> Broken]
With(field, v) == [f \in {field} |-> v]

Own   == "assertions" :> "L1"
Other == "assertions" :> "L2"
Key(k, vs) == [key |-> k, values |-> vs]

(* Two tests share the default list, the third has its own. *)
SharedDefault == Suite(<<NoDict, "request" :> "r", Other>>, Own)

(* Copies of a test share its list; the second test leaves one key open. *)
Templated ==
  Suite(<<Own, Other @@ "memory" :> "m1">>, NoDict) @@
  With("template", <<Key("memory", <<"m1", "m2">>), Key("runtime", <<"p1">>)>>)

TwoKeys ==
  Suite(<<Own>>, NoDict) @@
  With("template", <<Key("memory", <<"m1", "m2">>), Key("runtime", <<"p1", "p2">>)>>)

(* A value that occurs twice makes two tests of the same choice. *)
Repeated ==
  Suite(<<Own>>, NoDict) @@ With("template", <<Key("memory", <<"m1", "m1">>)>>)

(* The lists themselves come from the template, for both tests. *)
TemplatedLists ==
  Suite(<<NoDict, "request" :> "r">>, NoDict) @@
  With("template", <<Key("assertions", <<"L1", "L2">>)>>)

(* Resources: found, broken, not there at all, and one instead of a request; *)
(* broken ones that one driver uses, or both.                                *)
Referring ==
  {Suite(<<Own @@ "request.ref" :> "res", Other @@ "request.ref" :> "broken",
           "request.ref" :> "nowhere">>, Own),
   Suite(<<Own @@ "environmentVariables.ref" :> "broken",
           Own @@ "environmentVariables.ref" :> "res" @@ "request.ref" :> "broken">>, NoDict),
   Suite(<<Own @@ "request" :> "r">>, "request.ref" :> "res")}

(* Every description of a resource. *)
Resourceful ==
  {[Suite(<<Own @@ "request.ref" :> "res">>, NoDict) EXCEPT !.resources = "res" :> d] :
     d \in [type : {"none", "json", "other"}, src : {"none", "missing", "text", "document"},
            inline : BOOLEAN, transform : {"none", "applies", "fails"}]}

(* An index: the outer suite brings template, assertions and defaults. *)
Indexed ==
  Suite(<<>>, "request" :> "outer") @@
  With("template", <<Key("memory", <<"m1", "m2">>)>>) @@
  With("index", [tests |-> <<Own, NoDict>>,
                 default |-> Other @@ "request.ref" :> "res",
                 resources |-> "res" :> Describe("other", "text", TRUE, "applies")])

(* Something raises: a test has no assertions, an xray is a resource.     *)
Raising ==
  {Suite(<<Own, NoDict>>, NoDict),
   Suite(<<Own, Other @@ "xray.ref" :> "res">>, NoDict)}

MCSuites ==
  {SharedDefault, Templated, TwoKeys, Repeated, TemplatedLists, Indexed}
  \cup Referring \cup Resourceful \cup Raising

(* The second test sets the only key of the template itself. *)
FullySet ==
  {Suite(<<Own, Other @@ "memory" :> "m3">>, NoDict) @@
   With("template", <<Key("memory", <<"m1", "m2">>)>>)}
===============================================================================
