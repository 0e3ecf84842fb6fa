----------------------------- MODULE MCTestHarness -----------------------------
(* Inputs for TLC: suites only, scenarios only, both, and nothing to run;    *)
(* a scenario without a name, the driver that runs none, and no driver.      *)
EXTENDS TestHarness

MCNames == {"s1", "s2", "c1", "c2", "c3", "c4"}

Getter(names, loads, returns) == [scenarios |-> names, loads |-> loads, returns |-> returns]

(* The second getter fails; the third is in a file that cannot be imported. *)
Getters ==
  <<Getter(<<"c1">>, TRUE, TRUE), Getter(<<"c3">>, TRUE, FALSE),
    Getter(<<"c4">>, FALSE, TRUE), Getter(<<"c2">>, TRUE, TRUE)>>
Twice == <<Getter(<<"c1", "c2">>, TRUE, TRUE), Getter(<<"c2">>, TRUE, TRUE)>>

One == <<<<"s1">>>>
Patterns == {<<>>, One, <<<<"s1", "s2">>>>, <<<<"s1">>, <<>>>>, <<<<"s2">>, <<"s2">>>>}
Input(d, p, g, n) == [driver |-> d, patterns |-> p, getters |-> g, nameless |-> n]

MCInputs ==
  {Input("docker", p, g, {}) : p \in Patterns, g \in {<<>>, Getters}}
  \cup {Input("docker", <<>>, g, {}) : g \in {Twice, Tail(Getters)}}
  \cup {Input("docker", p, g, {"c2"}) : p \in {<<>>, One}, g \in {Getters, Twice}}
  \cup {Input("webapp", p, Getters, {}) : p \in {<<>>, One}}
  \cup {Input("unknown", One, <<>>, {})}
===============================================================================
