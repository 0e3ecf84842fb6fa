-------------------------- MODULE MCRequestAssertions --------------------------
(* Requests for TLC: all lists of up to three of the assertions below, and   *)
(* every sequence of up to three of the entries a dictionary may have.       *)
EXTENDS RequestAssertions

(* Each kind of block, each way for one to fail, and a comparison of every   *)
(* kind of part that differs.                                                *)
Plain  == [v \in Values |-> v]
Fails  == [v \in {} |-> v]
ToText == [v \in {"object", "text", "tagged"} |-> "text"]

Make(keys, want, transform) == [keys |-> keys, want |-> want, transform |-> transform]
One(k, v) == Make({k}, [x \in {k} |-> v], Plain)

Written ==
  {One("response", "object"), One("response", "text"), One("response", Invalid),
   One("error", "error"), One("contentType", "json"), One("errorType", "type"),
   One("responseContentType", "unknown"), One("tail-logs", "null"),
   One("logs", "text"), One("metrics", "object"), One("unknown-key", "text"),
   Make({"response"}, [x \in {"response"} |-> "text"], ToText),
   Make({"logs"}, [x \in {"logs"} |-> "null"], Fails),
   Make({"error", "responseContentType"},
        [x \in {"error", "responseContentType"} |->
           IF x = "error" THEN "error" ELSE "json"], Plain)}
WrittenLists == UNION {[1 .. n -> Written] : n \in 0 .. 3}

(* One entry is a transform, and one is no assertion.                        *)
Wants ==
  [k \in {"response", "error", "errorType", "contentType", "responseContentType", "extra"} |->
     CASE k = "response" -> "text"
       [] k = "error" -> "error"
       [] k = "errorType" -> "type"
       [] OTHER -> "json"]
Entries == DOMAIN Wants \cup {"transform"}

Dict(keys) == [kind |-> "dict", items |-> keys, want |-> Wants, transform |-> ToText]
Distinct(s) == \A i, j \in DOMAIN s : s[i] = s[j] => i = j
Dicts == {Dict(s) : s \in {t \in UNION {[1 .. n -> Entries] : n \in 0 .. 3} : Distinct(t)}}

MCAssertions == Written \cup {Single(Dict(<<>>), k) : k \in Entries}
MCGivens ==
  Dicts \cup {[kind |-> "list", list |-> l] : l \in WrittenLists}
  \cup {[kind |-> "none"], [kind |-> "other"]}
===============================================================================
