---------------------------- MODULE SuiteRunProofs ----------------------------
(***************************************************************************)
(* Theorems about SuiteRun, for every suite file of the shape the model    *)
(* assumes, however many tests, lists, resources and template keys it has. *)
(*                                                                         *)
(* The expansion of a template is recursive.  What it computes is proved   *)
(* by induction, which rests on the numbers being well-founded.            *)
(***************************************************************************)
EXTENDS SuiteRun, SequenceTheorems, WellFoundedInduction, TLAPS

-------------------------------------------------------------------------------
(* Induction. *)

(* A set of numbers that is not empty has a least one.                     *)
LEMMA LeastNumber ==
  ASSUME NEW T \in SUBSET Nat, T # {}
  PROVE  \E x \in T : \A y \in T : x <= y
<1> DEFINE Less == OpToRel(<, Nat)
<1>1. IsWellFoundedOn(Less, Nat)
  BY NatLessThanWellFounded
<1>2. \A x, y \in Nat : <<y, x>> \in Less <=> y < x
  BY DEF OpToRel
<1> HIDE DEF Less
<1>3. PICK x \in T : \A y \in T : <<y, x>> \notin Less
  BY <1>1, WFMin
<1>4. \A y \in T : ~ (y < x)
  BY <1>2, <1>3
<1> QED
  BY <1>4

(* Induction over the numbers, for a property given as a set.              *)
LEMMA SetInduction ==
  ASSUME NEW S, 0 \in S, \A n \in Nat : n \in S => n + 1 \in S
  PROVE  Nat \subseteq S
<1> SUFFICES ASSUME Nat \ S # {}
             PROVE  FALSE
  OBVIOUS
<1>1. PICK x \in Nat \ S : \A y \in Nat \ S : x <= y
  BY LeastNumber
<1>2. x - 1 \in Nat /\ x - 1 \notin Nat \ S
  BY <1>1
<1> QED
  BY <1>1, <1>2

-------------------------------------------------------------------------------
(* Lists. *)

(* The length of a list is a number and its domain reaches up to it.       *)
LEMMA ListFacts ==
  ASSUME NEW s, IsList(s)
  PROVE  /\ Len(s) \in Nat /\ DOMAIN s = 1 .. Len(s)
         /\ \A i \in DOMAIN s : s[i] \in Range(s)
BY LenProperties DEF IsList, Range

(* Appending to a list, whatever the element.                              *)
LEMMA ListAppend ==
  ASSUME NEW s, NEW e, IsList(s)
  PROVE  /\ IsList(Append(s, e)) /\ Len(Append(s, e)) = Len(s) + 1
         /\ DOMAIN Append(s, e) = 1 .. (Len(s) + 1)
         /\ \A i \in DOMAIN s : Append(s, e)[i] = s[i]
         /\ Append(s, e)[Len(s) + 1] = e
         /\ Range(Append(s, e)) = Range(s) \cup {e}
<1> DEFINE A == Range(s) \cup {e}
           t == Append(s, e)
<1>1. s \in Seq(A) /\ e \in A
  BY SeqMonotonic DEF IsList
<1>2. /\ t \in Seq(A) /\ Len(t) = Len(s) + 1
      /\ \A i \in 1 .. Len(s) : t[i] = s[i]
      /\ t[Len(s) + 1] = e
  <2> HIDE DEF A
  <2> QED
    BY <1>1, AppendProperties
<1>3. IsList(t)
  BY <1>2, SeqOfRange DEF IsList
<1>4. Len(s) \in Nat /\ DOMAIN s = 1 .. Len(s) /\ DOMAIN t = 1 .. Len(t)
  BY <1>3, ListFacts
<1> HIDE DEF t
<1>5. Range(t) = Range(s) \cup {e}
  <2>1. \A i \in DOMAIN t : i \in DOMAIN s \/ i = Len(s) + 1
    BY <1>2, <1>4
  <2> QED
    BY <1>2, <1>4, <2>1 DEF Range
<1> QED
  BY <1>2, <1>3, <1>4, <1>5 DEF t

(* Putting one list behind another.                                        *)
LEMMA ListConcat ==
  ASSUME NEW s, NEW t, IsList(s), IsList(t)
  PROVE  /\ IsList(s \o t) /\ Len(s \o t) = Len(s) + Len(t)
         /\ Range(s \o t) = Range(s) \cup Range(t)
         /\ IsInjective(s) /\ IsInjective(t) /\ Range(s) \cap Range(t) = {} => IsInjective(s \o t)
<1> DEFINE A == Range(s) \cup Range(t)
<1>1. s \in Seq(A) /\ t \in Seq(A)
  BY SeqMonotonic DEF IsList
<1> HIDE DEF A
<1>2. /\ s \o t \in Seq(A) /\ Len(s \o t) = Len(s) + Len(t)
      /\ \A i \in 1 .. Len(s) + Len(t) : (s \o t)[i] = IF i <= Len(s) THEN s[i] ELSE t[i - Len(s)]
      /\ Range(s \o t) = Range(s) \cup Range(t)
  BY <1>1, ConcatProperties, RangeConcatenation
<1>3. IsList(s \o t)
  BY <1>2, SeqOfRange DEF IsList
<1>4. ASSUME IsInjective(s), IsInjective(t), Range(s) \cap Range(t) = {},
             NEW i \in DOMAIN (s \o t), NEW j \in DOMAIN (s \o t), (s \o t)[i] = (s \o t)[j]
      PROVE  i = j
  <2>1. /\ Len(s) \in Nat /\ Len(t) \in Nat /\ DOMAIN s = 1 .. Len(s) /\ DOMAIN t = 1 .. Len(t)
        /\ DOMAIN (s \o t) = 1 .. Len(s) + Len(t)
    BY <1>2, <1>3, ListFacts
  <2>2. \A k \in DOMAIN (s \o t) :
          \/ k \in DOMAIN s /\ (s \o t)[k] = s[k] /\ s[k] \in Range(s)
          \/ k - Len(s) \in DOMAIN t /\ (s \o t)[k] = t[k - Len(s)] /\ t[k - Len(s)] \in Range(t)
    <3> TAKE k \in DOMAIN (s \o t)
    <3>1. CASE k <= Len(s)
      BY <1>2, <2>1, <3>1 DEF Range
    <3>2. CASE ~ (k <= Len(s))
      <4>1. k - Len(s) \in DOMAIN t
        BY <2>1, <3>2
      <4> QED
        BY <1>2, <2>1, <3>2, <4>1 DEF Range
    <3> QED
      BY <3>1, <3>2
  <2>3. CASE i \in DOMAIN s /\ (s \o t)[i] = s[i] /\ s[i] \in Range(s)
    BY <1>4, <2>2, <2>3 DEF IsInjective
  <2>4. CASE i - Len(s) \in DOMAIN t /\ (s \o t)[i] = t[i - Len(s)] /\ t[i - Len(s)] \in Range(t)
    <3>1. j - Len(s) \in DOMAIN t /\ (s \o t)[j] = t[j - Len(s)]
      BY <1>4, <2>2, <2>4
    <3>2. i - Len(s) = j - Len(s)
      BY <1>4, <2>4, <3>1 DEF IsInjective
    <3> QED
      BY <2>1, <3>2
  <2> QED
    BY <2>2, <2>3, <2>4
<1> QED
  BY <1>2, <1>3, <1>4 DEF IsInjective

(* A function on 1 .. n is a list of length n.                             *)
LEMMA FunctionIsList ==
  ASSUME NEW n \in Nat, NEW f, f = [i \in 1 .. n |-> f[i]]
  PROVE  IsList(f) /\ Len(f) = n /\ DOMAIN f = 1 .. n
<1>1. DOMAIN f = 1 .. n
  OBVIOUS
<1>2. f \in [1 .. n -> Range(f)]
  BY DEF Range
<1>3. f \in Seq(Range(f))
  BY <1>2, SeqDef
<1>4. Len(f) \in Nat /\ DOMAIN f = 1 .. Len(f)
  BY <1>3, LenProperties
<1> QED
  BY <1>1, <1>3, <1>4 DEF IsList

(* The recursive function that FlattenSeq is defined by exists.            *)
LEMMA FlattenStep ==
  ASSUME NEW seqs, Len(seqs) \in Nat \ {0}
  PROVE  \E g : /\ FlattenSeq(seqs) = g[Len(seqs)]
                /\ g = [i \in 1 .. Len(seqs) |-> IF i = 1 THEN seqs[i] ELSE g[i - 1] \o seqs[i]]
<1> DEFINE Step(g, n) == [i \in 1 .. n |-> IF i = 1 THEN seqs[i] ELSE g[i - 1] \o seqs[i]]
           S == {n \in Nat : \E g : g = Step(g, n)}
<1>1. 0 \in S
  <2>1. [i \in {} |-> 0] = Step([i \in {} |-> 0], 0)
    OBVIOUS
  <2> QED
    BY <2>1
<1>2. ASSUME NEW n \in Nat, n \in S
      PROVE  n + 1 \in S
  <2>1. PICK g : g = Step(g, n)
    BY <1>2
  <2> DEFINE h == [i \in 1 .. (n + 1) |-> IF i = 1 THEN seqs[i] ELSE g[i - 1] \o seqs[i]]
  <2>2. \A i \in 1 .. n : h[i] = g[i]
    <3>1. \A i \in 1 .. n : g[i] = Step(g, n)[i]
      BY <2>1
    <3> QED
      BY <3>1
  <2>3. h = Step(h, n + 1)
    <3>1. \A i \in 1 .. (n + 1) : i # 1 => i - 1 \in 1 .. n
      OBVIOUS
    <3> QED
      BY <2>2, <3>1
  <2>4. \E f : f = Step(f, n + 1)
    <3> HIDE DEF h, Step
    <3> QED
      BY <2>3
  <2> HIDE DEF Step
  <2> QED
    BY <2>4
<1>3. Len(seqs) \in S
  <2> HIDE DEF S
  <2> QED
    BY <1>1, <1>2, SetInduction
<1>4. \E g : g = Step(g, Len(seqs))
  BY <1>3
<1>5. FlattenSeq(seqs) = (CHOOSE g : g = Step(g, Len(seqs)))[Len(seqs)]
  BY DEF FlattenSeq
<1> QED
  BY <1>4, <1>5

(***************************************************************************)
(* FlattenSeq puts the lists of a list one behind the other: what is in    *)
(* the result is what is in one of them, and nothing comes twice if the    *)
(* lists have nothing in common and none has anything twice.               *)
(***************************************************************************)
Among(x, seqs, n) == \E i \in 1 .. n : x \in Range(seqs[i])
Apart(seqs) ==
  /\ \A i \in DOMAIN seqs : IsInjective(seqs[i])
  /\ \A i, j \in DOMAIN seqs : i # j => Range(seqs[i]) \cap Range(seqs[j]) = {}

LEMMA FlattenFacts ==
  ASSUME NEW seqs, IsList(seqs), \A i \in DOMAIN seqs : IsList(seqs[i])
  PROVE  /\ IsList(FlattenSeq(seqs))
         /\ \A x : x \in Range(FlattenSeq(seqs)) <=> \E i \in DOMAIN seqs : x \in Range(seqs[i])
         /\ Apart(seqs) => IsInjective(FlattenSeq(seqs))
<1>0. Len(seqs) \in Nat /\ DOMAIN seqs = 1 .. Len(seqs)
  BY ListFacts
<1>1. CASE Len(seqs) = 0
  <2>1. FlattenSeq(seqs) = seqs /\ DOMAIN seqs = {}
    BY <1>0, <1>1 DEF FlattenSeq
  <2> QED
    BY <2>1 DEF Range, IsInjective
<1>2. CASE Len(seqs) # 0
  <2>1. PICK g :
          /\ FlattenSeq(seqs) = g[Len(seqs)]
          /\ g = [i \in 1 .. Len(seqs) |-> IF i = 1 THEN seqs[i] ELSE g[i - 1] \o seqs[i]]
    BY <1>0, <1>2, FlattenStep
  <2> DEFINE Good(n) ==
               /\ IsList(g[n])
               /\ \A x : x \in Range(g[n]) <=> Among(x, seqs, n)
               /\ Apart(seqs) => IsInjective(g[n])
             S == {n \in Nat : n + 1 \in 1 .. Len(seqs) => Good(n + 1)}
  <2>2. Good(1)
    <3>1. g[1] = seqs[1] /\ 1 \in DOMAIN seqs
      BY <1>0, <1>2, <2>1
    <3> QED
      BY <3>1 DEF Among, Apart
  <2>3. ASSUME NEW n \in Nat, n >= 1, n + 1 \in 1 .. Len(seqs), Good(n)
        PROVE  Good(n + 1)
    <3>1. g[n + 1] = g[n] \o seqs[n + 1]
      <4>1. g[n + 1] = IF n + 1 = 1 THEN seqs[n + 1] ELSE g[(n + 1) - 1] \o seqs[n + 1]
        BY <2>1, <2>3
      <4>2. n + 1 # 1 /\ (n + 1) - 1 = n
        BY <2>3
      <4> QED
        BY <4>1, <4>2
    <3>2. n + 1 \in DOMAIN seqs /\ IsList(seqs[n + 1]) /\ IsList(g[n])
      BY <1>0, <2>3
    <3>3. /\ IsList(g[n + 1])
          /\ Range(g[n + 1]) = Range(g[n]) \cup Range(seqs[n + 1])
          /\ IsInjective(g[n]) /\ IsInjective(seqs[n + 1]) /\ Range(g[n]) \cap Range(seqs[n + 1]) = {}
               => IsInjective(g[n + 1])
      <4> HIDE DEF Good
      <4> QED
        BY <3>1, <3>2, ListConcat
    <3>4. ASSUME NEW x
          PROVE  x \in Range(g[n + 1]) <=> Among(x, seqs, n + 1)
      <4>1. Among(x, seqs, n + 1) <=> Among(x, seqs, n) \/ x \in Range(seqs[n + 1])
        BY <2>3 DEF Among
      <4> QED
        BY <2>3, <3>3, <4>1
    <3>5. ASSUME Apart(seqs)
          PROVE  IsInjective(g[n + 1])
      <4>1. \A i \in 1 .. n : i \in DOMAIN seqs /\ i # n + 1
        BY <1>0, <2>3
      <4>2. Range(g[n]) \cap Range(seqs[n + 1]) = {}
        BY <2>3, <3>2, <3>5, <4>1 DEF Among, Apart
      <4> QED
        BY <2>3, <3>2, <3>3, <3>5, <4>2 DEF Apart
    <3> QED
      BY <3>3, <3>4, <3>5
  <2>4. 0 \in S
    BY <2>2
  <2>5. ASSUME NEW n \in Nat, n \in S
        PROVE  n + 1 \in S
    <3>1. n + 2 \in 1 .. Len(seqs) => n + 1 \in 1 .. Len(seqs) /\ n + 1 >= 1
      BY <1>0
    <3>2. n + 1 \in Nat /\ (n + 1) + 1 = n + 2
      OBVIOUS
    <3> HIDE DEF Good
    <3>3. n + 2 \in 1 .. Len(seqs) => Good((n + 1) + 1)
      BY <2>3, <2>5, <3>1, <3>2
    <3> QED
      BY <3>2, <3>3
  <2>6. Len(seqs) - 1 \in S
    <3> HIDE DEF S
    <3>1. Nat \subseteq S
      BY <2>4, <2>5, SetInduction
    <3> QED
      BY <1>0, <1>2, <3>1
  <2>7. Good(Len(seqs))
    <3>1. (Len(seqs) - 1) + 1 = Len(seqs) /\ Len(seqs) \in 1 .. Len(seqs)
      BY <1>0, <1>2
    <3> HIDE DEF Good
    <3> QED
      BY <2>6, <3>1
  <2> QED
    BY <1>0, <2>1, <2>7 DEF Among
<1> QED
  BY <1>1, <1>2

-------------------------------------------------------------------------------
(* Expanding a template. *)

(* Every two entries of a list of template keys are about different keys.  *)
Distinct(keys) == \A i, j \in DOMAIN keys : keys[i].key = keys[j].key => i = j
IsTemplate(keys) ==
  IsList(keys) /\ Distinct(keys) /\ \A i \in DOMAIN keys : IsList(keys[i].values)

(* The recursive function that TemplateKeys is defined by exists.          *)
LEMMA TemplateKeysStep ==
  ASSUME NEW dict, Len(suite.template) \in Nat
  PROVE  \E g :
           /\ TemplateKeys(dict) = g[Len(suite.template)]
           /\ g = [i \in 0 .. Len(suite.template) |->
                     IF i = 0 THEN <<>>
                     ELSE IF suite.template[i].key \in DOMAIN dict THEN g[i - 1]
                     ELSE Append(g[i - 1], suite.template[i])]
<1> DEFINE L == Len(suite.template)
           Step(g, n) == [i \in 0 .. n |->
                            IF i = 0 THEN <<>>
                            ELSE IF suite.template[i].key \in DOMAIN dict THEN g[i - 1]
                            ELSE Append(g[i - 1], suite.template[i])]
           S == {n \in Nat : \E g : g = Step(g, n)}
<1>1. 0 \in S
  <2>1. [i \in {0} |-> <<>>] = Step([i \in {0} |-> <<>>], 0)
    OBVIOUS
  <2> QED
    BY <2>1
<1>2. ASSUME NEW n \in Nat, n \in S
      PROVE  n + 1 \in S
  <2>1. PICK g : g = Step(g, n)
    BY <1>2
  <2> DEFINE h == Step(g, n + 1)
  <2>2. \A i \in 0 .. n : h[i] = g[i]
    <3>1. \A i \in 0 .. n : g[i] = Step(g, n)[i]
      BY <2>1
    <3> QED
      BY <3>1
  <2>3. h = Step(h, n + 1)
    <3>1. \A i \in 0 .. (n + 1) : i # 0 => i - 1 \in 0 .. n
      OBVIOUS
    <3> QED
      BY <2>2, <3>1
  <2>4. \E f : f = Step(f, n + 1)
    <3> HIDE DEF h, Step
    <3> QED
      BY <2>3
  <2> HIDE DEF Step
  <2> QED
    BY <2>4
<1>3. L \in S
  <2> HIDE DEF S
  <2> QED
    BY <1>1, <1>2, SetInduction
<1>4. \E g : g = Step(g, L)
  BY <1>3
<1>5. TemplateKeys(dict) = (CHOOSE g : g = Step(g, L))[L]
  BY DEF TemplateKeys
<1> QED
  BY <1>4, <1>5

(* The keys left open are those of the template that the test has not set. *)
LEMMA TemplateKeysFacts ==
  ASSUME NEW dict, IsTemplate(suite.template)
  PROVE  /\ IsTemplate(TemplateKeys(dict))
         /\ \A t : t \in Range(TemplateKeys(dict)) <=>
                     t \in Range(suite.template) /\ t.key \notin DOMAIN dict
<1> DEFINE L == Len(suite.template)
<1>0. L \in Nat /\ DOMAIN suite.template = 1 .. L
  BY ListFacts DEF IsTemplate
<1>1. PICK g :
        /\ TemplateKeys(dict) = g[L]
        /\ g = [i \in 0 .. L |->
                  IF i = 0 THEN <<>>
                  ELSE IF suite.template[i].key \in DOMAIN dict THEN g[i - 1]
                  ELSE Append(g[i - 1], suite.template[i])]
  BY <1>0, TemplateKeysStep
<1> DEFINE Open(t, n) == t.key \notin DOMAIN dict /\ \E i \in 1 .. n : t = suite.template[i]
           Good(n) ==
             /\ IsList(g[n]) /\ Distinct(g[n])
             /\ \A t : t \in Range(g[n]) <=> Open(t, n)
           S == {n \in Nat : n \in 0 .. L => Good(n)}
<1>2. 0 \in S
  <2>1. g[0] = <<>>
    BY <1>0, <1>1
  <2>2. IsList(<<>>) /\ DOMAIN <<>> = {} /\ Range(<<>>) = {}
    BY DEF IsList, Range
  <2> QED
    BY <2>1, <2>2 DEF Distinct
<1>3. ASSUME NEW n \in Nat, n \in S
      PROVE  n + 1 \in S
  <2> DEFINE t == suite.template[n + 1]
  <2> SUFFICES ASSUME n + 1 \in 0 .. L
               PROVE  Good(n + 1)
    OBVIOUS
  <2>1. Good(n) /\ n + 1 \in DOMAIN suite.template
    BY <1>0, <1>3
  <2>2. g[n + 1] = IF t.key \in DOMAIN dict THEN g[n] ELSE Append(g[n], t)
    <3>1. n + 1 # 0 /\ (n + 1) - 1 = n
      OBVIOUS
    <3>2. g[n + 1] = IF n + 1 = 0 THEN <<>>
                     ELSE IF t.key \in DOMAIN dict THEN g[(n + 1) - 1]
                     ELSE Append(g[(n + 1) - 1], t)
      BY <1>1
    <3> QED
      BY <3>1, <3>2
  <2>3. \A u : Open(u, n + 1) <=> Open(u, n) \/ (u = t /\ t.key \notin DOMAIN dict)
    OBVIOUS
  <2>4. CASE t.key \in DOMAIN dict
    <3> HIDE DEF Open, t
    <3> QED
      BY <2>1, <2>2, <2>3, <2>4
  <2>5. CASE t.key \notin DOMAIN dict
    <3>1. \A u : Open(u, n) => u.key # t.key
      <4>1. \A i \in 1 .. n : i \in DOMAIN suite.template /\ i # n + 1
        BY <1>0
      <4> QED
        BY <2>1, <4>1 DEF IsTemplate, Distinct
    <3> HIDE DEF Open, t
    <3>2. g[n + 1] = Append(g[n], t) /\ IsList(g[n])
      BY <2>1, <2>2, <2>5
    <3>3. /\ IsList(g[n + 1]) /\ DOMAIN g[n + 1] = 1 .. (Len(g[n]) + 1)
          /\ \A i \in DOMAIN g[n] : g[n + 1][i] = g[n][i]
          /\ g[n + 1][Len(g[n]) + 1] = t
          /\ Range(g[n + 1]) = Range(g[n]) \cup {t}
          /\ Len(g[n]) \in Nat /\ DOMAIN g[n] = 1 .. Len(g[n])
      BY <3>2, ListAppend, ListFacts
    <3>4. Distinct(g[n + 1])
      <4>1. \A i \in DOMAIN g[n + 1] :
              \/ i \in DOMAIN g[n] /\ g[n + 1][i] = g[n][i] /\ g[n][i].key # t.key
              \/ i = Len(g[n]) + 1
        <5>1. \A i \in DOMAIN g[n] : g[n][i].key # t.key
          BY <2>1, <3>1 DEF Range
        <5> QED
          BY <3>3, <5>1
      <4> QED
        BY <2>1, <3>3, <4>1 DEF Distinct
    <3> QED
      BY <2>1, <2>3, <2>5, <3>3, <3>4
  <2> QED
    BY <2>4, <2>5
<1>4. Good(L)
  <2>1. L \in S
    <3> HIDE DEF S
    <3> QED
      BY <1>0, <1>2, <1>3, SetInduction
  <2> QED
    BY <1>0, <2>1
<1>5. \A t : Open(t, L) <=> t \in Range(suite.template) /\ t.key \notin DOMAIN dict
  BY <1>0 DEF Range
<1>6. \A i \in DOMAIN TemplateKeys(dict) : IsList(TemplateKeys(dict)[i].values)
  <2>1. \A i \in DOMAIN TemplateKeys(dict) : TemplateKeys(dict)[i] \in Range(suite.template)
    <3> HIDE DEF Open
    <3> QED
      BY <1>1, <1>4, <1>5 DEF Range
  <2> QED
    BY <2>1 DEF IsTemplate, Range
<1> HIDE DEF Open
<1> QED
  BY <1>1, <1>4, <1>5, <1>6 DEF IsTemplate

(* A choice of values for the keys from the i-th on, and how one more key   *)
(* is added to it.                                                         *)
IsPick(p, keys, i) ==
  /\ p = [k \in {keys[m].key : m \in i .. Len(keys)} |-> p[k]]
  /\ \A m \in i .. Len(keys) : p[keys[m].key] \in Range(keys[m].values)
Chosen(t, v, rest) == WithDefaults([k \in {t.key} |-> v], rest)
Nothing == [k \in {} |-> ""]

LEMMA PickStep ==
  ASSUME NEW keys, IsTemplate(keys), NEW i \in DOMAIN keys
  PROVE  /\ \A v \in Range(keys[i].values) : \A q :
              IsPick(q, keys, i + 1) => IsPick(Chosen(keys[i], v, q), keys, i)
         /\ \A p : IsPick(p, keys, i) =>
              \E v \in Range(keys[i].values) : \E q :
                IsPick(q, keys, i + 1) /\ p = Chosen(keys[i], v, q)
         /\ \A v, w, q, r :
              /\ IsPick(q, keys, i + 1) /\ IsPick(r, keys, i + 1)
              /\ Chosen(keys[i], v, q) = Chosen(keys[i], w, r)
              => v = w /\ q = r
<1> DEFINE K(n) == {keys[m].key : m \in n .. Len(keys)}
           key == keys[i].key
<1>0. Len(keys) \in Nat /\ DOMAIN keys = 1 .. Len(keys)
  BY ListFacts DEF IsTemplate
<1>1. K(i) = {key} \cup K(i + 1) /\ key \notin K(i + 1)
  <2>1. \A m \in i .. Len(keys) : m = i \/ m \in (i + 1) .. Len(keys)
    BY <1>0
  <2>2. i \in i .. Len(keys) /\ \A m \in (i + 1) .. Len(keys) : m \in i .. Len(keys) /\ m \in DOMAIN keys /\ m # i
    BY <1>0
  <2>3. \A m \in (i + 1) .. Len(keys) : keys[m].key # key
    BY <2>2 DEF IsTemplate, Distinct
  <2> QED
    BY <2>1, <2>2, <2>3
<1>2. \A m \in i .. Len(keys) : m = i \/ (m \in (i + 1) .. Len(keys) /\ keys[m].key # key)
  <2>1. \A m \in i .. Len(keys) : m = i \/ (m \in (i + 1) .. Len(keys) /\ m \in DOMAIN keys /\ m # i)
    BY <1>0
  <2> QED
    BY <2>1 DEF IsTemplate, Distinct
<1>3. ASSUME NEW v, NEW q, IsPick(q, keys, i + 1)
      PROVE  /\ DOMAIN Chosen(keys[i], v, q) = {key} \cup K(i + 1)
             /\ Chosen(keys[i], v, q)[key] = v
             /\ \A k \in K(i + 1) : Chosen(keys[i], v, q)[k] = q[k]
             /\ Chosen(keys[i], v, q) = [k \in {key} \cup K(i + 1) |-> Chosen(keys[i], v, q)[k]]
  <2>1. DOMAIN q = K(i + 1)
    BY <1>3 DEF IsPick
  <2>2. Chosen(keys[i], v, q) = [k \in {key} \cup K(i + 1) |-> IF k \in {key} THEN v ELSE q[k]]
    BY <2>1 DEF Chosen, WithDefaults
  <2> HIDE DEF K, key
  <2> QED
    BY <1>1, <2>2
<1>4. ASSUME NEW v \in Range(keys[i].values), NEW q, IsPick(q, keys, i + 1)
      PROVE  IsPick(Chosen(keys[i], v, q), keys, i)
  <2> DEFINE c == Chosen(keys[i], v, q)
  <2>1. c = [k \in K(i) |-> c[k]]
    <3> HIDE DEF c, K, key
    <3> QED
      BY <1>1, <1>3, <1>4 DEF c
  <2>2. ASSUME NEW m \in i .. Len(keys)
        PROVE  c[keys[m].key] \in Range(keys[m].values)
    <3>1. CASE m = i
      <4>1. c[key] = v
        BY <1>3, <1>4
      <4> QED
        BY <3>1, <4>1, <1>4
    <3>2. CASE m \in (i + 1) .. Len(keys)
      <4>1. keys[m].key \in K(i + 1)
        BY <3>2
      <4>2. c[keys[m].key] = q[keys[m].key]
        <5> HIDE DEF K, key
        <5> QED
          BY <1>3, <1>4, <4>1
      <4> QED
        BY <3>2, <4>2, <1>4 DEF IsPick
    <3> QED
      BY <1>2, <3>1, <3>2
  <2> HIDE DEF c
  <2> QED
    BY <2>1, <2>2 DEF IsPick, c
<1>5. ASSUME NEW p, IsPick(p, keys, i)
      PROVE  \E v \in Range(keys[i].values) : \E q :
               IsPick(q, keys, i + 1) /\ p = Chosen(keys[i], v, q)
  <2> DEFINE v == p[key]
             q == [k \in K(i + 1) |-> p[k]]
  <2>1. i \in i .. Len(keys)
    BY <1>0
  <2>2. v \in Range(keys[i].values)
    BY <1>5, <2>1 DEF IsPick
  <2>3. IsPick(q, keys, i + 1)
    <3>1. ASSUME NEW m \in (i + 1) .. Len(keys)
          PROVE  q[keys[m].key] \in Range(keys[m].values)
      <4>1. m \in i .. Len(keys)
        BY <1>0
      <4>2. q[keys[m].key] = p[keys[m].key]
        OBVIOUS
      <4> QED
        BY <1>5, <4>1, <4>2 DEF IsPick
    <3> QED
      BY <3>1 DEF IsPick
  <2>4. p = Chosen(keys[i], v, q)
    <3>1. p = [k \in K(i) |-> p[k]]
      BY <1>5 DEF IsPick
    <3>2. Chosen(keys[i], v, q) = [k \in {key} \cup K(i + 1) |-> Chosen(keys[i], v, q)[k]]
      BY <1>3, <2>3
    <3>3. \A k \in {key} \cup K(i + 1) : Chosen(keys[i], v, q)[k] = p[k]
      <4>1. Chosen(keys[i], v, q)[key] = v
        BY <1>3, <2>3
      <4>2. \A k \in K(i + 1) : Chosen(keys[i], v, q)[k] = q[k]
        <5> HIDE DEF K, key, q
        <5> QED
          BY <1>3, <2>3
      <4>3. \A k \in K(i + 1) : q[k] = p[k]
        OBVIOUS
      <4> QED
        BY <4>1, <4>2, <4>3
    <3> HIDE DEF K, key, q
    <3> QED
      BY <1>1, <3>1, <3>2, <3>3
  <2> HIDE DEF v, q
  <2> QED
    BY <2>2, <2>3, <2>4
<1>6. ASSUME NEW v, NEW w, NEW q, NEW r, IsPick(q, keys, i + 1), IsPick(r, keys, i + 1),
             Chosen(keys[i], v, q) = Chosen(keys[i], w, r)
      PROVE  v = w /\ q = r
  <2>1. v = Chosen(keys[i], v, q)[key] /\ w = Chosen(keys[i], w, r)[key]
    BY <1>3, <1>6
  <2>2. \A k \in K(i + 1) : q[k] = r[k]
    <3>1. \A k \in K(i + 1) : q[k] = Chosen(keys[i], v, q)[k]
      <4> HIDE DEF K, key
      <4> QED
        BY <1>3, <1>6
    <3>2. \A k \in K(i + 1) : r[k] = Chosen(keys[i], w, r)[k]
      <4> HIDE DEF K, key
      <4> QED
        BY <1>3, <1>6
    <3> HIDE DEF K
    <3> QED
      BY <3>1, <3>2, <1>6
  <2>3. q = [k \in K(i + 1) |-> q[k]] /\ r = [k \in K(i + 1) |-> r[k]]
    BY <1>6 DEF IsPick
  <2> HIDE DEF K
  <2> QED
    BY <1>6, <2>1, <2>2, <2>3
<1> HIDE DEF K, key
<1> QED
  BY <1>4, <1>5, <1>6

(* The recursive function that Expansions is defined by exists; it counts   *)
(* down, from the last key to the first.                                   *)
Branches(keys, g, i) ==
  [j \in DOMAIN keys[i].values |->
     IF i = Len(keys)
       THEN <<Chosen(keys[i], keys[i].values[j], Nothing)>>
       ELSE [m \in DOMAIN g[i + 1] |-> Chosen(keys[i], keys[i].values[j], g[i + 1][m])]]

LEMMA ExpansionsStep ==
  ASSUME NEW keys, Len(keys) \in Nat
  PROVE  \E g :
           /\ Expansions(keys) = g[1]
           /\ g = [i \in 1 .. Len(keys) |-> FlattenSeq(Branches(keys, g, i))]
<1> DEFINE L == Len(keys)
           Step(g, a) == [i \in a .. L |-> FlattenSeq(Branches(keys, g, i))]
           S == {n \in Nat : \E g : g = Step(g, (L + 1) - n)}
<1>1. 0 \in S
  <2>1. (L + 1) - 0 = L + 1 /\ (L + 1) .. L = {}
    OBVIOUS
  <2>2. Step(Nothing, L + 1) = Nothing
    BY <2>1 DEF Nothing
  <2> HIDE DEF Step
  <2> QED
    BY <2>1, <2>2
<1>2. ASSUME NEW n \in Nat, n \in S
      PROVE  n + 1 \in S
  <2> DEFINE a == (L + 1) - (n + 1)
  <2>1. (L + 1) - n = a + 1 /\ a \in Int
    OBVIOUS
  <2>2. PICK g : g = Step(g, a + 1)
    <3>1. PICK g : g = Step(g, (L + 1) - n)
      BY <1>2
    <3> HIDE DEF Step, a
    <3> QED
      BY <2>1, <3>1
  <2> HIDE DEF a
  <2> DEFINE h == Step(g, a)
  <2>3. \A i \in (a + 1) .. L : h[i] = g[i]
    <3>1. \A i \in (a + 1) .. L : g[i] = FlattenSeq(Branches(keys, g, i))
      BY <2>2
    <3>2. \A i \in (a + 1) .. L : i \in a .. L
      BY <2>1
    <3> QED
      BY <3>1, <3>2
  <2>4. \A i \in a .. L : Branches(keys, h, i) = Branches(keys, g, i)
    <3> TAKE i \in a .. L
    <3>1. i # L => h[i + 1] = g[i + 1]
      <4>1. i # L => i + 1 \in (a + 1) .. L
        BY <2>1
      <4> HIDE DEF h
      <4> QED
        BY <2>3, <4>1
    <3> HIDE DEF h
    <3> QED
      BY <3>1 DEF Branches
  <2>5. h = Step(h, a)
    BY <2>4
  <2>6. \E f : f = Step(f, a)
    <3> HIDE DEF h, Step
    <3> QED
      BY <2>5
  <2> HIDE DEF Step
  <2> QED
    BY <2>6 DEF a
<1>3. L \in S
  <2> HIDE DEF S
  <2> QED
    BY <1>1, <1>2, SetInduction
<1>4. \E g : g = Step(g, 1)
  <2>1. (L + 1) - L = 1
    OBVIOUS
  <2>2. \E g : g = Step(g, (L + 1) - L)
    BY <1>3
  <2> HIDE DEF Step
  <2> QED
    BY <2>1, <2>2
<1>5. Expansions(keys) = (CHOOSE g : g = Step(g, 1))[1]
  BY DEF Expansions, Branches, Chosen, Nothing
<1> QED
  BY <1>4, <1>5

(***************************************************************************)
(* _generate_template_expansion produces every choice of values and, when  *)
(* no key has a value twice, no choice twice.                              *)
(***************************************************************************)
NoneTwice(keys) == \A i \in DOMAIN keys : IsInjective(keys[i].values)

LEMMA ExpansionsFacts ==
  ASSUME NEW keys, IsTemplate(keys), keys # <<>>
  PROVE  /\ IsList(Expansions(keys))
         /\ \A p : p \in Range(Expansions(keys)) <=> IsPick(p, keys, 1)
         /\ NoneTwice(keys) => IsInjective(Expansions(keys))
<1> DEFINE L == Len(keys)
<1>0. L \in Nat \ {0} /\ DOMAIN keys = 1 .. L
  BY ListFacts, EmptySeq DEF IsTemplate, IsList
<1>1. PICK g :
        /\ Expansions(keys) = g[1]
        /\ g = [i \in 1 .. L |-> FlattenSeq(Branches(keys, g, i))]
  BY <1>0, ExpansionsStep
<1> DEFINE Good(i) ==
             /\ IsList(g[i])
             /\ \A p : p \in Range(g[i]) <=> IsPick(p, keys, i)
             /\ NoneTwice(keys) => IsInjective(g[i])
           Rest(i, s) ==
             /\ IsList(s)
             /\ \A q : q \in Range(s) <=> IsPick(q, keys, i + 1)
             /\ NoneTwice(keys) => IsInjective(s)
<1>2. ASSUME NEW i \in 1 .. L, NEW s, Rest(i, s),
             Branches(keys, g, i) =
               [j \in DOMAIN keys[i].values |->
                  [m \in DOMAIN s |-> Chosen(keys[i], keys[i].values[j], s[m])]]
      PROVE  Good(i)
  <2> DEFINE vs == keys[i].values
             c == Branches(keys, g, i)
  <2>1. i \in DOMAIN keys /\ IsList(vs) /\ Len(vs) \in Nat /\ DOMAIN vs = 1 .. Len(vs)
    BY <1>0, ListFacts DEF IsTemplate
  <2>2. c = [j \in 1 .. Len(vs) |-> c[j]]
    BY <1>2, <2>1
  <2>3. IsList(c) /\ DOMAIN c = DOMAIN vs
    <3> HIDE DEF c, vs
    <3> QED
      BY <2>1, <2>2, FunctionIsList
  <2>4. \A j \in DOMAIN vs :
          /\ c[j] = [m \in DOMAIN s |-> Chosen(keys[i], vs[j], s[m])]
          /\ DOMAIN c[j] = DOMAIN s
          /\ \A m \in DOMAIN s : c[j][m] = Chosen(keys[i], vs[j], s[m])
    BY <1>2
  <2> HIDE DEF c, vs
  <2>5. \A m \in DOMAIN s : IsPick(s[m], keys, i + 1)
    BY <1>2 DEF Range
  <2>6. \A j \in DOMAIN c : IsList(c[j])
    <3> TAKE j \in DOMAIN c
    <3>1. Len(s) \in Nat /\ DOMAIN s = 1 .. Len(s)
      BY <1>2, ListFacts
    <3>2. c[j] = [m \in 1 .. Len(s) |-> c[j][m]]
      BY <2>3, <2>4, <3>1
    <3> QED
      BY <3>1, <3>2, FunctionIsList
  <2>7. ASSUME NEW p
        PROVE  (\E j \in DOMAIN c : p \in Range(c[j])) <=> IsPick(p, keys, i)
    <3>1. ASSUME NEW j \in DOMAIN c, p \in Range(c[j])
          PROVE  IsPick(p, keys, i)
      <4>1. PICK m \in DOMAIN s : p = Chosen(keys[i], vs[j], s[m])
        BY <2>3, <2>4, <3>1 DEF Range
      <4>2. vs[j] \in Range(vs)
        BY <2>3, <3>1 DEF Range
      <4> QED
        BY <2>1, <2>5, <4>1, <4>2, PickStep DEF vs
    <3>2. ASSUME IsPick(p, keys, i)
          PROVE  \E j \in DOMAIN c : p \in Range(c[j])
      <4>1. PICK v \in Range(vs) : \E q : IsPick(q, keys, i + 1) /\ p = Chosen(keys[i], v, q)
        BY <2>1, <3>2, PickStep DEF vs
      <4>2. PICK q : IsPick(q, keys, i + 1) /\ p = Chosen(keys[i], v, q)
        BY <4>1
      <4>3. PICK j \in DOMAIN vs : v = vs[j]
        BY <4>1 DEF Range
      <4>4. PICK m \in DOMAIN s : q = s[m]
        BY <1>2, <4>2 DEF Range
      <4>5. p = c[j][m] /\ m \in DOMAIN c[j]
        BY <2>4, <4>2, <4>3, <4>4
      <4>6. p \in Range(c[j])
        BY <4>5 DEF Range
      <4> QED
        BY <2>3, <4>3, <4>6
    <3> QED
      BY <3>1, <3>2
  <2>8. ASSUME NoneTwice(keys)
        PROVE  Apart(c)
    <3>1. IsInjective(s) /\ IsInjective(vs)
      BY <1>2, <2>1, <2>8 DEF NoneTwice, vs
    <3>2. ASSUME NEW j \in DOMAIN c, NEW k \in DOMAIN c, NEW m \in DOMAIN s, NEW n \in DOMAIN s,
                 c[j][m] = c[k][n]
          PROVE  j = k /\ m = n
      <4>1. Chosen(keys[i], vs[j], s[m]) = Chosen(keys[i], vs[k], s[n])
        BY <2>3, <2>4, <3>2
      <4>2. vs[j] = vs[k] /\ s[m] = s[n]
        BY <2>1, <2>5, <4>1, PickStep
      <4> QED
        BY <2>3, <3>1, <4>2 DEF IsInjective
    <3>3. \A j \in DOMAIN c : DOMAIN c[j] = DOMAIN s
      BY <2>3, <2>4
    <3>4. \A j \in DOMAIN c : IsInjective(c[j])
      BY <3>2, <3>3 DEF IsInjective
    <3>5. \A j, k \in DOMAIN c : j # k => Range(c[j]) \cap Range(c[k]) = {}
      BY <3>2, <3>3 DEF Range
    <3> QED
      BY <3>4, <3>5 DEF Apart
  <2>9. g[i] = FlattenSeq(c)
    BY <1>1 DEF c
  <2>10. /\ IsList(FlattenSeq(c))
         /\ \A p : p \in Range(FlattenSeq(c)) <=> \E j \in DOMAIN c : p \in Range(c[j])
         /\ Apart(c) => IsInjective(FlattenSeq(c))
    BY <2>3, <2>6, FlattenFacts
  <2> QED
    BY <2>7, <2>8, <2>9, <2>10
<1>3. Good(L)
  <2> DEFINE s == <<Nothing>>
  <2>1. L \in 1 .. L
    BY <1>0
  <2>2. s = [m \in 1 .. 1 |-> s[m]] /\ DOMAIN s = {1} /\ s[1] = Nothing
    OBVIOUS
  <2>3. IsList(s) /\ Range(s) = {Nothing} /\ IsInjective(s)
    <3>1. IsList(s)
      <4> HIDE DEF s
      <4> QED
        BY <2>2, FunctionIsList
    <3> QED
      BY <2>2, <3>1 DEF Range, IsInjective
  <2>4. \A q : q = Nothing <=> IsPick(q, keys, L + 1)
    <3>1. (L + 1) .. Len(keys) = {}
      BY <1>0
    <3>2. {keys[m].key : m \in (L + 1) .. Len(keys)} = {}
      BY <3>1
    <3> QED
      BY <3>1, <3>2 DEF IsPick, Nothing
  <2>5. Rest(L, s)
    BY <2>3, <2>4
  <2>6. Branches(keys, g, L) =
          [j \in DOMAIN keys[L].values |->
             [m \in DOMAIN s |-> Chosen(keys[L], keys[L].values[j], s[m])]]
    <3>1. ASSUME NEW v
          PROVE  <<Chosen(keys[L], v, Nothing)>> = [m \in DOMAIN s |-> Chosen(keys[L], v, s[m])]
      BY <2>2
    <3> QED
      BY <3>1 DEF Branches
  <2> HIDE DEF s, Good, Rest
  <2> QED
    BY <1>2, <2>1, <2>5, <2>6
<1>4. ASSUME NEW i \in 1 .. L, i # L, Good(i + 1)
      PROVE  Good(i)
  <2> DEFINE s == g[i + 1]
  <2>1. Rest(i, s)
    BY <1>4
  <2>2. Branches(keys, g, i) =
          [j \in DOMAIN keys[i].values |->
             [m \in DOMAIN s |-> Chosen(keys[i], keys[i].values[j], s[m])]]
    BY <1>4 DEF Branches
  <2> HIDE DEF s, Good, Rest
  <2> QED
    BY <1>2, <2>1, <2>2
<1> DEFINE S == {n \in Nat : n < L => Good(L - n)}
<1>5. 0 \in S
  <2>1. L - 0 = L
    BY <1>0
  <2> HIDE DEF Good
  <2> QED
    BY <1>3, <2>1
<1>6. ASSUME NEW n \in Nat, n \in S
      PROVE  n + 1 \in S
  <2>1. n + 1 < L => n < L /\ L - (n + 1) \in 1 .. L /\ L - (n + 1) # L /\ (L - (n + 1)) + 1 = L - n
    <3>1. L \in Nat
      BY <1>0
    <3> HIDE DEF L
    <3> QED
      BY <3>1
  <2> HIDE DEF Good
  <2> QED
    BY <1>4, <1>6, <2>1
<1>7. L - 1 \in S
  <2> HIDE DEF S
  <2>1. Nat \subseteq S
    BY <1>5, <1>6, SetInduction
  <2> QED
    BY <1>0, <2>1
<1>8. Good(1)
  <2>1. L - 1 < L /\ L - (L - 1) = 1
    BY <1>0
  <2> HIDE DEF Good
  <2> QED
    BY <1>7, <2>1
<1> QED
  BY <1>1, <1>8

-------------------------------------------------------------------------------
(* The inductive invariant. *)

(* The tests of the suite and of the loop, and the counting of the loop.   *)
Counting ==
  /\ suite \in Suites /\ pc \in Phases
  /\ IsList(tests) /\ IsList(evaluated)
  /\ next \in 1 .. (Len(tests) + 1) /\ Len(evaluated) = next - 1
  /\ pc \in {"load", "expand"} => next = 1
  /\ pc = "load" => tests = <<>>
  /\ pc = "expand" => Has(suite, "template")
  /\ pc = "execute" => next <= Len(tests)

(* What came of loading: nothing of it changes before the suite is done.   *)
Fetched ==
  /\ pc = "load" => default = suite.default
  /\ pc \in {"expand", "render", "execute"} \/ evaluated # <<>> =>
       /\ resources = Loaded(Source) /\ Unloadable \notin Range(resources)
       /\ default = WithDefaults(suite.default, Source.default)

(* A test is one of the suite's, and what it refers to as its assertions is *)
(* not the list of the suite itself.                                       *)
OwnLists == DOMAIN suite.lists \ {Glob}
OfSuite(t) ==
  /\ t = Test(t.origin, t.pick, t.dict)
  /\ t.origin \in DOMAIN Source.tests
  /\ "assertions" \in DOMAIN t.pick => t.pick["assertions"] \in OwnLists

(* Before it is rendered a test has its own keys and those picked for it,  *)
(* then those of all its defaults, with the resources filled in.           *)
Bare(t) ==
  LET own == Source.tests[t.origin] IN
  /\ DOMAIN t.dict = DOMAIN own \cup DOMAIN t.pick
  /\ \A k \in DOMAIN t.dict : t.dict[k] = IF k \in DOMAIN own THEN own[k] ELSE t.pick[k]
Layered(t) ==
  WithDefaults(WithDefaults(Source.tests[t.origin], t.pick),
               WithDefaults(suite.default, Source.default))
Rendered(t) == t.dict = Fill(Layered(t)) /\ "assertions" \in DOMAIN t.dict

Rendering ==
  /\ \A n \in DOMAIN tests :
       /\ OfSuite(tests[n])
       /\ pc \in {"expand", "render"} /\ next <= n => Bare(tests[n])
       /\ pc = "execute" /\ next < n => Bare(tests[n])
  /\ pc = "execute" => Rendered(tests[next])
  /\ \A n \in DOMAIN evaluated : OfSuite(evaluated[n].test) /\ Rendered(evaluated[n].test)

(* A list has grown by copies of the suite's, once for each test rendered. *)
Copied == IF pc \in {"execute", "crashed"} THEN next ELSE next - 1
Growth ==
  /\ DOMAIN lists = DOMAIN suite.lists /\ lists[Glob] = suite.lists[Glob]
  /\ \A l \in DOMAIN lists :
       /\ IsList(lists[l])
       /\ Range(suite.lists[l]) \subseteq Range(lists[l])
       /\ Range(lists[l]) \subseteq Range(suite.lists[l]) \cup Range(suite.lists[Glob])
       /\ Len(lists[l]) <= Len(suite.lists[l]) + Copied * Len(suite.lists[Glob])
  /\ pc = "execute" =>
       Range(suite.lists[Glob]) \subseteq Range(lists[tests[next].dict["assertions"]])

(* Each test that was evaluated was judged by the list it refers to.       *)
Judged ==
  \A n \in DOMAIN evaluated :
    LET l == evaluated[n].test.dict["assertions"] IN
    /\ Range(evaluated[n].judged) = Range(suite.lists[l]) \cup Range(suite.lists[Glob])
    /\ Len(evaluated[n].judged) <= Len(suite.lists[l]) + n * Len(suite.lists[Glob])

(* The verdicts are about the tests evaluated.                             *)
Verdicts ==
  /\ \A s \in {succeeded, failed, skipped} : IsList(s) /\ Range(s) \subseteq DOMAIN evaluated
  /\ \A n \in DOMAIN evaluated :
       \/ \E s \in {succeeded, failed, skipped} : n \in Range(s)
       \/ pc = "crashed" /\ n = Len(evaluated)
  /\ Len(succeeded) + Len(failed) + Len(skipped) <= Len(evaluated)
  /\ \A n \in Range(succeeded) : Passes(evaluated[n])

(* Until they are expanded the tests are the suite's, with nothing picked.  *)
Unexpanded ==
  pc = "expand" =>
    tests = [n \in DOMAIN Source.tests |-> Test(n, Nothing, Source.tests[n])]

IInv ==
  Counting /\ Fetched /\ Unexpanded /\ Rendering /\ Growth /\ Judged /\ Verdicts

-------------------------------------------------------------------------------
(* What the assumption about suite files says of the one at hand.          *)
LEMMA SuiteFacts ==
  ASSUME suite \in Suites
  PROVE  /\ IsList(Source.tests) /\ Range(Source.resources) \subseteq Descriptions
         /\ \A o \in DOMAIN Source.tests :
              "assertions" \in DOMAIN Source.tests[o] => Source.tests[o]["assertions"] \in OwnLists
         /\ \A d \in {suite.default, Source.default} :
              "assertions" \in DOMAIN d => d["assertions"] \in OwnLists
         /\ Glob \in DOMAIN suite.lists /\ \A l \in DOMAIN suite.lists : IsList(suite.lists[l])
         /\ Has(suite, "template") =>
              /\ IsTemplate(suite.template)
              /\ \A t \in Range(suite.template) :
                   t.key = "assertions" => Range(t.values) \subseteq OwnLists
<1> DEFINE Own(d) == "assertions" \in DOMAIN d => d["assertions"] \in OwnLists
<1>1. \A t \in {suite, Source} :
        /\ Range(t.resources) \subseteq Descriptions /\ IsList(t.tests)
        /\ \A d \in Range(t.tests) \cup {t.default} : Own(d)
  BY SuiteAssumption DEF Source, OwnLists
<1> HIDE DEF Own
<1>2. \A o \in DOMAIN Source.tests : Own(Source.tests[o])
  BY <1>1 DEF Range
<1>3. Own(suite.default) /\ Own(Source.default)
  BY <1>1
<1>4. Has(suite, "template") =>
        /\ IsTemplate(suite.template)
        /\ \A t \in Range(suite.template) :
             t.key = "assertions" => Range(t.values) \subseteq OwnLists
  <2> SUFFICES ASSUME Has(suite, "template")
               PROVE  /\ IsTemplate(suite.template)
                      /\ \A t \in Range(suite.template) :
                           t.key = "assertions" => Range(t.values) \subseteq OwnLists
    OBVIOUS
  <2>1. /\ IsList(suite.template) /\ Distinct(suite.template)
        /\ \A t \in Range(suite.template) :
             /\ IsList(t.values)
             /\ t.key = "assertions" => Range(t.values) \subseteq OwnLists
    BY SuiteAssumption DEF OwnLists, Distinct
  <2>2. \A i \in DOMAIN suite.template : IsList(suite.template[i].values)
    BY <2>1 DEF Range
  <2> QED
    BY <2>1, <2>2 DEF IsTemplate
<1>5. Glob \in DOMAIN suite.lists /\ \A l \in DOMAIN suite.lists : IsList(suite.lists[l])
  BY SuiteAssumption
<1> QED
  BY <1>1, <1>2, <1>3, <1>4, <1>5 DEF Own

(* The list a rendered test refers to is the one it was written with.      *)
LEMMA WrittenList ==
  ASSUME suite \in Suites, NEW t, OfSuite(t), Rendered(t)
  PROVE  t.dict["assertions"] \in OwnLists /\ Written(t) = suite.lists[t.dict["assertions"]]
<1> DEFINE d == Layered(t)
           own == Source.tests[t.origin]
<1>1. "assertions" \in DOMAIN d /\ t.dict["assertions"] = d["assertions"]
  <2>1. DOMAIN t.dict = (DOMAIN d \ RefKeys) \cup {Filled(r) : r \in DOMAIN d \cap RefKeys}
    BY DEF Rendered, Fill
  <2>2. "assertions" \notin RefKeys /\ \A r \in RefKeys : Filled(r) # "assertions"
    BY DEF RefKeys, Filled
  <2>3. "assertions" \in DOMAIN d
    BY <2>1, <2>2 DEF Rendered
  <2>4. t.dict["assertions"] = Fill(d)["assertions"] /\ "assertions" \in DOMAIN t.dict
    BY DEF Rendered
  <2>5. Fill(d)["assertions"] = d["assertions"]
    <3> HIDE DEF d
    <3> QED
      BY <2>2, <2>3 DEF Fill
  <2> QED
    BY <2>3, <2>4, <2>5
<1>2. DOMAIN d = DOMAIN own \cup DOMAIN t.pick \cup DOMAIN suite.default \cup DOMAIN Source.default
  BY DEF Layered, WithDefaults
<1>3. d["assertions"] =
        IF "assertions" \in DOMAIN own THEN own["assertions"]
        ELSE IF "assertions" \in DOMAIN t.pick THEN t.pick["assertions"]
        ELSE IF "assertions" \in DOMAIN suite.default THEN suite.default["assertions"]
        ELSE Source.default["assertions"]
  BY <1>1, <1>2 DEF Layered, WithDefaults
<1>4. Written(t) = suite.lists[d["assertions"]]
  BY <1>3 DEF Written
<1>5. d["assertions"] \in OwnLists
  <2>1. "assertions" \in DOMAIN own => own["assertions"] \in OwnLists
    BY SuiteFacts DEF OfSuite
  <2>2. "assertions" \in DOMAIN t.pick => t.pick["assertions"] \in OwnLists
    BY DEF OfSuite
  <2>3. "assertions" \in DOMAIN suite.default => suite.default["assertions"] \in OwnLists
    BY SuiteFacts
  <2>4. "assertions" \in DOMAIN Source.default => Source.default["assertions"] \in OwnLists
    BY SuiteFacts
  <2> HIDE DEF d, own
  <2> QED
    BY <1>1, <1>2, <1>3, <2>1, <2>2, <2>3, <2>4
<1> QED
  BY <1>1, <1>4, <1>5

(***************************************************************************)
(* The copies of a test have every choice of values for the keys it leaves *)
(* open, and the values of the test itself for the others.                 *)
(***************************************************************************)
CopyOf(u, t) ==
  \E p : IsPick(p, TemplateKeys(t.dict), 1) /\ u = Test(t.origin, p, WithDefaults(t.dict, p))

LEMMA CopiesFacts ==
  ASSUME suite \in Suites, Has(suite, "template"), NEW t, TemplateKeys(t.dict) # <<>>
  PROVE  /\ IsList(Copies(t))
         /\ \A u : u \in Range(Copies(t)) <=> CopyOf(u, t)
         /\ NoneTwice(TemplateKeys(t.dict)) =>
              \A i, j \in DOMAIN Copies(t) : Copies(t)[i].pick = Copies(t)[j].pick => i = j
<1> DEFINE keys == TemplateKeys(t.dict)
           states == Expansions(keys)
<1>1. /\ IsList(states)
      /\ \A p : p \in Range(states) <=> IsPick(p, keys, 1)
      /\ NoneTwice(keys) => IsInjective(states)
  BY SuiteFacts, TemplateKeysFacts, ExpansionsFacts
<1> HIDE DEF states, keys
<1>2. Len(states) \in Nat /\ DOMAIN states = 1 .. Len(states)
  BY <1>1, ListFacts
<1>3. /\ Copies(t) = [m \in DOMAIN states |-> Test(t.origin, states[m], WithDefaults(t.dict, states[m]))]
      /\ DOMAIN Copies(t) = DOMAIN states
      /\ \A m \in DOMAIN states : Copies(t)[m] = Test(t.origin, states[m], WithDefaults(t.dict, states[m]))
  BY DEF Copies, states, keys
<1>4. IsList(Copies(t))
  <2>1. Copies(t) = [m \in 1 .. Len(states) |-> Copies(t)[m]]
    BY <1>2, <1>3
  <2> QED
    BY <1>2, <2>1, FunctionIsList
<1>5. ASSUME NEW u
      PROVE  u \in Range(Copies(t)) <=> CopyOf(u, t)
  <2>1. u \in Range(Copies(t)) <=>
          \E p \in Range(states) : u = Test(t.origin, p, WithDefaults(t.dict, p))
    BY <1>3 DEF Range
  <2> QED
    BY <1>1, <2>1 DEF CopyOf, keys
<1>6. ASSUME NoneTwice(keys), NEW i \in DOMAIN Copies(t), NEW j \in DOMAIN Copies(t),
             Copies(t)[i].pick = Copies(t)[j].pick
      PROVE  i = j
  <2>1. states[i] = states[j]
    BY <1>3, <1>6 DEF Test
  <2> QED
    BY <1>1, <1>3, <1>6, <2>1 DEF IsInjective
<1> QED
  BY <1>4, <1>5, <1>6 DEF keys

(* Expanding the suite puts the copies of its tests one behind the other.  *)
LEMMA ExpandFacts ==
  ASSUME Counting, Expand, pc' # "crashed"
  PROVE  /\ \A n \in DOMAIN tests : TemplateKeys(tests[n].dict) # <<>>
         /\ IsList([n \in DOMAIN tests |-> Copies(tests[n])])
         /\ tests' = FlattenSeq([n \in DOMAIN tests |-> Copies(tests[n])])
         /\ IsList(tests')
         /\ \A u : u \in Range(tests') <=> \E n \in DOMAIN tests : CopyOf(u, tests[n])
<1> DEFINE seqs == [n \in DOMAIN tests |-> Copies(tests[n])]
<1>1. /\ \A n \in DOMAIN tests : TemplateKeys(tests[n].dict) # <<>>
      /\ tests' = FlattenSeq(seqs)
  BY DEF Expand
<1>2. suite \in Suites /\ Has(suite, "template") /\ IsList(tests)
  BY DEF Counting, Expand
<1>3. Len(tests) \in Nat /\ DOMAIN tests = 1 .. Len(tests)
  BY <1>2, ListFacts
<1>4. \A n \in DOMAIN tests : seqs[n] = Copies(tests[n])
  OBVIOUS
<1>5. IsList(seqs) /\ DOMAIN seqs = DOMAIN tests
  <2>1. seqs = [n \in 1 .. Len(tests) |-> seqs[n]]
    BY <1>3
  <2> HIDE DEF seqs
  <2> QED
    BY <1>3, <2>1, FunctionIsList
<1> HIDE DEF seqs
<1>6. \A n \in DOMAIN seqs : IsList(seqs[n])
  BY <1>1, <1>2, <1>4, <1>5, CopiesFacts
<1>7. /\ IsList(tests')
      /\ \A u : u \in Range(tests') <=> \E n \in DOMAIN seqs : u \in Range(seqs[n])
  BY <1>1, <1>5, <1>6, FlattenFacts
<1>8. \A n \in DOMAIN tests : \A u : u \in Range(seqs[n]) <=> CopyOf(u, tests[n])
  BY <1>1, <1>2, <1>4, CopiesFacts
<1> QED
  BY <1>1, <1>5, <1>7, <1>8 DEF seqs

-------------------------------------------------------------------------------
(* Every step preserves the invariant. *)

LEMMA CountingInvariance ==
  ASSUME Counting, [Next]_vars
  PROVE  Counting'
<1>0. Len(tests) \in Nat /\ next \in Nat /\ DOMAIN tests = 1 .. Len(tests)
  BY ListFacts DEF Counting
<1>1. CASE Load
  <2>1. CASE pc' = "crashed"
    BY <1>1, <2>1 DEF Load, Counting, Phases, results, Has
  <2>2. CASE pc' # "crashed"
    <3>1. tests' = [n \in DOMAIN Source.tests |-> Test(n, [k \in {} |-> ""], Source.tests[n])]
      BY <1>1, <2>2 DEF Load
    <3>2. Len(Source.tests) \in Nat /\ DOMAIN Source.tests = 1 .. Len(Source.tests)
      BY SuiteFacts, ListFacts DEF Counting
    <3>3. IsList(tests') /\ Len(tests') \in Nat
      <4>1. tests' = [n \in 1 .. Len(Source.tests) |-> tests'[n]]
        BY <3>1, <3>2
      <4> QED
        BY <3>2, <4>1, FunctionIsList
    <3>4. next = 1 /\ pc' \in {"expand", "render"} /\ (pc' = "expand" => Has(suite, "template"))
          /\ UNCHANGED <<suite, next, evaluated>>
      BY <1>1, <2>2 DEF Load, Counting, results
    <3> QED
      BY <3>3, <3>4 DEF Counting, Phases, Has
  <2> QED
    BY <2>1, <2>2
<1>2. CASE Expand
  <2>1. CASE pc' = "crashed"
    <3>1. UNCHANGED <<suite, tests, next, evaluated>>
      BY <1>2, <2>1 DEF Expand, results
    <3> QED
      BY <2>1, <3>1 DEF Counting, Phases
  <2>2. CASE pc' # "crashed"
    <3>1. IsList(tests') /\ Len(tests') \in Nat
      BY <1>2, <2>2, ExpandFacts, ListFacts
    <3>2. next = 1 /\ pc' = "render" /\ UNCHANGED <<suite, next, evaluated>>
      BY <1>2, <2>2 DEF Expand, Counting, results
    <3> QED
      BY <3>1, <3>2 DEF Counting, Phases
  <2> QED
    BY <2>1, <2>2
<1>3. CASE Render
  <2>1. /\ IsList(tests') /\ Len(tests') = Len(tests)
        /\ next <= Len(tests) /\ pc' \in {"crashed", "execute"}
        /\ UNCHANGED <<suite, next, evaluated>>
    <3>1. UNCHANGED tests \/ \E d : tests' = [tests EXCEPT ![next].dict = d]
      BY <1>3 DEF Render
    <3>2. ASSUME NEW d, tests' = [tests EXCEPT ![next].dict = d]
          PROVE  IsList(tests') /\ Len(tests') = Len(tests)
      <4>1. tests' = [n \in 1 .. Len(tests) |-> tests'[n]]
        BY <1>0, <3>2
      <4> QED
        BY <1>0, <4>1, FunctionIsList
    <3> QED
      BY <1>3, <3>1, <3>2 DEF Render, Counting, results
  <2> QED
    BY <1>0, <2>1 DEF Counting, Phases
<1>4. CASE Execute
  <2>1. /\ next <= Len(tests) /\ next' = next + 1 /\ UNCHANGED <<suite, tests>>
        /\ pc' \in {"render", "crashed"} /\ \E e : evaluated' = Append(evaluated, e)
    BY <1>4 DEF Execute, Counting
  <2>2. IsList(evaluated') /\ Len(evaluated') = next' - 1
    BY <1>0, <2>1, ListAppend DEF Counting
  <2> QED
    BY <1>0, <2>1, <2>2 DEF Counting, Phases
<1>5. CASE Finish
  BY <1>5 DEF Finish, Counting, Phases, results
<1>6. CASE UNCHANGED vars
  BY <1>6 DEF vars, results, Counting, Has
<1> QED
  BY <1>1, <1>2, <1>3, <1>4, <1>5, <1>6 DEF Next

LEMMA FetchedInvariance ==
  ASSUME Counting, Fetched, [Next]_vars
  PROVE  Fetched'
<1>1. CASE Load
  <2>1. UNCHANGED <<suite, evaluated>> /\ evaluated = <<>>
    <3>1. Len(evaluated) = 0
      BY <1>1 DEF Load, Counting
    <3> QED
      BY <1>1, <3>1, EmptySeq DEF Load, Counting, IsList, results
  <2>2. CASE pc' = "crashed"
    BY <2>1, <2>2 DEF Fetched
  <2>3. CASE pc' # "crashed"
    <3>1. AllLoad /\ resources' = Loaded(Source) /\ default' = WithDefaults(default, Source.default)
      BY <1>1, <2>3 DEF Load
    <3>2. Unloadable \notin Range(resources')
      BY <3>1 DEF AllLoad
    <3>3. default' = WithDefaults(suite'.default, Source'.default) /\ pc' # "load"
      BY <1>1, <2>1, <2>3, <3>1 DEF Fetched, Source, Load, Has
    <3> QED
      BY <2>1, <3>1, <3>2, <3>3 DEF Fetched, Source, Loaded
  <2> QED
    BY <2>2, <2>3
<1>2. CASE Expand \/ Render \/ Execute \/ Finish
  <2>1. /\ UNCHANGED <<suite, resources, default>>
        /\ pc \in {"expand", "render", "execute"} /\ pc' # "load"
    BY <1>2 DEF Expand, Render, Execute, Finish
  <2> QED
    BY <2>1 DEF Fetched, Source, Loaded, Has
<1>3. CASE UNCHANGED vars
  BY <1>3 DEF vars, results, Fetched, Source, Loaded, Has
<1> QED
  BY <1>1, <1>2, <1>3 DEF Next

LEMMA UnexpandedInvariance ==
  ASSUME Counting, Unexpanded, [Next]_vars
  PROVE  Unexpanded'
<1>1. CASE Load
  <2>1. UNCHANGED suite
    BY <1>1 DEF Load
  <2>2. pc' = "expand" =>
          tests' = [n \in DOMAIN Source.tests |-> Test(n, [k \in {} |-> ""], Source.tests[n])]
    BY <1>1 DEF Load
  <2> QED
    BY <2>1, <2>2 DEF Unexpanded, Source, Has, Nothing
<1>2. CASE Expand \/ Render \/ Execute \/ Finish
  <2>1. pc' # "expand"
    BY <1>2 DEF Expand, Render, Execute, Finish
  <2> QED
    BY <2>1 DEF Unexpanded
<1>3. CASE UNCHANGED vars
  BY <1>3 DEF vars, Unexpanded, Source, Has
<1> QED
  BY <1>1, <1>2, <1>3 DEF Next

(* What is said of a test depends on the suite and its resources only.     *)
LEMMA SameSuite ==
  ASSUME UNCHANGED suite
  PROVE  /\ \A n : OfSuite(tests[n])' <=> OfSuite(tests'[n])
         /\ \A n : Bare(tests[n])' <=> Bare(tests'[n])
         /\ \A n : OfSuite(evaluated[n].test)' <=> OfSuite(evaluated'[n].test)
         /\ UNCHANGED resources =>
              /\ Rendered(tests[next])' <=> Rendered(tests'[next'])
              /\ \A n : Rendered(evaluated[n].test)' <=> Rendered(evaluated'[n].test)
<1>1. Source' = Source /\ OwnLists' = OwnLists
  BY DEF Source, Has, OwnLists
<1>2. \A n : OfSuite(tests[n])' <=> OfSuite(tests'[n])
  BY <1>1 DEF OfSuite
<1>3. \A n : Bare(tests[n])' <=> Bare(tests'[n])
  BY <1>1 DEF Bare
<1>4. \A n : OfSuite(evaluated[n].test)' <=> OfSuite(evaluated'[n].test)
  BY <1>1 DEF OfSuite
<1>5. ASSUME UNCHANGED resources
      PROVE  /\ Rendered(tests[next])' <=> Rendered(tests'[next'])
             /\ \A n : Rendered(evaluated[n].test)' <=> Rendered(evaluated'[n].test)
  <2>1. Fill(Layered(tests[next]))' = Fill(Layered(tests'[next']))
    BY <1>1, <1>5 DEF Fill, Resource, Layered
  <2>2. \A n : Fill(Layered(evaluated[n].test))' = Fill(Layered(evaluated'[n].test))
    BY <1>1, <1>5 DEF Fill, Resource, Layered
  <2> QED
    BY <2>1, <2>2 DEF Rendered
<1> QED
  BY <1>2, <1>3, <1>4, <1>5

(* The defaults of the suite complete the layers of a bare test.           *)
LEMMA LayeredBare ==
  ASSUME NEW t, Bare(t), default = WithDefaults(suite.default, Source.default)
  PROVE  WithDefaults(t.dict, default) = Layered(t)
<1> DEFINE own == Source.tests[t.origin]
           inner == WithDefaults(own, t.pick)
<1>1. DOMAIN inner = DOMAIN t.dict /\ \A k \in DOMAIN t.dict : inner[k] = t.dict[k]
  BY DEF Bare, WithDefaults
<1>2. Layered(t) = WithDefaults(inner, default)
  BY DEF Layered
<1> HIDE DEF inner
<1> QED
  BY <1>1, <1>2 DEF WithDefaults

(* A copy of a test of the suite is bare again.                            *)
LEMMA CopyIsBare ==
  ASSUME suite \in Suites, Has(suite, "template"), NEW n \in DOMAIN Source.tests,
         NEW u, CopyOf(u, Test(n, Nothing, Source.tests[n]))
  PROVE  OfSuite(u) /\ Bare(u)
<1> DEFINE own == Source.tests[n]
           keys == TemplateKeys(own)
<1>1. PICK p : IsPick(p, keys, 1) /\ u = Test(n, p, WithDefaults(own, p))
  BY DEF CopyOf, Test
<1>2. u.origin = n /\ u.pick = p /\ u.dict = WithDefaults(own, p) /\ u = Test(u.origin, u.pick, u.dict)
  BY <1>1 DEF Test
<1>3. Bare(u)
  BY <1>2 DEF Bare, WithDefaults
<1>4. ASSUME "assertions" \in DOMAIN p
      PROVE  p["assertions"] \in OwnLists
  <2> HIDE DEF keys
  <2>1. PICK m \in 1 .. Len(keys) : keys[m].key = "assertions"
    BY <1>1, <1>4 DEF IsPick
  <2>2. p["assertions"] \in Range(keys[m].values)
    BY <1>1, <2>1 DEF IsPick
  <2>3. IsTemplate(keys) /\ \A t : t \in Range(keys) => t \in Range(suite.template)
    BY SuiteFacts, TemplateKeysFacts DEF keys
  <2>4. keys[m] \in Range(suite.template)
    BY <2>1, <2>3, ListFacts DEF IsTemplate
  <2> QED
    BY <2>1, <2>2, <2>4, SuiteFacts
<1> QED
  BY <1>2, <1>3, <1>4 DEF OfSuite

(* What rendering does to the tests: the one at hand gets its dictionary.  *)
LEMMA RenderFacts ==
  ASSUME Counting, Fetched, Rendering, Render
  PROVE  /\ UNCHANGED <<suite, resources, next, evaluated>> /\ next \in DOMAIN tests
         /\ pc' \in {"execute", "crashed"}
         /\ \/ UNCHANGED tests /\ pc' = "crashed" /\ UNCHANGED lists
            \/ /\ DOMAIN tests' = DOMAIN tests
               /\ \A n \in DOMAIN tests : n # next => tests'[n] = tests[n]
               /\ OfSuite(tests'[next]) /\ Rendered(tests'[next])
               /\ lists' = Extend(lists, tests'[next].dict["assertions"])
<1> DEFINE merged == WithDefaults(tests[next].dict, default)
           dict == Fill(merged)
<1>1. /\ UNCHANGED <<suite, resources, next, evaluated>> /\ next \in DOMAIN tests
      /\ pc' \in {"execute", "crashed"}
  BY ListFacts DEF Render, Counting, results
<1>2. \/ UNCHANGED tests /\ pc' = "crashed" /\ UNCHANGED lists
      \/ /\ "assertions" \in DOMAIN dict
         /\ tests' = [tests EXCEPT ![next].dict = dict]
         /\ lists' = Extend(lists, dict["assertions"])
  BY DEF Render
<1>3. ASSUME "assertions" \in DOMAIN dict, tests' = [tests EXCEPT ![next].dict = dict],
             lists' = Extend(lists, dict["assertions"])
      PROVE  /\ DOMAIN tests' = DOMAIN tests
             /\ \A n \in DOMAIN tests : n # next => tests'[n] = tests[n]
             /\ OfSuite(tests'[next]) /\ Rendered(tests'[next])
             /\ lists' = Extend(lists, tests'[next].dict["assertions"])
  <2> DEFINE t == tests[next]
  <2>1. OfSuite(t) /\ Bare(t)
    BY <1>1 DEF Rendering, Render, Counting
  <2>2. dict = Fill(Layered(t))
    BY <2>1, LayeredBare DEF Fetched, Render
  <2> HIDE DEF dict
  <2>3. tests'[next] = [t EXCEPT !.dict = dict]
    BY <1>1, <1>3
  <2>4. tests'[next] = Test(t.origin, t.pick, dict)
    BY <2>1, <2>3 DEF OfSuite, Test
  <2> DEFINE u == Test(t.origin, t.pick, dict)
  <2>5. u.origin = t.origin /\ u.pick = t.pick /\ u.dict = dict
    BY DEF Test
  <2> HIDE DEF u
  <2>6. OfSuite(u)
    BY <2>1, <2>5 DEF OfSuite, u
  <2>7. Layered(u) = Layered(t)
    BY <2>5 DEF Layered
  <2>8. Rendered(u)
    BY <1>3, <2>2, <2>5, <2>7 DEF Rendered
  <2>9. tests'[next] = u
    BY <2>4 DEF u
  <2> QED
    BY <1>3, <2>5, <2>6, <2>8, <2>9
<1> QED
  BY <1>1, <1>2, <1>3

LEMMA RenderingInvariance ==
  ASSUME Counting, Fetched, Unexpanded, Rendering, [Next]_vars
  PROVE  Rendering'
<1>1. CASE Load
  <2>1. UNCHANGED <<suite, next, evaluated>> /\ DOMAIN evaluated = {} /\ DOMAIN tests = {}
    BY <1>1, ListFacts DEF Load, Counting, results
  <2>2. CASE pc' = "crashed"
    BY <1>1, <2>1, <2>2 DEF Load, Rendering
  <2>3. CASE pc' # "crashed"
    <3>1. /\ tests' = [n \in DOMAIN Source.tests |-> Test(n, Nothing, Source.tests[n])]
          /\ pc' \in {"expand", "render"}
      BY <1>1, <2>3 DEF Load, Nothing
    <3>2. ASSUME NEW n \in DOMAIN tests'
          PROVE  OfSuite(tests'[n]) /\ Bare(tests'[n])
      <4>1. tests'[n] = Test(n, Nothing, Source.tests[n]) /\ n \in DOMAIN Source.tests
        BY <3>1
      <4> QED
        BY <4>1 DEF OfSuite, Bare, Test, Nothing
    <3>3. \A n \in DOMAIN tests' : OfSuite(tests[n])' /\ Bare(tests[n])'
      BY <2>1, <3>2, SameSuite
    <3> QED
      BY <2>1, <3>1, <3>3 DEF Rendering
  <2> QED
    BY <2>2, <2>3
<1>2. CASE Expand
  <2>1. UNCHANGED <<suite, next, evaluated>> /\ DOMAIN evaluated = {}
    BY <1>2, ListFacts DEF Expand, Counting, results
  <2>2. CASE pc' = "crashed"
    <3>1. UNCHANGED tests
      BY <1>2, <2>2 DEF Expand
    <3>2. \A n \in DOMAIN tests : OfSuite(tests[n])'
      BY <2>1, <3>1, SameSuite DEF Rendering
    <3> QED
      BY <2>1, <2>2, <3>1, <3>2 DEF Rendering
  <2>3. CASE pc' # "crashed"
    <3>1. suite \in Suites /\ Has(suite, "template") /\ pc' = "render"
      BY <1>2, <2>3 DEF Counting, Expand
    <3>2. ASSUME NEW n \in DOMAIN tests'
          PROVE  OfSuite(tests'[n]) /\ Bare(tests'[n])
      <4>1. tests'[n] \in Range(tests')
        BY DEF Range
      <4>2. PICK m \in DOMAIN tests : CopyOf(tests'[n], tests[m])
        BY <1>2, <2>3, <4>1, ExpandFacts
      <4>3. tests[m] = Test(m, Nothing, Source.tests[m]) /\ m \in DOMAIN Source.tests
        BY <1>2 DEF Unexpanded, Expand
      <4> QED
        BY <3>1, <4>2, <4>3, CopyIsBare
    <3>3. \A n \in DOMAIN tests' : OfSuite(tests[n])' /\ Bare(tests[n])'
      BY <2>1, <3>2, SameSuite
    <3> QED
      BY <2>1, <3>1, <3>3 DEF Rendering
  <2> QED
    BY <2>2, <2>3
<1>3. CASE Render
  <2>1. /\ UNCHANGED <<suite, resources, next, evaluated>> /\ next \in DOMAIN tests
        /\ pc' \in {"execute", "crashed"} /\ DOMAIN tests' = DOMAIN tests /\ pc = "render"
        /\ \A n \in DOMAIN tests : n # next => tests'[n] = tests[n]
        /\ OfSuite(tests'[next])
        /\ pc' = "execute" => Rendered(tests'[next])
    BY <1>3, RenderFacts DEF Render, Rendering
  <2>2. \A n \in DOMAIN tests' : OfSuite(tests'[n])
    BY <2>1 DEF Rendering
  <2>3. \A n \in DOMAIN tests' : OfSuite(tests[n])'
    BY <2>1, <2>2, SameSuite
  <2>4. \A n \in DOMAIN tests' : next < n => Bare(tests'[n])
    <3>1. next \in Nat /\ \A n \in DOMAIN tests : n \in Nat
      BY ListFacts DEF Counting
    <3>2. \A n \in DOMAIN tests : next < n => next <= n /\ n # next
      BY <3>1
    <3> QED
      BY <2>1, <3>2 DEF Rendering
  <2>5. \A n \in DOMAIN tests' : next' < n => Bare(tests[n])'
    BY <2>1, <2>4, SameSuite
  <2>6. pc' = "execute" => Rendered(tests[next])'
    BY <2>1, SameSuite
  <2>7. \A n \in DOMAIN evaluated' : OfSuite(evaluated[n].test)' /\ Rendered(evaluated[n].test)'
    BY <2>1, SameSuite DEF Rendering
  <2> QED
    BY <2>1, <2>3, <2>5, <2>6, <2>7 DEF Rendering
<1>4. CASE Execute
  <2>1. /\ UNCHANGED <<suite, resources, tests>> /\ next' = next + 1 /\ pc = "execute"
        /\ pc' \in {"render", "crashed"} /\ next \in DOMAIN tests /\ next \in Nat
    BY <1>4, ListFacts DEF Execute, Counting
  <2>2. PICK e : evaluated' = Append(evaluated, e) /\ e.test = tests[next]
    <3>1. PICK h : evaluated' = Append(evaluated, Entry(h))
      BY <1>4 DEF Execute
    <3> QED
      BY <3>1 DEF Entry
  <2>3. \A n \in DOMAIN evaluated' :
          \/ n \in DOMAIN evaluated /\ evaluated'[n] = evaluated[n]
          \/ evaluated'[n] = e
    BY <2>2, ListAppend, ListFacts DEF Counting
  <2>4. \A n \in DOMAIN evaluated' : OfSuite(evaluated'[n].test) /\ Rendered(evaluated'[n].test)
    BY <2>1, <2>2, <2>3 DEF Rendering
  <2>5. \A n \in DOMAIN evaluated' : OfSuite(evaluated[n].test)' /\ Rendered(evaluated[n].test)'
    BY <2>1, <2>4, SameSuite
  <2>6. \A n \in DOMAIN tests' : OfSuite(tests[n])'
    BY <2>1, SameSuite DEF Rendering
  <2>7. \A n \in DOMAIN tests' : next' <= n => Bare(tests'[n])
    <3>1. \A n \in DOMAIN tests : next + 1 <= n => next < n
      BY <2>1, ListFacts DEF Counting
    <3> QED
      BY <2>1, <3>1 DEF Rendering
  <2>8. \A n \in DOMAIN tests' : next' <= n => Bare(tests[n])'
    BY <2>1, <2>7, SameSuite
  <2> QED
    BY <2>1, <2>5, <2>6, <2>8 DEF Rendering
<1>5. CASE Finish \/ UNCHANGED vars
  <2>1. /\ UNCHANGED <<suite, resources, tests, next, evaluated>>
        /\ pc' = "done" \/ UNCHANGED pc
    BY <1>5 DEF Finish, vars, results
  <2>2. \A n \in DOMAIN tests' : /\ OfSuite(tests[n])' <=> OfSuite(tests[n])
                                 /\ Bare(tests[n])' <=> Bare(tests[n])
    BY <2>1, SameSuite
  <2>3. \A n \in DOMAIN evaluated' : OfSuite(evaluated[n].test)' /\ Rendered(evaluated[n].test)'
    BY <2>1, SameSuite DEF Rendering
  <2>4. Rendered(tests[next])' <=> Rendered(tests[next])
    BY <2>1, SameSuite
  <2> QED
    BY <2>1, <2>2, <2>3, <2>4 DEF Rendering
<1> QED
  BY <1>1, <1>2, <1>3, <1>4, <1>5 DEF Next

LEMMA Multiples ==
  ASSUME NEW g \in Nat, NEW n \in Nat
  PROVE  n * g \in Nat /\ (n + 1) * g = n * g + g
OBVIOUS

(* The count of copies never falls, and rendering adds one to it.          *)
LEMMA CopiedGrows ==
  ASSUME Counting, [Next]_vars
  PROVE  /\ Copied \in Nat /\ Copied' \in {Copied, Copied + 1}
         /\ Render => Copied' = Copied + 1
<1>1. next \in Nat /\ next >= 1
  BY ListFacts DEF Counting
<1>2. CASE Load \/ Expand \/ Finish
  <2>1. next' = next /\ pc \notin {"execute", "crashed"} /\ pc' # "execute" /\ ~ Render
    BY <1>2 DEF Load, Expand, Finish, Render
  <2> QED
    BY <1>1, <2>1 DEF Copied
<1>3. CASE Render
  <2>1. next' = next /\ pc = "render" /\ pc' \in {"execute", "crashed"}
    BY <1>3 DEF Render
  <2> QED
    BY <1>1, <2>1 DEF Copied
<1>4. CASE Execute
  <2>1. next' = next + 1 /\ pc = "execute" /\ pc' \in {"render", "crashed"} /\ ~ Render
    BY <1>4 DEF Execute, Render
  <2> QED
    BY <1>1, <2>1 DEF Copied
<1>5. CASE UNCHANGED vars
  <2>1. next' = next /\ pc' = pc /\ ~ Render
    BY <1>5 DEF vars, Render
  <2> QED
    BY <1>1, <2>1 DEF Copied
<1> QED
  BY <1>2, <1>3, <1>4, <1>5 DEF Next

LEMMA GrowthInvariance ==
  ASSUME Counting, Fetched, Rendering, Growth, [Next]_vars
  PROVE  Growth'
<1> DEFINE g == Len(suite.lists[Glob])
           old == Copied * g
           new == Copied' * g
           size(l) == Len(suite.lists[l])
<1>1. /\ DOMAIN lists = DOMAIN suite.lists /\ Glob \in DOMAIN lists
      /\ lists[Glob] = suite.lists[Glob] /\ suite' = suite
      /\ \A l \in DOMAIN lists :
           /\ IsList(lists[l]) /\ size(l) \in Nat /\ Len(lists[l]) \in Nat
           /\ Len(lists[l]) <= size(l) + old
  <2>1. suite' = suite
    BY DEF Next, Load, Expand, Render, Execute, Finish, vars
  <2> QED
    BY <2>1, SuiteFacts, ListFacts DEF Growth, Counting
<1>2. /\ g \in Nat /\ old \in Nat /\ new \in {old, old + g}
      /\ Render => new = old + g
  <2>1. g \in Nat /\ Copied \in Nat /\ Copied' \in {Copied, Copied + 1} /\ (Render => Copied' = Copied + 1)
    BY <1>1, CopiedGrows
  <2>2. (Copied + 1) * g = Copied * g + g /\ Copied * g \in Nat
    BY <2>1, Multiples
  <2> HIDE DEF g
  <2> QED
    BY <2>1, <2>2
<1> HIDE DEF g, old, new, size
<1>3. ASSUME UNCHANGED lists, pc' = "execute" => pc = "execute" /\ UNCHANGED <<tests, next>>
      PROVE  Growth'
  <2>1. \A l \in DOMAIN lists : Len(lists[l]) <= size(l) + new
    BY <1>1, <1>2
  <2> QED
    BY <1>1, <1>3, <2>1 DEF Growth, size, new, g
<1>4. CASE Load \/ Expand \/ Execute \/ Finish \/ UNCHANGED vars
  <2>1. UNCHANGED lists /\ (pc' = "execute" => pc = "execute" /\ UNCHANGED <<tests, next>>)
    BY <1>4 DEF Load, Expand, Execute, Finish, vars
  <2> QED
    BY <1>3, <2>1
<1>5. CASE Render
  <2> DEFINE l == tests'[next].dict["assertions"]
  <2>1. CASE UNCHANGED lists /\ pc' = "crashed"
    BY <1>3, <2>1
  <2>2. CASE lists' = Extend(lists, l) /\ OfSuite(tests'[next]) /\ Rendered(tests'[next])
    <3>1. l \in DOMAIN lists /\ l # Glob /\ next' = next
      BY <1>1, <1>5, <2>2, WrittenList DEF Counting, OwnLists, Render
    <3>2. Range(suite.lists[Glob]) \subseteq Range(lists'[l])
            => Range(suite.lists[Glob]) \subseteq Range(lists'[tests'[next'].dict["assertions"]])
      BY <3>1
    <3> HIDE DEF l
    <3>3. /\ DOMAIN lists' = DOMAIN lists
          /\ lists'[l] = lists[l] \o lists[Glob]
          /\ \A k \in DOMAIN lists : k # l => lists'[k] = lists[k]
      BY <2>2, <3>1 DEF Extend
    <3>4. /\ IsList(lists'[l]) /\ Len(lists'[l]) = Len(lists[l]) + g
          /\ Range(lists'[l]) = Range(lists[l]) \cup Range(suite.lists[Glob])
      BY <1>1, <3>1, <3>3, ListConcat DEF g
    <3>5. \A k \in DOMAIN lists' : Len(lists'[k]) <= size(k) + new
      <4>1. Len(lists'[l]) <= size(l) + new
        BY <1>1, <1>2, <1>5, <3>1, <3>4
      <4>2. \A k \in DOMAIN lists : Len(lists[k]) <= size(k) + new
        BY <1>1, <1>2
      <4> QED
        BY <3>3, <4>1, <4>2
    <3>6. \A k \in DOMAIN lists' :
            /\ IsList(lists'[k])
            /\ Range(suite.lists[k]) \subseteq Range(lists'[k])
            /\ Range(lists'[k]) \subseteq Range(suite.lists[k]) \cup Range(suite.lists[Glob])
      BY <3>1, <3>3, <3>4 DEF Growth
    <3>7. lists'[Glob] = suite.lists[Glob]
      BY <1>1, <3>1, <3>3
    <3> QED
      BY <1>1, <3>2, <3>3, <3>4, <3>5, <3>6, <3>7 DEF Growth, size, new, g
  <2> QED
    BY <1>5, <2>1, <2>2, RenderFacts
<1> QED
  BY <1>4, <1>5 DEF Next

(* Executing a test adds one entry, judged by the list it refers to.       *)
LEMMA ExecuteFacts ==
  ASSUME Counting, Rendering, Growth, Execute
  PROVE  \E e :
           LET l == e.test.dict["assertions"] IN
           /\ evaluated' = Append(evaluated, e)
           /\ \/ /\ Passes(e) /\ succeeded' = Append(succeeded, Len(evaluated) + 1)
                 /\ UNCHANGED <<failed, skipped>>
              \/ /\ failed' = Append(failed, Len(evaluated) + 1)
                 /\ UNCHANGED <<succeeded, skipped>>
              \/ /\ skipped' = Append(skipped, Len(evaluated) + 1)
                 /\ UNCHANGED <<succeeded, failed>>
              \/ UNCHANGED <<succeeded, failed, skipped>> /\ pc' = "crashed"
           /\ Range(e.judged) = Range(suite.lists[l]) \cup Range(suite.lists[Glob])
           /\ Len(e.judged) <= Len(suite.lists[l]) + (Len(evaluated) + 1) * Len(suite.lists[Glob])
<1>1. PICK h :
        /\ evaluated' = Append(evaluated, Entry(h))
        /\ \/ /\ Passes(Entry(h)) /\ succeeded' = Append(succeeded, Len(evaluated) + 1)
              /\ UNCHANGED <<failed, skipped>>
           \/ /\ failed' = Append(failed, Len(evaluated) + 1)
              /\ UNCHANGED <<succeeded, skipped>>
           \/ /\ skipped' = Append(skipped, Len(evaluated) + 1)
              /\ UNCHANGED <<succeeded, failed>>
           \/ UNCHANGED <<succeeded, failed, skipped>> /\ pc' = "crashed"
  BY DEF Execute, Latest
<1> DEFINE t == tests[next]
           l == t.dict["assertions"]
<1>2. OfSuite(t) /\ Rendered(t) /\ suite \in Suites
  BY ListFacts DEF Execute, Rendering, Counting
<1>3. l \in DOMAIN lists
  BY <1>2, WrittenList DEF OwnLists, Growth
<1>4. Entry(h).test = t /\ Entry(h).judged = lists[l]
  BY DEF Entry
<1> HIDE DEF l
<1>5. Range(lists[l]) = Range(suite.lists[l]) \cup Range(suite.lists[Glob])
  BY <1>3 DEF Growth, Execute, l
<1>6. Copied = Len(evaluated) + 1
  BY DEF Copied, Execute, Counting
<1>7. Len(lists[l]) <= Len(suite.lists[l]) + (Len(evaluated) + 1) * Len(suite.lists[Glob])
  BY <1>3, <1>6 DEF Growth
<1> QED
  BY <1>1, <1>4, <1>5, <1>7 DEF l

LEMMA JudgedInvariance ==
  ASSUME Counting, Rendering, Growth, Judged, [Next]_vars
  PROVE  Judged'
<1>1. CASE Execute
  <2>1. PICK e :
          LET l == e.test.dict["assertions"] IN
          /\ evaluated' = Append(evaluated, e)
          /\ Range(e.judged) = Range(suite.lists[l]) \cup Range(suite.lists[Glob])
          /\ Len(e.judged) <= Len(suite.lists[l]) + (Len(evaluated) + 1) * Len(suite.lists[Glob])
    BY <1>1, ExecuteFacts
  <2>2. \A n \in DOMAIN evaluated' :
          \/ n \in DOMAIN evaluated /\ evaluated'[n] = evaluated[n]
          \/ n = Len(evaluated) + 1 /\ evaluated'[n] = e
    BY <2>1, ListAppend, ListFacts DEF Counting
  <2>3. UNCHANGED suite
    BY <1>1 DEF Execute
  <2>4. ASSUME NEW n \in DOMAIN evaluated'
        PROVE  LET l == evaluated'[n].test.dict["assertions"] IN
               /\ Range(evaluated'[n].judged) = Range(suite.lists[l]) \cup Range(suite.lists[Glob])
               /\ Len(evaluated'[n].judged) <= Len(suite.lists[l]) + n * Len(suite.lists[Glob])
    <3>1. CASE n \in DOMAIN evaluated /\ evaluated'[n] = evaluated[n]
      BY <3>1 DEF Judged
    <3>2. CASE n = Len(evaluated) + 1 /\ evaluated'[n] = e
      BY <2>1, <3>2
    <3> QED
      BY <2>2, <3>1, <3>2
  <2> QED
    BY <2>3, <2>4 DEF Judged
<1>2. CASE Load \/ Expand \/ Render \/ Finish \/ UNCHANGED vars
  <2>1. UNCHANGED <<suite, evaluated>>
    BY <1>2 DEF Load, Expand, Render, Finish, vars, results
  <2> QED
    BY <2>1 DEF Judged
<1> QED
  BY <1>1, <1>2 DEF Next

LEMMA VerdictsInvariance ==
  ASSUME Counting, Rendering, Growth, Verdicts, [Next]_vars
  PROVE  Verdicts'
<1> DEFINE k == Len(evaluated) + 1
<1>1. CASE Execute
  <2>1. PICK e :
          /\ evaluated' = Append(evaluated, e)
          /\ \/ /\ Passes(e) /\ succeeded' = Append(succeeded, k)
                /\ UNCHANGED <<failed, skipped>>
             \/ failed' = Append(failed, k) /\ UNCHANGED <<succeeded, skipped>>
             \/ skipped' = Append(skipped, k) /\ UNCHANGED <<succeeded, failed>>
             \/ UNCHANGED <<succeeded, failed, skipped>> /\ pc' = "crashed"
    BY <1>1, ExecuteFacts
  <2>2. /\ Len(evaluated) \in Nat /\ Len(evaluated') = k
        /\ DOMAIN evaluated = 1 .. Len(evaluated) /\ DOMAIN evaluated' = 1 .. k
        /\ \A n \in DOMAIN evaluated : evaluated'[n] = evaluated[n]
        /\ evaluated'[k] = e
    BY <2>1, ListAppend, ListFacts DEF Counting
  <2>3. /\ IsList(succeeded) /\ IsList(failed) /\ IsList(skipped)
        /\ Len(succeeded) \in Nat /\ Len(failed) \in Nat /\ Len(skipped) \in Nat
        /\ Range(succeeded) \subseteq DOMAIN evaluated
        /\ Range(failed) \subseteq DOMAIN evaluated
        /\ Range(skipped) \subseteq DOMAIN evaluated
    BY ListFacts DEF Verdicts
  <2>4. \A n \in DOMAIN evaluated : n \in Range(succeeded) \cup Range(failed) \cup Range(skipped)
    BY <1>1 DEF Verdicts, Execute
  <2>5. \A s : IsList(s) => /\ IsList(Append(s, k)) /\ Len(Append(s, k)) = Len(s) + 1
                            /\ Range(Append(s, k)) = Range(s) \cup {k}
    BY ListAppend
  <2> HIDE DEF k
  <2>6. /\ IsList(succeeded') /\ IsList(failed') /\ IsList(skipped')
        /\ Range(succeeded) \subseteq Range(succeeded') /\ Range(succeeded') \subseteq Range(succeeded) \cup {k}
        /\ Range(failed) \subseteq Range(failed') /\ Range(failed') \subseteq Range(failed) \cup {k}
        /\ Range(skipped) \subseteq Range(skipped') /\ Range(skipped') \subseteq Range(skipped) \cup {k}
        /\ k \in Range(succeeded') \cup Range(failed') \cup Range(skipped') \/ pc' = "crashed"
        /\ k \in Range(succeeded') => Passes(e)
    <3>1. k \notin Range(succeeded)
      BY <2>2, <2>3 DEF k
    <3> QED
      BY <2>1, <2>3, <2>5, <3>1
  <2>7. Len(succeeded') + Len(failed') + Len(skipped') <= Len(evaluated')
    <3>1. Len(succeeded) + Len(failed) + Len(skipped) <= Len(evaluated)
      BY DEF Verdicts
    <3>2. Len(succeeded') + Len(failed') + Len(skipped') <= Len(succeeded) + Len(failed) + Len(skipped) + 1
      BY <2>1, <2>3, <2>5
    <3>3. /\ Len(succeeded') \in Nat /\ Len(failed') \in Nat /\ Len(skipped') \in Nat
      BY <2>6, ListFacts
    <3> QED
      BY <2>2, <2>3, <3>1, <3>2, <3>3 DEF k
  <2>8. \A n \in DOMAIN evaluated' : n \in DOMAIN evaluated \/ n = k
    BY <2>2 DEF k
  <2>9. \A n \in DOMAIN evaluated' :
          \/ n \in Range(succeeded') \cup Range(failed') \cup Range(skipped')
          \/ pc' = "crashed" /\ n = Len(evaluated')
    BY <2>2, <2>4, <2>6, <2>8
  <2>10. \A n \in Range(succeeded') : Passes(evaluated'[n])
    <3>1. \A n \in Range(succeeded) : Passes(evaluated'[n])
      BY <2>2, <2>3 DEF Verdicts
    <3> QED
      BY <2>2, <2>6, <3>1
  <2>11. DOMAIN evaluated \cup {k} = DOMAIN evaluated'
    BY <2>2 DEF k
  <2>12. \A n \in Range(succeeded') : Passes(evaluated[n])'
    <3>1. Converted' = Converted
      BY <1>1 DEF Execute, Converted
    <3> QED
      BY <2>10, <3>1 DEF Passes
  <2> QED
    BY <2>3, <2>6, <2>7, <2>9, <2>11, <2>12 DEF Verdicts
<1>2. CASE Load \/ Expand \/ Render \/ Finish \/ UNCHANGED vars
  <2>1. /\ UNCHANGED <<driver, evaluated, succeeded, failed, skipped>>
        /\ pc = "crashed" => pc' = "crashed"
    BY <1>2 DEF Load, Expand, Render, Finish, vars, results
  <2> QED
    BY <2>1 DEF Verdicts, Passes, Converted
<1> QED
  BY <1>1, <1>2 DEF Next

(* The invariant holds of every reachable state.                           *)
LEMMA Inductive == Spec => []IInv
<1>1. Init => IInv
  <2> SUFFICES ASSUME Init
               PROVE  IInv
    OBVIOUS
  <2>1. IsList(<<>>) /\ Len(<<>>) = 0 /\ DOMAIN <<>> = {} /\ Range(<<>>) = {}
    BY DEF IsList, Range
  <2>2. Counting
    BY <2>1 DEF Init, Counting, Phases
  <2>3. Fetched /\ Unexpanded /\ Rendering /\ Judged /\ Verdicts
    BY <2>1 DEF Init, Fetched, Unexpanded, Rendering, Judged, Verdicts
  <2>4. Growth
    <3>1. Copied = 0 /\ lists = suite.lists
      BY DEF Init, Copied
    <3>2. \A l \in DOMAIN suite.lists : IsList(suite.lists[l]) /\ Len(suite.lists[l]) \in Nat
      BY <2>2, SuiteFacts, ListFacts DEF Counting
    <3>3. 0 * Len(suite.lists[Glob]) = 0
      BY <2>2, <3>2, SuiteFacts DEF Counting
    <3>4. Copied * Len(suite.lists[Glob]) = 0
      BY <3>1, <3>3
    <3>5. \A l \in DOMAIN lists : Len(lists[l]) <= Len(suite.lists[l]) + Copied * Len(suite.lists[Glob])
      <4> DEFINE copies == Copied * Len(suite.lists[Glob])
      <4>1. copies = 0
        BY <3>4
      <4> HIDE DEF copies
      <4>2. \A l \in DOMAIN lists : Len(lists[l]) <= Len(suite.lists[l]) + copies
        BY <3>1, <3>2, <4>1
      <4> QED
        BY <4>2 DEF copies
    <3>6. pc # "execute"
      BY DEF Init
    <3> QED
      BY <3>1, <3>2, <3>5, <3>6 DEF Growth
  <2> QED
    BY <2>2, <2>3, <2>4 DEF IInv
<1>2. IInv /\ [Next]_vars => IInv'
  BY CountingInvariance, FetchedInvariance, UnexpandedInvariance, RenderingInvariance,
     GrowthInvariance, JudgedInvariance, VerdictsInvariance DEF IInv
<1> QED
  BY <1>1, <1>2, PTL DEF Spec

-------------------------------------------------------------------------------
(* The theorems. *)

(***************************************************************************)
(* The data of a suite: what tests, picks and defaults hold comes from the *)
(* files, the template or a resource, through all the merging of           *)
(* dictionaries.                                                           *)
(***************************************************************************)
Typed ==
  /\ driver \in Drivers
  /\ DOMAIN resources \subseteq DOMAIN Source.resources
  /\ resources \in [DOMAIN resources -> LoadedData]
  /\ IsDictionary(default)
  /\ \A n \in DOMAIN tests : IsTest(tests[n])
  /\ lists \in [DOMAIN suite.lists -> Seq(Assertions)]
  /\ \A n \in DOMAIN evaluated : IsEntry(evaluated[n])

(* Typing depends on the suite only. *)
LEMMA SameData ==
  ASSUME UNCHANGED suite
  PROVE  /\ Data' = Data /\ Source' = Source /\ Assertions' = Assertions
         /\ \A n : IsTest(tests[n])' <=> IsTest(tests'[n])
         /\ \A n : IsEntry(evaluated[n])' <=> IsEntry(evaluated'[n])
<1>1. Data' = Data /\ Source' = Source /\ Assertions' = Assertions
  BY DEF Data, Offered, Source, Has, Assertions
<1>2. \A n : IsTest(tests[n])' <=> IsTest(tests'[n])
  BY <1>1 DEF IsTest, IsDictionary
<1>3. \A n : IsTest(evaluated[n].test)' <=> IsTest(evaluated'[n].test)
  BY <1>1 DEF IsTest, IsDictionary
<1> QED
  BY <1>1, <1>2, <1>3 DEF IsEntry

(* The dictionaries of a suite file have their type, and so has nothing.   *)
LEMMA GivenDictionaries ==
  ASSUME suite \in Suites
  PROVE  /\ IsDictionary(suite.default) /\ IsDictionary(Source.default) /\ IsDictionary(Nothing)
         /\ \A n \in DOMAIN Source.tests : IsDictionary(Source.tests[n])
<1>1. \A t \in {suite, Source} : \A d \in Range(t.tests) \cup {t.default} : IsMapping(d)
  BY SuiteAssumption DEF Source
<1>2. ASSUME NEW d, d \in Range(Source.tests) \cup {suite.default, Source.default}
      PROVE  IsDictionary(d)
  <2>1. IsMapping(d)
    BY <1>1, <1>2
  <2>2. Range(d) \subseteq Data
    BY <1>2 DEF Data
  <2> QED
    BY <2>1, <2>2 DEF IsMapping, IsDictionary
<1>3. \A n \in DOMAIN Source.tests : Source.tests[n] \in Range(Source.tests)
  BY DEF Range
<1>4. IsDictionary(Nothing)
  BY DEF IsDictionary, Nothing
<1> QED
  BY <1>2, <1>3, <1>4

(* Merging two dictionaries gives one. *)
LEMMA MergedDictionary ==
  ASSUME NEW a, NEW b, IsDictionary(a), IsDictionary(b)
  PROVE  IsDictionary(WithDefaults(a, b))
<1>1. /\ \A k \in DOMAIN a : a[k] \in Data
      /\ \A k \in DOMAIN b : b[k] \in Data
  BY DEF IsDictionary
<1>2. \A k \in DOMAIN a \cup DOMAIN b : (IF k \in DOMAIN a THEN a[k] ELSE b[k]) \in Data
  BY <1>1
<1> QED
  BY <1>2 DEF WithDefaults, IsDictionary

(* What is loaded without raising is a value, or known to be invalid. *)
LEMMA LoadedTyped ==
  ASSUME Unloadable \notin Range(Loaded(Source))
  PROVE  Loaded(Source) \in [DOMAIN Source.resources -> LoadedData]
<1>1. ASSUME NEW name \in DOMAIN Source.resources
      PROVE  LoadResource(Source.resources[name]) \in LoadedData
  <2>1. Loaded(Source)[name] \in Range(Loaded(Source))
    BY DEF Loaded, Range
  <2>2. LoadResource(Source.resources[name]) # Unloadable
    BY <2>1 DEF Loaded
  <2> QED
    BY <2>2 DEF LoadResource, LoadedData
<1> QED
  BY <1>1 DEF Loaded

(* Filling in the resources of a dictionary gives a dictionary. *)
LEMMA FilledDictionary ==
  ASSUME NEW d, IsDictionary(d), resources \in [DOMAIN resources -> LoadedData]
  PROVE  IsDictionary(Fill(d))
<1> DEFINE refs == DOMAIN d \cap RefKeys
           K == (DOMAIN d \ refs) \cup {Filled(r) : r \in refs}
           Value(k) == IF \E r \in refs : Filled(r) = k
                         THEN Resource(d[CHOOSE r \in refs : Filled(r) = k]) ELSE d[k]
<1>1. \A name : Resource(name) \in Data
  <2>1. \A name : Resource(name) \in LoadedData
    BY DEF Resource, LoadedData
  <2> QED
    BY <2>1 DEF Data
<1>2. \A k \in K : Value(k) \in Data
  <2> TAKE k \in K
  <2>1. CASE \E r \in refs : Filled(r) = k
    BY <1>1, <2>1
  <2>2. CASE ~ \E r \in refs : Filled(r) = k
    BY <2>2 DEF IsDictionary
  <2> QED
    BY <2>1, <2>2
<1>3. Fill(d) = [k \in K |-> Value(k)]
  BY DEF Fill
<1> HIDE DEF K, Value
<1> QED
  BY <1>2, <1>3 DEF IsDictionary

(* The values of a template are data of the suite. *)
LEMMA TemplateData ==
  ASSUME Has(suite, "template"), NEW t \in Range(suite.template), NEW v \in Range(t.values)
  PROVE  v \in Data
<1>1. v \in UNION {Range(u.values) : u \in Range(suite.template)}
  OBVIOUS
<1>2. v \in Offered
  BY <1>1 DEF Offered
<1> QED
  BY <1>2 DEF Data

(* A choice of template values is a dictionary. *)
LEMMA PickDictionary ==
  ASSUME suite \in Suites, Has(suite, "template"), NEW dict, NEW p,
         IsPick(p, TemplateKeys(dict), 1)
  PROVE  IsDictionary(p)
<1> DEFINE keys == TemplateKeys(dict)
           K == {keys[m].key : m \in 1 .. Len(keys)}
<1>1. IsTemplate(keys) /\ \A t : t \in Range(keys) => t \in Range(suite.template)
  BY SuiteFacts, TemplateKeysFacts
<1> HIDE DEF keys
<1>2. ASSUME NEW m \in 1 .. Len(keys)
      PROVE  p[keys[m].key] \in Data
  <2>1. p[keys[m].key] \in Range(keys[m].values)
    BY DEF IsPick, keys
  <2>2. keys[m] \in Range(keys)
    BY <1>1, ListFacts DEF IsTemplate
  <2> DEFINE entry == keys[m]
  <2>3. entry \in Range(suite.template)
    BY <1>1, <2>2
  <2>4. p[entry.key] \in Range(entry.values)
    BY <2>1
  <2> HIDE DEF entry
  <2>5. p[entry.key] \in Data
    BY <2>3, <2>4, TemplateData
  <2> QED
    BY <2>5 DEF entry
<1>3. \A k \in K : p[k] \in Data
  BY <1>2
<1>4. p = [k \in K |-> p[k]]
  BY DEF IsPick, keys
<1> HIDE DEF K
<1> QED
  BY <1>3, <1>4 DEF IsDictionary

LEMMA TypedInvariance ==
  ASSUME IInv, Typed, [Next]_vars
  PROVE  Typed'
<1>1. suite' = suite /\ driver' = driver /\ suite \in Suites
  BY DEF Next, Load, Expand, Render, Execute, Finish, vars, IInv, Counting
<1>2. CASE Load
  <2>1. UNCHANGED <<lists, evaluated>>
    BY <1>2 DEF Load, results
  <2>2. CASE pc' = "crashed" /\ UNCHANGED <<tests, resources, default>>
    BY <1>1, <2>1, <2>2, SameData DEF Typed, IsDictionary
  <2>3. CASE AllLoad /\ tests' = [n \in DOMAIN Source.tests |-> Test(n, Nothing, Source.tests[n])]
               /\ resources' = Loaded(Source) /\ default' = WithDefaults(default, Source.default)
    <3>1. resources' \in [DOMAIN Source.resources -> LoadedData]
      BY <2>3, LoadedTyped DEF AllLoad
    <3>2. IsDictionary(default')
      BY <1>1, <2>3, GivenDictionaries, MergedDictionary DEF Typed
    <3>3. ASSUME NEW n \in DOMAIN tests'
          PROVE  IsTest(tests'[n])
      <4>1. n \in DOMAIN Source.tests /\ tests'[n] = Test(n, Nothing, Source.tests[n])
        BY <2>3
      <4>2. IsDictionary(Nothing) /\ IsDictionary(Source.tests[n])
        BY <1>1, <4>1, GivenDictionaries
      <4> QED
        BY <4>1, <4>2 DEF IsTest, Test
    <3> QED
      BY <1>1, <2>1, <3>1, <3>2, <3>3, SameData DEF Typed, IsDictionary
  <2> QED
    BY <1>2, <2>2, <2>3 DEF Load, Nothing
<1>3. CASE Expand
  <2>1. UNCHANGED <<resources, default, lists, evaluated>>
    BY <1>3 DEF Expand, results
  <2>2. CASE UNCHANGED tests
    BY <1>1, <2>1, <2>2, SameData DEF Typed, IsDictionary
  <2>3. CASE pc' # "crashed"
    <3>1. ASSUME NEW n \in DOMAIN tests'
          PROVE  IsTest(tests'[n])
      <4>1. tests'[n] \in Range(tests')
        BY DEF Range
      <4>2. PICK m \in DOMAIN tests : CopyOf(tests'[n], tests[m])
        BY <1>3, <2>3, <4>1, ExpandFacts DEF IInv
      <4>3. PICK p : /\ IsPick(p, TemplateKeys(tests[m].dict), 1)
                     /\ tests'[n] = Test(tests[m].origin, p, WithDefaults(tests[m].dict, p))
        BY <4>2 DEF CopyOf
      <4>4. IsDictionary(p)
        BY <1>1, <1>3, <4>3, PickDictionary DEF IInv, Counting, Expand
      <4>5. IsTest(tests[m])
        BY DEF Typed
      <4>6. IsDictionary(WithDefaults(tests[m].dict, p))
        BY <4>4, <4>5, MergedDictionary DEF IsTest
      <4> QED
        BY <4>3, <4>4, <4>5, <4>6 DEF IsTest, Test
    <3> QED
      BY <1>1, <2>1, <3>1, SameData DEF Typed, IsDictionary
  <2> QED
    BY <1>3, <2>2, <2>3 DEF Expand
<1>4. CASE Render
  <2> DEFINE t == tests[next]
             dict == Fill(WithDefaults(t.dict, default))
  <2>1. /\ UNCHANGED <<resources, default, evaluated>> /\ next \in DOMAIN tests
        /\ OfSuite(t)
        /\ \/ UNCHANGED <<tests, lists>>
           \/ /\ tests' = [tests EXCEPT ![next].dict = dict]
              /\ lists' = Extend(lists, dict["assertions"])
    BY <1>4, ListFacts DEF Render, IInv, Counting, Rendering, results
  <2>2. CASE UNCHANGED <<tests, lists>>
    BY <1>1, <2>1, <2>2, SameData DEF Typed, IsDictionary
  <2>3. CASE tests' = [tests EXCEPT ![next].dict = dict] /\ lists' = Extend(lists, dict["assertions"])
    <3>1. IsTest(t) /\ IsDictionary(default) /\ resources \in [DOMAIN resources -> LoadedData]
      BY <2>1 DEF Typed
    <3>2. IsDictionary(dict)
      BY <3>1, MergedDictionary, FilledDictionary DEF IsTest
    <3>3. lists' \in [DOMAIN suite.lists -> Seq(Assertions)]
      <4>1. /\ lists \in [DOMAIN suite.lists -> Seq(Assertions)]
            /\ Glob \in DOMAIN suite.lists
        BY <1>1, SuiteFacts DEF Typed
      <4>2. \A l \in DOMAIN suite.lists : lists[l] \o lists[Glob] \in Seq(Assertions)
        BY <4>1, ConcatProperties
      <4> HIDE DEF dict
      <4> QED
        BY <2>3, <4>1, <4>2 DEF Extend
    <3> HIDE DEF dict
    <3>4. ASSUME NEW n \in DOMAIN tests'
          PROVE  IsTest(tests'[n])
      <4>1. CASE n # next
        BY <2>3, <4>1 DEF Typed
      <4>2. CASE n = next
        <5>1. tests'[n] = Test(t.origin, t.pick, dict)
          BY <2>1, <2>3, <4>2 DEF OfSuite, Test
        <5> QED
          BY <3>1, <3>2, <5>1 DEF IsTest, Test
      <4> QED
        BY <4>1, <4>2
    <3> QED
      BY <1>1, <2>1, <3>3, <3>4, SameData DEF Typed, IsDictionary
  <2> QED
    BY <2>1, <2>2, <2>3
<1>5. CASE Execute
  <2> DEFINE t == tests[next]
             l == t.dict["assertions"]
  <2>1. /\ UNCHANGED <<resources, default, tests, lists>> /\ next \in DOMAIN tests
        /\ OfSuite(t) /\ Rendered(t) /\ IsTest(t)
    BY <1>5, ListFacts DEF Execute, IInv, Counting, Rendering, Typed
  <2>2. PICK h \in SUBSET Range(lists[l]) : evaluated' = Append(evaluated, Entry(h))
    BY <1>5 DEF Execute
  <2>3. lists[l] \in Seq(Assertions)
    <3>1. l \in DOMAIN suite.lists
      BY <1>1, <2>1, WrittenList DEF OwnLists
    <3> HIDE DEF l
    <3> QED
      BY <3>1 DEF Typed
  <2>4. Range(lists[l]) \subseteq Assertions
    <3> HIDE DEF l
    <3> QED
      BY <2>3 DEF Range
  <2>5. Entry(h) = [test |-> t, judged |-> lists[l], holding |-> h]
    BY DEF Entry
  <2> HIDE DEF t, l
  <2>6. IsEntry(Entry(h))
    BY <2>1, <2>2, <2>3, <2>4, <2>5 DEF IsEntry
  <2>7. \A n \in DOMAIN evaluated' :
          \/ n \in DOMAIN evaluated /\ evaluated'[n] = evaluated[n]
          \/ evaluated'[n] = Entry(h)
    BY <2>2, ListAppend, ListFacts DEF IInv, Counting
  <2>8. \A n \in DOMAIN evaluated' : IsEntry(evaluated'[n])
    BY <2>6, <2>7 DEF Typed
  <2> QED
    BY <1>1, <2>1, <2>8, SameData DEF Typed, IsDictionary
<1>6. CASE Finish \/ UNCHANGED vars
  <2>1. UNCHANGED <<resources, default, tests, lists, evaluated>>
    BY <1>6 DEF Finish, vars, results
  <2> QED
    BY <1>1, <2>1, SameData DEF Typed, IsDictionary
<1> QED
  BY <1>2, <1>3, <1>4, <1>5, <1>6 DEF Next

(***************************************************************************)
(* The type invariant: through all the copying, merging and filling in,    *)
(* tests, defaults and resources hold only data of the suite; the loop     *)
(* never leaves the list of tests, and every verdict is about a test that  *)
(* was evaluated.                                                          *)
(***************************************************************************)
THEOREM TypeCorrect == Spec => []TypeOK
<1>1. IInv /\ Typed => TypeOK
  <2> SUFFICES ASSUME IInv, Typed
               PROVE  TypeOK
    OBVIOUS
  <2>1. \A s \in {succeeded, failed, skipped} : s \in Seq(DOMAIN evaluated)
    BY SeqMonotonic DEF IInv, Verdicts, IsList
  <2> QED
    BY <2>1 DEF IInv, TypeOK, Counting, Typed
<1>2. Init => Typed
  <2> SUFFICES ASSUME Init
               PROVE  Typed
    OBVIOUS
  <2>1. suite \in Suites /\ DOMAIN evaluated = {} /\ DOMAIN tests = {}
    BY DEF Init
  <2>2. IsDictionary(default)
    BY <2>1, GivenDictionaries DEF Init
  <2>3. suite.lists \in [DOMAIN suite.lists -> Seq(Assertions)]
    <3>1. IsMapping(suite.lists) /\ \A l \in DOMAIN suite.lists : IsList(suite.lists[l])
      BY <2>1, SuiteAssumption
    <3>2. \A l \in DOMAIN suite.lists : suite.lists[l] \in Seq(Assertions)
      <4>1. \A l \in DOMAIN suite.lists : Range(suite.lists[l]) \subseteq Assertions
        BY DEF Assertions
      <4> QED
        BY <3>1, <4>1, SeqMonotonic DEF IsList
    <3> QED
      BY <3>1, <3>2 DEF IsMapping
  <2> QED
    BY <2>1, <2>2, <2>3 DEF Init, Typed
<1>3. IInv /\ Typed /\ [Next]_vars => Typed'
  BY TypedInvariance
<1> QED
  BY <1>1, <1>2, <1>3, Inductive, PTL DEF Spec

(***************************************************************************)
(* Whatever shares a list of assertions with whatever else, every test is  *)
(* judged by exactly the assertions it was written with and the suite's,   *)
(* and by at most one more copy of those for each test before it.          *)
(***************************************************************************)
THEOREM JudgedFairly == Spec => []JudgedByOwn
<1>1. IInv => JudgedByOwn
  <2> SUFFICES ASSUME IInv, NEW n \in DOMAIN evaluated
               PROVE  /\ Range(evaluated[n].judged)
                           = Range(Written(evaluated[n].test)) \cup Range(suite.lists[Glob])
                      /\ Len(evaluated[n].judged)
                           <= Len(Written(evaluated[n].test)) + n * Len(suite.lists[Glob])
    BY DEF JudgedByOwn, IInv, Growth
  <2>1. Written(evaluated[n].test) = suite.lists[evaluated[n].test.dict["assertions"]]
    BY WrittenList DEF IInv, Rendering, Counting
  <2> QED
    BY <2>1 DEF IInv, Judged
<1> QED
  BY <1>1, Inductive, PTL

(***************************************************************************)
(* Every test evaluated has one verdict, save the last one of a run that   *)
(* an exception ended, and a success is deserved: all the assertions it    *)
(* was written with and the suite's hold of the answer, and every resource *)
(* that its driver uses was loaded.                                        *)
(***************************************************************************)
THEOREM VerdictsAreDeserved == Spec => []VerdictsDeserved
<1>1. IInv => VerdictsDeserved
  <2> SUFFICES ASSUME IInv
               PROVE  VerdictsDeserved
    OBVIOUS
  <2>1. ASSUME NEW n \in Range(succeeded)
        PROVE  /\ Range(Written(evaluated[n].test)) \cup Range(suite.lists[Glob]) \subseteq evaluated[n].holding
               /\ \A k \in DOMAIN evaluated[n].test.dict \cap Converted :
                    evaluated[n].test.dict[k] # Invalid
    <3>1. n \in DOMAIN evaluated
      BY <2>1 DEF IInv, Verdicts
    <3>2. Passes(evaluated[n])
      BY <2>1 DEF IInv, Verdicts
    <3>3. Written(evaluated[n].test) = suite.lists[evaluated[n].test.dict["assertions"]]
      BY <3>1, WrittenList DEF IInv, Rendering, Counting
    <3>4. Range(evaluated[n].judged) = Range(Written(evaluated[n].test)) \cup Range(suite.lists[Glob])
      BY <3>1, <3>3 DEF IInv, Judged
    <3> QED
      BY <3>2, <3>4 DEF Passes
  <2> QED
    BY <2>1 DEF IInv, Verdicts, VerdictsDeserved
<1> QED
  BY <1>1, Inductive, PTL

(***************************************************************************)
(* The counts of a suite add up unless an exception ended it: this is what *)
(* the test command relies on when it sums them (RunSuite of TestHarness). *)
(***************************************************************************)
AddsUp ==
  pc # "crashed" => Len(succeeded) + Len(failed) + Len(skipped) = Len(evaluated)

THEOREM CountsAddUp == Spec => []AddsUp
<1>1. Init => AddsUp
  BY DEF Init, AddsUp
<1>2. IInv /\ AddsUp /\ [Next]_vars => AddsUp'
  <2> SUFFICES ASSUME IInv, AddsUp, [Next]_vars, pc' # "crashed"
               PROVE  Len(succeeded') + Len(failed') + Len(skipped') = Len(evaluated')
    BY DEF AddsUp
  <2>1. CASE Execute
    <3> DEFINE k == Len(evaluated) + 1
    <3>1. PICK e :
            /\ evaluated' = Append(evaluated, e)
            /\ \/ succeeded' = Append(succeeded, k) /\ UNCHANGED <<failed, skipped>>
               \/ failed' = Append(failed, k) /\ UNCHANGED <<succeeded, skipped>>
               \/ skipped' = Append(skipped, k) /\ UNCHANGED <<succeeded, failed>>
      BY <2>1, ExecuteFacts DEF IInv
    <3>2. /\ IsList(evaluated) /\ IsList(succeeded) /\ IsList(failed) /\ IsList(skipped)
          /\ Len(evaluated) \in Nat /\ Len(succeeded) \in Nat
          /\ Len(failed) \in Nat /\ Len(skipped) \in Nat
      BY ListFacts DEF IInv, Counting, Verdicts
    <3>3. /\ Len(evaluated') = Len(evaluated) + 1
          /\ Len(Append(succeeded, k)) = Len(succeeded) + 1
          /\ Len(Append(failed, k)) = Len(failed) + 1
          /\ Len(Append(skipped, k)) = Len(skipped) + 1
      BY <3>1, <3>2, ListAppend
    <3>4. Len(succeeded) + Len(failed) + Len(skipped) = Len(evaluated)
      BY <2>1 DEF AddsUp, Execute
    <3> HIDE DEF k
    <3> QED
      BY <3>1, <3>2, <3>3, <3>4
  <2>2. CASE Load \/ Expand \/ Render \/ Finish \/ UNCHANGED vars
    <3>1. UNCHANGED <<evaluated, succeeded, failed, skipped>> /\ pc # "crashed"
      BY <2>2 DEF Load, Expand, Render, Finish, vars, results
    <3> QED
      BY <3>1 DEF AddsUp
  <2> QED
    BY <2>1, <2>2 DEF Next
<1> QED
  BY <1>1, <1>2, Inductive, PTL DEF Spec

-------------------------------------------------------------------------------
(* What a test is run with. *)

(* What is given for a key is the value in the layers, if there is one.    *)
LEMMA GivenFacts ==
  ASSUME NEW t, NEW k
  PROVE  Given(t, k) = IF k \in DOMAIN Layered(t) THEN {Layered(t)[k]} ELSE {}
<1> DEFINE a == Source.tests[t.origin]
           b == t.pick
           c == suite.default
           e == Source.default
           layers == <<a, b, c, e>>
           have == {i \in 1 .. 4 : k \in DOMAIN layers[i]}
           d == Layered(t)
<1>1. /\ DOMAIN d = DOMAIN a \cup DOMAIN b \cup DOMAIN c \cup DOMAIN e
      /\ k \in DOMAIN d =>
           d[k] = IF k \in DOMAIN a THEN a[k] ELSE IF k \in DOMAIN b THEN b[k]
                  ELSE IF k \in DOMAIN c THEN c[k] ELSE e[k]
  BY DEF Layered, WithDefaults
<1>2. Given(t, k) = {layers[i][k] : i \in {j \in have : \A other \in have : j <= other}}
  BY DEF Given
<1>3. layers[1] = a /\ layers[2] = b /\ layers[3] = c /\ layers[4] = e
  OBVIOUS
<1>4. /\ 1 \in have <=> k \in DOMAIN a
      /\ 2 \in have <=> k \in DOMAIN b
      /\ 3 \in have <=> k \in DOMAIN c
      /\ 4 \in have <=> k \in DOMAIN e
  BY <1>3
<1>5. have \subseteq 1 .. 4
  OBVIOUS
<1> HIDE DEF a, b, c, e, layers, have, d
<1>6. ASSUME NEW m \in have, \A other \in have : m <= other
      PROVE  Given(t, k) = {layers[m][k]}
  <2>1. {j \in have : \A other \in have : j <= other} = {m}
    <3>1. \A j \in have : j \in Int
      BY <1>5
    <3>2. ASSUME NEW j \in have, \A other \in have : j <= other
          PROVE  j = m
      <4>1. j <= m /\ m <= j
        BY <1>6, <3>2
      <4> QED
        BY <3>1, <4>1
    <3> QED
      BY <1>6, <3>2
  <2> QED
    BY <1>2, <2>1
<1>7. CASE k \in DOMAIN a
  <2>1. Given(t, k) = {layers[1][k]}
    BY <1>4, <1>5, <1>6, <1>7
  <2> QED
    BY <1>1, <1>3, <1>7, <2>1 DEF d
<1>8. CASE k \notin DOMAIN a /\ k \in DOMAIN b
  <2>1. Given(t, k) = {layers[2][k]}
    BY <1>4, <1>5, <1>6, <1>8
  <2> QED
    BY <1>1, <1>3, <1>8, <2>1 DEF d
<1>9. CASE k \notin DOMAIN a /\ k \notin DOMAIN b /\ k \in DOMAIN c
  <2>1. Given(t, k) = {layers[3][k]}
    BY <1>4, <1>5, <1>6, <1>9
  <2> QED
    BY <1>1, <1>3, <1>9, <2>1 DEF d
<1>10. CASE k \notin DOMAIN a /\ k \notin DOMAIN b /\ k \notin DOMAIN c /\ k \in DOMAIN e
  <2>1. Given(t, k) = {layers[4][k]}
    BY <1>4, <1>5, <1>6, <1>10
  <2> QED
    BY <1>1, <1>3, <1>10, <2>1 DEF d
<1>11. CASE k \notin DOMAIN a /\ k \notin DOMAIN b /\ k \notin DOMAIN c /\ k \notin DOMAIN e
  <2>1. have = {}
    BY <1>4, <1>5, <1>11
  <2> QED
    BY <1>1, <1>2, <1>11, <2>1 DEF d
<1> QED
  BY <1>7, <1>8, <1>9, <1>10, <1>11

(* A resource that loads is what its description says it is.               *)
LEMMA LoadedAsDescribed ==
  ASSUME NEW name \in DOMAIN Source.resources, suite \in Suites,
         LoadResource(Source.resources[name]) # Unloadable
  PROVE  LoadResource(Source.resources[name]) \in Described(name)
<1> DEFINE d == Source.resources[name]
<1>1. d \in Descriptions
  BY SuiteFacts DEF Range
<1>2. /\ d.type \in {"none", "json", "other"}
      /\ d.src \in {"none", "missing", "text", "document"}
      /\ d.inline \in BOOLEAN
      /\ d.transform \in {"none", "applies", "fails"}
  BY <1>1 DEF Descriptions
<1>3. Described(name) =
        LET from == IF d.src = "document" \/ (d.src = "text" /\ d.type = "other") THEN "file"
                    ELSE IF d.src = "none" /\ d.inline THEN "data" ELSE Invalid
        IN  {IF d.type = "none" \/ from = Invalid \/ d.transform = "fails" THEN Invalid
             ELSE IF d.transform = "applies" THEN "transformed" ELSE from}
  BY DEF Described
<1> HIDE DEF d
<1>4. CASE d.inline = TRUE
  BY <1>2, <1>3, <1>4 DEF LoadResource, Complete, Readable, Invalid, Unloadable, d
<1>5. CASE d.inline = FALSE
  BY <1>2, <1>3, <1>5 DEF LoadResource, Complete, Readable, Invalid, Unloadable, d
<1> QED
  BY <1>2, <1>4, <1>5

(***************************************************************************)
(* Every value a test is run with comes from where the test, its template  *)
(* choice and the defaults say, or is the resource that one of them names. *)
(***************************************************************************)
THEOREM InputsAreExplained == Spec => []InputsExplained
<1>1. IInv => InputsExplained
  <2> SUFFICES ASSUME IInv, NEW n \in DOMAIN evaluated
               PROVE  LET t == evaluated[n].test IN
                      \A k \in DOMAIN t.dict :
                        LET names == UNION {Given(t, r) : r \in {q \in RefKeys : Filled(q) = k}} IN
                        t.dict[k] \in IF names # {} THEN UNION {Described(name) : name \in names}
                                                    ELSE Given(t, k)
    BY DEF InputsExplained
  <2> DEFINE t == evaluated[n].test
             d == Layered(t)
             refs == DOMAIN d \cap RefKeys
  <2>1. suite \in Suites /\ resources = Loaded(Source) /\ Unloadable \notin Range(resources)
    BY ListFacts DEF IInv, Counting, Fetched
  <2>2. t.dict = Fill(d)
    BY DEF IInv, Rendering, Rendered
  <2> HIDE DEF t, d
  <2>3. \A k : Given(t, k) = IF k \in DOMAIN d THEN {d[k]} ELSE {}
    BY GivenFacts DEF d
  <2>4. \A name : Resource(name) \in Described(name)
    <3> TAKE name
    <3>1. CASE name \in DOMAIN Source.resources
      <4>1. /\ Resource(name) = LoadResource(Source.resources[name])
            /\ name \in DOMAIN resources /\ resources[name] = LoadResource(Source.resources[name])
        BY <2>1, <3>1 DEF Resource, Loaded
      <4>2. LoadResource(Source.resources[name]) # Unloadable
        BY <2>1, <4>1 DEF Range
      <4> QED
        BY <2>1, <3>1, <4>1, <4>2, LoadedAsDescribed
    <3>2. CASE name \notin DOMAIN Source.resources
      BY <2>1, <3>2 DEF Resource, Loaded, Described
    <3> QED
      BY <3>1, <3>2
  <2>5. ASSUME NEW k \in DOMAIN t.dict
        PROVE  LET names == UNION {Given(t, r) : r \in {q \in RefKeys : Filled(q) = k}} IN
               t.dict[k] \in IF names # {} THEN UNION {Described(name) : name \in names}
                                           ELSE Given(t, k)
    <3> DEFINE names == UNION {Given(t, r) : r \in {q \in RefKeys : Filled(q) = k}}
    <3>1. CASE \E r \in refs : Filled(r) = k
      <4> DEFINE r == CHOOSE r \in refs : Filled(r) = k
      <4>1. r \in refs /\ Filled(r) = k
        BY <3>1
      <4>2. t.dict[k] = Resource(d[r])
        BY <2>2, <3>1 DEF Fill
      <4> HIDE DEF r
      <4>3. d[r] \in names
        BY <2>3, <4>1
      <4> QED
        BY <2>4, <4>2, <4>3
    <3>2. CASE ~ \E r \in refs : Filled(r) = k
      <4>1. \A q \in RefKeys : Filled(q) = k => Given(t, q) = {}
        BY <2>3, <3>2
      <4>2. names = {}
        BY <4>1
      <4>3. k \in DOMAIN d /\ t.dict[k] = d[k]
        BY <2>2, <3>2 DEF Fill
      <4> QED
        BY <2>3, <4>2, <4>3
    <3> QED
      BY <3>1, <3>2
  <2> QED
    BY <2>5 DEF t
<1> QED
  BY <1>1, Inductive, PTL

-------------------------------------------------------------------------------
(* What a template expands to. *)

(* The choices for the keys a test leaves open.                            *)
LEMMA PicksFacts ==
  ASSUME suite \in Suites, Has(suite, "template"), NEW n
  PROVE  \A p : p \in Picks(n) <=> IsPick(p, TemplateKeys(Source.tests[n]), 1)
<1> DEFINE keys == TemplateKeys(Source.tests[n])
           open == OpenKeys(n)
           K == {keys[m].key : m \in 1 .. Len(keys)}
<1>1. IsTemplate(keys) /\ Range(keys) = open
  BY SuiteFacts, TemplateKeysFacts DEF OpenKeys
<1> HIDE DEF keys, open
<1>2. DOMAIN keys = 1 .. Len(keys)
  BY <1>1, ListFacts DEF IsTemplate
<1>3. \A t : t \in open <=> \E m \in 1 .. Len(keys) : t = keys[m]
  BY <1>1, <1>2 DEF Range
<1>4. {t.key : t \in open} = K
  BY <1>3
<1>5. ASSUME NEW p
      PROVE  p \in Picks(n) <=> IsPick(p, keys, 1)
  <2> DEFINE V == UNION {Range(t.values) : t \in open}
             Fits == \A m \in 1 .. Len(keys) : p[keys[m].key] \in Range(keys[m].values)
  <2>1. (\A t \in open : p[t.key] \in Range(t.values)) <=> Fits
    BY <1>3
  <2>2. p \in Picks(n) <=> p \in [K -> V] /\ (\A t \in open : p[t.key] \in Range(t.values))
    BY <1>4 DEF Picks, open
  <2>3. IsPick(p, keys, 1) <=> p = [k \in K |-> p[k]] /\ Fits
    BY DEF IsPick
  <2>4. p = [k \in K |-> p[k]] /\ Fits => p \in [K -> V]
    <3> SUFFICES ASSUME p = [k \in K |-> p[k]], Fits, NEW k \in K
                 PROVE  p[k] \in V
      <4> HIDE DEF K, V, Fits
      <4> QED
        OBVIOUS
    <3>1. PICK m \in 1 .. Len(keys) : k = keys[m].key
      OBVIOUS
    <3>2. keys[m] \in open /\ p[k] \in Range(keys[m].values)
      BY <1>3, <3>1
    <3> QED
      BY <3>2
  <2>5. p \in [K -> V] => p = [k \in K |-> p[k]]
    <3> HIDE DEF K, V
    <3> QED
      OBVIOUS
  <2> HIDE DEF K, V, Fits
  <2> QED
    BY <2>1, <2>2, <2>3, <2>4, <2>5
<1> QED
  BY <1>5 DEF keys

(* The expansion of a suite holds the tests that it should.                *)
Expanded ==
  Has(suite, "template") /\ pc \in {"render", "execute", "done"} =>
    /\ \A n \in DOMAIN Source.tests : \A p :
         p \in Picks(n) <=> \E i \in DOMAIN tests : tests[i].origin = n /\ tests[i].pick = p
    /\ NoneTwice(suite.template) =>
         \A i, j \in DOMAIN tests :
           tests[i].origin = tests[j].origin /\ tests[i].pick = tests[j].pick => i = j

LEMMA ExpandedByExpand ==
  ASSUME Counting, Unexpanded, Expand, pc' # "crashed"
  PROVE  Expanded'
<1> DEFINE own(n) == Source.tests[n]
           copy(n, p) == Test(n, p, WithDefaults(own(n), p))
           seqs == [n \in DOMAIN tests |-> Copies(tests[n])]
<1>1. /\ suite' = suite /\ suite \in Suites /\ Has(suite, "template")
      /\ tests = [n \in DOMAIN Source.tests |-> Test(n, Nothing, Source.tests[n])]
  BY DEF Counting, Unexpanded, Expand
<1>2. /\ DOMAIN tests = DOMAIN Source.tests
      /\ \A n \in DOMAIN Source.tests : tests[n].origin = n /\ tests[n].dict = own(n)
  BY <1>1 DEF Test
<1>3. /\ IsList(seqs) /\ tests' = FlattenSeq(seqs)
      /\ \A n \in DOMAIN tests : TemplateKeys(tests[n].dict) # <<>>
      /\ \A u : u \in Range(tests') <=> \E n \in DOMAIN tests : CopyOf(u, tests[n])
  BY ExpandFacts
<1>4. \A n \in DOMAIN Source.tests : \A u :
        CopyOf(u, tests[n]) <=> \E p : p \in Picks(n) /\ u = copy(n, p)
  <2> TAKE n \in DOMAIN Source.tests
  <2> TAKE u
  <2>1. \A p : p \in Picks(n) <=> IsPick(p, TemplateKeys(own(n)), 1)
    BY <1>1, PicksFacts
  <2>2. CopyOf(u, tests[n]) <=> \E p : IsPick(p, TemplateKeys(own(n)), 1) /\ u = copy(n, p)
    BY <1>2 DEF CopyOf
  <2> HIDE DEF copy, own
  <2> QED
    BY <2>1, <2>2
<1>5. \A n, p : copy(n, p).origin = n /\ copy(n, p).pick = p
  BY DEF Test
<1> HIDE DEF copy, own
<1>6. \A n \in DOMAIN Source.tests : \A p :
        p \in Picks(n) <=> \E i \in DOMAIN tests' : tests'[i].origin = n /\ tests'[i].pick = p
  <2> TAKE n \in DOMAIN Source.tests
  <2> TAKE p
  <2>1. ASSUME p \in Picks(n)
        PROVE  \E i \in DOMAIN tests' : tests'[i].origin = n /\ tests'[i].pick = p
    <3>1. copy(n, p) \in Range(tests')
      BY <1>2, <1>3, <1>4, <2>1
    <3> QED
      BY <1>5, <3>1 DEF Range
  <2>2. ASSUME NEW i \in DOMAIN tests', tests'[i].origin = n, tests'[i].pick = p
        PROVE  p \in Picks(n)
    <3>1. tests'[i] \in Range(tests')
      BY DEF Range
    <3>2. PICK m \in DOMAIN Source.tests : CopyOf(tests'[i], tests[m])
      BY <1>2, <1>3, <3>1
    <3>3. PICK q : q \in Picks(m) /\ tests'[i] = copy(m, q)
      BY <1>4, <3>2
    <3> QED
      BY <1>5, <2>2, <3>3
  <2> QED
    BY <2>1, <2>2
<1>7. ASSUME NoneTwice(suite.template), NEW i \in DOMAIN tests', NEW j \in DOMAIN tests',
             tests'[i].origin = tests'[j].origin, tests'[i].pick = tests'[j].pick
      PROVE  i = j
  <2>1. tests'[i] = tests'[j]
    <3>1. ASSUME NEW k \in DOMAIN tests'
          PROVE  tests'[k] = copy(tests'[k].origin, tests'[k].pick)
      <4>1. tests'[k] \in Range(tests')
        BY DEF Range
      <4>2. PICK m \in DOMAIN Source.tests : CopyOf(tests'[k], tests[m])
        BY <1>2, <1>3, <4>1
      <4>3. PICK p : tests'[k] = copy(m, p)
        BY <1>4, <4>2
      <4> QED
        BY <1>5, <4>3
    <3> QED
      BY <1>7, <3>1
  <2>2. DOMAIN seqs = DOMAIN tests /\ \A n \in DOMAIN tests : seqs[n] = Copies(tests[n])
    OBVIOUS
  <2> HIDE DEF seqs
  <2>3. ASSUME NEW n \in DOMAIN seqs
        PROVE  /\ IsList(seqs[n])
               /\ \A u : u \in Range(seqs[n]) <=> CopyOf(u, tests[n])
               /\ \A k, l \in DOMAIN seqs[n] : seqs[n][k].pick = seqs[n][l].pick => k = l
    <3>1. NoneTwice(TemplateKeys(tests[n].dict))
      <4>1. \A t \in Range(TemplateKeys(tests[n].dict)) : t \in Range(suite.template)
        BY <1>1, SuiteFacts, TemplateKeysFacts
      <4>2. \A t \in Range(suite.template) : IsInjective(t.values)
        BY <1>7 DEF NoneTwice, Range
      <4> QED
        BY <4>1, <4>2 DEF NoneTwice, Range
    <3> QED
      BY <1>1, <1>3, <2>2, <2>3, <3>1, CopiesFacts
  <2>4. \A n \in DOMAIN seqs : IsInjective(seqs[n])
    BY <2>3 DEF IsInjective
  <2>5. \A m, n \in DOMAIN seqs : m # n => Range(seqs[m]) \cap Range(seqs[n]) = {}
    <3>1. ASSUME NEW n \in DOMAIN seqs, NEW u \in Range(seqs[n])
          PROVE  u.origin = n
      <4>1. CopyOf(u, tests[n]) /\ n \in DOMAIN Source.tests
        BY <1>2, <2>2, <2>3, <3>1
      <4>2. PICK p : u = copy(n, p)
        BY <1>4, <4>1
      <4> QED
        BY <1>5, <4>2
    <3> QED
      BY <3>1
  <2>6. IsInjective(tests')
    BY <1>3, <2>3, <2>4, <2>5, FlattenFacts DEF Apart
  <2> QED
    BY <1>7, <2>1, <2>6 DEF IsInjective
<1>8. Source' = Source /\ \A n : Picks(n)' = Picks(n)
  BY <1>1 DEF Source, Picks, OpenKeys, Has
<1> QED
  BY <1>1, <1>6, <1>7, <1>8 DEF Expanded

(* Rendering changes nothing but the dictionary of a test.                 *)
LEMMA ExpandedInvariance ==
  ASSUME Counting, Unexpanded, Rendering, Expanded, [Next]_vars
  PROVE  Expanded'
<1>1. suite' = suite
  BY DEF Next, Load, Expand, Render, Execute, Finish, vars
<1>2. Source' = Source /\ \A n : Picks(n)' = Picks(n)
  BY <1>1 DEF Source, Picks, OpenKeys, Has
<1>3. CASE Load
  BY <1>1, <1>3 DEF Load, Expanded, Has
<1>4. CASE Expand
  <2>1. CASE pc' = "crashed"
    BY <2>1 DEF Expanded
  <2> QED
    BY <1>4, <2>1, ExpandedByExpand
<1>5. ASSUME pc' \in {"render", "execute", "done"} => pc \in {"render", "execute", "done"},
             DOMAIN tests' = DOMAIN tests,
             \A n \in DOMAIN tests :
               tests'[n].origin = tests[n].origin /\ tests'[n].pick = tests[n].pick
      PROVE  Expanded'
  BY <1>1, <1>2, <1>5 DEF Expanded
<1>6. CASE Render
  <2>1. UNCHANGED tests \/ \E d : tests' = [tests EXCEPT ![next].dict = d]
    BY <1>6 DEF Render
  <2>2. ASSUME NEW d, tests' = [tests EXCEPT ![next].dict = d], NEW n \in DOMAIN tests
        PROVE  tests'[n].origin = tests[n].origin /\ tests'[n].pick = tests[n].pick
    <3>1. CASE n = next
      <4>1. tests'[n] = [tests[n] EXCEPT !.dict = d]
        BY <2>2, <3>1
      <4>2. tests[n] = Test(tests[n].origin, tests[n].pick, tests[n].dict)
        BY DEF Rendering, OfSuite
      <4> QED
        BY <4>1, <4>2 DEF Test
    <3>2. CASE n # next
      BY <2>2, <3>2
    <3> QED
      BY <3>1, <3>2
  <2>3. DOMAIN tests' = DOMAIN tests
    BY <2>1
  <2> QED
    BY <1>5, <1>6, <2>1, <2>2, <2>3 DEF Render
<1>7. CASE Execute \/ Finish \/ UNCHANGED vars
  <2>1. tests' = tests /\ (pc \in {"render", "execute"} \/ pc' = pc)
    BY <1>7 DEF Execute, Finish, vars
  <2> QED
    BY <1>5, <2>1
<1> QED
  BY <1>3, <1>4, <1>6, <1>7 DEF Next

(***************************************************************************)
(* The tests of a suite with a template are, once expanded, each of its    *)
(* tests with every choice of values for the keys it leaves open, and none *)
(* more than once where no key has a value twice: however many keys and    *)
(* values the template has.                                                *)
(***************************************************************************)
THEOREM ExpansionIsComplete == Spec => []ExpansionComplete
<1>1. Init => Expanded
  BY DEF Init, Expanded
<1>2. IInv /\ Expanded /\ [Next]_vars => Expanded'
  BY ExpandedInvariance DEF IInv
<1>3. IInv /\ Expanded => ExpansionComplete
  <2> SUFFICES ASSUME IInv, Expanded, Has(suite, "template"), pc \in {"render", "execute", "done"}
               PROVE  /\ \A n \in DOMAIN Source.tests :
                           {t.pick : t \in {u \in Range(tests) : u.origin = n}} = Picks(n)
                      /\ (\A t \in Range(suite.template) : IsInjective(t.values)) =>
                           \A i, j \in DOMAIN tests :
                             tests[i].origin = tests[j].origin /\ tests[i].pick = tests[j].pick => i = j
    BY DEF ExpansionComplete
  <2>1. ASSUME NEW n \in DOMAIN Source.tests
        PROVE  {t.pick : t \in {u \in Range(tests) : u.origin = n}} = Picks(n)
    <3> DEFINE P == {t.pick : t \in {u \in Range(tests) : u.origin = n}}
    <3>1. \A p : p \in P <=> \E i \in DOMAIN tests : tests[i].origin = n /\ tests[i].pick = p
      BY DEF Range
    <3>2. \A p : p \in P <=> p \in Picks(n)
      <4> HIDE DEF P
      <4> QED
        BY <3>1 DEF Expanded
    <3> QED
      BY <3>2
  <2>2. (\A t \in Range(suite.template) : IsInjective(t.values)) => NoneTwice(suite.template)
    BY DEF NoneTwice, Range
  <2> QED
    BY <2>1, <2>2 DEF Expanded
<1> QED
  BY <1>1, <1>2, <1>3, Inductive, PTL DEF Spec
===============================================================================
