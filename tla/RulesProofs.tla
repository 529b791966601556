------------------------------ MODULE RulesProofs ------------------------------
(***************************************************************************)
(* Theorems about the rules of Rules, for any questions of their kinds:    *)
(* conflicts between values, the direction of a kind, the resolution of a  *)
(* name, what a plan may hold, the buildings it checks, the strictest of   *)
(* the values of a clause, groups of rows, and what a search shows.        *)
(***************************************************************************)
EXTENDS Rules, FiniteSetTheorems, WellFoundedInduction, TLAPS

-----------------------------------------------------------------------------
(* Answers. *)

(* An optional field is a sequence of at most one element. *)
LEMMA SomeOrNone == /\ Optional(None)
                    /\ \A x : Optional(Some(x)) /\ Some(x) # None /\ Some(x)[1] = x
                    /\ ToSet(None) = {}
                    /\ \A s : Optional(s) /\ s # None => ToSet(s) = {s[1]}
<1>1. \A x : Some(x) # None /\ Some(x)[1] = x /\ Optional(Some(x))
  BY DEF Some, None, Optional
<1>2. \A s : s = <<s[1]>> => ToSet(s) = {s[1]}
  <2> TAKE s
  <2> HAVE s = <<s[1]>>
  <2>1. DOMAIN s = {1}
    OBVIOUS
  <2> QED
    BY <2>1 DEF ToSet
<1>3. ToSet(None) = {}
  BY DEF ToSet, None
<1> QED
  BY <1>1, <1>2, <1>3 DEF Optional

(* A question of one of these kinds is answered by the rule that it asks for. *)
ValuesAnswered ==
    Answered("values") =>
        /\ answer[1].first = Conflict(question.a, question.b)
        /\ answer[1].second = Conflict(question.b, question.a)

NormAnswered ==
    Answered("norm") =>
        answer[1] = Compile(question.spec, question.source, question.labels, question.catalog)

NameAnswered ==
    Answered("name") => answer[1] = Resolve(question.catalog, question.name, question.type)

KindAnswered == Answered("kind") => answer[1].classified = Classified(question.norm)

SentenceAnswered ==
    Answered("sentence") =>
        /\ answer[1].grammar = CompileRule(question.clause)
        /\ answer[1].triple = Grounded(FirstPass(question.triple), question.catalog)
        /\ answer[1].read = Compile(question.spec, question.source, {}, question.catalog).plan

OneAnswer ==
    /\ question \in Questions
    /\ ValuesAnswered /\ NormAnswered /\ NameAnswered /\ KindAnswered /\ SentenceAnswered

(* What was asked is in Questions, and answered once. *)
THEOREM AnswersInductive == Spec => []OneAnswer
<1>1. Init => OneAnswer
  BY DEF Init, OneAnswer, ValuesAnswered, NormAnswered, NameAnswered, KindAnswered,
         SentenceAnswered, Answered
<1>2. OneAnswer /\ [Next]_vars => OneAnswer'
  <2> SUFFICES ASSUME OneAnswer, [Next]_vars
               PROVE  OneAnswer'
    OBVIOUS
  <2>1. question' = question
    BY DEF Next, CompileSpec, ResolveName, GroupRows, SearchRows, FindConflicts, CompareVotes, PlanNorm,
           ClassifyKind, vars
  <2>2. CASE FindConflicts
    <3>1. answer'[1] = [first |-> Conflict(question.a, question.b),
                        second |-> Conflict(question.b, question.a)]
      BY <2>2, SomeOrNone DEF FindConflicts
    <3>2. question.kind = "values"
      BY <2>2 DEF FindConflicts, Asked
    <3> QED
      BY <2>1, <3>1, <3>2 DEF OneAnswer, ValuesAnswered, NormAnswered, NameAnswered, KindAnswered,
                              SentenceAnswered, Answered
  <2>3. CASE ClassifyKind
    <3>1. answer'[1] = ResolvedKind(question.norm)
      BY <2>3, SomeOrNone DEF ClassifyKind
    <3>2. question.kind = "kind"
      BY <2>3 DEF ClassifyKind, Asked
    <3>3. ResolvedKind(question.norm).classified = Classified(question.norm)
      BY DEF ResolvedKind
    <3> QED
      BY <2>1, <3>1, <3>2, <3>3 DEF OneAnswer, ValuesAnswered, NormAnswered, NameAnswered, KindAnswered,
                                    SentenceAnswered, Answered
  <2>4. CASE UNCHANGED vars
    BY <2>4 DEF vars, OneAnswer, ValuesAnswered, NormAnswered, NameAnswered, KindAnswered,
                SentenceAnswered, Answered
  <2>5. CASE CompileSpec
    <3>1. answer'[1] = Compile(question.spec, question.source, question.labels, question.catalog)
      BY <2>5, SomeOrNone DEF CompileSpec
    <3>2. question.kind = "norm"
      BY <2>5 DEF CompileSpec, Asked
    <3> QED
      BY <2>1, <3>1, <3>2 DEF OneAnswer, ValuesAnswered, NormAnswered, NameAnswered, KindAnswered,
                              SentenceAnswered, Answered
  <2>7. CASE ResolveName
    <3>1. answer'[1] = Resolve(question.catalog, question.name, question.type)
      BY <2>7, SomeOrNone DEF ResolveName
    <3>2. question.kind = "name"
      BY <2>7 DEF ResolveName, Asked
    <3> QED
      BY <2>1, <3>1, <3>2 DEF OneAnswer, ValuesAnswered, NormAnswered, NameAnswered, KindAnswered,
                              SentenceAnswered, Answered
  <2>8. CASE PlanNorm
    <3>1. answer'[1] = [grammar |-> CompileRule(question.clause),
                        triple |-> Grounded(FirstPass(question.triple), question.catalog),
                        read |-> Compile(question.spec, question.source, {}, question.catalog).plan]
      BY <2>8, SomeOrNone DEF PlanNorm
    <3>2. question.kind = "sentence"
      BY <2>8 DEF PlanNorm, Asked
    <3> QED
      BY <2>1, <3>1, <3>2 DEF OneAnswer, ValuesAnswered, NormAnswered, NameAnswered, KindAnswered,
                              SentenceAnswered, Answered
  <2>6. CASE GroupRows \/ SearchRows \/ CompareVotes
    <3>1. question.kind \notin {"values", "norm", "name", "kind", "sentence"}
      BY <2>6 DEF GroupRows, SearchRows, CompareVotes, Asked
    <3> QED
      BY <2>1, <3>1 DEF OneAnswer, ValuesAnswered, NormAnswered, NameAnswered, KindAnswered,
                        SentenceAnswered, Answered
  <2> QED
    BY <2>2, <2>3, <2>4, <2>5, <2>6, <2>7, <2>8 DEF Next
<1> QED
  BY <1>1, <1>2, PTL DEF Spec

-----------------------------------------------------------------------------
(* Conflicts. *)

(* The least and the greatest integer that a value allows. *)
Ends(v, n) ==
    \/ v.operator = ">=" /\ Bounds(v) = [low |-> {n}, high |-> {}]
    \/ v.operator = ">" /\ Bounds(v) = [low |-> {n + 1}, high |-> {}]
    \/ v.operator = "<=" /\ Bounds(v) = [low |-> {}, high |-> {n}]
    \/ v.operator = "<" /\ Bounds(v) = [low |-> {}, high |-> {n - 1}]
    \/ v.operator = "=" /\ Bounds(v) = [low |-> {n}, high |-> {n}]

(* The ends follow from the operator. *)
LEMMA BoundsByOperator ==
    ASSUME NEW v, Comparable(v)
    PROVE  Ends(v, v.number[1])
<1>1. CASE v.operator = ">="
  BY <1>1 DEF Bounds, Ends
<1>2. CASE v.operator = ">"
  BY <1>2 DEF Bounds, Ends
<1>3. CASE v.operator = "<="
  BY <1>3 DEF Bounds, Ends
<1>4. CASE v.operator = "<"
  BY <1>4 DEF Bounds, Ends
<1>5. CASE v.operator = "="
  BY <1>5 DEF Bounds, Ends
<1> QED
  BY <1>1, <1>2, <1>3, <1>4, <1>5 DEF Comparable

(* The numbers that a comparable value allows are those between its bounds. *)
LEMMA BoundsAreTheValue ==
    ASSUME NEW v, Comparable(v), v.number[1] \in Int, NEW x \in Int
    PROVE  Holds(v, x) <=> /\ \A low \in Bounds(v).low : low <= x
                           /\ \A high \in Bounds(v).high : x <= high
<1> DEFINE n == v.number[1]
<1>1. Ends(v, n)
  BY BoundsByOperator
<1>3. CASE v.operator = ">=" /\ Bounds(v) = [low |-> {n}, high |-> {}]
  BY <1>3 DEF Holds, Compares
<1>4. CASE v.operator = ">" /\ Bounds(v) = [low |-> {n + 1}, high |-> {}]
  BY <1>4 DEF Holds, Compares
<1>5. CASE v.operator = "<=" /\ Bounds(v) = [low |-> {}, high |-> {n}]
  BY <1>5 DEF Holds, Compares
<1>6. CASE v.operator = "<" /\ Bounds(v) = [low |-> {}, high |-> {n - 1}]
  BY <1>6 DEF Holds, Compares
<1>7. CASE v.operator = "=" /\ Bounds(v) = [low |-> {n}, high |-> {n}]
  BY <1>7 DEF Holds, Compares
<1> QED
  BY <1>1, <1>3, <1>4, <1>5, <1>6, <1>7 DEF Ends

(* Ends are integers, at most one on each side, and edges of the value. *)
LEMMA EndsOfValue ==
    ASSUME NEW v, Comparable(v), v.number[1] \in Int
    PROVE  /\ Bounds(v).low \cup Bounds(v).high \subseteq Edges(v)
           /\ Edges(v) \subseteq Int
           /\ \A p, q \in Bounds(v).low : p = q
           /\ \A p, q \in Bounds(v).high : p = q
           /\ \A low \in Bounds(v).low, high \in Bounds(v).high : low <= high
           /\ Bounds(v).low # {} \/ Bounds(v).high # {}
<1> DEFINE n == v.number[1]
<1>1. Ends(v, n)
  BY BoundsByOperator
<1>2. Edges(v) = {n - 1, n, n + 1}
  BY DEF Edges
<1>3. CASE v.operator = ">=" /\ Bounds(v) = [low |-> {n}, high |-> {}]
  BY <1>3, <1>2
<1>4. CASE v.operator = ">" /\ Bounds(v) = [low |-> {n + 1}, high |-> {}]
  BY <1>4, <1>2
<1>5. CASE v.operator = "<=" /\ Bounds(v) = [low |-> {}, high |-> {n}]
  BY <1>5, <1>2
<1>6. CASE v.operator = "<" /\ Bounds(v) = [low |-> {}, high |-> {n - 1}]
  BY <1>6, <1>2
<1>7. CASE v.operator = "=" /\ Bounds(v) = [low |-> {n}, high |-> {n}]
  BY <1>7, <1>2
<1> QED
  BY <1>1, <1>3, <1>4, <1>5, <1>6, <1>7 DEF Ends

(* Two comparable values are compatible exactly when some integer satisfies both, and then *)
(* one at the edges does.                                                                   *)
LEMMA IncompatibleExactly ==
    ASSUME NEW v, NEW w, Comparable(v), Comparable(w), v.number[1] \in Int, w.number[1] \in Int
    PROVE  /\ \A x \in Int : Holds(v, x) /\ Holds(w, x) => ~Incompatible(v, w)
           /\ ~Incompatible(v, w) => \E x \in Edges(v) \cup Edges(w) : Holds(v, x) /\ Holds(w, x)
<1>1. ASSUME NEW x \in Int, Holds(v, x), Holds(w, x)
      PROVE  ~Incompatible(v, w)
  BY <1>1, BoundsAreTheValue, EndsOfValue DEF Incompatible, Below
<1>2. ASSUME ~Incompatible(v, w)
      PROVE  \E x \in Edges(v) \cup Edges(w) : Holds(v, x) /\ Holds(w, x)
  <2> DEFINE lows == Bounds(v).low \cup Bounds(w).low
             highs == Bounds(v).high \cup Bounds(w).high
  <2>1. lows \subseteq Int /\ highs \subseteq Int /\ lows \cup highs \subseteq Edges(v) \cup Edges(w)
    BY EndsOfValue
  <2>2. \A low \in lows, high \in highs : low <= high
    BY <1>2, <2>1, EndsOfValue DEF Incompatible, Below
  <2>3. ASSUME NEW x \in lows \cup highs, \A low \in lows : low <= x, \A high \in highs : x <= high
        PROVE  \E y \in Edges(v) \cup Edges(w) : Holds(v, y) /\ Holds(w, y)
    <3>1. x \in Int /\ x \in Edges(v) \cup Edges(w)
      BY <2>1
    <3> QED
      BY <2>3, <3>1, BoundsAreTheValue
  <2>4. CASE lows # {}
    <3>1. \E x \in lows : \A low \in lows : low <= x
      BY <2>4, <2>1, EndsOfValue
    <3> QED
      BY <2>2, <2>3, <3>1
  <2>5. CASE highs # {}
    <3>1. \E x \in highs : \A high \in highs : x <= high
      BY <2>5, <2>1, EndsOfValue
    <3> QED
      BY <2>2, <2>3, <3>1
  <2> QED
    BY <2>4, <2>5, EndsOfValue
<1> QED
  BY <1>1, <1>2

(* Two restrictions of one kind and unit are flagged exactly when no number satisfies both, *)
(* whichever was written first (ConflictsAreExact; find_conflicts of conflicts.py).          *)
THEOREM ConflictsFound == Spec => []ConflictsAreExact
<1>1. OneAnswer => ConflictsAreExact
  <2> SUFFICES ASSUME OneAnswer, Answered("values")
               PROVE  ConflictsAreExact
    BY DEF ConflictsAreExact
  <2> DEFINE a == question.a
             b == question.b
  <2>1. answer[1].first = Conflict(a, b) /\ answer[1].second = Conflict(b, a)
    BY DEF OneAnswer, ValuesAnswered
  <2>2. Conflict(a, b) = Conflict(b, a)
    BY DEF Conflict, Incompatible
  <2>3. ASSUME Comparable(a), Comparable(b), a.kind = b.kind, a.unit = b.unit
        PROVE  Conflict(a, b) = "none" <=> \E x \in Edges(a) \cup Edges(b) : Holds(a, x) /\ Holds(b, x)
    <3>1. a.number[1] \in Int /\ b.number[1] \in Int
      BY <2>3, NumbersAssumption DEF OneAnswer, Answered
    <3>2. Conflict(a, b) = "none" <=> ~Incompatible(a, b)
      BY <2>3 DEF Conflict
    <3>3. Edges(a) \cup Edges(b) \subseteq Int
      BY <2>3, <3>1, EndsOfValue
    <3> QED
      BY <2>3, <3>1, <3>2, <3>3, IncompatibleExactly
  <2> QED
    BY <2>1, <2>2, <2>3 DEF ConflictsAreExact
<1> QED
  BY <1>1, AnswersInductive, PTL

-----------------------------------------------------------------------------
(* Kinds. *)

(* Of the rules that fit, the first gives the kind. *)
LEMMA FirstFitIsFirst ==
    ASSUME NEW rules, NEW n \in Nat, DOMAIN rules = 1..n, \E i \in 1..n : rules[i].when
    PROVE  \E i \in 1..n : /\ rules[i].when
                           /\ \A j \in 1..n : j < i => ~rules[j].when
                           /\ FirstFit(rules) = rules[i].kind
<1> DEFINE fits == {i \in DOMAIN rules : rules[i].when}
           R == OpToRel(<, Nat)
<1>1. PICK m \in fits : \A j \in fits : ~ (<<j, m>> \in R)
  <2>1. IsWellFoundedOn(R, Nat)
    BY NatLessThanWellFounded
  <2>2. fits \in SUBSET Nat /\ fits # {}
    OBVIOUS
  <2> HIDE DEF R, fits
  <2> QED
    BY <2>1, <2>2, WFMin
<1>2. ASSUME NEW j \in fits
      PROVE  m <= j
  <2>1. <<j, m>> \in Nat \X Nat /\ <<j, m>>[1] = j /\ <<j, m>>[2] = m
    OBVIOUS
  <2>2. ~ (j < m) /\ j \in Nat /\ m \in Nat
    BY <1>1, <2>1 DEF OpToRel
  <2> QED
    BY <2>2
<1>3. (CHOOSE i \in fits : \A j \in fits : i <= j) = m
  <2>1. \A i \in fits : (\A j \in fits : i <= j) => i = m
    BY <1>2
  <2> HIDE DEF fits
  <2> QED
    BY <1>2, <2>1
<1>4. FirstFit(rules) = rules[m].kind
  BY <1>3 DEF FirstFit
<1>5. rules[m].when /\ m \in 1..n /\ \A j \in 1..n : j < m => ~rules[j].when
  BY <1>2
<1> QED
  BY <1>4, <1>5

RightWay(kind, value) ==
    /\ kind \in {"min_distance", "min_size", "min_share"} => value.operator \notin AtMost
    /\ kind \in {"max_distance", "max_size", "max_share"} => value.operator \in AtMost

(* A kind chosen by the operator goes its way, and there is always one. *)
LEMMA TowardIsDirected ==
    ASSUME NEW value
    PROVE  /\ RightWay(Toward(value, "min_share", "max_share"), value)
           /\ RightWay(Toward(value, "min_distance", "max_distance"), value)
           /\ RightWay(Toward(value, "min_size", "max_size"), value)
           /\ Toward(value, "min_share", "max_share") # "none"
           /\ Toward(value, "min_distance", "max_distance") # "none"
           /\ Toward(value, "min_size", "max_size") # "none"
  BY DEF Toward, RightWay

(* The kind of a quantity follows its operator; a quantity with a unit has one, unless it *)
(* is a length of which nobody says what it measures.                                      *)
LEMMA QuantityIsDirected ==
    ASSUME NEW value, NEW measure, NEW words
    PROVE  LET kind == Quantitative(value, measure, words)
           IN /\ RightWay(kind, value)
              /\ kind = "none" /\ value.unit \in {"length", "area", "percent", "time", "floors"} =>
                    /\ value.unit = "length"
                    /\ {"distance", "access", "size"} \cap words = {}
<1> DEFINE says(phrase) == phrase \in words
           is(unit) == value.unit = unit
           share == measure = "area_share" \/ (is("percent") /\ says("share"))
           distance == Toward(value, "min_distance", "max_distance")
           size == Toward(value, "min_size", "max_size")
           rules == <<
             Rule("density", share /\ says("density")),
             Rule(Toward(value, "min_share", "max_share"), share),
             Rule("provision", measure = "provision" \/ says("provision")),
             Rule("height", is("floors") \/ (says("height") /\ ~says("size"))),
             Rule("density", says("density")),
             Rule("access_time", is("time") /\ says("access")),
             Rule("term", is("time")),
             Rule(distance, is("length") /\ measure = "distance"),
             Rule(size, is("length") /\ measure = "linear_size"),
             Rule(distance, is("length") /\ (says("distance") \/ says("access"))),
             Rule(size, is("length") /\ says("size")),
             Rule("none", is("length")),
             Rule(size, is("area")),
             Rule("physical", is("physical") \/ says("physical")),
             Rule("count", measure = "count_share" \/ says("count") \/ is("percent")),
             Rule("none", TRUE)>>
<1>1. Quantitative(value, measure, words) = FirstFit(rules)
  BY DEF Quantitative
<1>2. DOMAIN rules = 1..16 /\ 16 \in Nat /\ rules[16].when
  BY DEF Rule
<1>3. PICK i \in 1..16 : /\ rules[i].when
                         /\ \A j \in 1..16 : j < i => ~rules[j].when
                         /\ FirstFit(rules) = rules[i].kind
  <2> HIDE DEF rules
  <2>1. \E i \in 1..16 : rules[i].when
    BY <1>2
  <2> QED
    BY <1>2, <2>1, FirstFitIsFirst
<1>4. CASE i \in {1, 3, 4, 5, 6, 7, 14, 15}
  <2>1. rules[i].kind \in {"density", "provision", "height", "access_time", "term", "physical",
                          "count"}
    BY <1>4 DEF Rule
  <2> HIDE DEF rules
  <2> QED
    BY <1>1, <1>3, <2>1 DEF RightWay
<1>5. CASE i = 2
  BY <1>1, <1>3, <1>5, TowardIsDirected DEF Rule
<1>6. CASE i = 8
  BY <1>1, <1>3, <1>6, TowardIsDirected DEF Rule
<1>7. CASE i = 9
  BY <1>1, <1>3, <1>7, TowardIsDirected DEF Rule
<1>8. CASE i = 10
  BY <1>1, <1>3, <1>8, TowardIsDirected DEF Rule
<1>9. CASE i = 11
  BY <1>1, <1>3, <1>9, TowardIsDirected DEF Rule
<1>10. CASE i = 13
  BY <1>1, <1>3, <1>10, TowardIsDirected DEF Rule
<1>11. CASE i = 12
  <2>1. value.unit = "length" /\ rules[i].kind = "none"
    BY <1>3, <1>11 DEF Rule
  <2>2. ~rules[10].when /\ ~rules[11].when
    BY <1>3, <1>11
  <2>3. ~(is("length") /\ (says("distance") \/ says("access"))) /\ ~(is("length") /\ says("size"))
    BY <2>2 DEF Rule
  <2> QED
    BY <1>1, <1>3, <2>1, <2>3 DEF RightWay
<1>12. CASE i = 16
  <2>1. rules[i].kind = "none"
    BY <1>3, <1>12 DEF Rule
  <2>2. ~rules[4].when /\ ~rules[7].when /\ ~rules[12].when /\ ~rules[13].when /\ ~rules[15].when
    BY <1>3, <1>12
  <2>3. ~is("floors") /\ ~is("time") /\ ~is("length") /\ ~is("area") /\ ~is("percent")
    BY <2>2 DEF Rule
  <2> QED
    BY <1>1, <1>3, <2>1, <2>3 DEF RightWay
<1> QED
  BY <1>4, <1>5, <1>6, <1>7, <1>8, <1>9, <1>10, <1>11, <1>12

(* No kind that has a direction is decided without a number. *)
LEMMA WordsHaveNoDirection ==
    ASSUME NEW label, NEW text
    PROVE  Qualitative(label, text) \in
              {"allowance", "no_placement", "no_use", "placement", "provision", "height", "term",
               "physical", "procedure", "requirement", "other"}
<1> DEFINE says(phrase) == phrase \in label.says
           prohibits == says("prohibit") \/ (label.empty /\ "prohibit" \in text)
           rules == <<
             Rule("allowance", says("allow")),
             Rule("no_placement", prohibits /\ says("place")),
             Rule("no_use", prohibits),
             Rule("placement", says("presence")),
             Rule("provision", says("provision")),
             Rule("height", says("height")),
             Rule("term", says("time")),
             Rule("physical", says("physical")),
             Rule("procedure", says("procedure")),
             Rule("requirement", says("require")),
             Rule("other", TRUE)>>
<1>1. Qualitative(label, text) = FirstFit(rules)
  BY DEF Qualitative
<1>2. DOMAIN rules = 1..11 /\ 11 \in Nat /\ rules[11].when
  BY DEF Rule
<1>3. \A i \in 1..11 : rules[i].kind \in
         {"allowance", "no_placement", "no_use", "placement", "provision", "height", "term",
          "physical", "procedure", "requirement", "other"}
  BY DEF Rule
<1>4. PICK i \in 1..11 : FirstFit(rules) = rules[i].kind
  <2> HIDE DEF rules
  <2>1. \E i \in 1..11 : rules[i].when
    BY <1>2
  <2> QED
    BY <1>2, <2>1, FirstFitIsFirst
<1> HIDE DEF rules
<1> QED
  BY <1>1, <1>3, <1>4

(* A listed kind that has a direction says what is measured. *)
LEMMA ListedSaysWhat ==
    \A kind \in {"min_distance", "min_size", "min_share", "max_distance", "max_size", "max_share"} :
        KindSays[kind] \cap {"distance", "access", "size"} # {}
  BY DEF KindSays

(* Of a quantity with a unit the operator decides the direction, whatever the label, the     *)
(* indicator, the measurement and the quote say (KindTellsDirection; classify_kind).          *)
THEOREM OperatorDecides == Spec => []KindTellsDirection
<1>1. OneAnswer => KindTellsDirection
  <2> DEFINE norm == question.norm
             value == norm.value[1]
             words == norm.label.says \cup norm.indicator
             kind == Classified(norm)
             named == Quantitative(value, norm.measure, words)
             quoted == Quantitative(value, norm.measure, words \cup norm.text)
  <2> SUFFICES ASSUME OneAnswer, Answered("kind"), norm.value # << >>,
                      value.unit \in {"length", "area", "percent", "time", "floors"}
               PROVE  RightWay(kind, value)
    BY DEF KindTellsDirection, RightWay, None, OneAnswer, KindAnswered
  <2>1. kind = IF named # "none" THEN named
               ELSE IF norm.label.listed # << >> THEN norm.label.listed[1]
               ELSE IF quoted # "none" THEN quoted
               ELSE Qualitative(norm.label, norm.text)
    BY DEF Classified
  <2>2. CASE named # "none"
    BY <2>1, <2>2, QuantityIsDirected
  <2>3. CASE named = "none" /\ norm.label.listed # << >>
    <3>1. KindSays[kind] \subseteq norm.label.says
      BY <2>1, <2>3, LabelsAssumption DEF OneAnswer, Answered
    <3>2. {"distance", "access", "size"} \cap words = {}
      BY <2>3, QuantityIsDirected
    <3>3. KindSays[kind] \cap {"distance", "access", "size"} = {}
      BY <3>1, <3>2
    <3> QED
      BY <3>3, ListedSaysWhat DEF RightWay
  <2>4. CASE named = "none" /\ norm.label.listed = << >> /\ quoted # "none"
    BY <2>1, <2>4, QuantityIsDirected
  <2>5. CASE named = "none" /\ norm.label.listed = << >> /\ quoted = "none"
    BY <2>1, <2>5, WordsHaveNoDirection DEF RightWay
  <2> QED
    BY <2>2, <2>3, <2>4, <2>5
<1> QED
  BY <1>1, AnswersInductive, PTL

-----------------------------------------------------------------------------
(* Names. *)

(* A finite family of integers has a first least one. *)
LEMMA LeastIsLeast ==
    ASSUME NEW I \in SUBSET Int, IsFiniteSet(I), I # {},
           NEW keys, DOMAIN keys = I, \A i \in I : keys[i] \in Int
    PROVE  /\ LeastIndex(keys) \in I
           /\ \A j \in I : keys[LeastIndex(keys)] <= keys[j]
<1> DEFINE below(i) == {j \in I : keys[j] < keys[i] \/ (keys[j] = keys[i] /\ j < i)}
           sizes == {Cardinality(below(i)) : i \in I}
           R == OpToRel(<, Nat)
<1>1. \A i \in I : IsFiniteSet(below(i)) /\ Cardinality(below(i)) \in Nat
  BY FS_Subset, FS_CardinalityType
<1>2. PICK n \in sizes : \A m \in sizes : ~ (<<m, n>> \in R)
  <2>1. IsWellFoundedOn(R, Nat)
    BY NatLessThanWellFounded
  <2>2. sizes \in SUBSET Nat /\ sizes # {}
    BY <1>1
  <2> HIDE DEF R, sizes
  <2> QED
    BY <2>1, <2>2, WFMin
<1>3. PICK i \in I : n = Cardinality(below(i))
  OBVIOUS
<1>4. below(i) = {}
  <2> SUFFICES ASSUME NEW j \in below(i)
               PROVE  FALSE
    OBVIOUS
  <2>1. below(j) \subseteq below(i) /\ below(j) # below(i) /\ j \in I
    <3>1. /\ j \in I /\ i \in Int /\ j \in Int /\ keys[i] \in Int /\ keys[j] \in Int
          /\ keys[j] < keys[i] \/ (keys[j] = keys[i] /\ j < i)
      OBVIOUS
    <3>2. ASSUME NEW k \in below(j)
          PROVE  k \in below(i)
      <4>1. /\ k \in I /\ k \in Int /\ keys[k] \in Int
            /\ keys[k] < keys[j] \/ (keys[k] = keys[j] /\ k < j)
        OBVIOUS
      <4>2. keys[k] < keys[i] \/ (keys[k] = keys[i] /\ k < i)
        BY <3>1, <4>1
      <4> QED
        BY <4>1, <4>2
    <3>3. j \notin below(j)
      BY <3>1
    <3> QED
      BY <3>1, <3>2, <3>3
  <2>2. Cardinality(below(j)) < Cardinality(below(i))
    <3> HIDE DEF below
    <3> QED
      BY <1>1, <2>1, FS_Subset
  <2>3. Cardinality(below(j)) \in sizes /\ Cardinality(below(j)) \in Nat /\ n \in Nat
    BY <1>1, <1>3, <2>1
  <2>4. <<Cardinality(below(j)), n>> \in R
    <3> HIDE DEF below, sizes
    <3> QED
      BY <1>3, <2>2, <2>3 DEF OpToRel
  <2> QED
    BY <1>2, <2>3, <2>4
<1>5. \A j \in I : keys[i] <= keys[j] /\ (j < i => keys[i] < keys[j])
  BY <1>4
<1>6. \E k \in DOMAIN keys : \A j \in DOMAIN keys : keys[k] <= keys[j] /\ (j < k => keys[k] < keys[j])
  BY <1>5
<1> QED
  BY <1>6 DEF LeastIndex

(* Among some places of a sequence there is a first one, a last one, and exactly one if   *)
(* they are one in number.                                                                 *)
LEMMA SolePlace ==
    ASSUME NEW cat, NEW n \in Nat, DOMAIN cat = 1..n, NEW I \in SUBSET DOMAIN cat
    PROVE  /\ Cardinality(I) = 1 <=> \E i \in I : I = {i}
           /\ \A i \in I : I = {i} => FirstOf(cat, I) = Some(cat[i]) /\ LastOf(cat, I) = cat[i]
<1>1. IsFiniteSet(I) /\ I \subseteq Int
  <2>1. IsFiniteSet(1..n)
    BY FS_Interval
  <2> QED
    BY <2>1, FS_Subset
<1>2. ASSUME NEW i \in I, I = {i}
      PROVE  FirstOf(cat, I) = Some(cat[i]) /\ LastOf(cat, I) = cat[i] /\ Cardinality(I) = 1
  <2>1. (CHOOSE k \in I : \A j \in I : k <= j) = i
    BY <1>1, <1>2
  <2>2. (CHOOSE k \in I : \A j \in I : j <= k) = i
    BY <1>1, <1>2
  <2>3. Cardinality(I) = 1
    BY <1>2, FS_Singleton
  <2> QED
    BY <1>2, <2>1, <2>2, <2>3 DEF FirstOf, LastOf
<1>3. ASSUME Cardinality(I) = 1
      PROVE  \E i \in I : I = {i}
  BY <1>1, <1>3, FS_Singleton
<1> QED
  BY <1>2, <1>3

(* The first and the last of some places are among them. *)
LEMMA PlaceChosen ==
    ASSUME NEW cat, NEW n \in Nat, DOMAIN cat = 1..n, NEW I \in SUBSET DOMAIN cat, I # {}
    PROVE  /\ \E i \in I : FirstOf(cat, I) = Some(cat[i])
           /\ \E i \in I : LastOf(cat, I) = cat[i]
<1>1. IsFiniteSet(I) /\ I \in SUBSET Int
  <2>1. IsFiniteSet(1..n)
    BY FS_Interval
  <2> QED
    BY <2>1, FS_Subset
<1>2. \E i \in I : \A j \in I : i <= j
  <2> DEFINE keys == [i \in I |-> i]
  <2>1. DOMAIN keys = I /\ \A i \in I : keys[i] = i /\ keys[i] \in Int
    BY <1>1
  <2> HIDE DEF keys
  <2>2. LeastIndex(keys) \in I /\ \A j \in I : keys[LeastIndex(keys)] <= keys[j]
    BY <1>1, <2>1, LeastIsLeast
  <2> QED
    BY <2>1, <2>2
<1>3. \E i \in I : \A j \in I : j <= i
  <2> DEFINE keys == [i \in I |-> -i]
  <2>1. DOMAIN keys = I /\ \A i \in I : keys[i] = -i /\ keys[i] \in Int /\ i \in Int
    BY <1>1
  <2> HIDE DEF keys
  <2>2. LeastIndex(keys) \in I /\ \A j \in I : keys[LeastIndex(keys)] <= keys[j]
    BY <1>1, <2>1, LeastIsLeast
  <2>3. \A j \in I : j <= LeastIndex(keys)
    BY <2>1, <2>2
  <2> QED
    BY <2>2, <2>3
<1>4. (CHOOSE i \in I : \A j \in I : i <= j) \in I
  BY <1>2
<1>5. (CHOOSE i \in I : \A j \in I : j <= i) \in I
  BY <1>3
<1> QED
  BY <1>4, <1>5 DEF FirstOf, LastOf

(* A snapshot and the same entries in another order. *)
Reordered(cat, f, other) ==
    /\ cat \in Seq(Entry) /\ f \in Bijection(DOMAIN cat, DOMAIN cat)
    /\ other = [i \in DOMAIN cat |-> cat[f[i]]]

(* The names of the entries at some places, and where these entries are then. *)
NamesAt(cat, places) == {cat[i].name : i \in places}

Moved(cat, f, places) == {j \in DOMAIN cat : f[j] \in places}

(* What is said of the entries at some places is said of them in another order. *)
LEMMA PlacesMove ==
    ASSUME NEW cat, NEW f, NEW other, Reordered(cat, f, other),
           NEW I \in SUBSET DOMAIN cat, NEW J, J = Moved(cat, f, I)
    PROVE  /\ I = {} <=> J = {}
           /\ Cardinality(I) = 1 <=> Cardinality(J) = 1
           /\ SoleOf(cat, I) = SoleOf(other, J)
           /\ (\A i, j \in I : i = j) => FirstOf(cat, I) = FirstOf(other, J)
           /\ Cardinality(I) = 1 => LastOf(cat, I) = LastOf(other, J)
           /\ NamesAt(cat, I) = NamesAt(other, J)
<1> DEFINE D == DOMAIN cat
<1>1. /\ \A i \in D : f[i] \in D
      /\ \A i, j \in D : f[i] = f[j] => i = j
      /\ \A j \in D : \E i \in D : f[i] = j
      /\ DOMAIN other = D /\ \A i \in D : other[i] = cat[f[i]]
  BY DEF Reordered, Bijection, Injection, Surjection, IsInjective
<1>2. PICK n \in Nat : D = 1..n
  BY DEF Reordered
<1>0. (\A j : j \in J <=> j \in D /\ f[j] \in I) /\ \A i \in I : i \in D
  BY DEF Moved
<1> HIDE DEF D
<1>3. ASSUME NEW i \in I, I = {i}
      PROVE  \E j \in J : J = {j} /\ f[j] = i
  <2>1. PICK j \in D : f[j] = i
    BY <1>0, <1>1
  <2>2. j \in J
    BY <1>0, <2>1
  <2>3. ASSUME NEW k \in J
        PROVE  k = j
    <3>1. k \in D /\ f[k] = i
      BY <1>0, <1>3
    <3> QED
      BY <1>1, <2>1, <3>1
  <2> QED
    BY <2>1, <2>2, <2>3
<1>4. ASSUME NEW j \in J, J = {j}
      PROVE  I = {f[j]}
  <2>1. f[j] \in I
    BY <1>0
  <2>2. ASSUME NEW i \in I
        PROVE  i = f[j]
    <3>1. PICK k \in D : f[k] = i
      BY <1>0, <1>1
    <3>2. k \in J
      BY <1>0, <3>1
    <3> QED
      BY <1>4, <3>1, <3>2
  <2> QED
    BY <2>1, <2>2
<1>5. I = {} <=> J = {}
  <2>1. \A i \in I : \E j \in J : f[j] = i
    BY <1>0, <1>1
  <2>2. \A j \in J : f[j] \in I
    BY <1>0
  <2> QED
    BY <2>1, <2>2
<1>6. /\ Cardinality(I) = 1 <=> \E i \in I : I = {i}
      /\ \A i \in I : I = {i} => FirstOf(cat, I) = Some(cat[i]) /\ LastOf(cat, I) = cat[i]
  BY <1>2, SolePlace DEF D
<1>7. /\ Cardinality(J) = 1 <=> \E j \in J : J = {j}
      /\ \A j \in J : J = {j} => FirstOf(other, J) = Some(other[j]) /\ LastOf(other, J) = other[j]
  <2>1. J \in SUBSET DOMAIN other /\ DOMAIN other = 1..n
    BY <1>0, <1>1, <1>2 DEF D
  <2> QED
    BY <2>1, SolePlace
<1>8. Cardinality(I) = 1 <=> Cardinality(J) = 1
  BY <1>3, <1>4, <1>6, <1>7
<1>9. ASSUME Cardinality(I) = 1
      PROVE  FirstOf(cat, I) = FirstOf(other, J) /\ LastOf(cat, I) = LastOf(other, J)
  <2>1. PICK i \in I : I = {i}
    BY <1>6, <1>9
  <2>2. PICK j \in J : J = {j} /\ f[j] = i
    BY <1>3, <2>1
  <2>3. other[j] = cat[i]
    BY <1>0, <1>1, <2>2 DEF D
  <2> QED
    BY <1>6, <1>7, <2>1, <2>2, <2>3
<1>10. (\A i, j \in I : i = j) => I = {} \/ Cardinality(I) = 1
  BY <1>6
<1>11. I = {} => FirstOf(cat, I) = FirstOf(other, J)
  BY <1>5 DEF FirstOf
<1>12. NamesAt(cat, I) = NamesAt(other, J)
  <2>1. \A i \in I : \E j \in J : other[j] = cat[i]
    <3> TAKE i \in I
    <3>1. PICK j \in D : f[j] = i
      BY <1>0, <1>1
    <3> QED
      BY <1>0, <1>1, <3>1
  <2>2. \A j \in J : \E i \in I : other[j] = cat[i]
    BY <1>0, <1>1
  <2> QED
    BY <2>1, <2>2 DEF NamesAt
<1>13. SoleOf(cat, I) = SoleOf(other, J)
  BY <1>8, <1>9 DEF SoleOf
<1> QED
  BY <1>5, <1>8, <1>9, <1>10, <1>11, <1>12, <1>13

(* Then the order of the entries does not matter. *)
LEMMA ResolvedInAnyOrder ==
    ASSUME NEW cat, NEW f, NEW other, Reordered(cat, f, other), NamesDiffer(cat), NEW n, NEW type
    PROVE  Resolve(other, n, type) = Resolve(cat, n, type)
<1> DEFINE D == DOMAIN cat
           found == {i \in D : /\ OfType(cat[i], type)
                               /\ {cat[i].name, cat[i].label} \cap Aliases[n] # {}}
           moved == Moved(cat, f, found)
<1>1. /\ \A i \in D : f[i] \in D /\ other[i] = cat[f[i]]
      /\ \A j \in D : \E i \in D : f[i] = j
      /\ DOMAIN other = D
  BY DEF Reordered, Bijection, Injection, Surjection
<1>2. \A key : Called(other, key) = Moved(cat, f, Called(cat, key)) /\ Called(cat, key) \in SUBSET D
  BY <1>1 DEF Called, Moved
<1>3. ToSet(other) = ToSet(cat)
  BY <1>1 DEF ToSet
<1>4. Alike(other, n, type) = Alike(cat, n, type)
  BY <1>3 DEF Alike
<1>5. Called(cat, n) = {} <=> Called(other, n) = {}
  <2> DEFINE I == Called(cat, n)
  <2>1. I \in SUBSET D /\ Called(other, n) = Moved(cat, f, I)
    BY <1>2
  <2> HIDE DEF I
  <2>2. I = {} <=> Called(other, n) = {}
    BY <2>1, PlacesMove
  <2> QED
    BY <2>2 DEF I
<1>6. Exact(other, n, type) = Exact(cat, n, type)
  <2>1. CASE type = AnyType
    BY <1>2, <2>1, PlacesMove DEF Exact
  <2>2. CASE type # AnyType
    <3> DEFINE I == {i \in Called(cat, n) : cat[i].type = type}
               J == {j \in Called(other, n) : other[j].type = type}
    <3>1. J = Moved(cat, f, I) /\ I \in SUBSET D
      BY <1>1, <1>2 DEF Moved
    <3>2. \A i, j \in I : i = j
      BY <1>2 DEF NamesDiffer, Called
    <3> HIDE DEF I, J
    <3>3. FirstOf(cat, I) = FirstOf(other, J)
      BY <3>1, <3>2, PlacesMove
    <3> QED
      BY <2>2, <3>3 DEF Exact, I, J
  <2> QED
    BY <2>1, <2>2
<1>7. Worded(other, n, type) = Worded(cat, n, type)
  <2> DEFINE last == LastOf(cat, found)
             names == {cat[i].name : i \in found}
  <2>1. moved = {j \in DOMAIN other : /\ OfType(other[j], type)
                                       /\ {other[j].name, other[j].label} \cap Aliases[n] # {}}
    BY <1>1 DEF Moved
  <2>2. found \in SUBSET D /\ \A i \in found : OfType(cat[i], type) /\ i \in D
    OBVIOUS
  <2> HIDE DEF found
  <2>0. moved = Moved(cat, f, found) /\ moved \in SUBSET D
    BY DEF Moved
  <2> HIDE DEF moved
  <2>3. /\ names = {other[j].name : j \in moved}
        /\ Cardinality(found) = 1 => LastOf(other, moved) = last
        /\ found = {} <=> moved = {}
    <3>1. NamesAt(cat, found) = NamesAt(other, moved)
      BY <2>0, <2>2, PlacesMove
    <3>2. Cardinality(found) = 1 => LastOf(cat, found) = LastOf(other, moved)
      BY <2>0, <2>2, PlacesMove
    <3>3. found = {} <=> moved = {}
      BY <2>0, <2>2, PlacesMove
    <3> QED
      BY <3>1, <3>2, <3>3 DEF NamesAt
  <2> DEFINE unclear(places) == type = AnyType /\ Cardinality(places) # 1
  <2>4. /\ Worded(cat, n, type) =
             IF Cardinality(names) # 1 \/ unclear(Called(cat, last.name)) THEN None ELSE Some(last)
        /\ Worded(other, n, type) =
             IF Cardinality(names) # 1 \/ unclear(Called(other, LastOf(other, moved).name))
             THEN None ELSE Some(LastOf(other, moved))
    <3>1. Cardinality({other[j].name : j \in moved}) = Cardinality(names)
      BY <2>3
    <3> QED
      BY <2>1, <3>1 DEF Worded, found
  <2>5. CASE Cardinality(names) # 1
    BY <2>4, <2>5
  <2>6. CASE Cardinality(found) = 1
    <3>1. LastOf(other, moved) = last
      BY <2>3, <2>6
    <3> DEFINE I == Called(cat, last.name)
    <3>2. I \in SUBSET D /\ Called(other, last.name) = Moved(cat, f, I)
      BY <1>2
    <3>3. Cardinality(I) = 1 <=> Cardinality(Called(other, last.name)) = 1
      <4> HIDE DEF I
      <4> QED
        BY <3>2, PlacesMove
    <3> QED
      BY <2>4, <3>1, <3>3
  <2>7. CASE Cardinality(names) = 1 /\ Cardinality(found) # 1
    <3>1. PICK m \in Nat : D = 1..m
      BY DEF Reordered
    <3>2. PICK name : names = {name}
      <4>1. IsFiniteSet(D)
        BY <3>1, FS_Interval
      <4>2. IsFiniteSet(found)
        BY <2>2, <4>1, FS_Subset
      <4>3. IsFiniteSet(names)
        <5> DEFINE naming == [i \in found |-> cat[i].name]
        <5>1. naming \in Surjection(found, names)
          BY DEF Surjection
        <5> HIDE DEF naming, names
        <5> QED
          BY <4>2, <5>1, FS_Surjection
      <4> QED
        BY <2>7, <4>3, FS_Singleton
    <3>3. found # {} /\ moved # {} /\ moved \in SUBSET D
      BY <2>0, <2>3, <3>2
    <3>4. (\E i \in found : last = cat[i]) /\ \E j \in moved : LastOf(other, moved) = other[j]
      <4>1. DOMAIN other = 1..m /\ moved \in SUBSET DOMAIN other
        BY <1>1, <3>1, <3>3
      <4>2. \E j \in moved : LastOf(other, moved) = other[j]
        BY <3>3, <4>1, PlaceChosen
      <4>3. \E i \in found : last = cat[i]
        BY <2>2, <3>1, <3>3, PlaceChosen
      <4> QED
        BY <4>2, <4>3
    <3>5. last.name = name /\ LastOf(other, moved).name = name
      <4>1. last.name \in names
        BY <3>4
      <4>2. LastOf(other, moved).name \in {other[j].name : j \in moved}
        BY <3>4
      <4> QED
        BY <2>3, <3>2, <4>1, <4>2
    <3>6. \A i \in found : cat[i].name = name
      BY <3>2
    <3>7. type = AnyType
      <4> SUFFICES ASSUME type # AnyType
                   PROVE  FALSE
        OBVIOUS
      <4>1. \A i, j \in found : i = j
        BY <2>2, <3>6 DEF NamesDiffer, OfType
      <4>2. \E i \in found : found = {i}
        BY <3>3, <4>1
      <4> QED
        BY <2>2, <2>7, <3>1, <4>2, SolePlace
    <3> DEFINE I == Called(cat, name)
    <3>8. found \subseteq I /\ I \in SUBSET D
      BY <2>2, <3>6 DEF Called
    <3>9. Called(other, name) = Moved(cat, f, I)
      BY <1>2
    <3> HIDE DEF I
    <3>10. Cardinality(I) # 1
      <4> SUFFICES ASSUME Cardinality(I) = 1
                   PROVE  FALSE
        OBVIOUS
      <4>1. \E i \in I : I = {i}
        BY <3>1, <3>8, SolePlace
      <4>2. \E i \in found : found = {i}
        BY <3>3, <3>8, <4>1
      <4> QED
        BY <2>2, <2>7, <3>1, <4>2, SolePlace
    <3>11. Cardinality(Called(other, name)) # 1
      BY <3>8, <3>9, <3>10, PlacesMove
    <3> QED
      BY <2>4, <3>5, <3>7, <3>10, <3>11 DEF I
  <2> QED
    BY <2>5, <2>6, <2>7
<1> QED
  BY <1>4, <1>5, <1>6, <1>7 DEF Resolve

(* A name is resolved to an entry of the snapshot. *)
LEMMA ResolvedIsListed ==
    ASSUME NEW cat \in Seq(Entry), NEW n, NEW type, Resolve(cat, n, type) # None
    PROVE  \E e \in ToSet(cat) : Resolve(cat, n, type) = Some(e)
<1> DEFINE D == DOMAIN cat
           called == Called(cat, n)
           typed == {i \in called : cat[i].type = type}
           found == {i \in D : /\ OfType(cat[i], type)
                               /\ {cat[i].name, cat[i].label} \cap Aliases[n] # {}}
           alike == Alike(cat, n, type)
<1>1. PICK m \in Nat : D = 1..m
  OBVIOUS
<1>2. called \in SUBSET D /\ typed \in SUBSET D /\ found \in SUBSET D
  BY DEF Called
<1>3. \A i \in D : cat[i] \in ToSet(cat)
  BY DEF ToSet
<1>4. ASSUME NEW I \in SUBSET D, FirstOf(cat, I) # None
      PROVE  \E e \in ToSet(cat) : FirstOf(cat, I) = Some(e)
  <2>1. I # {}
    BY <1>4 DEF FirstOf
  <2> HIDE DEF D
  <2>2. \E i \in I : FirstOf(cat, I) = Some(cat[i])
    BY <1>1, <2>1, PlaceChosen DEF D
  <2> QED
    BY <1>3, <2>2
<1>5. CASE called # {}
  <2>1. Resolve(cat, n, type) = FirstOf(cat, called) \/ Resolve(cat, n, type) = FirstOf(cat, typed)
    BY <1>5 DEF Resolve, Exact, SoleOf
  <2> HIDE DEF called, typed
  <2> QED
    BY <1>2, <1>4, <2>1
<1>6. CASE called = {} /\ alike = {}
  <2>1. Resolve(cat, n, type) = Worded(cat, n, type)
    BY <1>6 DEF Resolve
  <2> DEFINE names == {cat[i].name : i \in found}
  <2>2. Cardinality(names) = 1 /\ Resolve(cat, n, type) = Some(LastOf(cat, found))
    BY <2>1 DEF Worded
  <2>3. found # {}
    <3>1. found = {} => names = {}
      OBVIOUS
    <3> HIDE DEF found, names
    <3> QED
      BY <2>2, <3>1, FS_EmptySet
  <2> HIDE DEF found
  <2>4. \E i \in found : LastOf(cat, found) = cat[i]
    BY <1>1, <1>2, <2>3, PlaceChosen
  <2> QED
    BY <1>2, <1>3, <2>2, <2>4
<1>7. CASE called = {} /\ alike # {}
  <2>1. Resolve(cat, n, type) = Some(CHOOSE e \in alike : TRUE)
    BY <1>7 DEF Resolve
  <2>2. (CHOOSE e \in alike : TRUE) \in alike /\ alike \subseteq ToSet(cat)
    BY <1>7 DEF Alike
  <2> QED
    BY <2>1, <2>2
<1> QED
  BY <1>5, <1>6, <1>7

(* A name means the same type whatever the order in which the types are listed, for any *)
(* catalog, stems and wordings (OrderFree; resolve of urban_catalog.py).                  *)
THEOREM OrderDoesNotMatter == Spec => []OrderFree
<1>1. OneAnswer => OrderFree
  <2> DEFINE cat == question.catalog
  <2> SUFFICES ASSUME OneAnswer, Answered("name"), NamesDiffer(cat), NEW f \in Bijection(DOMAIN cat, DOMAIN cat)
               PROVE  Resolve([i \in DOMAIN cat |-> cat[f[i]]], question.name, question.type) = answer[1]
    BY DEF OrderFree
  <2>1. cat \in Seq(Entry) /\ answer[1] = Resolve(cat, question.name, question.type)
    BY CatalogsAssumption DEF OneAnswer, NameAnswered, Answered
  <2> DEFINE other == [i \in DOMAIN cat |-> cat[f[i]]]
  <2>2. Reordered(cat, f, other) /\ NamesDiffer(cat)
    BY <2>1 DEF Reordered
  <2> HIDE DEF other, cat
  <2>3. Resolve(other, question.name, question.type) = Resolve(cat, question.name, question.type)
    BY <2>2, ResolvedInAnyOrder
  <2> QED
    BY <2>1, <2>3 DEF other
<1> QED
  BY <1>1, AnswersInductive, PTL

-----------------------------------------------------------------------------
(* The types of residential buildings. *)

(* Whether a building of so many floors is of a type. *)
OfHousing(n, h) == LET f == HousingFloors[h] IN f.low <= n /\ (f.high = None \/ n <= f.high[1])

(* A range of floors that has no gap is that of the types, no more and no less. *)
LEMMA FloorsAreMeant ==
    ASSUME NEW H \in SUBSET HousingTypes, H # {}, Floors(H) # None
    PROVE  LET f == Floors(H)[1]
           IN /\ f.low \in Nat /\ Optional(f.high)
              /\ \A n \in 1..20 : f.low <= n /\ (f.high = None \/ n <= f.high[1])
                                  <=> \E h \in H : OfHousing(n, h)
<1> DEFINE ranges == {HousingFloors[h] : h \in H}
           low == FloorSpan(H).low
           high == FloorSpan(H).high
           in(h) == h \in H
           follows(r) == \E s \in ranges : s.low < r.low /\ (s.high = None \/ r.low <= s.high[1] + 1)
<1>1. /\ HousingFloors["individual"].low = 1 /\ HousingFloors["individual"].high = Some(3)
      /\ HousingFloors["lowrise"].low = 1 /\ HousingFloors["lowrise"].high = Some(4)
      /\ HousingFloors["midrise"].low = 5 /\ HousingFloors["midrise"].high = Some(8)
      /\ HousingFloors["multistorey"].low = 9 /\ HousingFloors["multistorey"].high = None
  BY DEF HousingFloors
<1>2. \A x : Some(x) # None /\ Some(x)[1] = x /\ Optional(Some(x)) /\ Optional(None)
  BY SomeOrNone
<1>3. \A h \in H : h \in {"individual", "lowrise", "midrise", "multistorey"}
  BY DEF HousingTypes
<1>4. Floors(H)[1] = FloorSpan(H) /\ \A r \in ranges : r.low = low \/ follows(r)
  <2>1. Floors(H) = IF \A r \in ranges : r.low = low \/ follows(r) THEN Some(FloorSpan(H)) ELSE None
    BY DEF Floors
  <2> HIDE DEF low, follows, ranges
  <2> QED
    BY <1>2, <2>1
<1> DEFINE lows == {r.low : r \in ranges}
           highs == {r.high : r \in ranges}
<1>5. low \in lows /\ \A h \in H : low <= HousingFloors[h].low
  <2>1. \E n \in lows : \A r \in ranges : n <= r.low
    <3>1. \E k \in H : \A h \in H : HousingFloors[k].low <= HousingFloors[h].low
      <4> HIDE DEF ranges, lows
      <4>1. CASE "individual" \in H
        BY <1>1, <1>3, <4>1
      <4>2. CASE "lowrise" \in H
        BY <1>1, <1>3, <4>2
      <4>3. CASE "midrise" \in H /\ "individual" \notin H /\ "lowrise" \notin H
        BY <1>1, <1>3, <4>3
      <4>4. CASE "midrise" \notin H /\ "individual" \notin H /\ "lowrise" \notin H
        BY <1>1, <1>3, <4>4
      <4> QED
        BY <4>1, <4>2, <4>3, <4>4
    <3> QED
      BY <3>1
  <2>2. low = CHOOSE n \in lows : \A r \in ranges : n <= r.low
    BY DEF FloorSpan
  <2>3. low \in lows /\ \A r \in ranges : low <= r.low
    <3> HIDE DEF low, lows, ranges
    <3> QED
      BY <2>1, <2>2
  <2> QED
    BY <2>3
<1>6. high \in highs /\ (high = None \/ \A h \in H : HousingFloors[h].high # None /\ HousingFloors[h].high[1] <= high[1])
  <2>1. \E e \in highs : e = None \/ \A r \in ranges : r.high # None /\ r.high[1] <= e[1]
    <3>1. \E k \in H : \/ HousingFloors[k].high = None
                       \/ \A h \in H : HousingFloors[h].high # None /\ HousingFloors[h].high[1] <= HousingFloors[k].high[1]
      <4> HIDE DEF ranges, highs
      <4>1. CASE "multistorey" \in H
        BY <1>1, <4>1
      <4>2. CASE "multistorey" \notin H /\ "midrise" \in H
        BY <1>1, <1>2, <1>3, <4>2
      <4>3. CASE "multistorey" \notin H /\ "midrise" \notin H /\ "lowrise" \in H
        BY <1>1, <1>2, <1>3, <4>3
      <4>4. CASE "multistorey" \notin H /\ "midrise" \notin H /\ "lowrise" \notin H
        BY <1>1, <1>2, <1>3, <4>4
      <4> QED
        BY <4>1, <4>2, <4>3, <4>4
    <3> QED
      BY <3>1
  <2>2. high = CHOOSE e \in highs : e = None \/ \A r \in ranges : r.high # None /\ r.high[1] <= e[1]
    BY DEF FloorSpan
  <2>3. high \in highs /\ (high = None \/ \A r \in ranges : r.high # None /\ r.high[1] <= high[1])
    <3> HIDE DEF high, highs, ranges
    <3> QED
      BY <2>1, <2>2
  <2> QED
    BY <2>3
<1>7. (\E h \in H : low = HousingFloors[h].low) /\ \E h \in H : high = HousingFloors[h].high
  BY <1>5, <1>6
<1>8. \A h \in H : \/ HousingFloors[h].low = low
                   \/ \E k \in H : /\ HousingFloors[k].low < HousingFloors[h].low
                                   /\ \/ HousingFloors[k].high = None
                                      \/ HousingFloors[h].low <= HousingFloors[k].high[1] + 1
  BY <1>4
<1> HIDE DEF low, high, ranges, lows, highs
<1>9. "multistorey" \in H => high = None
  BY <1>1, <1>6
<1>10. "multistorey" \notin H => high # None
  BY <1>1, <1>2, <1>3, <1>7
<1>11. /\ "multistorey" \in H => low = 9 \/ "midrise" \in H
       /\ "midrise" \in H => low = 5 \/ "lowrise" \in H
  BY <1>1, <1>2, <1>3, <1>8
<1>12. /\ "individual" \in H \/ "lowrise" \in H => low = 1
       /\ "individual" \notin H /\ "lowrise" \notin H /\ "midrise" \in H => low = 5
       /\ "individual" \notin H /\ "lowrise" \notin H /\ "midrise" \notin H => low = 9
  BY <1>1, <1>3, <1>5, <1>7
<1>13. "multistorey" \notin H =>
          /\ "midrise" \in H => high = Some(8)
          /\ "midrise" \notin H /\ "lowrise" \in H => high = Some(4)
          /\ "midrise" \notin H /\ "lowrise" \notin H => high = Some(3)
  BY <1>1, <1>2, <1>3, <1>6, <1>7, <1>10
<1>14. \A n : (\E h \in H : OfHousing(n, h)) <=>
           \/ "individual" \in H /\ 1 <= n /\ n <= 3
           \/ "lowrise" \in H /\ 1 <= n /\ n <= 4
           \/ "midrise" \in H /\ 5 <= n /\ n <= 8
           \/ "multistorey" \in H /\ 9 <= n
  BY <1>1, <1>2, <1>3 DEF OfHousing
<1>15. low \in Nat /\ Optional(high)
  BY <1>1, <1>2, <1>3, <1>7
<1>16. ASSUME NEW n \in 1..20
       PROVE  low <= n /\ (high = None \/ n <= high[1]) <=> \E h \in H : OfHousing(n, h)
  BY <1>2, <1>3, <1>9, <1>10, <1>11, <1>12, <1>13, <1>14
<1> QED
  BY <1>4, <1>15, <1>16 DEF low, high

(* Whether a plan checks a building of so many floors. *)
ChecksFloors(plan, n) ==
    \A s \in ToSet(plan.scope) : (s.min = None \/ n >= s.min[1]) /\ (s.max = None \/ n <= s.max[1])

OnFloorsOf(plan, housing) ==
    \A n \in 1..20 : ChecksFloors(plan, n) <=> \E h \in housing : OfHousing(n, h)

-----------------------------------------------------------------------------
(* The strictest of the values of a clause. *)

(* What a plan of each template demands. *)
Demand(t, p) ==
    \/ /\ t = "distance_from_source"
       /\ Optional(p.distance) /\ (p.distance = None <=> p.geometry_mode = "source_geometry")
       /\ p.distance # None => p.distance[1] \in Int
    \/ t = "presence_within" /\ p.distance \in Int
    \/ /\ t = "accessibility_within"
       /\ p.mode \in DOMAIN Speed /\ p.limit.n \in Int
    \/ /\ t \in {"object_attribute_threshold", "zonal_attribute_threshold", "zonal_ratio"}
       /\ p.operator \in Operators /\ Optional(p.threshold) /\ p.threshold # None
       /\ p.threshold[1] \in Int
    \/ /\ t = "service_provision"
       /\ p = [capacity |-> p.capacity, residents |-> p.residents, accessibility |-> p.accessibility]
       /\ Optional(p.capacity) /\ Optional(p.residents) /\ Optional(p.accessibility)
       /\ p.capacity = None \/ p.residents = None
       /\ p.capacity # None => p.capacity[1] \in Int
       /\ p.residents # None => p.residents[1] \in Int
       /\ p.accessibility # None => p.accessibility[1].n \in Int

(* The same before the contract is checked. *)
Drafted(t, p) ==
    \/ /\ t = "distance_from_source"
       /\ Optional(p.distance)
       /\ p.geometry_mode = IF p.distance = None THEN "source_geometry" ELSE "buffered"
    \/ t = "presence_within"
    \/ t = "accessibility_within" /\ p.mode \in DOMAIN Speed
    \/ /\ t \in {"object_attribute_threshold", "zonal_attribute_threshold", "zonal_ratio"}
       /\ Optional(p.threshold) /\ p.threshold # None
    \/ /\ t = "service_provision"
       /\ p = [capacity |-> p.capacity, residents |-> p.residents, accessibility |-> p.accessibility]
       /\ Optional(p.capacity) /\ Optional(p.residents) /\ Optional(p.accessibility)

(* What the contract admits as a number is an integer. *)
LEMMA LimitsAreIntegers ==
    /\ Metres \subseteq Int /\ Minutes \subseteq Int /\ Thresholds \subseteq Int
    /\ Percents \subseteq Int /\ Capacities \subseteq Int /\ Populations \subseteq Int
<1>1. Thousand \in Int
  BY DEF Thousand
<1>2. Million \in Int
  BY <1>1 DEF Million
<1>3. Metres \subseteq Int /\ Capacities \subseteq Int
  BY <1>1 DEF Metres, Capacities
<1>4. Minutes \subseteq Int /\ Percents \subseteq Int
  BY DEF Minutes, Percents
<1>5. Thresholds \subseteq Int
  BY <1>1, <1>2 DEF Thresholds
<1>6. Populations \subseteq Int
  BY <1>2 DEF Populations
<1> QED
  BY <1>3, <1>4, <1>5, <1>6

(* A draft that meets the contract demands something definite. *)
LEMMA DraftedIsDemand ==
    ASSUME NEW t, NEW p, Drafted(t, p), ParamsValid(t, p)
    PROVE  Demand(t, p)
<1>1. \A s, S : Optional(s) /\ s # None /\ All(s, S) => s[1] \in S
  BY SomeOrNone DEF All
<1>2. \A l : LimitValid(l) => l.n \in Int
  BY LimitsAreIntegers DEF LimitValid
<1>3. CASE t = "distance_from_source"
  <2>1. Optional(p.distance) /\ p.geometry_mode = IF p.distance = None THEN "source_geometry" ELSE "buffered"
    BY <1>3 DEF Drafted
  <2>2. All(p.distance, Metres)
    BY <1>3 DEF ParamsValid
  <2>3. p.distance # None => p.distance[1] \in Int
    BY <1>1, <2>1, <2>2, LimitsAreIntegers
  <2> QED
    BY <1>3, <2>1, <2>3 DEF Demand
<1>4. CASE t = "presence_within"
  BY <1>4, LimitsAreIntegers DEF ParamsValid, Demand
<1>5. CASE t = "accessibility_within"
  BY <1>2, <1>5 DEF ParamsValid, Demand, Drafted
<1>6. CASE t \in {"object_attribute_threshold", "zonal_attribute_threshold", "zonal_ratio"}
  <2>1. Optional(p.threshold) /\ p.threshold # None
    BY <1>6 DEF Drafted
  <2>2. p.operator \in Operators /\ (All(p.threshold, Thresholds) \/ All(p.threshold, Percents))
    BY <1>6 DEF ParamsValid
  <2>3. p.threshold[1] \in Int
    <3>1. p.threshold[1] \in Thresholds \/ p.threshold[1] \in Percents
      BY <1>1, <2>1, <2>2
    <3> QED
      BY <3>1, LimitsAreIntegers
  <2> QED
    BY <1>6, <2>1, <2>2, <2>3 DEF Demand
<1>7. CASE t = "service_provision"
  <2>1. /\ p = [capacity |-> p.capacity, residents |-> p.residents, accessibility |-> p.accessibility]
        /\ Optional(p.capacity) /\ Optional(p.residents) /\ Optional(p.accessibility)
    BY <1>7 DEF Drafted
  <2>2. /\ All(p.capacity, Capacities) /\ All(p.residents, Populations)
        /\ p.capacity = None \/ p.residents = None
        /\ \A l \in ToSet(p.accessibility) : LimitValid(l)
    BY <1>7 DEF ParamsValid, None
  <2>3. p.capacity # None => p.capacity[1] \in Capacities
    BY <1>1, <2>1, <2>2
  <2>4. p.residents # None => p.residents[1] \in Populations
    BY <1>1, <2>1, <2>2
  <2>5. p.accessibility # None => p.accessibility[1].n \in Int
    BY <1>2, <2>1, <2>2, SomeOrNone
  <2> QED
    BY <1>7, <2>1, <2>2, <2>3, <2>4, <2>5, LimitsAreIntegers DEF Demand
<1> QED
  BY <1>3, <1>4, <1>5, <1>6, <1>7 DEF Drafted

(* The template and the layers of a plan follow from those of the reading. *)
TemplateFor(t) ==
    CASE t \in {"min_distance", "prohibited_within"} -> "distance_from_source"
      [] t = "max_distance" -> "presence_within"
      [] t = "accessibility" -> "accessibility_within"
      [] t = "attribute_limit" -> "object_attribute_threshold"
      [] t = "zone_attribute_limit" -> "zonal_attribute_threshold"
      [] t = "zone_share" -> "zonal_ratio"
      [] t = "provision" -> "service_provision"

LayersFor(t, checked, other) ==
    CASE t \in {"min_distance", "prohibited_within"} ->
            <<Layer("source", other[1]), Layer("targets", checked[1])>>
      [] t \in {"max_distance", "accessibility"} -> Reach(checked[1], other[1])
      [] t = "attribute_limit" -> <<Layer("objects", checked[1])>>
      [] t = "zone_attribute_limit" -> <<Layer("objects", checked[1]), Layer("zones", other[1])>>
      [] t = "zone_share" -> <<Layer("zones", other[1]), Layer("numerator", checked[1])>>
      [] t = "provision" -> <<Layer("services", other[1])>>

(* What a builder builds has the template of the reading, its sides as layers, and a draft
   of a demand. *)
LEMMA BuiltAsRead ==
    ASSUME NEW spec, NEW checked, NEW other, NEW unit,
           spec.template \in SpecTemplates, Optional(spec.value),
           spec.template # "prohibited_within" => spec.value # None,
           spec.template = "zone_attribute_limit" => other # None,
           Build(spec, checked, other, unit).reasons = {}
    PROVE  LET built == Build(spec, checked, other, unit)
           IN /\ built.template = TemplateFor(spec.template)
              /\ built.layers = LayersFor(spec.template, checked, other)
              /\ Drafted(built.template, built.params)
<1> DEFINE built == Build(spec, checked, other, unit)
           distance == Distance(spec.unit, spec.value[1])
<1>0. \A reason : NotBuilt(reason).reasons # {}
  BY DEF NotBuilt
<1>1. CASE spec.template = "min_distance"
  <2>1. built = MinDistanceOf(spec, checked[1], other[1])
    BY <1>1 DEF Build
  <2>2. built = FromSource(spec, checked[1], other[1], Some(distance.m))
    BY <1>0, <2>1 DEF MinDistanceOf
  <2> QED
    BY <1>1, <2>2, SomeOrNone DEF FromSource, Built, TemplateFor, LayersFor, Drafted
<1>2. CASE spec.template = "prohibited_within"
  <2>1. built = FromSource(spec, checked[1], other[1], None)
    BY <1>2 DEF Build
  <2> QED
    BY <1>2, <2>1, SomeOrNone DEF FromSource, Built, TemplateFor, LayersFor, Drafted
<1>3. CASE spec.template = "max_distance"
  <2>1. built = MaxDistanceOf(spec, checked[1], other[1])
    BY <1>3 DEF Build
  <2>2. built.template = "presence_within" /\ built.layers = Reach(checked[1], other[1])
    BY <1>0, <2>1 DEF MaxDistanceOf, Built
  <2> QED
    BY <1>3, <2>2 DEF TemplateFor, LayersFor, Drafted
<1>4. CASE spec.template = "accessibility"
  <2>1. built = AccessibilityOf(spec, checked[1], other[1])
    BY <1>4 DEF Build
  <2>2. /\ built.template = "accessibility_within" /\ built.layers = Reach(checked[1], other[1])
        /\ built.params.mode \in {"walk", "transport"}
    BY <1>0, <2>1 DEF AccessibilityOf, Built
  <2> QED
    BY <1>4, <2>2 DEF TemplateFor, LayersFor, Drafted, Speed
<1>5. CASE spec.template = "attribute_limit"
  <2>1. built = AttributeOf(spec, checked[1], None)
    BY <1>0, <1>5 DEF Build
  <2>2. /\ built.template = "object_attribute_threshold" /\ built.layers = <<Layer("objects", checked[1])>>
        /\ \E n : built.params.threshold = Some(n)
    BY <1>0, <2>1 DEF AttributeOf, Built
  <2> QED
    BY <1>5, <2>2, SomeOrNone DEF TemplateFor, LayersFor, Drafted
<1>6. CASE spec.template = "zone_attribute_limit"
  <2>1. built = AttributeOf(spec, checked[1], other) /\ other # None
    BY <1>0, <1>6 DEF Build
  <2>2. /\ built.template = "zonal_attribute_threshold"
        /\ built.layers = <<Layer("objects", checked[1]), Layer("zones", other[1])>>
        /\ \E n : built.params.threshold = Some(n)
    BY <1>0, <2>1 DEF AttributeOf, Built
  <2> QED
    BY <1>6, <2>2, SomeOrNone DEF TemplateFor, LayersFor, Drafted
<1>7. CASE spec.template = "zone_share"
  <2>1. built = ZoneShareOf(spec, checked[1], other[1])
    BY <1>7 DEF Build
  <2>2. /\ built.template = "zonal_ratio"
        /\ built.layers = <<Layer("zones", other[1]), Layer("numerator", checked[1])>>
        /\ built.params.threshold = spec.value
    <3>1. built = Built("zonal_ratio", [operator |-> spec.operator, threshold |-> spec.value],
                        <<Layer("zones", other[1]), Layer("numerator", checked[1])>>, << >>, None)
      BY <1>0, <2>1 DEF ZoneShareOf
    <3> QED
      BY <3>1 DEF Built
  <2> QED
    BY <1>7, <2>2 DEF TemplateFor, LayersFor, Drafted
<1>8. CASE spec.template = "provision"
  <2> DEFINE capacity == Capacity(spec, unit)
  <2>1. built = ProvisionOf(spec, other[1], unit)
    BY <1>8 DEF Build
  <2>2. /\ built.template = "service_provision" /\ built.layers = <<Layer("services", other[1])>>
        /\ built.params = [capacity |-> capacity.capacity, residents |-> capacity.residents,
                           accessibility |-> AccessOf(spec)]
        /\ capacity.reasons = {}
    BY <1>0, <2>1 DEF ProvisionOf, Built
  <2>3. Optional(AccessOf(spec))
    BY SomeOrNone DEF AccessOf
  <2>4. Optional(capacity.capacity) /\ Optional(capacity.residents)
    BY <1>0, <2>2, SomeOrNone DEF Capacity
  <2> QED
    BY <1>8, <2>2, <2>3, <2>4 DEF TemplateFor, LayersFor, Drafted
<1> QED
  BY <1>1, <1>2, <1>3, <1>4, <1>5, <1>6, <1>7, <1>8 DEF SpecTemplates

(* Two readings of the same values. *)
SameValues(a, b) ==
    /\ a.value = b.value /\ a.unit = b.unit /\ a.attribute = b.attribute /\ a.objects = b.objects
    /\ a.access = b.access /\ a.accessUnit = b.accessUnit

(* What a plan compares with and the way it asks for depend on the values of a reading alone. *)
LEMMA SameReading ==
    ASSUME NEW a, NEW b, SameValues(a, b), a.template = b.template, NEW plan, NEW source
    PROVE  /\ ComparesWith(plan, a, source) <=> ComparesWith(plan, b, source)
           /\ InClause(a, source) <=> InClause(b, source)
           /\ \A l : LeadsAsRead(l, a) <=> LeadsAsRead(l, b)
BY DEF SameValues, ComparesWith, InClause, LeadsAsRead

(* A length is in metres, whatever its unit. *)
LEMMA DistanceInMetres ==
    ASSUME NEW unit, NEW n, Distance(unit, n).reasons = {}
    PROVE  Means(Distance(unit, n).m, n, unit, "length")
<1>1. unit \in DOMAIN LengthScale /\ Distance(unit, n).m = n * LengthScale[unit]
  BY DEF Distance
<1>2. Measures.length = LengthScale
  BY DEF Measures, LengthScale
<1> QED
  BY <1>1, <1>2 DEF Means

(* The way that is built in is the one that was read. *)
LEMMA AccessAsRead ==
    ASSUME NEW spec, NEW l, AccessOf(spec) = Some(l),
           spec.access # None => spec.accessUnit \in DOMAIN TimeScale \cup DOMAIN LengthScale
    PROVE  LeadsAsRead(l, spec)
<1> DEFINE n == spec.access[1]
           minutes == n * TimeScale[spec.accessUnit]
<1>1. Measures.time = TimeScale /\ Measures.length = LengthScale
  BY DEF Measures, TimeScale, LengthScale
<1>2. spec.access # None
  BY SomeOrNone DEF AccessOf
<1>3. \A x, y : Some(x) = Some(y) => x = y
  BY SomeOrNone
<1>4. CASE spec.accessUnit \in DOMAIN TimeScale /\ spec.mode = Some("transport")
  <2>1. AccessOf(spec) = Some([kind |-> "distance", n |-> StraightInMinutes(minutes)])
    BY <1>2, <1>4 DEF AccessOf
  <2>2. l = [kind |-> "distance", n |-> StraightInMinutes(minutes)]
    BY <1>3, <2>1
  <2> QED
    BY <1>1, <1>2, <1>4, <2>2 DEF LeadsAsRead
<1>5. CASE spec.accessUnit \in DOMAIN TimeScale /\ spec.mode # Some("transport")
  <2>1. AccessOf(spec) = Some([kind |-> "time", n |-> minutes])
    BY <1>2, <1>5 DEF AccessOf
  <2>2. l = [kind |-> "time", n |-> minutes]
    BY <1>3, <2>1
  <2> QED
    BY <1>1, <1>2, <1>5, <2>2 DEF LeadsAsRead, Means
<1>6. CASE spec.accessUnit \notin DOMAIN TimeScale
  <2>1. AccessOf(spec) = Some([kind |-> "distance", n |-> n * LengthScale[spec.accessUnit]])
    BY <1>2, <1>6 DEF AccessOf
  <2>2. l = [kind |-> "distance", n |-> n * LengthScale[spec.accessUnit]]
    BY <1>3, <2>1
  <2>3. spec.accessUnit \in DOMAIN LengthScale
    BY <1>2, <1>6
  <2> QED
    BY <1>1, <1>2, <2>2, <2>3 DEF LeadsAsRead, Means
<1> QED
  BY <1>4, <1>5, <1>6

(* The number that is built in is that of the reading, by its unit, and so is the way. *)
LEMMA BuiltFromReading ==
    ASSUME NEW spec, NEW checked, NEW other, NEW unit, NEW source,
           \/ unit = spec.unit
           \/ unit = "places_per_1000" /\ spec.unit = "places" /\ "provision_table" \in source.says,
           spec.template \in SpecTemplates, Optional(spec.value), Optional(spec.objects),
           spec.template # "prohibited_within" => spec.value # None,
           spec.template = "zone_attribute_limit" => other # None,
           Build(spec, checked, other, unit).reasons = {}
    PROVE  /\ ComparesWith(Build(spec, checked, other, unit), spec, source)
           /\ \A l \in Ways(Build(spec, checked, other, unit)) : LeadsAsRead(l, spec)
<1> DEFINE built == Build(spec, checked, other, unit)
           distance == Distance(spec.unit, spec.value[1])
           x == spec.value[1]
<1> SUFFICES ComparesWith(built, spec, source) /\ \A l \in Ways(built) : LeadsAsRead(l, spec)
  OBVIOUS
<1>0. \A reason : NotBuilt(reason).reasons # {}
  BY DEF NotBuilt
<1>1. built.template # "service_provision" => Ways(built) = {}
  BY DEF Ways
<1>2. distance.reasons = {} => Means(distance.m, x, spec.unit, "length")
  BY DistanceInMetres
<1>3. CASE spec.template = "min_distance"
  <2>1. built = MinDistanceOf(spec, checked[1], other[1])
    BY <1>3 DEF Build
  <2>2. built = FromSource(spec, checked[1], other[1], Some(distance.m)) /\ distance.reasons = {}
    BY <1>0, <2>1 DEF MinDistanceOf
  <2>3. built.template = "distance_from_source" /\ built.params.distance = Some(distance.m)
    BY <2>2 DEF FromSource, Built
  <2> HIDE DEF built, distance
  <2> QED
    BY <1>1, <1>2, <1>3, <2>2, <2>3, SomeOrNone DEF ComparesWith
<1>4. CASE spec.template = "prohibited_within"
  <2>1. built = FromSource(spec, checked[1], other[1], None)
    BY <1>4 DEF Build
  <2>2. built.template = "distance_from_source" /\ built.params.distance = None
    BY <2>1 DEF FromSource, Built
  <2> HIDE DEF built
  <2> QED
    BY <1>1, <1>4, <2>2 DEF ComparesWith
<1>5. CASE spec.template = "max_distance"
  <2>1. built = MaxDistanceOf(spec, checked[1], other[1])
    BY <1>5 DEF Build
  <2>2. /\ built.template = "presence_within" /\ built.params.distance = distance.m
        /\ distance.reasons = {}
    BY <1>0, <2>1 DEF MaxDistanceOf, Built
  <2> HIDE DEF built, distance
  <2> QED
    BY <1>1, <1>2, <1>5, <2>2 DEF ComparesWith
<1>6. CASE spec.template = "accessibility"
  <2> DEFINE minutes == x * TimeScale[spec.unit]
  <2>1. built = AccessibilityOf(spec, checked[1], other[1])
    BY <1>6 DEF Build
  <2>2. /\ built.template = "accessibility_within"
        /\ \/ built.params.limit = [kind |-> "distance", n |-> distance.m] /\ distance.reasons = {}
           \/ built.params.limit = [kind |-> "time", n |-> minutes] /\ spec.unit \in DOMAIN TimeScale
    BY <1>0, <2>1 DEF AccessibilityOf, Built
  <2>3. Measures.time = TimeScale
    BY DEF Measures, TimeScale
  <2>4. Means(built.params.limit.n, x, spec.unit, IF built.params.limit.kind = "time" THEN "time" ELSE "length")
    <3> HIDE DEF built, distance
    <3>1. CASE built.params.limit = [kind |-> "distance", n |-> distance.m] /\ distance.reasons = {}
      BY <1>2, <3>1
    <3>2. CASE built.params.limit = [kind |-> "time", n |-> minutes] /\ spec.unit \in DOMAIN TimeScale
      BY <2>3, <3>2 DEF Means
    <3> QED
      BY <2>2, <3>1, <3>2
  <2> HIDE DEF built
  <2> QED
    BY <1>1, <1>6, <2>2, <2>4 DEF ComparesWith
<1>7. CASE spec.template \in {"attribute_limit", "zone_attribute_limit"}
  <2> DEFINE attribute == spec.attribute[1]
             scale == ScaleOf(attribute)
  <2>1. built = AttributeOf(spec, checked[1], None) \/ built = AttributeOf(spec, checked[1], other)
    BY <1>0, <1>7 DEF Build
  <2>2. /\ built.template \in {"object_attribute_threshold", "zonal_attribute_threshold"}
        /\ built.params.threshold = Some(x * scale[spec.unit]) /\ spec.unit \in DOMAIN scale
    BY <1>0, <2>1 DEF AttributeOf, Built
  <2>3. Measures[MeasureOf(attribute)] = scale
    BY DEF MeasureOf, ScaleOf, Measures, LengthScale, AreaScale
  <2>4. Means(built.params.threshold[1], x, spec.unit, MeasureOf(attribute))
    <3> HIDE DEF built, scale
    <3> QED
      BY <2>2, <2>3, SomeOrNone DEF Means
  <2>5. /\ built.template # "distance_from_source" /\ built.template # "presence_within"
        /\ built.template # "accessibility_within" /\ built.template # "service_provision"
        /\ built.template # "zonal_ratio"
    BY <2>2
  <2> HIDE DEF built
  <2> QED
    BY <1>1, <1>7, <2>4, <2>5 DEF ComparesWith
<1>8. CASE spec.template = "zone_share"
  <2>1. built = ZoneShareOf(spec, checked[1], other[1])
    BY <1>8 DEF Build
  <2>2. /\ built = Built("zonal_ratio", [operator |-> spec.operator, threshold |-> spec.value],
                         <<Layer("zones", other[1]), Layer("numerator", checked[1])>>, << >>, None)
        /\ spec.unit = "percent" /\ spec.value[1] \in 0..100
    BY <1>0, <2>1 DEF ZoneShareOf
  <2>3. built.template = "zonal_ratio" /\ built.params.threshold = spec.value
    BY <2>2 DEF Built
  <2>4. Means(x, x, "percent", "share")
    <3>0. \A percent \in 0..100 : percent \in Int
      OBVIOUS
    <3>1. x \in Int /\ x * 1 = x
      <4> HIDE DEF built, distance
      <4>1. spec.value[1] \in 0..100
        BY <2>2
      <4>2. x \in Int
        BY <3>0, <4>1
      <4> HIDE DEF x
      <4> QED
        BY <4>2
    <3>2. Measures["share"] = [percent |-> 1]
      BY DEF Measures
    <3> HIDE DEF x
    <3> QED
      BY <3>1, <3>2 DEF Means
  <2> HIDE DEF built
  <2> QED
    BY <1>1, <1>8, <2>2, <2>3, <2>4 DEF ComparesWith
<1>9. CASE spec.template = "provision"
  <2> DEFINE capacity == Capacity(spec, unit)
             objects == IF spec.objects = None THEN 1 ELSE spec.objects[1]
  <2>1. built = ProvisionOf(spec, other[1], unit)
    BY <1>9 DEF Build
  <2>2. /\ built.template = "service_provision"
        /\ built.params = [capacity |-> capacity.capacity, residents |-> capacity.residents,
                           accessibility |-> AccessOf(spec)]
        /\ capacity.reasons = {}
        /\ spec.access # None => spec.accessUnit \in DOMAIN TimeScale \cup DOMAIN LengthScale
    BY <1>0, <2>1 DEF ProvisionOf, Built
  <2>3. \/ capacity.capacity = spec.value /\ capacity.residents = None /\ unit \in PerThousand
        \/ /\ capacity.capacity = None /\ unit \in DOMAIN ResidentScale
           /\ capacity.residents = Some((x * ResidentScale[unit]) \div objects)
    BY <1>0, <2>2 DEF Capacity, If
  <2>4. /\ built.params.capacity = capacity.capacity /\ built.params.residents = capacity.residents
        /\ built.params.accessibility = AccessOf(spec)
    BY <2>2
  <2>5. ComparesWith(built, spec, source)
    <3>1. unit \in PerThousand => SaysPerThousand(spec.unit, source)
      BY DEF PerThousand, SaysPerThousand
    <3>2. unit \in DOMAIN ResidentScale => unit = spec.unit /\ Measures.residents = ResidentScale
      BY DEF ResidentScale, Measures
    <3>3. spec.value # None
      BY <1>9
    <3> HIDE DEF built, capacity
    <3>4. CASE capacity.capacity = spec.value /\ capacity.residents = None /\ unit \in PerThousand
      BY <2>2, <2>4, <3>1, <3>3, <3>4 DEF ComparesWith
    <3>5. CASE /\ capacity.capacity = None /\ unit \in DOMAIN ResidentScale
               /\ capacity.residents = Some((x * ResidentScale[unit]) \div objects)
      BY <2>2, <2>4, <3>2, <3>3, <3>5 DEF ComparesWith
    <3> QED
      BY <2>3, <3>4, <3>5
  <2>6. ASSUME NEW l \in Ways(built)
        PROVE  LeadsAsRead(l, spec)
    <3>1. l \in ToSet(AccessOf(spec))
      BY <2>2, <2>4 DEF Ways
    <3>2. Optional(AccessOf(spec))
      BY SomeOrNone DEF AccessOf
    <3>3. AccessOf(spec) = Some(l)
      BY <3>1, <3>2, SomeOrNone DEF Optional, Some
    <3> QED
      BY <2>2, <3>3, AccessAsRead
  <2> QED
    BY <2>5, <2>6
<1> QED
  BY <1>3, <1>4, <1>5, <1>6, <1>7, <1>8, <1>9 DEF SpecTemplates

(* The layers of a plan are sides that were found. *)
LEMMA LayersAreListed ==
    ASSUME NEW cat, NEW plan, NEW t \in SpecTemplates, NEW checked, NEW other,
           plan.layers = LayersFor(t, checked, other),
           t # "provision" => checked[1] \in ToSet(cat),
           t # "attribute_limit" => other[1] \in ToSet(cat)
    PROVE  LayersListed(plan, cat)
<1>1. \A role, e : Layer(role, e).entity = e.name /\ Layer(role, e).type = e.type
  BY DEF Layer
<1>2. \A u, v : ToSet(<<u, v>>) = {u, v} /\ ToSet(<<u>>) = {u}
  <2> TAKE u, v
  <2>1. DOMAIN <<u, v>> = {1, 2} /\ DOMAIN <<u>> = {1}
    OBVIOUS
  <2> QED
    BY <2>1 DEF ToSet
<1>3. \E a, b, e, f : /\ e \in ToSet(cat) /\ f \in ToSet(cat)
                      /\ \/ plan.layers = <<Layer(a, e), Layer(b, f)>>
                         \/ plan.layers = <<Layer(a, e)>>
  BY DEF LayersFor, SpecTemplates, Reach
<1> QED
  BY <1>1, <1>2, <1>3 DEF LayersListed

(* A reading has its fields; the value and the number of objects may be missing. *)
Readable(spec) ==
    /\ {"template", "checked", "other", "value", "unit", "attribute", "objects", "access", "accessUnit", "mode"}
          \subseteq DOMAIN spec
    /\ spec.template \in SpecTemplates
    /\ Optional(spec.value) /\ Optional(spec.objects)

(* What is checked follows from the template and the sides that were read. *)
LEMMA SidesAsRead ==
    ASSUME NEW a, NEW b, Readable(a), Readable(b),
           a.template = b.template, a.checked = b.checked, a.other = b.other
    PROVE  /\ WithSides(a).checked = WithSides(b).checked
           /\ WithSides(a).other = WithSides(b).other
           /\ WithSides(a).template = a.template
           /\ SameValues(WithSides(a), a)
<1> DEFINE access == a.template \in {"accessibility", "max_distance"}
           house == Some([name |-> House, type |-> "physical_object"])
<1>1. CASE a.template = "provision" /\ a.other = None
  <2>1. /\ WithSides(a) = [a EXCEPT !.other = a.checked, !.checked = None]
        /\ WithSides(b) = [b EXCEPT !.other = b.checked, !.checked = None]
    BY <1>1 DEF WithSides
  <2> QED
    BY <2>1 DEF Readable, SameValues
<1>2. CASE /\ ~(a.template = "provision" /\ a.other = None)
           /\ access /\ a.other = None /\ a.checked # None /\ a.checked[1].type = "service"
  <2>1. /\ WithSides(a) = [a EXCEPT !.other = a.checked, !.checked = house]
        /\ WithSides(b) = [b EXCEPT !.other = b.checked, !.checked = house]
    BY <1>2 DEF WithSides
  <2> QED
    BY <2>1 DEF Readable, SameValues
<1>3. CASE /\ ~(a.template = "provision" /\ a.other = None)
           /\ ~(access /\ a.other = None /\ a.checked # None /\ a.checked[1].type = "service")
           /\ access /\ IsResidence(a.other) /\ ~IsResidence(a.checked)
  <2>1. /\ WithSides(a) = [a EXCEPT !.checked = a.other, !.other = a.checked]
        /\ WithSides(b) = [b EXCEPT !.checked = b.other, !.other = b.checked]
    BY <1>3 DEF WithSides
  <2> QED
    BY <2>1 DEF Readable, SameValues
<1>4. CASE /\ ~(a.template = "provision" /\ a.other = None)
           /\ ~(access /\ a.other = None /\ a.checked # None /\ a.checked[1].type = "service")
           /\ ~(access /\ IsResidence(a.other) /\ ~IsResidence(a.checked))
  <2>1. WithSides(a) = a /\ WithSides(b) = b
    BY <1>4 DEF WithSides
  <2> QED
    BY <2>1 DEF SameValues
<1> QED
  BY <1>1, <1>2, <1>3, <1>4

(* A plan of one value: as it is before it is scoped and compared. *)
Planned(plan) ==
    /\ plan = [template |-> plan.template, params |-> plan.params, layers |-> plan.layers,
               attributes |-> plan.attributes, scope |-> None, applicability |-> None]
    /\ Demand(plan.template, plan.params)

(* A plan that the guards and the contract let through is the one that was built. *)
LEMMA GuardedIsPlanned ==
    ASSUME NEW built, NEW spec, NEW source, NEW labels, NEW names,
           Guarded(built, spec, source, labels, names).plan # None
    PROVE  LET plan == Guarded(built, spec, source, labels, names).plan
           IN /\ built.reasons = {}
              /\ plan = Some(plan[1])
              /\ Drafted(built.template, built.params) => Planned(plan[1])
              /\ plan[1].template = built.template /\ plan[1].layers = built.layers
              /\ plan[1].params = built.params
<1> DEFINE plan == [template |-> built.template, params |-> built.params, layers |-> built.layers,
                    attributes |-> built.attributes, scope |-> None, applicability |-> None]
<1>1. \A reasons : Refused(reasons).plan = None
  BY DEF Refused
<1>2. built.reasons = {} /\ Valid(plan) /\ Guarded(built, spec, source, labels, names) = Accepted(plan)
  BY <1>1 DEF Guarded
<1>3. Guarded(built, spec, source, labels, names).plan = Some(plan)
  BY <1>2 DEF Accepted
<1>4. ParamsValid(built.template, built.params)
  BY <1>2 DEF Valid
<1>5. Guarded(built, spec, source, labels, names).plan[1] = plan
  BY <1>3, SomeOrNone
<1>6. Drafted(built.template, built.params) => Planned(plan)
  BY <1>4, DraftedIsDemand DEF Planned
<1> QED
  BY <1>2, <1>3, <1>5, <1>6

GroundedSide(item, cat) == IF item = None THEN None ELSE Ground(item[1], cat)

(* A side that was found is a type of the catalog. *)
LEMMA GroundedIsListed ==
    ASSUME NEW cat \in Seq(Entry), NEW item, GroundedSide(item, cat) # None
    PROVE  GroundedSide(item, cat)[1] \in ToSet(cat)
<1>1. \E n, type : GroundedSide(item, cat) = Resolve(cat, n, type)
  BY DEF GroundedSide, Ground
<1> QED
  BY <1>1, ResolvedIsListed, SomeOrNone

(* The layers of the plan of a reading. *)
LayersOf(read, cat) ==
    LayersFor(read.template,
              IF read.template = "provision" THEN None ELSE GroundedSide(WithSides(read).checked, cat),
              IF read.template = "attribute_limit" THEN None ELSE GroundedSide(WithSides(read).other, cat))

(* A plan has nothing that is not in the clause or in the catalog. *)
AsRead(plan, r, source, cat) ==
    /\ ComparesWith(plan, r, source) /\ InClause(r, source)
    /\ \A l \in Ways(plan) : LeadsAsRead(l, r)
    /\ LayersListed(plan, cat)

(* What a clause and a snapshot are. *)
Given(source, cat) == source.numbers \in SUBSET Int /\ cat \in Seq(Entry)

(* A reading of one value compiles to a plan for its template and its sides, with the *)
(* number of the clause and types of the catalog.                                      *)
LEMMA OneIsPlanned ==
    ASSUME NEW read, NEW source, NEW labels, NEW cat, Readable(read), Given(source, cat),
           CompileOne(read, source, labels, cat).plan # None
    PROVE  LET plan == CompileOne(read, source, labels, cat).plan
           IN /\ plan = Some(plan[1])
              /\ Planned(plan[1])
              /\ plan[1].template = TemplateFor(read.template)
              /\ plan[1].layers = LayersOf(read, cat)
              /\ AsRead(plan[1], read, source, cat)
<1> DEFINE moded == [read EXCEPT !.mode = Mode(read, labels)]
           spec == WithSides(moded)
           checked == IF spec.template = "provision" THEN None ELSE GroundedSide(spec.checked, cat)
           other == IF spec.template = "attribute_limit" THEN None ELSE GroundedSide(spec.other, cat)
           unit == IF spec.unit = "places" /\ "provision_table" \in source.says
                   THEN "places_per_1000" ELSE spec.unit
           built == Build(spec, checked, other, unit)
           names == {e.name : e \in ToSet(checked \o other)}
<1>1. /\ Readable(moded)
      /\ moded.template = read.template /\ moded.checked = read.checked /\ moded.other = read.other
      /\ SameValues(moded, read)
  BY DEF Readable, SameValues
<1>2. /\ spec.checked = WithSides(read).checked /\ spec.other = WithSides(read).other
      /\ spec.template = read.template /\ Optional(spec.value) /\ Optional(spec.objects)
      /\ SameValues(spec, read)
  BY <1>1, SidesAsRead DEF Readable, SameValues
<1>3. CompileOne(read, source, labels, cat) = CompileSides(spec, checked, other, source, labels)
  BY DEF CompileOne, GroundedSide
<1>4. \A reasons : Refused(reasons).plan = None
  BY DEF Refused
<1> HIDE DEF moded, spec, checked, other
<1>5. /\ KnownReasons(spec, source, checked, other) = {}
      /\ CompileSides(spec, checked, other, source, labels) = Guarded(built, spec, source, labels, names)
  BY <1>3, <1>4 DEF CompileSides
<1>6. spec.template # "prohibited_within" => spec.value # None
  BY <1>5 DEF KnownReasons, ValueReasons, If
<1>7. spec.template = "zone_attribute_limit" => other # None
  BY <1>5 DEF KnownReasons, GroundReasons
<1>8. Guarded(built, spec, source, labels, names).plan # None
  BY <1>3, <1>5
<1> HIDE DEF names, built, unit
<1>9. built.reasons = {}
  BY <1>8, GuardedIsPlanned
<1>10. /\ built.template = TemplateFor(spec.template)
       /\ built.layers = LayersFor(spec.template, checked, other)
       /\ Drafted(built.template, built.params)
  BY <1>2, <1>6, <1>7, <1>9, BuiltAsRead DEF built, Readable
<1>11. LayersFor(spec.template, checked, other) = LayersOf(read, cat)
  BY <1>2 DEF LayersOf, checked, other
<1> DEFINE plan == Guarded(built, spec, source, labels, names).plan[1]
<1>12. plan.template = built.template /\ plan.params = built.params /\ plan.layers = built.layers
  BY <1>8, GuardedIsPlanned
<1>13. /\ ComparesWith(plan, read, source) /\ InClause(read, source)
       /\ \A l \in Ways(plan) : LeadsAsRead(l, read)
  <2>1. InClause(spec, source)
    BY <1>5 DEF KnownReasons, ValueReasons, If, InClause
  <2>2. \/ unit = spec.unit
        \/ unit = "places_per_1000" /\ spec.unit = "places" /\ "provision_table" \in source.says
    BY DEF unit
  <2>3. ComparesWith(built, spec, source) /\ \A l \in Ways(built) : LeadsAsRead(l, spec)
    BY <1>2, <1>6, <1>7, <1>9, <2>2, BuiltFromReading DEF built, Readable
  <2> HIDE DEF plan
  <2>4. ComparesWith(plan, spec, source) /\ Ways(plan) = Ways(built)
    BY <1>12, <2>3 DEF ComparesWith, Ways
  <2> QED
    BY <1>2, <2>1, <2>3, <2>4, SameReading
<1>14. LayersListed(plan, cat)
  <2>1. spec.template # "provision" => checked = GroundedSide(spec.checked, cat) /\ checked # None
    BY <1>5 DEF KnownReasons, GroundReasons, checked
  <2>2. spec.template # "attribute_limit" => other = GroundedSide(spec.other, cat) /\ other # None
    BY <1>5 DEF KnownReasons, GroundReasons, other
  <2>3. /\ spec.template # "provision" => checked[1] \in ToSet(cat)
        /\ spec.template # "attribute_limit" => other[1] \in ToSet(cat)
    BY <2>1, <2>2, GroundedIsListed DEF Given
  <2>4. plan.layers = LayersFor(spec.template, checked, other)
    BY <1>10, <1>12
  <2> HIDE DEF plan
  <2> QED
    BY <1>2, <2>3, <2>4, LayersAreListed DEF Readable
<1> QED
  BY <1>2, <1>3, <1>5, <1>8, <1>10, <1>11, <1>13, <1>14, GuardedIsPlanned DEF AsRead

(* A measurement of what a plan of a template checks. *)
Measured(t, x) == IF t = "service_provision" THEN x.capacity \in Int /\ x.residents \in Int /\ x.way \in Int
                  ELSE x \in Int

(* A limit of a way is compared as an integer. *)
LEMMA LengthsAreIntegers ==
    \A limit, mode : limit.n \in Int /\ mode \in DOMAIN Speed => AccessLength(limit, mode) \in Int
  BY DEF AccessLength, Speed

(* Keys are integers. *)
LEMMA KeyIsInteger ==
    ASSUME NEW plan, Planned(plan), Strictness(plan).key # None
    PROVE  Strictness(plan).key[1] \in Int
<1> DEFINE t == plan.template
           p == plan.params
<1>1. Demand(t, p)
  BY DEF Planned
<1>2. CASE t = "distance_from_source"
  BY <1>1, <1>2, SomeOrNone DEF Demand, Strictness
<1>3. CASE t = "presence_within"
  BY <1>1, <1>3, SomeOrNone DEF Demand, Strictness
<1>4. CASE t = "accessibility_within"
  BY <1>1, <1>4, SomeOrNone, LengthsAreIntegers DEF Demand, Strictness
<1>5. CASE t \in {"object_attribute_threshold", "zonal_attribute_threshold", "zonal_ratio"}
  BY <1>1, <1>5, SomeOrNone DEF Demand, Strictness, Signed
<1>6. CASE t = "service_provision"
  BY <1>1, <1>6, SomeOrNone DEF Demand, Strictness
<1> QED
  BY <1>1, <1>2, <1>3, <1>4, <1>5, <1>6 DEF Demand

(* Only plans of a template are compared. *)
LEMMA KindTellsTemplate ==
    ASSUME NEW a, NEW b, Planned(a), Planned(b), Strictness(a).kind = Strictness(b).kind
    PROVE  a.template = b.template
<1>1. \A plan : Planned(plan) =>
         LET kind == Strictness(plan).kind
             t == plan.template
         IN \/ t = "distance_from_source" /\ (kind = <<"prohibited">> \/ kind = <<"min_distance">>)
            \/ t = "presence_within" /\ kind = <<"max_distance">>
            \/ t = "accessibility_within" /\ kind = <<"accessibility">>
            \/ /\ t \in {"object_attribute_threshold", "zonal_attribute_threshold", "zonal_ratio"}
               /\ kind = <<t, plan.params.operator>>
            \/ /\ t = "service_provision"
               /\ kind \in {<<"residents_per_service">>, <<"capacity_per_1000">>, <<"urban_api_capacity">>}
  <2> TAKE plan
  <2> HAVE Planned(plan)
  <2> QED
    BY DEF Planned, Demand, Strictness
<1>2. \A u, v, w : <<u>> # <<v, w>>
  OBVIOUS
<1>3. \A u, v : <<u>> = <<v>> => u = v
  OBVIOUS
<1>4. \A u, v, w, z : <<u, v>> = <<w, z>> => u = w
  OBVIOUS
<1> QED
  BY <1>1, <1>2, <1>3, <1>4

(* Of two plans of a kind the one with the smaller key demands no less. *)
LEMMA SmallerIsStricter ==
    ASSUME NEW a, NEW b, Planned(a), Planned(b),
           Strictness(a).key # None, Strictness(b).key # None,
           Strictness(a).kind = Strictness(b).kind,
           Strictness(a).key[1] <= Strictness(b).key[1],
           a.template # "service_provision", NEW x \in Int, Passes(a, x)
    PROVE  Passes(b, x)
<1> DEFINE t == a.template
           p == a.params
           q == b.params
<1>1. b.template = t /\ Demand(t, p) /\ Demand(t, q)
  BY KindTellsTemplate DEF Planned
<1>2. CASE t = "distance_from_source"
  <2>1. CASE q.distance = None
    BY <1>1, <1>2, <2>1 DEF Passes
  <2>2. CASE q.distance # None
    <3>1. q.geometry_mode # "source_geometry" /\ q.distance[1] \in Int
      BY <1>1, <1>2, <2>2 DEF Demand
    <3>2. Strictness(b) = [kind |-> <<"min_distance">>, key |-> Some(-q.distance[1])]
      BY <1>1, <1>2, <3>1 DEF Strictness
    <3>3. <<"min_distance">> # <<"prohibited">>
      OBVIOUS
    <3>4. p.geometry_mode # "source_geometry"
      <4> SUFFICES ASSUME p.geometry_mode = "source_geometry"
                   PROVE  FALSE
        OBVIOUS
      <4>1. Strictness(a).kind = <<"prohibited">>
        BY <1>2 DEF Strictness
      <4>2. Strictness(b).kind = <<"min_distance">>
        BY <3>2
      <4> QED
        BY <3>3, <4>1, <4>2
    <3>5. p.distance # None /\ p.distance[1] \in Int
      BY <1>1, <1>2, <3>4 DEF Demand
    <3>6. Strictness(a).key[1] = -p.distance[1]
      BY <1>2, <3>4, SomeOrNone DEF Strictness
    <3>7. q.distance[1] <= p.distance[1]
      BY <3>1, <3>2, <3>5, <3>6, SomeOrNone
    <3>8. x >= p.distance[1]
      BY <1>2, <3>5 DEF Passes
    <3> QED
      BY <1>1, <1>2, <3>1, <3>5, <3>7, <3>8 DEF Passes
  <2> QED
    BY <2>1, <2>2
<1>3. CASE t = "presence_within"
  <2>1. p.distance \in Int /\ q.distance \in Int
    BY <1>1, <1>3 DEF Demand
  <2>2. p.distance <= q.distance
    BY <1>1, <1>3, SomeOrNone DEF Strictness
  <2>3. x <= p.distance
    BY <1>3 DEF Passes
  <2> QED
    BY <1>1, <1>3, <2>1, <2>2, <2>3 DEF Passes
<1>4. CASE t = "accessibility_within"
  <2> DEFINE m == AccessLength(p.limit, p.mode)
             n == AccessLength(q.limit, q.mode)
  <2>1. m \in Int /\ n \in Int
    BY <1>1, <1>4, LengthsAreIntegers DEF Demand
  <2>2. m <= n
    BY <1>1, <1>4, SomeOrNone DEF Strictness
  <2>3. x <= m
    BY <1>4 DEF Passes
  <2>4. Passes(b, x) <=> x <= n
    BY <1>1, <1>4 DEF Passes
  <2> HIDE DEF m, n
  <2> QED
    BY <2>1, <2>2, <2>3, <2>4
<1>5. CASE t \in {"object_attribute_threshold", "zonal_attribute_threshold", "zonal_ratio"}
  <2> DEFINE m == p.threshold[1]
             n == q.threshold[1]
  <2>1. m \in Int /\ n \in Int /\ p.operator \in Operators
    BY <1>1, <1>5 DEF Demand
  <2>2. /\ Strictness(a) = [kind |-> <<t, p.operator>>, key |-> Signed(p.operator, m)]
        /\ Strictness(b) = [kind |-> <<t, q.operator>>, key |-> Signed(q.operator, n)]
    BY <1>1, <1>5 DEF Strictness
  <2>3. q.operator = p.operator
    BY <2>2
  <2>4. Signed(p.operator, m) # None /\ Signed(p.operator, m)[1] <= Signed(p.operator, n)[1]
    BY <2>2, <2>3
  <2>5. Compares(x, p.operator, m) /\ (Passes(b, x) <=> Compares(x, p.operator, n))
    BY <1>1, <1>5, <2>3 DEF Passes
  <2> HIDE DEF m, n
  <2>6. CASE p.operator \in {"<", "<="}
    <3>1. Signed(p.operator, m)[1] = m /\ Signed(p.operator, n)[1] = n
      BY <2>6, SomeOrNone DEF Signed
    <3>2. m <= n
      BY <2>4, <3>1
    <3>3. CASE p.operator = "<"
      BY <2>1, <2>5, <3>2, <3>3 DEF Compares
    <3>4. CASE p.operator = "<="
      BY <2>1, <2>5, <3>2, <3>4 DEF Compares
    <3> QED
      BY <2>6, <3>3, <3>4
  <2>7. CASE p.operator \in {">", ">="}
    <3>1. Signed(p.operator, m)[1] = -m /\ Signed(p.operator, n)[1] = -n
      BY <2>7, SomeOrNone DEF Signed
    <3>2. n <= m
      BY <2>1, <2>4, <3>1
    <3>3. CASE p.operator = ">"
      BY <2>1, <2>5, <3>2, <3>3 DEF Compares
    <3>4. CASE p.operator = ">="
      BY <2>1, <2>5, <3>2, <3>4 DEF Compares
    <3> QED
      BY <2>7, <3>3, <3>4
  <2>8. p.operator # "=="
    BY <2>4 DEF Signed
  <2> QED
    BY <2>1, <2>6, <2>7, <2>8 DEF Operators
<1> QED
  BY <1>1, <1>2, <1>3, <1>4, <1>5 DEF Demand

(* So it is of provisions, but for the way to them. *)
LEMMA SmallerProvidesMore ==
    ASSUME NEW a, NEW b, Planned(a), Planned(b), a.template = "service_provision",
           Strictness(a).key # None, Strictness(b).key # None,
           Strictness(a).kind = Strictness(b).kind,
           Strictness(a).key[1] <= Strictness(b).key[1], NEW x \in Int
    PROVE  /\ (\A c \in ToSet(a.params.capacity) : x >= c) => \A c \in ToSet(b.params.capacity) : x >= c
           /\ (\A r \in ToSet(a.params.residents) : x <= r) => \A r \in ToSet(b.params.residents) : x <= r
<1> DEFINE p == a.params
           q == b.params
           kind(r) == IF r.residents # None THEN <<"residents_per_service">>
                      ELSE IF r.capacity # None THEN <<"capacity_per_1000">>
                      ELSE <<"urban_api_capacity">>
           key(r) == IF r.residents # None THEN r.residents
                     ELSE IF r.capacity # None THEN Some(-r.capacity[1]) ELSE Some(0)
<1>1. b.template = "service_provision" /\ Demand("service_provision", p) /\ Demand("service_provision", q)
  BY KindTellsTemplate DEF Planned
<1>2. /\ Strictness(a).kind = kind(p) /\ Strictness(a).key = key(p)
      /\ Strictness(b).kind = kind(q) /\ Strictness(b).key = key(q)
  BY <1>1 DEF Strictness
<1>3. (p.residents # None <=> q.residents # None) /\ (p.residents = None => (p.capacity # None <=> q.capacity # None))
  <2>1. /\ <<"residents_per_service">> # <<"capacity_per_1000">>
        /\ <<"residents_per_service">> # <<"urban_api_capacity">>
        /\ <<"capacity_per_1000">> # <<"urban_api_capacity">>
    OBVIOUS
  <2> QED
    BY <1>2, <2>1
<1>4. /\ Optional(p.capacity) /\ Optional(p.residents) /\ Optional(q.capacity) /\ Optional(q.residents)
      /\ p.capacity = None \/ p.residents = None
      /\ q.capacity = None \/ q.residents = None
      /\ p.capacity # None => p.capacity[1] \in Int
      /\ q.capacity # None => q.capacity[1] \in Int
      /\ p.residents # None => p.residents[1] \in Int
      /\ q.residents # None => q.residents[1] \in Int
  BY <1>1 DEF Demand
<1>5. CASE p.residents # None
  <2>1. q.residents # None /\ p.capacity = None /\ q.capacity = None
    BY <1>3, <1>4, <1>5
  <2>2. p.residents[1] <= q.residents[1]
    BY <1>2, <1>5, <2>1
  <2>3. /\ ToSet(p.capacity) = {} /\ ToSet(q.capacity) = {}
        /\ ToSet(p.residents) = {p.residents[1]} /\ ToSet(q.residents) = {q.residents[1]}
    BY <1>4, <1>5, <2>1, SomeOrNone
  <2>4. p.residents[1] \in Int /\ q.residents[1] \in Int
    BY <1>4, <1>5, <2>1
  <2> HIDE DEF p, q
  <2>5. x <= p.residents[1] => x <= q.residents[1]
    BY <2>2, <2>4
  <2> QED
    BY <2>3, <2>5 DEF p, q
<1>6. CASE p.residents = None /\ p.capacity # None
  <2>1. q.residents = None /\ q.capacity # None
    BY <1>3, <1>6
  <2>2. -p.capacity[1] <= -q.capacity[1]
    BY <1>2, <1>6, <2>1, SomeOrNone
  <2>3. q.capacity[1] <= p.capacity[1]
    BY <1>4, <1>6, <2>1, <2>2
  <2>4. ToSet(p.capacity) = {p.capacity[1]} /\ ToSet(q.capacity) = {q.capacity[1]}
    BY <1>4, <1>6, <2>1, SomeOrNone
  <2>5. ToSet(q.residents) = {}
    BY <2>1, SomeOrNone
  <2> QED
    BY <1>4, <1>6, <2>1, <2>3, <2>4, <2>5
<1>7. CASE p.residents = None /\ p.capacity = None
  BY <1>3, <1>7, SomeOrNone
<1> QED
  BY <1>5, <1>6, <1>7

(* A plan before it is scoped. *)
Shaped(plan) ==
    plan = [template |-> plan.template, params |-> plan.params, layers |-> plan.layers,
            attributes |-> plan.attributes, scope |-> None, applicability |-> plan.applicability]

(* Two plans that compare with the same: what was read for one was for the other. *)
SameDemand(plan, other) ==
    \A r, source : ComparesWith(other, r, source) => ComparesWith(plan, r, source)

LEMMA SameParams ==
    ASSUME NEW a, NEW b, a.template = b.template, a.params = b.params
    PROVE  SameDemand(a, b)
BY DEF SameDemand, ComparesWith

LEMMA SameProvision ==
    ASSUME NEW a, NEW b, a.template = "service_provision", b.template = "service_provision",
           a.params.capacity = b.params.capacity, a.params.residents = b.params.residents
    PROVE  SameDemand(a, b)
BY DEF SameDemand, ComparesWith

(* A plan that was compared: it is one of the plans, and demands what every other demands. *)
DemandsAll(plan, plans) ==
    /\ Shaped(plan)
    /\ \E other \in plans : /\ plan.template = other.template /\ plan.layers = other.layers
                            /\ SameDemand(plan, other)
    /\ \A l \in Ways(plan) : \E other \in plans : l \in Ways(other)
    /\ \A other \in plans : /\ plan.template = other.template
                            /\ \A x : Measured(plan.template, x) /\ Passes(plan, x) => Passes(other, x)

(* plan is best but for its way, and a distance within its way is within the ways of all plans. *)
AsTight(plan, best, plans) ==
    /\ plan = [best EXCEPT !.params = [@ EXCEPT !.accessibility = plan.params.accessibility]]
    /\ \A x \in Int :
          (\A l \in ToSet(plan.params.accessibility) : x <= AccessLength(l, "walk"))
          => \A i \in DOMAIN plans : \A l \in ToSet(plans[i].params.accessibility) :
                x <= AccessLength(l, "walk")
    /\ \A l \in ToSet(plan.params.accessibility) :
          \E i \in DOMAIN plans : l \in ToSet(plans[i].params.accessibility)

(* The way of the tightest plan is one that every plan accepts. *)
LEMMA TightestIsTightest ==
    ASSUME NEW I \in SUBSET Int, IsFiniteSet(I), NEW best \in I, NEW plans,
           DOMAIN plans = I, \A i \in I : Planned(plans[i]) /\ plans[i].template = "service_provision"
    PROVE  AsTight(TightestAccessibility(plans[best], plans), plans[best], plans)
<1> DEFINE limit(i) == plans[i].params.accessibility
           limited == {i \in I : limit(i) # None}
           lengths == [i \in limited |-> AccessLength(limit(i)[1], "walk")]
           tightest == LeastIndex(lengths)
           plan == TightestAccessibility(plans[best], plans)
<1> SUFFICES /\ plan = [plans[best] EXCEPT !.params = [@ EXCEPT !.accessibility = plan.params.accessibility]]
             /\ \A x \in Int :
                   (\A l \in ToSet(plan.params.accessibility) : x <= AccessLength(l, "walk"))
                   => \A i \in I : \A l \in ToSet(plans[i].params.accessibility) : x <= AccessLength(l, "walk")
             /\ \A l \in ToSet(plan.params.accessibility) : \E i \in I : l \in ToSet(limit(i))
  BY DEF AsTight
<1>1. \A i \in I : /\ plans[i] = [template |-> plans[i].template, params |-> plans[i].params,
                                  layers |-> plans[i].layers, attributes |-> plans[i].attributes,
                                  scope |-> None, applicability |-> None]
                   /\ plans[i].params = [capacity |-> plans[i].params.capacity,
                                         residents |-> plans[i].params.residents,
                                         accessibility |-> limit(i)]
                   /\ Optional(limit(i))
                   /\ limit(i) # None => limit(i)[1].n \in Int
  BY DEF Planned, Demand
<1>2. CASE limited = {}
  <2>1. plan = plans[best] /\ \A i \in I : limit(i) = None
    BY <1>2 DEF TightestAccessibility
  <2>2. \A i \in I : ToSet(limit(i)) = {}
    BY <2>1, SomeOrNone
  <2>3. plan = [plans[best] EXCEPT !.params = [@ EXCEPT !.accessibility = plan.params.accessibility]]
    <3> DEFINE r == plans[best]
    <3>0. /\ r = [template |-> r.template, params |-> r.params, layers |-> r.layers,
                   attributes |-> r.attributes, scope |-> None, applicability |-> None]
          /\ r.params = [capacity |-> r.params.capacity, residents |-> r.params.residents,
                         accessibility |-> r.params.accessibility]
      BY <1>1
    <3> HIDE DEF r, plan
    <3>1. [r.params EXCEPT !.accessibility = r.params.accessibility] = r.params
      BY <3>0
    <3>2. [r EXCEPT !.params = r.params] = r
      BY <3>0
    <3> QED
      BY <2>1, <3>1, <3>2 DEF r
  <2>4. \A l \in ToSet(plan.params.accessibility) : \E i \in I : l \in ToSet(limit(i))
    BY <2>1
  <2> QED
    BY <2>2, <2>3, <2>4
<1>3. CASE limited # {}
  <2>1. \A i \in limited : lengths[i] \in Int
    <3>1. "walk" \in DOMAIN Speed
      BY DEF Speed
    <3> QED
      BY <1>1, <3>1, LengthsAreIntegers
  <2>2. IsFiniteSet(limited) /\ limited \in SUBSET Int /\ DOMAIN lengths = limited
    BY FS_Subset
  <2>3. tightest \in limited /\ \A i \in limited : lengths[tightest] <= lengths[i]
    <3> HIDE DEF limited, lengths
    <3> QED
      BY <1>3, <2>1, <2>2, LeastIsLeast
  <2>4. plan = [plans[best] EXCEPT !.params = [@ EXCEPT !.accessibility = limit(tightest)]]
    BY <1>3 DEF TightestAccessibility
  <2>5. plan.params.accessibility = limit(tightest)
    BY <1>1, <2>4
  <2>6. ASSUME NEW x \in Int, \A l \in ToSet(plan.params.accessibility) : x <= AccessLength(l, "walk"),
               NEW i \in I, NEW l \in ToSet(limit(i))
        PROVE  x <= AccessLength(l, "walk")
    <3>1. i \in limited /\ l = limit(i)[1]
      <4>1. limit(i) # None
        BY SomeOrNone
      <4>2. ToSet(limit(i)) = {limit(i)[1]}
        BY <1>1, <4>1, SomeOrNone
      <4> QED
        BY <4>1, <4>2
    <3>2. lengths[i] = AccessLength(l, "walk")
      BY <3>1
    <3>3. x <= lengths[tightest]
      BY <1>1, <2>3, <2>5, <2>6, SomeOrNone
    <3>4. lengths[tightest] \in Int /\ lengths[i] \in Int /\ lengths[tightest] <= lengths[i]
      <4> HIDE DEF lengths, limited, tightest
      <4> QED
        BY <2>1, <2>3, <3>1
    <3>5. x <= lengths[i]
      <4> HIDE DEF lengths, limited, tightest
      <4> QED
        BY <3>3, <3>4
    <3> QED
      BY <3>2, <3>5
  <2>7. \A l \in ToSet(plan.params.accessibility) : \E i \in I : l \in ToSet(limit(i))
    BY <2>3, <2>5
  <2> QED
    BY <2>4, <2>5, <2>6, <2>7
<1> QED
  BY <1>2, <1>3

(* The strictest of some plans demands what each of them does, and there is none if one of
   them was refused. *)
LEMMA StrictestOfAll ==
    ASSUME NEW results, DOMAIN results \in SUBSET Int, IsFiniteSet(DOMAIN results), DOMAIN results # {},
           \A i \in DOMAIN results : results[i].plan # None => Planned(results[i].plan[1]),
           Strictest(results).plan # None
    PROVE  /\ \A i \in DOMAIN results : results[i].plan # None
           /\ DemandsAll(Strictest(results).plan[1], {results[i].plan[1] : i \in DOMAIN results})
<1> DEFINE I == DOMAIN results
           refused == {i \in I : results[i].plan = None}
           plans == [i \in I |-> results[i].plan[1]]
           order == [i \in I |-> Strictness(plans[i])]
           keys == [i \in I |-> order[i].key[1]]
           best == LeastIndex(keys)
           tight == TightestAccessibility(plans[best], plans)
           plan == [tight EXCEPT !.applicability = Some("strictest_variant")]
<1>1. refused = {}
  <2> SUFFICES ASSUME refused # {}
               PROVE  FALSE
    OBVIOUS
  <2> DEFINE first == LeastIndex([i \in refused |-> i])
  <2>1. Strictest(results) = results[first]
    BY DEF Strictest
  <2>2. first \in refused
    <3>1. IsFiniteSet(refused) /\ refused \in SUBSET Int
      BY FS_Subset
    <3>2. DOMAIN [i \in refused |-> i] = refused /\ \A i \in refused : [j \in refused |-> j][i] \in Int
      BY <3>1
    <3> HIDE DEF refused
    <3> QED
      BY <3>1, <3>2, LeastIsLeast
  <2> QED
    BY <2>1, <2>2
<1>2. \A i \in I : results[i].plan # None /\ Planned(plans[i])
  BY <1>1
<1>3. /\ \A i, j \in I : order[i].key # None /\ order[i].kind = order[j].kind
      /\ Strictest(results) = Accepted(plan)
  <2> DEFINE comparable == \A i, j \in I : order[i].key # None /\ order[i].kind = order[j].kind
  <2>1. Strictest(results) = IF refused # {} THEN results[LeastIndex([i \in refused |-> i])]
                             ELSE IF ~comparable THEN Refused({"variants_not_comparable"})
                             ELSE Accepted(plan)
    BY DEF Strictest
  <2>2. Refused({"variants_not_comparable"}).plan = None
    BY DEF Refused
  <2> HIDE DEF plan, refused, comparable
  <2>3. comparable /\ Strictest(results) = Accepted(plan)
    BY <1>1, <2>1, <2>2
  <2> QED
    BY <2>3 DEF comparable
<1>4. Strictest(results).plan[1] = plan
  <2> HIDE DEF plan
  <2> QED
    BY <1>3, SomeOrNone DEF Accepted
<1>5. best \in I /\ \A i \in I : keys[best] <= keys[i]
  <2>1. \A i \in I : keys[i] \in Int
    BY <1>2, <1>3, KeyIsInteger
  <2>2. DOMAIN keys = I
    OBVIOUS
  <2> HIDE DEF keys
  <2> QED
    BY <2>1, <2>2, LeastIsLeast
<1>6. \A i \in I : /\ Strictness(plans[best]).kind = Strictness(plans[i]).kind
                   /\ Strictness(plans[best]).key # None /\ Strictness(plans[i]).key # None
                   /\ Strictness(plans[best]).key[1] <= Strictness(plans[i]).key[1]
  BY <1>3, <1>5
<1> HIDE DEF best, keys, order
<1>7. \A i \in I : plans[i].template = plans[best].template
  BY <1>2, <1>5, <1>6, KindTellsTemplate
<1>8. plans[best] = [template |-> plans[best].template, params |-> plans[best].params,
                     layers |-> plans[best].layers, attributes |-> plans[best].attributes,
                     scope |-> None, applicability |-> None]
  BY <1>2, <1>5 DEF Planned
<1>9. CASE plans[best].template # "service_provision"
  <2>1. tight = plans[best]
    BY <1>9 DEF TightestAccessibility
  <2>2. /\ plan.template = plans[best].template /\ plan.params = plans[best].params
        /\ plan.layers = plans[best].layers /\ plan.attributes = plans[best].attributes
        /\ plan = [template |-> plan.template, params |-> plan.params, layers |-> plan.layers,
                   attributes |-> plan.attributes, scope |-> None, applicability |-> plan.applicability]
    <3> DEFINE r == plans[best]
    <3>1. /\ r = [template |-> r.template, params |-> r.params, layers |-> r.layers,
                   attributes |-> r.attributes, scope |-> None, applicability |-> None]
          /\ plan = [r EXCEPT !.applicability = Some("strictest_variant")]
      BY <1>8, <2>1
    <3> HIDE DEF r, plan
    <3>2. /\ plan.template = r.template /\ plan.params = r.params
          /\ plan.layers = r.layers /\ plan.attributes = r.attributes
          /\ plan = [template |-> plan.template, params |-> plan.params, layers |-> plan.layers,
                     attributes |-> plan.attributes, scope |-> None, applicability |-> plan.applicability]
      BY <3>1
    <3> QED
      BY <3>2 DEF r
  <2>3. \A x : Passes(plan, x) <=> Passes(plans[best], x)
    BY <2>2 DEF Passes
  <2>4. ASSUME NEW i \in I, NEW x, Measured(plan.template, x), Passes(plan, x)
        PROVE  Passes(plans[i], x)
    <3>1. x \in Int
      BY <1>9, <2>2, <2>4 DEF Measured
    <3> QED
      BY <1>2, <1>5, <1>6, <1>9, <2>3, <2>4, <3>1, SmallerIsStricter
  <2>5. SameDemand(plan, plans[best]) /\ Ways(plan) = {}
    <3> HIDE DEF plan
    <3>1. SameDemand(plan, plans[best])
      BY <2>2, SameParams
    <3> QED
      BY <1>9, <2>2, <3>1 DEF Ways
  <2> HIDE DEF plan
  <2> QED
    BY <1>2, <1>4, <1>5, <1>7, <2>2, <2>4, <2>5 DEF DemandsAll, Shaped
<1>10. CASE plans[best].template = "service_provision"
  <2> DEFINE p == plans[best].params
             access == tight.params.accessibility
  <2>1. /\ tight = [plans[best] EXCEPT !.params = [@ EXCEPT !.accessibility = access]]
        /\ \A x \in Int :
              (\A l \in ToSet(access) : x <= AccessLength(l, "walk"))
              => \A i \in I : \A l \in ToSet(plans[i].params.accessibility) : x <= AccessLength(l, "walk")
        /\ \A l \in ToSet(access) : \E i \in I : l \in ToSet(plans[i].params.accessibility)
    <3>1. DOMAIN plans = I /\ \A i \in I : plans[i].template = "service_provision"
      BY <1>7, <1>10
    <3> HIDE DEF plans
    <3> QED
      <4>1. I \in SUBSET Int /\ IsFiniteSet(I) /\ best \in I
        BY <1>5
      <4>2. \A i \in I : Planned(plans[i]) /\ plans[i].template = "service_provision"
        BY <1>2, <3>1
      <4> HIDE DEF tight
      <4>3. AsTight(TightestAccessibility(plans[best], plans), plans[best], plans)
        <5> HIDE DEF I
        <5> QED
          BY <3>1, <4>1, <4>2, TightestIsTightest
      <4>4. AsTight(tight, plans[best], plans)
        BY <4>3 DEF tight
      <4> QED
        BY <3>1, <4>4 DEF AsTight
  <2>2. p = [capacity |-> p.capacity, residents |-> p.residents, accessibility |-> p.accessibility]
    BY <1>2, <1>5, <1>10 DEF Planned, Demand
  <2>3. /\ tight.template = "service_provision" /\ tight.layers = plans[best].layers
        /\ tight.scope = None
        /\ tight.params.capacity = p.capacity /\ tight.params.residents = p.residents
        /\ tight = [template |-> tight.template, params |-> tight.params, layers |-> tight.layers,
                    attributes |-> tight.attributes, scope |-> None, applicability |-> None]
    <3> DEFINE demand == [p EXCEPT !.accessibility = access]
    <3>1. demand.capacity = p.capacity /\ demand.residents = p.residents
      BY <2>2
    <3>2. tight = [plans[best] EXCEPT !.params = demand]
      BY <2>1
    <3> DEFINE r == plans[best]
    <3>3. r = [template |-> r.template, params |-> r.params, layers |-> r.layers,
               attributes |-> r.attributes, scope |-> None, applicability |-> None]
      BY <1>8
    <3> HIDE DEF demand, tight, r
    <3>4. [r EXCEPT !.params = demand] = [template |-> r.template, params |-> demand, layers |-> r.layers,
                                          attributes |-> r.attributes, scope |-> None, applicability |-> None]
      BY <3>3
    <3>5. tight = [template |-> plans[best].template, params |-> demand,
                   layers |-> plans[best].layers, attributes |-> plans[best].attributes,
                   scope |-> None, applicability |-> None]
      BY <3>2, <3>4 DEF r
    <3> QED
      BY <1>10, <3>1, <3>5
  <2>4. /\ plan.template = "service_provision" /\ plan.params = tight.params
        /\ plan.layers = plans[best].layers
        /\ plan = [template |-> plan.template, params |-> plan.params, layers |-> plan.layers,
                   attributes |-> plan.attributes, scope |-> None, applicability |-> plan.applicability]
    <3> HIDE DEF tight
    <3> QED
      BY <2>3
  <2>5. ASSUME NEW i \in I, NEW x, Measured(plan.template, x), Passes(plan, x)
        PROVE  Passes(plans[i], x)
    <3>1. x.capacity \in Int /\ x.residents \in Int /\ x.way \in Int
      BY <2>4, <2>5 DEF Measured
    <3>2. /\ \A c \in ToSet(p.capacity) : x.capacity >= c
          /\ \A r \in ToSet(p.residents) : x.residents <= r
          /\ \A l \in ToSet(access) : x.way <= AccessLength(l, "walk")
      BY <2>3, <2>4, <2>5 DEF Passes
    <3>3. /\ \A c \in ToSet(plans[i].params.capacity) : x.capacity >= c
          /\ \A r \in ToSet(plans[i].params.residents) : x.residents <= r
      BY <1>2, <1>5, <1>6, <1>10, <3>1, <3>2, SmallerProvidesMore
    <3>4. \A l \in ToSet(plans[i].params.accessibility) : x.way <= AccessLength(l, "walk")
      BY <2>1, <3>1, <3>2
    <3> QED
      BY <1>7, <1>10, <3>3, <3>4 DEF Passes
  <2>6. SameDemand(plan, plans[best])
    <3>1. plan.params.capacity = p.capacity /\ plan.params.residents = p.residents
      BY <2>3, <2>4
    <3> HIDE DEF plan, tight
    <3> QED
      BY <1>10, <2>4, <3>1, SameProvision
  <2>7. Ways(plan) = ToSet(access) /\ \A i \in I : Ways(plans[i]) = ToSet(plans[i].params.accessibility)
    <3> HIDE DEF plan, tight
    <3> QED
      BY <1>7, <1>10, <2>4 DEF Ways
  <2>8. \A l \in Ways(plan) : \E i \in I : l \in Ways(plans[i])
    <3> HIDE DEF plan, plans, tight, access, I
    <3> QED
      BY <2>1, <2>7
  <2> HIDE DEF plan, tight
  <2> QED
    BY <1>2, <1>4, <1>5, <1>7, <1>10, <2>4, <2>5, <2>6, <2>8 DEF DemandsAll, Shaped
<1> QED
  BY <1>2, <1>9, <1>10

(* What a variant says instead may be missing. *)
VariantFits(v) == Optional(v.value) /\ Optional(v.objects)

(* The variants of a reading, as a finite family. *)
Varied(spec) ==
    \E n \in Nat : DOMAIN spec.variants = 1..n /\ \A i \in 1..n : VariantFits(spec.variants[i])

(* StrictestOfAll, its plans indexed by a named set. *)
LEMMA StrictestIsStrictest ==
    ASSUME NEW I \in SUBSET Int, IsFiniteSet(I), I # {}, NEW results, DOMAIN results = I,
           \A i \in I : results[i].plan # None => Planned(results[i].plan[1]),
           Strictest(results).plan # None
    PROVE  /\ \A i \in I : results[i].plan # None
           /\ DemandsAll(Strictest(results).plan[1], {results[i].plan[1] : i \in I})
<1>1. {results[i].plan[1] : i \in DOMAIN results} = {results[i].plan[1] : i \in I}
  OBVIOUS
<1>2. /\ \A i \in DOMAIN results : results[i].plan # None
      /\ DemandsAll(Strictest(results).plan[1], {results[i].plan[1] : i \in DOMAIN results})
  BY StrictestOfAll
<1> QED
  BY <1>1, <1>2

(* What is read as accessibility keeps its value and its variants. *)
LEMMA AsAccessibilityKeeps ==
    ASSUME NEW spec, NEW source, SpecFields \subseteq DOMAIN spec, spec.template \in SpecTemplates
    PROVE  LET read == AsAccessibility(spec, source)
           IN /\ DOMAIN read = DOMAIN spec
              /\ read.template \in SpecTemplates
              /\ read.value = spec.value /\ read.objects = spec.objects /\ read.variants = spec.variants
              /\ read.housing = spec.housing
<1> DEFINE read == AsAccessibility(spec, source)
<1>1. {"template", "operator", "value", "objects", "variants", "housing"} \subseteq DOMAIN spec
  BY DEF SpecFields
<1>2. \/ read = spec
      \/ read = [spec EXCEPT !.template = "accessibility", !.operator = "<="]
      \/ read = [spec EXCEPT !.operator = "<="]
  BY DEF AsAccessibility
<1>3. CASE read = spec
  BY <1>3
<1>4. CASE read = [spec EXCEPT !.template = "accessibility", !.operator = "<="]
  BY <1>1, <1>4 DEF SpecTemplates
<1>5. CASE read = [spec EXCEPT !.operator = "<="]
  BY <1>1, <1>5
<1> QED
  BY <1>2, <1>3, <1>4, <1>5

(* A reading with the other end of its range is still a reading. *)
LEMMA WithRangeVariantKeeps ==
    ASSUME NEW spec, SpecFields \subseteq DOMAIN spec, spec.template \in SpecTemplates,
           Optional(spec.value), Optional(spec.objects), spec.variants \in Seq(ToSet(spec.variants)),
           \A v \in ToSet(spec.variants) : VariantFits(v)
    PROVE  /\ Readable(WithRangeVariant(spec)) /\ Varied(WithRangeVariant(spec))
           /\ WithRangeVariant(spec).housing = spec.housing
<1> DEFINE ranges == spec.quote.ranges
           first == ranges[1]
           start == IF spec.template = "min_distance" THEN first.high ELSE first.low
           read == IF spec.value = None /\ ranges # << >>
                   THEN [spec EXCEPT !.value = Some(start), !.unit = first.unit] ELSE spec
           ends == {i \in DOMAIN ranges : /\ ranges[i].low < ranges[i].high
                                          /\ read.value \in {Some(ranges[i].low), Some(ranges[i].high)}}
           range == ranges[CHOOSE i \in ends : \A j \in ends : i <= j]
           other == Some(IF read.value = Some(range.low) THEN range.high ELSE range.low)
           variant == [value |-> other, unit |-> Some(read.unit), objects |-> None,
                       access |-> None, accessUnit |-> None, mode |-> None, housing |-> {}]
           stated == ToSet(spec.variants)
<1>1. {"template", "checked", "other", "value", "unit", "attribute", "objects", "access", "accessUnit",
       "mode", "variants", "unconditional", "housing"} \subseteq DOMAIN spec
  BY DEF SpecFields
<1>2. /\ Readable(spec) /\ Readable(read) /\ DOMAIN read = DOMAIN spec
      /\ read.variants = spec.variants /\ read.housing = spec.housing
  BY <1>1, SomeOrNone DEF Readable
<1>3. Varied(spec) /\ Varied(read)
  <2>1. \A i \in DOMAIN spec.variants : spec.variants[i] \in stated
    BY DEF ToSet
  <2>2. Len(spec.variants) \in Nat /\ DOMAIN spec.variants = 1..Len(spec.variants)
    OBVIOUS
  <2> HIDE DEF read
  <2> QED
    BY <1>2, <2>1, <2>2 DEF Varied
<1>4. /\ \/ WithRangeVariant(spec) = spec
         \/ WithRangeVariant(spec) = read
         \/ WithRangeVariant(spec) = [read EXCEPT !.unconditional = FALSE, !.variants = Append(@, variant)]
      /\ VariantFits(variant)
  <2>1. Optional(other) /\ Optional(None)
    BY SomeOrNone
  <2> QED
    BY <2>1 DEF WithRangeVariant, VariantFits
<1> HIDE DEF variant, read
<1>5. CASE WithRangeVariant(spec) = [read EXCEPT !.unconditional = FALSE, !.variants = Append(@, variant)]
  <2> DEFINE more == Append(spec.variants, variant)
             wider == WithRangeVariant(spec)
             n == Len(spec.variants)
  <2>1. wider.variants = more /\ Readable(wider) /\ wider.housing = spec.housing
    BY <1>1, <1>2, <1>5 DEF Readable
  <2>2. spec.variants \in Seq(stated \cup {variant}) /\ n \in Nat /\ DOMAIN spec.variants = 1..n
    <3> HIDE DEF stated, wider
    <3> QED
      BY DEF stated
  <2>3. DOMAIN more = 1..(n + 1) /\ \A i \in 1..(n + 1) : more[i] = IF i <= n THEN spec.variants[i] ELSE variant
    <3> HIDE DEF stated, wider, n
    <3> QED
      BY <2>2 DEF n
  <2>4. \A i \in 1..(n + 1) : VariantFits(more[i])
    <3>1. \A i \in 1..n : spec.variants[i] \in stated
      BY <2>2 DEF ToSet
    <3>2. \A i \in 1..(n + 1) : i <= n => i \in 1..n
      BY <2>2
    <3> HIDE DEF more
    <3> QED
      BY <1>4, <2>3, <3>1, <3>2
  <2> QED
    BY <2>1, <2>2, <2>3, <2>4 DEF Varied
<1> QED
  BY <1>2, <1>3, <1>4, <1>5

(* The reading that is compiled is one. *)
LEMMA ReadIsReadable ==
    ASSUME NEW q \in Questions, q.kind = "norm", q.spec.template # "none"
    PROVE  /\ Readable(Read(q.spec, q.source)) /\ Varied(Read(q.spec, q.source))
           /\ Read(q.spec, q.source).housing = q.spec.housing /\ q.spec.housing \in SUBSET HousingTypes
<1> DEFINE spec == AsAccessibility(q.spec, q.source)
<1>1. /\ SpecFields \subseteq DOMAIN spec /\ spec.template \in SpecTemplates
      /\ Optional(spec.value) /\ Optional(spec.objects)
      /\ spec.variants \in Seq(ToSet(spec.variants))
      /\ \A v \in ToSet(spec.variants) : VariantFits(v)
      /\ spec.housing = q.spec.housing /\ q.spec.housing \in SUBSET HousingTypes
  BY AsAccessibilityKeeps, ReadingsAssumption DEF IsReading, VariantFits
<1> HIDE DEF spec
<1>2. /\ Readable(WithRangeVariant(spec)) /\ Varied(WithRangeVariant(spec))
      /\ WithRangeVariant(spec).housing = spec.housing
  BY <1>1, WithRangeVariantKeeps
<1> QED
  BY <1>1, <1>2 DEF Read, spec

(* Every variant is a reading of the same sides for the same template. *)
LEMMA VariantIsReadable ==
    ASSUME NEW spec, Readable(spec), NEW i, i = 0 \/ VariantFits(spec.variants[i]), NEW cat
    PROVE  /\ Readable(Reading(spec, i))
           /\ Reading(spec, i).template = spec.template
           /\ LayersOf(Reading(spec, i), cat) = LayersOf(spec, cat)
<1> DEFINE read == Reading(spec, i)
<1>1. Readable(read) /\ read.template = spec.template /\ read.checked = spec.checked /\ read.other = spec.other
  <2>1. CASE i = 0
    BY <2>1 DEF Reading
  <2>2. CASE i # 0
    <3> DEFINE v == spec.variants[i]
               value == IF v.value = None THEN spec.value ELSE v.value
               objects == IF v.objects = None THEN spec.objects ELSE v.objects
    <3>1. Optional(value) /\ Optional(objects)
      BY <2>2 DEF Readable, VariantFits
    <3>2. /\ DOMAIN read = DOMAIN spec /\ read.value = value /\ read.objects = objects
          /\ read.template = spec.template
          /\ read.checked = spec.checked /\ read.other = spec.other
      BY <2>2 DEF Reading, WithVariant, Readable
    <3> HIDE DEF value, objects, read
    <3> QED
      BY <3>1, <3>2 DEF Readable
  <2> QED
    BY <2>1, <2>2
<1>2. WithSides(read).checked = WithSides(spec).checked /\ WithSides(read).other = WithSides(spec).other
  BY <1>1, SidesAsRead
<1> QED
  BY <1>1, <1>2 DEF LayersOf

(* A plan is scoped only if dwellings are what it checks, and for nothing else. *)
LEMMA ScopedKeeps ==
    ASSUME NEW plan, NEW housing, Shaped(plan)
    PROVE  LET scoped == Scoped(plan, housing)
           IN /\ scoped.plan # None => /\ ChecksHouses(plan)
                                       /\ scoped.plan[1].template = plan.template
                                       /\ scoped.plan[1].params = plan.params
                                       /\ scoped.plan[1].layers = plan.layers
                                       /\ scoped.plan[1].applicability = plan.applicability
              /\ scoped.plan = None /\ scoped.reasons = {} => ~ChecksHouses(plan)
<1> DEFINE role == CheckedRole[plan.template]
           houses == \E l \in ToSet(plan.layers) : l.role = role /\ l.entity = House
           out == Scoped(plan, housing)
<1>1. ChecksHouses(plan) <=> plan.template \in DOMAIN CheckedRole /\ houses
  BY DEF ChecksHouses
<1>2. \A reasons : Refused(reasons).plan = None /\ Refused(reasons).reasons = reasons
  BY DEF Refused
<1>3. \A p : Accepted(p).plan # None /\ Accepted(p).plan[1] = p
  BY SomeOrNone DEF Accepted
<1>4. PICK scope, more :
        LET scoped == [plan EXCEPT !.scope = scope, !.attributes = Append(@, more)]
        IN \/ ~(plan.template \in DOMAIN CheckedRole /\ houses) /\ out = Refused({})
           \/ /\ plan.template \in DOMAIN CheckedRole /\ houses
              /\ \/ out = Refused({"housing_scope_not_contiguous"})
                 \/ out = Refused({"invalid_plan_parameters"})
                 \/ out = Raised
                 \/ out = Accepted(scoped)
  <2> DEFINE floors == Floors(housing)
             scope == [layer |-> role, attribute |-> "scope_floors", max |-> floors[1].high,
                       min |-> IF floors[1].low > 1 THEN Some(floors[1].low) ELSE None]
             more == [role |-> "scope_floors", on |-> role, accepts |-> Candidates("floors")]
             scoped == [plan EXCEPT !.scope = Some(scope), !.attributes = Append(@, more)]
  <2>1. \/ ~(plan.template \in DOMAIN CheckedRole /\ houses) /\ out = Refused({})
        \/ /\ plan.template \in DOMAIN CheckedRole /\ houses
           /\ \/ out = Refused({"housing_scope_not_contiguous"})
              \/ out = Refused({"invalid_plan_parameters"})
              \/ out = Raised
              \/ out = Accepted(scoped)
    BY DEF Scoped
  <2> HIDE DEF scope, more, role, houses, out
  <2> QED
    BY <2>1
<1> DEFINE scoped == [plan EXCEPT !.scope = scope, !.attributes = Append(@, more)]
<1>5. /\ scoped.template = plan.template /\ scoped.params = plan.params
      /\ scoped.layers = plan.layers /\ scoped.applicability = plan.applicability
  BY DEF Shaped
<1>6. {"housing_scope_not_contiguous"} # {} /\ {"invalid_plan_parameters"} # {}
  OBVIOUS
<1>7. \/ ~(plan.template \in DOMAIN CheckedRole /\ houses) /\ out = Refused({})
      \/ /\ plan.template \in DOMAIN CheckedRole /\ houses
         /\ \/ out = Refused({"housing_scope_not_contiguous"})
            \/ out = Refused({"invalid_plan_parameters"})
            \/ out = Raised
            \/ out = Accepted(scoped)
  <2> HIDE DEF out, houses, role
  <2> QED
    BY <1>4
<1> HIDE DEF scoped, out, houses, role
<1>8. CASE out = Accepted(scoped) /\ plan.template \in DOMAIN CheckedRole /\ houses
  BY <1>1, <1>3, <1>5, <1>8 DEF out
<1>9. CASE out = Raised
  BY <1>9 DEF out, Raised
<1>10. CASE out = Refused({}) /\ ~(plan.template \in DOMAIN CheckedRole /\ houses)
  BY <1>1, <1>2, <1>10 DEF out
<1>11. CASE out = Refused({"housing_scope_not_contiguous"}) \/ out = Refused({"invalid_plan_parameters"})
  BY <1>2, <1>6, <1>11 DEF out
<1> QED
  BY <1>7, <1>8, <1>9, <1>10, <1>11

(* A scoped plan checks the buildings of the types and no others. *)
LEMMA ScopedToHousing ==
    ASSUME NEW plan, Shaped(plan), NEW H \in SUBSET HousingTypes, H # {},
           Scoped(plan, H).plan # None
    PROVE  OnFloorsOf(Scoped(plan, H).plan[1], H)
<1> DEFINE role == CheckedRole[plan.template]
           floors == Floors(H)
           low == floors[1].low
           high == floors[1].high
           scope == [layer |-> role, attribute |-> "scope_floors", max |-> high,
                     min |-> IF low > 1 THEN Some(low) ELSE None]
           more == [role |-> "scope_floors", on |-> role, accepts |-> Candidates("floors")]
           scoped == [plan EXCEPT !.scope = Some(scope), !.attributes = Append(@, more)]
           out == Scoped(plan, H)
<1>1. \A reasons : Refused(reasons).plan = None
  BY DEF Refused
<1>2. \A p : Accepted(p).plan # None /\ Accepted(p).plan[1] = p
  BY SomeOrNone DEF Accepted
<1>3. /\ floors # None
      /\ out = Accepted(scoped)
  BY <1>1 DEF Scoped, Raised
<1>4. /\ low \in Nat /\ Optional(high)
      /\ \A n \in 1..20 : low <= n /\ (high = None \/ n <= high[1]) <=> \E h \in H : OfHousing(n, h)
  BY <1>3, FloorsAreMeant
<1>5. scope.max = high /\ scope.min = IF low > 1 THEN Some(low) ELSE None
  OBVIOUS
<1> HIDE DEF low, high, out
<1>6. /\ scope.min = None <=> low <= 1
      /\ \A n \in 1..20 : (scope.min = None \/ n >= scope.min[1]) <=> low <= n
  BY <1>4, <1>5, SomeOrNone
<1>7. out.plan[1].scope = Some(scope)
  <2>1. scoped.scope = Some(scope)
    BY DEF Shaped
  <2> HIDE DEF scoped, scope
  <2> QED
    BY <1>2, <1>3, <2>1
<1> HIDE DEF scope
<1>8. ToSet(out.plan[1].scope) = {scope}
  BY <1>7, SomeOrNone
<1>9. \A n \in 1..20 : ChecksFloors(out.plan[1], n) <=> low <= n /\ (high = None \/ n <= high[1])
  BY <1>5, <1>6, <1>8 DEF ChecksFloors
<1> QED
  BY <1>4, <1>9 DEF OnFloorsOf, out

(* What every one of these values of a clause demands, the plan demands. *)
DemandsValues(plan, spec, variants, source, labels, cat) ==
    \A i \in {0} \cup variants :
        LET value == CompileOne(Reading(spec, i), source, labels, cat).plan[1]
        IN /\ Planned(value) /\ value.template = plan.template
           /\ \A x : Measured(plan.template, x) /\ Passes(plan, x) => Passes(value, x)

(* The readings that a plan is made of. *)
Sources(spec, variants) ==
    IF spec.unconditional THEN {Reading(spec, 0)} ELSE {Reading(spec, i) : i \in {0} \cup variants}

(* What compiles of a reading with some of its variants: a plan of its template for its *)
(* sides, and if that was compared, one that demands what each of them does.             *)
LEMMA VariantsCompiled ==
    ASSUME NEW spec, NEW source, NEW labels, NEW cat, Readable(spec), Varied(spec), Given(source, cat),
           NEW V \in SUBSET DOMAIN spec.variants,
           CompileVariants(spec, V, source, labels, cat).plan # None
    PROVE  LET plan == CompileVariants(spec, V, source, labels, cat).plan[1]
           IN /\ Shaped(plan) /\ plan.template = TemplateFor(spec.template)
              /\ plan.layers = LayersOf(spec, cat)
              /\ ReadFrom(plan, Sources(spec, V), source) /\ LayersListed(plan, cat)
              /\ plan.applicability # None => DemandsValues(plan, spec, V, source, labels, cat)
<1> DEFINE I == {0} \cup V
           results == [i \in I |-> CompileOne(Reading(spec, i), source, labels, cat)]
           out == CompileVariants(spec, V, source, labels, cat)
           plan == out.plan[1]
<1>1. out = IF spec.unconditional THEN results[0] ELSE Strictest(results)
  BY DEF CompileVariants
<1>2. I \in SUBSET Int /\ IsFiniteSet(I) /\ I # {} /\ 0 \in I
  <2>1. PICK n \in Nat : DOMAIN spec.variants = 1..n
    BY DEF Varied
  <2>2. IsFiniteSet(0..n) /\ I \subseteq 0..n
    <3>1. IsFiniteSet(0..n)
      BY FS_Interval
    <3> QED
      BY <2>1, <3>1
  <2> QED
    BY <2>2, FS_Subset
<1>3. ASSUME NEW i \in I, results[i].plan # None
      PROVE  /\ Planned(results[i].plan[1])
             /\ results[i].plan[1].template = TemplateFor(spec.template)
             /\ results[i].plan[1].layers = LayersOf(spec, cat)
             /\ AsRead(results[i].plan[1], Reading(spec, i), source, cat)
  <2> DEFINE read == Reading(spec, i)
  <2>1. i = 0 \/ VariantFits(spec.variants[i])
    BY DEF Varied
  <2>2. Readable(read) /\ read.template = spec.template /\ LayersOf(read, cat) = LayersOf(spec, cat)
    BY <2>1, VariantIsReadable
  <2>3. results[i] = CompileOne(read, source, labels, cat)
    OBVIOUS
  <2> HIDE DEF read, results
  <2>4. Planned(results[i].plan[1]) /\ AsRead(results[i].plan[1], read, source, cat)
    BY <1>3, <2>2, <2>3, OneIsPlanned
  <2> QED
    BY <1>3, <2>2, <2>3, <2>4, OneIsPlanned DEF read
<1>4. CASE spec.unconditional
  <2>1. out = results[0]
    BY <1>1, <1>4
  <2>2. /\ Planned(plan) /\ plan.template = TemplateFor(spec.template)
        /\ plan.layers = LayersOf(spec, cat) /\ AsRead(plan, Reading(spec, 0), source, cat)
    <3> HIDE DEF results, out
    <3> QED
      BY <1>2, <1>3, <2>1 DEF out
  <2> HIDE DEF plan, out
  <2>3. plan.applicability = None
    BY <2>2 DEF Planned
  <2>4. ReadFrom(plan, Sources(spec, V), source) /\ LayersListed(plan, cat)
    BY <1>4, <2>2 DEF AsRead, ReadFrom, Sources
  <2> QED
    BY <2>2, <2>3, <2>4 DEF Planned, Shaped, plan, out
<1>5. CASE ~spec.unconditional
  <2> DEFINE values == {results[i].plan[1] : i \in I}
  <2>1. out = Strictest(results) /\ Strictest(results).plan # None /\ DOMAIN results = I
    BY <1>1, <1>5
  <2>2. (\A i \in I : results[i].plan # None) /\ DemandsAll(plan, values)
    <3> HIDE DEF results, I
    <3> QED
      BY <1>2, <1>3, <2>1, StrictestIsStrictest
  <2>3. \A i \in I : /\ Planned(results[i].plan[1])
                     /\ results[i].plan[1].template = TemplateFor(spec.template)
                     /\ results[i].plan[1].layers = LayersOf(spec, cat)
                     /\ AsRead(results[i].plan[1], Reading(spec, i), source, cat)
    BY <1>3, <2>2
  <2>4. \A i \in I : results[i].plan[1] \in values
    OBVIOUS
  <2>5. /\ plan.template = TemplateFor(spec.template) /\ plan.layers = LayersOf(spec, cat)
        /\ ReadFrom(plan, Sources(spec, V), source) /\ LayersListed(plan, cat)
    <3>1. PICK other \in values : /\ plan.template = other.template /\ plan.layers = other.layers
                                  /\ SameDemand(plan, other)
      BY <2>2 DEF DemandsAll
    <3>2. PICK i \in I : other = results[i].plan[1]
      OBVIOUS
    <3>3. \A l \in Ways(plan) : \E j \in I : l \in Ways(results[j].plan[1])
      BY <2>2 DEF DemandsAll
    <3>4. Sources(spec, V) = {Reading(spec, j) : j \in I}
      BY <1>5 DEF Sources
    <3> HIDE DEF plan, results, I
    <3>5. \A l \in Ways(plan) : \E r \in Sources(spec, V) : LeadsAsRead(l, r)
      BY <2>3, <3>3, <3>4 DEF AsRead
    <3>6. \E r \in Sources(spec, V) : ComparesWith(plan, r, source) /\ InClause(r, source)
      BY <2>3, <3>1, <3>2, <3>4 DEF AsRead, SameDemand
    <3>7. LayersListed(plan, cat)
      BY <2>3, <3>1, <3>2 DEF AsRead, LayersListed
    <3> QED
      BY <2>3, <3>1, <3>2, <3>5, <3>6, <3>7 DEF ReadFrom
  <2>6. \A i \in I : results[i].plan[1] = CompileOne(Reading(spec, i), source, labels, cat).plan[1]
    OBVIOUS
  <2> HIDE DEF plan, results, values
  <2> QED
    BY <2>2, <2>3, <2>4, <2>5, <2>6 DEF DemandsAll, DemandsValues, plan
<1> QED
  BY <1>4, <1>5

(* What is compiled for the types of buildings of a reading has nothing that is not stated, *)
(* checks buildings of these types if it checks buildings, and if its values were compared,   *)
(* demands what every value that competes for what it checks demands.                         *)
LEMMA HousingCompiled ==
    ASSUME NEW q \in Questions, q.kind = "norm",
           Compile(q.spec, q.source, q.labels, q.catalog).plan # None
    PROVE  LET spec == Read(q.spec, q.source)
               plan == Compile(q.spec, q.source, q.labels, q.catalog).plan[1]
               variants == IF spec.housing # {} /\ ChecksHouses(plan) THEN Relevant(spec)
                           ELSE DOMAIN spec.variants
           IN /\ ReadFrom(plan, Sources(spec, variants), q.source) /\ LayersListed(plan, q.catalog)
              /\ plan.template = TemplateFor(spec.template) /\ plan.layers = LayersOf(spec, q.catalog)
              /\ spec.template \in SpecTemplates
              /\ q.spec.housing # {} /\ ChecksHouses(plan) => OnFloorsOf(plan, q.spec.housing)
              /\ plan.applicability # None =>
                    DemandsValues(plan, spec, variants, q.source, q.labels, q.catalog)
<1> DEFINE spec == Read(q.spec, q.source)
           out == Compile(q.spec, q.source, q.labels, q.catalog)
           plan == out.plan[1]
           compiled(V) == CompileVariants(spec, V, q.source, q.labels, q.catalog)
           demands(p, V) == DemandsValues(p, spec, V, q.source, q.labels, q.catalog)
           all == DOMAIN spec.variants
           relevant == Relevant(spec)
           scoped == Scoped(compiled(relevant).plan[1], spec.housing)
           stated(p, V) == ReadFrom(p, Sources(spec, V), q.source) /\ LayersListed(p, q.catalog)
           strict(p, V) == p.applicability # None => demands(p, V)
           shaped(p) == p.template = TemplateFor(spec.template) /\ p.layers = LayersOf(spec, q.catalog)
<1> SUFFICES /\ stated(plan, IF spec.housing # {} /\ ChecksHouses(plan) THEN relevant ELSE all)
             /\ shaped(plan) /\ spec.template \in SpecTemplates
             /\ spec.housing = q.spec.housing
             /\ spec.housing # {} /\ ChecksHouses(plan) => OnFloorsOf(plan, spec.housing)
             /\ strict(plan, IF spec.housing # {} /\ ChecksHouses(plan) THEN relevant ELSE all)
  OBVIOUS
<1>1. q.spec.template # "none" /\ out = ForHousing(spec.housing, compiled(relevant), compiled(all))
  <2>1. \A reasons : Refused(reasons).plan = None
    BY DEF Refused
  <2> QED
    BY <2>1 DEF Compile
<1>2. /\ Readable(spec) /\ Varied(spec) /\ Given(q.source, q.catalog)
      /\ spec.template \in SpecTemplates
      /\ spec.housing = q.spec.housing /\ spec.housing \in SUBSET HousingTypes
  <2>1. Given(q.source, q.catalog)
    BY ReadingsAssumption, CatalogsAssumption DEF Given
  <2> QED
    BY <1>1, <2>1, ReadIsReadable DEF Readable
<1>3. relevant \in SUBSET all
  BY DEF Relevant
<1> HIDE DEF spec
<1>4. ASSUME NEW V \in SUBSET all, compiled(V).plan # None
      PROVE  LET p == compiled(V).plan[1]
             IN Shaped(p) /\ shaped(p) /\ stated(p, V) /\ strict(p, V)
  BY <1>2, <1>4, VariantsCompiled
<1> HIDE DEF compiled, demands, stated, all, relevant
<1>5. CASE spec.housing = {}
  <2>1. out = compiled(all)
    BY <1>1, <1>5 DEF ForHousing
  <2>2. stated(plan, all) /\ shaped(plan) /\ strict(plan, all)
    BY <1>4, <2>1
  <2> QED
    BY <1>2, <1>5, <2>2
<1>6. CASE spec.housing # {}
  <2>1. compiled(relevant).plan # None
    BY <1>1, <1>6 DEF ForHousing
  <2> DEFINE p == compiled(relevant).plan[1]
  <2>2. Shaped(p) /\ shaped(p) /\ stated(p, relevant) /\ strict(p, relevant)
    BY <1>3, <1>4, <2>1
  <2>3. CASE scoped.plan # None
    <3>1. out = scoped
      BY <1>1, <1>6, <2>1, <2>3 DEF ForHousing
    <3>2. /\ ChecksHouses(p)
          /\ plan.template = p.template /\ plan.params = p.params /\ plan.layers = p.layers
          /\ plan.applicability = p.applicability
      BY <2>2, <2>3, <3>1, ScopedKeeps
    <3>3. stated(p, relevant) /\ strict(p, relevant)
      BY <2>2
    <3>7. OnFloorsOf(plan, spec.housing)
      BY <1>2, <1>6, <2>2, <2>3, <3>1, ScopedToHousing
    <3> HIDE DEF p, plan, scoped
    <3>8. shaped(plan)
      BY <2>2, <3>2
    <3>4. ChecksHouses(plan) /\ \A x : Passes(plan, x) <=> Passes(p, x)
      BY <3>2 DEF ChecksHouses, Passes
    <3>5. strict(plan, relevant)
      BY <3>2, <3>3, <3>4 DEF demands, DemandsValues
    <3>6. stated(plan, relevant)
      BY <3>2, <3>3 DEF stated, ReadFrom, ComparesWith, Ways, LayersListed
    <3> QED
      BY <1>2, <1>6, <3>4, <3>5, <3>6, <3>7, <3>8
  <2>4. CASE scoped.plan = None
    <3>1. scoped.reasons = {} /\ out = compiled(all)
      BY <1>1, <1>6, <2>1, <2>4 DEF ForHousing
    <3>2. ~ChecksHouses(p)
      BY <2>2, <2>4, <3>1, ScopedKeeps
    <3>3. stated(plan, all) /\ shaped(plan) /\ strict(plan, all)
      BY <1>4, <3>1
    <3>4. plan.template = p.template /\ plan.layers = p.layers
      BY <2>2, <3>3
    <3> HIDE DEF p, plan
    <3>5. ~ChecksHouses(plan)
      BY <3>2, <3>4 DEF ChecksHouses
    <3> QED
      BY <1>2, <3>3, <3>5
  <2> QED
    BY <2>3, <2>4
<1> QED
  BY <1>5, <1>6

(* What is measured fits what the plans check. *)
LEMMA MeasurementsMeasure ==
    ASSUME NEW plans, NEW t, \A p \in plans : Planned(p) /\ p.template = t,
           NEW x \in Measurements(plans)
    PROVE  Measured(t, x)
<1> DEFINE around(n) == {n - 1, n, n + 1}
           limits(p) == UNION {around(AccessLength(l, "walk")) : l \in ToSet(p.accessibility)}
           of(plan) ==
               LET p == plan.params
               IN CASE plan.template = "distance_from_source" -> UNION {around(d) : d \in ToSet(p.distance)}
                    [] plan.template = "presence_within" -> around(p.distance)
                    [] plan.template = "accessibility_within" -> around(AccessLength(p.limit, p.mode))
                    [] plan.template = "service_provision" ->
                         {[capacity |-> c, residents |-> r, way |-> w] :
                             c \in {0, Million} \cup UNION {around(c) : c \in ToSet(p.capacity)},
                             r \in {0, Million} \cup UNION {around(c) : c \in ToSet(p.residents)},
                             w \in {0} \cup limits(p)}
                    [] OTHER -> around(p.threshold[1])
<1>1. PICK plan \in plans : x \in of(plan)
  BY DEF Measurements
<1> DEFINE p == plan.params
<1>2. plan.template = t /\ Demand(t, p)
  BY DEF Planned
<1>3. \A n \in Int : around(n) \subseteq Int
  OBVIOUS
<1> HIDE DEF around
<1>4. CASE t = "distance_from_source"
  <2>1. \A d \in ToSet(p.distance) : d \in Int
    BY <1>2, <1>4, SomeOrNone DEF Demand
  <2>2. x \in UNION {around(d) : d \in ToSet(p.distance)}
    BY <1>1, <1>2, <1>4
  <2> QED
    BY <1>3, <1>4, <2>1, <2>2 DEF Measured
<1>5. CASE t = "presence_within"
  BY <1>1, <1>2, <1>3, <1>5 DEF Demand, Measured
<1>6. CASE t = "accessibility_within"
  BY <1>1, <1>2, <1>3, <1>6, LengthsAreIntegers DEF Demand, Measured
<1>7. CASE t \in {"object_attribute_threshold", "zonal_attribute_threshold", "zonal_ratio"}
  BY <1>1, <1>2, <1>3, <1>7 DEF Demand, Measured
<1>8. CASE t = "service_provision"
  <2>1. Million \in Int /\ 0 \in Int
    BY DEF Million, Thousand
  <2>2. /\ \A c \in ToSet(p.capacity) : c \in Int
        /\ \A r \in ToSet(p.residents) : r \in Int
        /\ \A l \in ToSet(p.accessibility) : AccessLength(l, "walk") \in Int
    <3>1. "walk" \in DOMAIN Speed
      BY DEF Speed
    <3> QED
      BY <1>2, <1>8, <3>1, SomeOrNone, LengthsAreIntegers DEF Demand
  <2>3. limits(p) \subseteq Int
    BY <1>3, <2>2
  <2>4. /\ {0, Million} \cup UNION {around(c) : c \in ToSet(p.capacity)} \subseteq Int
        /\ {0, Million} \cup UNION {around(c) : c \in ToSet(p.residents)} \subseteq Int
        /\ {0} \cup limits(p) \subseteq Int
    BY <1>3, <2>1, <2>2, <2>3
  <2>5. x \in {[capacity |-> c, residents |-> r, way |-> w] :
                  c \in {0, Million} \cup UNION {around(c) : c \in ToSet(p.capacity)},
                  r \in {0, Million} \cup UNION {around(c) : c \in ToSet(p.residents)},
                  w \in {0} \cup limits(p)}
    BY <1>1, <1>2, <1>8
  <2>6. \E c, r, w \in Int : x = [capacity |-> c, residents |-> r, way |-> w]
    <3> HIDE DEF limits
    <3> QED
      BY <2>4, <2>5
  <2> QED
    BY <1>8, <2>6 DEF Measured
<1> QED
  BY <1>2, <1>4, <1>5, <1>6, <1>7, <1>8 DEF Demand

(* A clause with conditions or several values is checked by the strictest of them, whatever  *)
(* its template, its values and their number (StrictestApplied; _compile_variants, _strictness *)
(* and _tightest_accessibility of norm_spec.py).                                               *)
THEOREM StrictestApplies == Spec => []StrictestApplied
<1>1. OneAnswer => StrictestApplied
  <2> DEFINE q == question
             plan == answer[1].plan[1]
             value(r) == CompileOne(r, q.source, q.labels, q.catalog).plan[1]
             values == {value(r) : r \in Competing(q)}
  <2> SUFFICES ASSUME OneAnswer, Answered("norm"), answer[1].plan # None, plan.applicability # None,
                      NEW x \in Measurements(values), NEW v \in values, Passes(plan, x)
               PROVE  Passes(v, x)
    BY DEF StrictestApplied
  <2>1. /\ q \in Questions /\ q.kind = "norm"
        /\ answer[1] = Compile(q.spec, q.source, q.labels, q.catalog)
    BY DEF OneAnswer, NormAnswered, Answered
  <2>2. \A r \in Competing(q) :
           /\ Planned(value(r)) /\ value(r).template = plan.template
           /\ \A y : Measured(plan.template, y) /\ Passes(plan, y) => Passes(value(r), y)
    BY <2>1, HousingCompiled DEF Competing, DemandsValues
  <2>3. Measured(plan.template, x)
    <3> HIDE DEF plan
    <3> QED
      BY <2>2, MeasurementsMeasure
  <2> QED
    BY <2>2, <2>3
<1> QED
  BY <1>1, AnswersInductive, PTL

(* Nothing in a plan is guessed, whatever the model read: of every norm the layers of the plan    *)
(* are types of the catalog, it compares with the value of a reading that concerns what it        *)
(* checks, by the unit of that reading and found in the clause, and the way to a service is that   *)
(* of such a reading (PlansAsRead; _compile_one, ground, _grounded, the builders and               *)
(* _tightest_accessibility of norm_spec.py).                                                       *)
THEOREM PlansAreAsRead == Spec => []PlansAsRead
<1>1. OneAnswer => PlansAsRead
  <2> SUFFICES ASSUME OneAnswer, Answered("norm"), answer[1].plan # None
               PROVE  /\ ReadFrom(answer[1].plan[1], Considered(question), question.source)
                      /\ LayersListed(answer[1].plan[1], question.catalog)
    BY DEF PlansAsRead
  <2> DEFINE spec == Read(question.spec, question.source)
             plan == answer[1].plan[1]
             variants == IF spec.housing # {} /\ ChecksHouses(plan) THEN Relevant(spec)
                         ELSE DOMAIN spec.variants
  <2>1. /\ question \in Questions /\ question.kind = "norm"
        /\ answer[1] = Compile(question.spec, question.source, question.labels, question.catalog)
    BY DEF OneAnswer, NormAnswered, Answered
  <2>2. Considered(question) = Sources(spec, variants)
    BY DEF Considered, Sources, Competing
  <2>3. ReadFrom(plan, Sources(spec, variants), question.source) /\ LayersListed(plan, question.catalog)
    BY <2>1, HousingCompiled
  <2> QED
    BY <2>2, <2>3
<1> QED
  BY <1>1, AnswersInductive, PTL

(* Of what is checked the role is that of its template. *)
LEMMA CheckedByRole ==
    ASSUME NEW t \in SpecTemplates, TemplateFor(t) \in DOMAIN CheckedRole, NEW checked, NEW other,
           NEW l \in ToSet(LayersFor(t, checked, other)), l.role \in {"objects", "targets"}
    PROVE  l.role = CheckedRole[TemplateFor(t)]
<1> DEFINE a == checked[1]
           b == other[1]
<1>1. \A u, v : ToSet(<<u, v>>) = {u, v} /\ ToSet(<<u>>) = {u}
  <2> TAKE u, v
  <2>1. DOMAIN <<u, v>> = {1, 2} /\ DOMAIN <<u>> = {1}
    OBVIOUS
  <2> QED
    BY <2>1 DEF ToSet
<1>2. \A role, e : Layer(role, e).role = role
  BY DEF Layer
<1>3. CASE t \in {"min_distance", "prohibited_within"}
  <2>1. l \in {Layer("source", b), Layer("targets", a)}
    BY <1>1, <1>3 DEF LayersFor
  <2> QED
    BY <1>2, <1>3, <2>1 DEF TemplateFor, CheckedRole
<1>4. CASE t \in {"max_distance", "accessibility"}
  <2>1. l \in {Layer("objects", a), Layer("neighbors", b)}
    BY <1>1, <1>4 DEF LayersFor, Reach
  <2> QED
    BY <1>2, <1>4, <2>1 DEF TemplateFor, CheckedRole
<1>5. CASE t = "attribute_limit"
  <2>1. l = Layer("objects", a)
    BY <1>1, <1>5 DEF LayersFor
  <2> QED
    BY <1>2, <1>5, <2>1 DEF TemplateFor, CheckedRole
<1>6. CASE t \in {"zone_attribute_limit", "zone_share", "provision"}
  BY <1>6 DEF TemplateFor, CheckedRole
<1> QED
  BY <1>3, <1>4, <1>5, <1>6 DEF SpecTemplates

(* The floors that are meant. *)
LEMMA FloorsOfTypes ==
    ASSUME NEW h \in HousingTypes, NEW n
    PROVE  LET f == HousingFloors[h]
           IN n \in f.low..(IF f.high = None THEN 20 ELSE f.high[1]) <=> n \in 1..20 /\ OfHousing(n, h)
<1>1. /\ HousingFloors["individual"].low = 1 /\ HousingFloors["individual"].high = Some(3)
      /\ HousingFloors["lowrise"].low = 1 /\ HousingFloors["lowrise"].high = Some(4)
      /\ HousingFloors["midrise"].low = 5 /\ HousingFloors["midrise"].high = Some(8)
      /\ HousingFloors["multistorey"].low = 9 /\ HousingFloors["multistorey"].high = None
  BY DEF HousingFloors
<1>2. \A x : Some(x) # None /\ Some(x)[1] = x
  BY SomeOrNone
<1>3. h \in {"individual", "lowrise", "midrise", "multistorey"}
  BY DEF HousingTypes
<1> QED
  BY <1>1, <1>2, <1>3 DEF OfHousing

(* A value for some types of residential buildings is checked on these and on no others, for *)
(* any selection of the types (ScopeIsExact; _housing_floors and _scoped of norm_spec.py).      *)
THEOREM ScopesAreExact == Spec => []ScopeIsExact
<1>1. OneAnswer => ScopeIsExact
  <2> DEFINE plan == answer[1].plan[1]
             H == question.spec.housing
             meant == UNION {LET f == HousingFloors[h]
                             IN f.low..(IF f.high = None THEN 20 ELSE f.high[1]) : h \in H}
             checked == {n \in 1..20 : \A s \in ToSet(plan.scope) :
                             /\ s.min = None \/ n >= s.min[1]
                             /\ s.max = None \/ n <= s.max[1]}
  <2> SUFFICES ASSUME OneAnswer, Answered("norm"), answer[1].plan # None, H # {},
                      NEW l \in ToSet(plan.layers), l.entity = House, l.role \in {"objects", "targets"},
                      plan.template \in DOMAIN CheckedRole
               PROVE  checked = meant
    BY DEF ScopeIsExact
  <2>1. /\ question \in Questions /\ question.kind = "norm"
        /\ answer[1] = Compile(question.spec, question.source, question.labels, question.catalog)
    BY DEF OneAnswer, NormAnswered, Answered
  <2> DEFINE spec == Read(question.spec, question.source)
  <2>2. /\ plan.template = TemplateFor(spec.template) /\ plan.layers = LayersOf(spec, question.catalog)
        /\ spec.template \in SpecTemplates
        /\ ChecksHouses(plan) => OnFloorsOf(plan, H)
    BY <2>1, HousingCompiled
  <2>3. H \in SUBSET HousingTypes
    BY <2>1, ReadingsAssumption DEF IsReading
  <2> HIDE DEF plan, spec
  <2>4. l.role = CheckedRole[plan.template]
    BY <2>2, CheckedByRole DEF LayersOf
  <2>5. OnFloorsOf(plan, H)
    BY <2>2, <2>4 DEF ChecksHouses
  <2> HIDE DEF H
  <2>6. \A n : n \in checked <=> n \in 1..20 /\ \E h \in H : OfHousing(n, h)
    BY <2>5 DEF OnFloorsOf, ChecksFloors
  <2>7. \A n : n \in meant <=> n \in 1..20 /\ \E h \in H : OfHousing(n, h)
    BY <2>3, FloorsOfTypes
  <2> QED
    BY <2>6, <2>7
<1> QED
  BY <1>1, AnswersInductive, PTL

-----------------------------------------------------------------------------
(* Groups of duplicates. *)

(* Chains of linked rows can be gone both ways, and one after another; they stay when rows *)
(* are added.                                                                               *)
LEMMA LinkedBack == \A a, b : Linked(a, b) => Linked(b, a)
<1> TAKE a, b
<1>1. SameQuote(a.quote, b.quote) = SameQuote(b.quote, a.quote)
  <2>1. a.quote \cap b.quote = b.quote \cap a.quote /\ a.quote \cup b.quote = b.quote \cup a.quote
    OBVIOUS
  <2>2. {Cardinality(a.quote), Cardinality(b.quote)} = {Cardinality(b.quote), Cardinality(a.quote)}
    OBVIOUS
  <2> QED
    BY <2>1, <2>2 DEF SameQuote
<1> QED
  BY <1>1 DEF Linked

LEMMA ChainedThere ==
    ASSUME NEW rows, NEW a \in rows
    PROVE  /\ Chained(rows, a, a)
           /\ \A b \in rows : Linked(a, b) => Chained(rows, a, b)
           /\ \A b, c : Chained(rows, a, b) /\ Chained(rows, b, c) => Chained(rows, a, c)
BY DEF Chained

LEMMA ChainedBack ==
    ASSUME NEW rows, NEW a \in rows, NEW b \in rows, Chained(rows, a, b)
    PROVE  Chained(rows, b, a)
<1> SUFFICES ASSUME NEW closed \in SUBSET rows, b \in closed, a \notin closed,
                    \A c \in closed, d \in rows : Linked(c, d) => d \in closed
             PROVE  FALSE
  BY DEF Chained
<1> DEFINE others == rows \ closed
<1>1. \A c \in others, d \in rows : Linked(c, d) => d \in others
  BY LinkedBack
<1>2. others \in SUBSET rows /\ a \in others
  OBVIOUS
<1> HIDE DEF others
<1>3. b \in others
  BY <1>1, <1>2 DEF Chained
<1> QED
  BY <1>3 DEF others

LEMMA ChainedStays ==
    ASSUME NEW rows, NEW more, rows \subseteq more, NEW a \in rows, NEW b, Chained(rows, a, b)
    PROVE  Chained(more, a, b)
<1> SUFFICES ASSUME NEW closed \in SUBSET more, a \in closed,
                    \A c \in closed, d \in more : Linked(c, d) => d \in closed
             PROVE  b \in closed
  BY DEF Chained
<1>1. /\ closed \cap rows \in SUBSET rows /\ a \in closed \cap rows
      /\ \A c \in closed \cap rows, d \in rows : Linked(c, d) => d \in closed \cap rows
  OBVIOUS
<1> QED
  BY <1>1 DEF Chained

(* The least of some naturals. *)
LEMMA MinIsLeast ==
    ASSUME NEW S \in SUBSET Nat, S # {}
    PROVE  Min(S) \in S /\ \A n \in S : Min(S) <= n
<1> DEFINE R == OpToRel(<, Nat)
<1>1. PICK m \in S : \A n \in S : ~ (<<n, m>> \in R)
  <2>1. IsWellFoundedOn(R, Nat)
    BY NatLessThanWellFounded
  <2> HIDE DEF R
  <2> QED
    BY <2>1, WFMin
<1>2. ASSUME NEW n \in S
      PROVE  m <= n
  <2>1. <<n, m>> \in Nat \X Nat /\ <<n, m>>[1] = n /\ <<n, m>>[2] = m
    OBVIOUS
  <2>2. ~ (n < m) /\ n \in Nat /\ m \in Nat
    BY <1>1, <2>1 DEF OpToRel
  <2> QED
    BY <2>2
<1> QED
  BY <1>2 DEF Min

(* What is written is of the question; the rows that are not stored wait or are being written. *)
Rows ==
    /\ left \in Seq(ToSet(question.rows))
    /\ Stored \subseteq ToSet(question.rows) /\ IsFiniteSet(Stored)
    /\ IsFiniteSet(pending) /\ \A w \in pending : w.row \in ToSet(question.rows)
    /\ ToSet(question.rows) \subseteq Stored \cup ToSet(left) \cup {w.row : w \in pending}

(* The name of a group is the id of a row to which a chain leads from each of the group. *)
Leads(rows, r, name) == \E m \in rows : m.id = name /\ Chained(rows, r, m)

Named == \A r \in Stored : group[r] # NoGroup => Leads(Stored, r, group[r])

(* So it is with a group that a write has yet to set: its row is linked to one from which a *)
(* chain leads to that row, and to all that join.                                            *)
WriteNamed(w) ==
    /\ w = [row |-> w.row, group |-> w.group, upserted |-> w.upserted, regrouped |-> w.regrouped]
    /\ w.upserted \in BOOLEAN /\ (w.upserted => w.row \in Stored)
    /\ w.regrouped \subseteq Stored
    /\ \A r \in w.regrouped : Linked(r, w.row) /\ r # w.row /\ w.group # NoGroup
    /\ w.group # NoGroup => \E r \in Stored : Linked(r, w.row) /\ Leads(Stored, r, w.group)

WritesNamed == \A w \in pending : WriteNamed(w)

(* Rows that nobody writes or has to write again. *)
Settled(r) == r \notin ToSet(left) /\ \A w \in pending : r # w.row

(* One task alone knows of every row like the one it writes, and leaves none without a group. *)
Alone ==
    /\ \A v, w \in pending : v = w
    /\ \A w \in pending :
          /\ w.upserted => group[w.row] = w.group
          /\ \A r \in Stored :
                r # w.row /\ Linked(r, w.row) /\ AllCompared(Stored \cup {w.row}, r.key) =>
                    w.group # NoGroup /\ (r \in w.regrouped \/ group[r] = w.group)
    /\ \A a, b \in Stored :
          a # b /\ Linked(a, b) /\ AllCompared(Stored, a.key) /\ Settled(a) /\ Settled(b) =>
              group[a] # NoGroup

(* A cluster is joined by chains, and no row is in two. *)
Clusters ==
    /\ clusters \in Seq(SUBSET Stored)
    /\ clusters # << >> => left = << >> /\ pending = {}
    /\ \A i \in DOMAIN clusters : \A a, b \in clusters[i] : Chained(Stored, a, b)
    /\ \A i, j \in DOMAIN clusters : i # j => clusters[i] \cap clusters[j] = {}

SearchAnswered ==
    answer # None =>
        /\ left = << >> /\ pending = {} /\ Unclustered = {}
        /\ answer[1] = [consolidated |-> Consolidated, shown |-> Shown(question.hits, question.limit)]

Grouping ==
    question.kind = "rows" =>
        /\ question \in Questions
        /\ Rows /\ Named /\ WritesNamed /\ Clusters /\ SearchAnswered
        /\ question.writers = 1 => Alone

(* The group that is chosen is of one of those that match. *)
LEMMA GroupForNamed ==
    ASSUME question \in Questions, question.kind = "rows", Rows, Named, NEW matching \in SUBSET Stored
    PROVE  /\ GroupFor(matching) # NoGroup => \E r \in matching : Leads(Stored, r, GroupFor(matching))
           /\ matching # {} => GroupFor(matching) # NoGroup
<1> DEFINE groups == {group[r] : r \in matching} \ {NoGroup}
           ids == {r.id : r \in matching}
<1>1. \A r \in Stored : r.id \in Nat /\ r.id # NoGroup
  BY RowsAssumption DEF Rows
<1>2. \A g \in groups : g \in Nat
  BY <1>1 DEF Named, Leads
<1>3. CASE matching = {}
  BY <1>3 DEF GroupFor
<1>4. CASE matching # {} /\ groups # {}
  <2>1. GroupFor(matching) = Min(groups) /\ Min(groups) \in groups
    BY <1>2, <1>4, MinIsLeast DEF GroupFor
  <2> QED
    BY <2>1 DEF Named
<1>5. CASE matching # {} /\ groups = {}
  <2>1. GroupFor(matching) = Min(ids)
    BY <1>5 DEF GroupFor
  <2>2. Min(ids) \in ids
    <3>1. ids \in SUBSET Nat /\ ids # {}
      BY <1>1, <1>5
    <3> HIDE DEF ids
    <3> QED
      BY <3>1, MinIsLeast
  <2>3. PICK r \in matching : Min(ids) = r.id
    BY <2>2
  <2>4. Chained(Stored, r, r)
    BY ChainedThere
  <2> QED
    BY <1>1, <2>1, <2>3, <2>4 DEF Leads
<1> QED
  BY <1>3, <1>4, <1>5

(* The rows of one key that are read, if there are not more than are compared, are all of them. *)
LEMMA AllMatch ==
    ASSUME question \in Questions, question.kind = "rows", Rows, NEW row \in ToSet(question.rows),
           NEW r \in Stored, r # row, Linked(r, row), AllCompared(Stored \cup {row}, r.key)
    PROVE  r \in Matching(row)
<1> DEFINE others == {o \in Stored : o.id # row.id /\ o.key = row.key}
           before == {o \in others : o.id < r.id}
           same == {o \in Stored \cup {row} : o.key = r.key}
<1>1. r.id # row.id /\ r.key = row.key /\ r.id \in Nat
  BY RowsAssumption DEF Rows, Linked
<1>2. r \in others
  BY <1>1
<1>3. IsFiniteSet(same) /\ Cardinality(same) <= MaxCandidates + 1 /\ Cardinality(same) \in Nat
  <2>1. IsFiniteSet(Stored \cup {row})
    BY FS_AddElement DEF Rows
  <2>2. IsFiniteSet(same)
    BY <2>1, FS_Subset
  <2> QED
    BY <2>2, FS_CardinalityType DEF AllCompared
<1>4. row \in same /\ r \in same \ {row} /\ before \subseteq (same \ {row}) \ {r}
  BY <1>1
<1>5. /\ IsFiniteSet(same \ {row}) /\ Cardinality(same \ {row}) = Cardinality(same) - 1
      /\ IsFiniteSet((same \ {row}) \ {r})
      /\ Cardinality((same \ {row}) \ {r}) = Cardinality(same \ {row}) - 1
  <2> HIDE DEF same
  <2> QED
    BY <1>3, <1>4, FS_RemoveElement
<1>6. Cardinality(before) <= Cardinality((same \ {row}) \ {r}) /\ Cardinality(before) \in Nat
  <2> HIDE DEF same, before
  <2> QED
    BY <1>4, <1>5, FS_Subset, FS_CardinalityType
<1>7. Cardinality(before) < MaxCandidates
  <2> HIDE DEF same, before
  <2> QED
    BY <1>3, <1>5, <1>6, CandidatesAssumption
<1>8. r \in DuplicateCandidates(row)
  BY <1>2, <1>7 DEF DuplicateCandidates
<1> QED
  BY <1>8 DEF Matching, Linked

(* Fewer rows are of one key before a row is added. *)
LEMMA AllComparedBefore ==
    ASSUME NEW rows, NEW more, rows \subseteq more, IsFiniteSet(more), NEW key, AllCompared(more, key)
    PROVE  AllCompared(rows, key)
<1> DEFINE some == {r \in rows : r.key = key}
           all == {r \in more : r.key = key}
<1>1. IsFiniteSet(all) /\ some \subseteq all
  BY FS_Subset
<1>2. Cardinality(some) <= Cardinality(all) /\ Cardinality(some) \in Nat /\ Cardinality(all) \in Nat
  <2> HIDE DEF some, all
  <2> QED
    BY <1>1, FS_Subset, FS_CardinalityType
<1> QED
  BY <1>2, CandidatesAssumption DEF AllCompared

LEMMA Matched ==
    ASSUME NEW row
    PROVE  \A r \in Matching(row) : r \in Stored /\ r # row /\ Linked(r, row)
BY DEF Matching, DuplicateCandidates, Linked

(* A write begins. *)
LEMMA ReadingKeeps ==
    ASSUME Grouping, question.kind = "rows", ReadCandidates, question' = question
    PROVE  Rows' /\ Named' /\ WritesNamed'
<1> DEFINE row == Head(left)
           name == GroupFor(Matching(row))
           w == [row |-> row, group |-> name, upserted |-> FALSE,
                 regrouped |-> {r \in Matching(row) : group[r] # name}]
<1>1. question \in Questions /\ Rows /\ Named /\ WritesNamed
  BY DEF Grouping
<1>2. /\ left # << >> /\ left' = Tail(left) /\ group' = group
      /\ pending' = pending \cup {w}
  BY DEF ReadCandidates
<1>3. /\ row \in ToSet(question.rows) /\ left' \in Seq(ToSet(question.rows))
      /\ ToSet(left) \subseteq ToSet(left') \cup {row}
  <2>1. left \in Seq(ToSet(question.rows))
    BY <1>1 DEF Rows
  <2>2. /\ left[1] = row /\ 1 \in DOMAIN left /\ left' \in Seq(ToSet(question.rows))
        /\ \A i \in DOMAIN left : i # 1 => i - 1 \in DOMAIN left' /\ left[i] = left'[i - 1]
        /\ left[1] \in ToSet(question.rows)
    BY <1>2, <2>1
  <2> QED
    BY <2>2 DEF ToSet
<1>4. Rows'
  <2>1. IsFiniteSet(pending') /\ w.row = row
    BY <1>1, <1>2, FS_AddElement DEF Rows
  <2> HIDE DEF w, row
  <2>2. {v.row : v \in pending'} = {v.row : v \in pending} \cup {row}
    BY <1>2, <2>1
  <2>3. Stored' = Stored
    BY <1>2 DEF Stored
  <2>4. \A v \in pending' : v.row \in ToSet(question.rows)
    BY <1>1, <1>2, <1>3, <2>1 DEF Rows
  <2>5. ToSet(question.rows) \subseteq Stored \cup ToSet(left') \cup {v.row : v \in pending'}
    BY <1>1, <1>3, <2>2 DEF Rows
  <2> QED
    BY <1>1, <1>3, <2>1, <2>3, <2>4, <2>5 DEF Rows
<1>5. Named'
  BY <1>1, <1>2 DEF Named, Stored, Leads
<1>6. WriteNamed(w)
  <2>1. \A r \in Matching(row) : r \in Stored /\ r # row /\ Linked(r, row)
    BY Matched
  <2>2. /\ name # NoGroup => \E r \in Matching(row) : Leads(Stored, r, name)
        /\ Matching(row) # {} => name # NoGroup
    BY <1>1, <2>1, GroupForNamed
  <2>3. /\ w.row = row /\ w.group = name /\ w.upserted = FALSE /\ w.regrouped \subseteq Matching(row)
        /\ w = [row |-> w.row, group |-> w.group, upserted |-> w.upserted, regrouped |-> w.regrouped]
    OBVIOUS
  <2> HIDE DEF w, name, row
  <2> QED
    BY <2>1, <2>2, <2>3 DEF WriteNamed
<1>7. WritesNamed'
  <2> HIDE DEF w
  <2> QED
    BY <1>1, <1>2, <1>6 DEF WritesNamed, WriteNamed, Stored, Leads
<1> QED
  BY <1>4, <1>5, <1>7

LEMMA ReadingAlone ==
    ASSUME Grouping, question.kind = "rows", ReadCandidates, question' = question,
           question.writers = 1, Cardinality(pending) < question.writers
    PROVE  Alone'
<1> DEFINE row == Head(left)
           name == GroupFor(Matching(row))
           w == [row |-> row, group |-> name, upserted |-> FALSE,
                 regrouped |-> {r \in Matching(row) : group[r] # name}]
<1>1. question \in Questions /\ Rows /\ Named /\ WritesNamed /\ Alone
  BY DEF Grouping
<1>2. pending = {}
  <2>1. Cardinality(pending) \in Nat /\ Cardinality(pending) < 1
    BY <1>1, FS_CardinalityType DEF Rows
  <2> QED
    BY <1>1, <2>1, FS_EmptySet DEF Rows
<1>3. /\ left # << >> /\ left' = Tail(left) /\ group' = group
      /\ pending' = {w}
  BY <1>2 DEF ReadCandidates
<1>4. row \in ToSet(question.rows) /\ ToSet(left) \subseteq ToSet(left') \cup {row}
  <2>1. left \in Seq(ToSet(question.rows))
    BY <1>1 DEF Rows
  <2>2. /\ left[1] = row /\ left[1] \in ToSet(question.rows)
        /\ \A i \in DOMAIN left : i # 1 => i - 1 \in DOMAIN left' /\ left[i] = left'[i - 1]
    BY <1>3, <2>1
  <2> QED
    BY <2>2 DEF ToSet
<1>5. w.row = row /\ w.group = name /\ ~w.upserted /\ w.regrouped = {r \in Matching(row) : group[r] # name}
  OBVIOUS
<1>6. ASSUME NEW r \in Stored, r # row, Linked(r, row), AllCompared(Stored \cup {row}, r.key)
      PROVE  name # NoGroup /\ (r \in w.regrouped \/ group[r] = name)
  <2>1. r \in Matching(row)
    BY <1>1, <1>4, <1>6, AllMatch
  <2>2. Matching(row) \subseteq Stored
    BY Matched
  <2>3. name # NoGroup
    BY <1>1, <2>1, <2>2, GroupForNamed
  <2> QED
    BY <1>5, <2>1, <2>3
<1>7. ASSUME NEW a \in Stored, Settled(a)'
      PROVE  Settled(a)
  <2>1. a # row /\ a \notin ToSet(left')
    BY <1>3, <1>5, <1>7 DEF Settled
  <2> QED
    BY <1>2, <1>4, <2>1 DEF Settled
<1> HIDE DEF w, name, row
<1>8. \A v \in pending' : v = w
  BY <1>3
<1> QED
  BY <1>1, <1>3, <1>5, <1>6, <1>7, <1>8 DEF Alone, Stored

(* A row is stored. *)
LEMMA UpsertKeeps ==
    ASSUME Grouping, question.kind = "rows", Upsert, question' = question
    PROVE  Rows' /\ Named' /\ WritesNamed'
<1>1. question \in Questions /\ Rows /\ Named /\ WritesNamed
  BY DEF Grouping
<1>2. PICK w \in pending :
        /\ ~w.upserted
        /\ group' = [r \in Stored \cup {w.row} |-> IF r = w.row THEN w.group ELSE group[r]]
        /\ pending' = (pending \ {w}) \cup (IF w.regrouped = {} THEN {} ELSE {[w EXCEPT !.upserted = TRUE]})
        /\ left' = left
  BY DEF Upsert
<1> DEFINE v == [w EXCEPT !.upserted = TRUE]
<1>3. /\ Stored' = Stored \cup {w.row} /\ w.row \in ToSet(question.rows)
      /\ group'[w.row] = w.group
      /\ \A r \in Stored : r # w.row => group'[r] = group[r]
  BY <1>1, <1>2 DEF Stored, Rows
<1>4. WriteNamed(w)
  BY <1>1, <1>2 DEF WritesNamed
<1>5. \A name : \A r \in Stored : Leads(Stored, r, name) => Leads(Stored', r, name)
  BY <1>3, ChainedStays DEF Leads
<1>6. w.group # NoGroup => Leads(Stored', w.row, w.group)
  <2> SUFFICES ASSUME w.group # NoGroup
               PROVE  Leads(Stored', w.row, w.group)
    OBVIOUS
  <2>1. PICK r \in Stored : Linked(r, w.row) /\ Leads(Stored', r, w.group)
    BY <1>4, <1>5 DEF WriteNamed
  <2>2. Chained(Stored', w.row, r)
    BY <1>3, <2>1, LinkedBack, ChainedThere
  <2> QED
    BY <1>3, <2>1, <2>2, ChainedThere DEF Leads
<1>7. Named'
  <2> SUFFICES ASSUME NEW r \in Stored', group'[r] # NoGroup
               PROVE  Leads(Stored', r, group'[r])
    BY DEF Named, Leads
  <2>1. CASE r = w.row
    BY <1>3, <1>6, <2>1
  <2>2. CASE r # w.row
    BY <1>1, <1>3, <1>5, <2>2 DEF Named
  <2> QED
    BY <2>1, <2>2
<1> HIDE DEF v
<1>8. \A x \in pending' : \E y \in pending :
        /\ x.row = y.row /\ x.group = y.group /\ x.regrouped = y.regrouped
        /\ x.upserted = y.upserted \/ (y = w /\ x.upserted = TRUE)
        /\ x = [row |-> x.row, group |-> x.group, upserted |-> x.upserted, regrouped |-> x.regrouped]
  <2>1. /\ v.row = w.row /\ v.group = w.group /\ v.regrouped = w.regrouped /\ v.upserted = TRUE
        /\ v = [row |-> v.row, group |-> v.group, upserted |-> v.upserted, regrouped |-> v.regrouped]
    <3>1. w = [row |-> w.row, group |-> w.group, upserted |-> w.upserted, regrouped |-> w.regrouped]
      BY <1>4 DEF WriteNamed
    <3>2. v = [row |-> w.row, group |-> w.group, upserted |-> TRUE, regrouped |-> w.regrouped]
      <4>1. DOMAIN w = {"row", "group", "upserted", "regrouped"}
        BY <3>1
      <4>2. /\ v = [f \in {"row", "group", "upserted", "regrouped"} |-> IF f = "upserted" THEN TRUE ELSE w[f]]
        BY <3>1, <4>1 DEF v
      <4> QED
        BY <4>2
    <3> QED
      BY <3>2
  <2>2. \A x \in pending' : x \in pending \/ x = v
    BY <1>2 DEF v
  <2>3. \A x \in pending : x = [row |-> x.row, group |-> x.group, upserted |-> x.upserted, regrouped |-> x.regrouped]
    BY <1>1 DEF WritesNamed, WriteNamed
  <2> QED
    BY <2>1, <2>2, <2>3
<1>9. Rows'
  <2>1. IsFiniteSet(pending')
    <3>1. IsFiniteSet(pending \ {w}) /\ IsFiniteSet((pending \ {w}) \cup {v})
      BY <1>1, FS_AddElement, FS_RemoveElement DEF Rows
    <3>2. pending' = pending \ {w} \/ pending' = (pending \ {w}) \cup {v}
      BY <1>2 DEF v
    <3> QED
      BY <3>1, <3>2
  <2>2. IsFiniteSet(Stored')
    BY <1>1, <1>3, FS_AddElement DEF Rows
  <2>3. \A y \in pending : y.row \in Stored' \/ y \in pending'
    BY <1>2, <1>3
  <2> QED
    BY <1>1, <1>2, <1>3, <1>8, <2>1, <2>2, <2>3 DEF Rows
<1>10. WritesNamed'
  <2> SUFFICES ASSUME NEW x \in pending'
               PROVE  WriteNamed(x)'
    BY DEF WritesNamed
  <2>1. PICK y \in pending :
           /\ x.row = y.row /\ x.group = y.group /\ x.regrouped = y.regrouped
           /\ x.upserted = y.upserted \/ (y = w /\ x.upserted = TRUE)
           /\ x = [row |-> x.row, group |-> x.group, upserted |-> x.upserted, regrouped |-> x.regrouped]
    BY <1>8
  <2>2. WriteNamed(y)
    BY <1>1 DEF WritesNamed
  <2>3. x.upserted \in BOOLEAN /\ (x.upserted => x.row \in Stored')
    BY <1>3, <2>1, <2>2 DEF WriteNamed
  <2>4. x.regrouped \subseteq Stored' /\ \A r \in x.regrouped : Linked(r, x.row) /\ r # x.row /\ x.group # NoGroup
    BY <1>3, <2>1, <2>2 DEF WriteNamed
  <2>5. x.group # NoGroup => \E r \in Stored' : Linked(r, x.row) /\ Leads(Stored', r, x.group)
    BY <1>3, <1>5, <2>1, <2>2 DEF WriteNamed
  <2> QED
    BY <2>1, <2>3, <2>4, <2>5 DEF WriteNamed, Leads
<1> QED
  BY <1>7, <1>9, <1>10

(* Those that match join the group. *)
LEMMA SetGroupKeeps ==
    ASSUME Grouping, question.kind = "rows", SetGroup, question' = question
    PROVE  Rows' /\ Named' /\ WritesNamed'
<1>1. question \in Questions /\ Rows /\ Named /\ WritesNamed
  BY DEF Grouping
<1>2. PICK w \in pending :
        /\ w.upserted
        /\ group' = [r \in Stored |-> IF r \in w.regrouped THEN w.group ELSE group[r]]
        /\ pending' = pending \ {w}
        /\ left' = left
  BY DEF SetGroup
<1>3. /\ Stored' = Stored /\ \A r \in Stored : group'[r] = IF r \in w.regrouped THEN w.group ELSE group[r]
  BY <1>2 DEF Stored
<1>4. WriteNamed(w) /\ w.row \in Stored
  BY <1>1, <1>2 DEF WritesNamed, WriteNamed
<1>5. ASSUME NEW r \in w.regrouped
      PROVE  Leads(Stored, r, w.group)
  <2>1. PICK s \in Stored : Linked(s, w.row) /\ Leads(Stored, s, w.group)
    BY <1>4 DEF WriteNamed
  <2>2. r \in Stored /\ Linked(r, w.row)
    BY <1>4 DEF WriteNamed
  <2>3. Chained(Stored, r, s)
    BY <1>4, <2>1, <2>2, LinkedBack, ChainedThere
  <2> QED
    BY <2>1, <2>2, <2>3, ChainedThere DEF Leads
<1>6. Named'
  BY <1>1, <1>3, <1>5 DEF Named, Leads
<1>7. Rows'
  <2>1. IsFiniteSet(pending')
    BY <1>1, <1>2, FS_RemoveElement DEF Rows
  <2> QED
    BY <1>1, <1>2, <1>3, <1>4, <2>1 DEF Rows
<1>8. WritesNamed'
  BY <1>1, <1>2, <1>3 DEF WritesNamed, WriteNamed, Leads
<1> QED
  BY <1>6, <1>7, <1>8

(* A write is cut short. *)
LEMMA CutKeeps ==
    ASSUME Grouping, question.kind = "rows", Cut, question' = question
    PROVE  Rows' /\ Named' /\ WritesNamed'
<1>1. question \in Questions /\ Rows /\ Named /\ WritesNamed
  BY DEF Grouping
<1>2. PICK w \in pending : w.row \in ToSet(left) /\ pending' = pending \ {w} /\ left' = left /\ group' = group
  BY DEF Cut
<1>3. Stored' = Stored
  BY <1>2 DEF Stored
<1>4. IsFiniteSet(pending')
  BY <1>1, <1>2, FS_RemoveElement DEF Rows
<1> QED
  BY <1>1, <1>2, <1>3, <1>4 DEF Rows, Named, WritesNamed, WriteNamed, Leads

LEMMA UpsertAlone ==
    ASSUME Grouping, question.kind = "rows", Upsert, question' = question, question.writers = 1
    PROVE  Alone'
<1>1. question \in Questions /\ Rows /\ WritesNamed /\ Alone
  BY DEF Grouping
<1>2. PICK w \in pending :
        /\ ~w.upserted
        /\ group' = [r \in Stored \cup {w.row} |-> IF r = w.row THEN w.group ELSE group[r]]
        /\ pending' = (pending \ {w}) \cup (IF w.regrouped = {} THEN {} ELSE {[w EXCEPT !.upserted = TRUE]})
        /\ left' = left
  BY DEF Upsert
<1>3. /\ Stored' = Stored \cup {w.row} /\ IsFiniteSet(Stored')
      /\ group'[w.row] = w.group
      /\ \A r \in Stored : r # w.row => group'[r] = group[r]
  <2>1. Stored' = Stored \cup {w.row}
    BY <1>2 DEF Stored
  <2> QED
    BY <1>1, <1>2, <2>1, FS_AddElement DEF Stored, Rows
<1>4. pending = {w}
  BY <1>1 DEF Alone
<1>5. ASSUME NEW r \in Stored, r # w.row, Linked(r, w.row), AllCompared(Stored', r.key)
      PROVE  w.group # NoGroup /\ (r \in w.regrouped \/ group[r] = w.group)
  BY <1>1, <1>3, <1>5 DEF Alone
<1>6. \A x \in pending' : x.row = w.row /\ x.group = w.group /\ x.regrouped = w.regrouped /\ w.regrouped # {}
  <2>1. w = [row |-> w.row, group |-> w.group, upserted |-> w.upserted, regrouped |-> w.regrouped]
    BY <1>1 DEF WritesNamed, WriteNamed
  <2>2. \A x \in pending' : x = [w EXCEPT !.upserted = TRUE] /\ w.regrouped # {}
    BY <1>2, <1>4
  <2> QED
    BY <2>1, <2>2
<1>7. \A x, y \in pending' : x = y
  BY <1>2, <1>4
<1>8. ASSUME NEW a \in Stored', NEW b \in Stored', a # b, Linked(a, b), AllCompared(Stored', a.key),
             Settled(a)', Settled(b)'
      PROVE  group'[a] # NoGroup
  <2>1. CASE a = w.row
    <3>1. b \in Stored /\ b # w.row /\ Linked(b, w.row) /\ AllCompared(Stored', b.key)
      BY <1>3, <1>8, <2>1, LinkedBack DEF Linked
    <3> QED
      BY <1>3, <1>5, <2>1, <3>1
  <2>2. CASE b = w.row
    <3>1. a \in Stored /\ a # w.row
      BY <1>3, <1>8, <2>2
    <3>2. w.regrouped = {}
      <4>1. w.regrouped # {} => [w EXCEPT !.upserted = TRUE] \in pending'
        BY <1>2
      <4> QED
        BY <1>8, <2>2, <4>1, <1>6 DEF Settled
    <3> QED
      BY <1>3, <1>5, <1>8, <2>2, <3>1, <3>2
  <2>3. CASE a # w.row /\ b # w.row
    <3>1. a \in Stored /\ b \in Stored /\ Settled(a) /\ Settled(b)
      BY <1>2, <1>3, <1>4, <1>8, <2>3 DEF Settled
    <3>2. AllCompared(Stored, a.key)
      BY <1>3, <1>8, AllComparedBefore
    <3> QED
      BY <1>1, <1>3, <1>8, <2>3, <3>1, <3>2 DEF Alone
  <2> QED
    BY <2>1, <2>2, <2>3
<1>9. ASSUME NEW x \in pending'
      PROVE  /\ group'[x.row] = x.group
             /\ \A r \in Stored' :
                   r # x.row /\ Linked(r, x.row) /\ AllCompared(Stored' \cup {x.row}, r.key) =>
                       x.group # NoGroup /\ (r \in x.regrouped \/ group'[r] = x.group)
  <2>1. x.row = w.row /\ x.group = w.group /\ x.regrouped = w.regrouped /\ Stored' \cup {x.row} = Stored'
    BY <1>3, <1>6
  <2> QED
    BY <1>3, <1>5, <2>1
<1> QED
  BY <1>7, <1>8, <1>9 DEF Alone

LEMMA SetGroupAlone ==
    ASSUME Grouping, question.kind = "rows", SetGroup, question' = question, question.writers = 1
    PROVE  Alone'
<1>1. question \in Questions /\ Rows /\ WritesNamed /\ Alone
  BY DEF Grouping
<1>2. PICK w \in pending :
        /\ w.upserted
        /\ group' = [r \in Stored |-> IF r \in w.regrouped THEN w.group ELSE group[r]]
        /\ pending' = pending \ {w}
        /\ left' = left
  BY DEF SetGroup
<1>3. /\ Stored' = Stored /\ \A r \in Stored : group'[r] = IF r \in w.regrouped THEN w.group ELSE group[r]
  BY <1>2 DEF Stored
<1>4. pending = {w} /\ pending' = {}
  BY <1>1, <1>2 DEF Alone
<1>5. WriteNamed(w) /\ w.row \in Stored /\ w.row \notin w.regrouped /\ group[w.row] = w.group
  BY <1>1, <1>2 DEF WritesNamed, WriteNamed, Alone
<1>6. Stored \cup {w.row} = Stored
  BY <1>5
<1>7. ASSUME NEW a \in Stored, NEW b \in Stored, a # b, Linked(a, b), AllCompared(Stored, a.key),
             Settled(a)', Settled(b)'
      PROVE  group'[a] # NoGroup
  <2>1. CASE a \in w.regrouped
    BY <1>3, <1>5, <2>1 DEF WriteNamed
  <2>2. CASE a = w.row
    <3>1. b # w.row /\ Linked(b, w.row) /\ AllCompared(Stored, b.key)
      BY <1>7, <2>2, LinkedBack DEF Linked
    <3> QED
      BY <1>1, <1>3, <1>5, <1>6, <2>2, <3>1 DEF Alone
  <2>3. CASE a # w.row /\ a \notin w.regrouped /\ b = w.row
    BY <1>1, <1>3, <1>6, <1>7, <2>3 DEF Alone
  <2>4. CASE a # w.row /\ a \notin w.regrouped /\ b # w.row
    <3>1. Settled(a) /\ Settled(b)
      BY <1>2, <1>4, <1>7, <2>4 DEF Settled
    <3> QED
      BY <1>1, <1>3, <1>7, <2>4, <3>1 DEF Alone
  <2> QED
    BY <2>1, <2>2, <2>3, <2>4
<1> QED
  BY <1>3, <1>4, <1>7 DEF Alone

LEMMA CutAlone ==
    ASSUME Grouping, question.kind = "rows", Cut, question' = question, question.writers = 1
    PROVE  Alone'
<1>1. Alone
  BY DEF Grouping
<1>2. PICK w \in pending : w.row \in ToSet(left) /\ pending' = pending \ {w} /\ left' = left /\ group' = group
  BY DEF Cut
<1>3. pending = {w} /\ pending' = {} /\ Stored' = Stored
  BY <1>1, <1>2 DEF Alone, Stored
<1>4. \A a : Settled(a)' => Settled(a)
  BY <1>2, <1>3 DEF Settled
<1> QED
  BY <1>1, <1>2, <1>3, <1>4 DEF Alone

(* Nothing is clustered while rows are being written. *)
LEMMA NoClustersYet ==
    ASSUME Clusters, UNCHANGED clusters, left # << >> \/ pending # {}
    PROVE  Clusters'
<1>1. clusters' = << >>
  BY DEF Clusters
<1>2. DOMAIN clusters' = {}
  BY <1>1
<1> QED
  BY <1>1, <1>2 DEF Clusters

(* A row is put into a cluster. *)
LEMMA ClusterKeeps ==
    ASSUME Grouping, question.kind = "rows", ClusterRow, question' = question
    PROVE  Clusters'
<1>1. Clusters
  BY DEF Grouping
<1>2. PICK row \in Unclustered : clusters' = Clustered(row)
  BY DEF ClusterRow
<1>3. /\ left = << >> /\ pending = {} /\ left' = left /\ pending' = pending /\ group' = group
      /\ Stored' = Stored /\ row \in Stored /\ row \notin UNION ToSet(clusters)
  BY <1>2 DEF ClusterRow, Stored, Unclustered
<1>4. /\ clusters \in Seq(SUBSET Stored) /\ DOMAIN clusters = 1..Len(clusters) /\ Len(clusters) \in Nat
      /\ \A i \in DOMAIN clusters : clusters[i] \subseteq Stored /\ row \notin clusters[i]
  BY <1>1, <1>3 DEF Clusters, ToSet
<1> DEFINE fits == {i \in DOMAIN clusters : \E r \in clusters[i] : r.key = row.key /\ SameQuote(r.quote, row.quote)}
<1>5. CASE fits = {}
  <2>1. clusters' = Append(clusters, {row})
    BY <1>2, <1>5 DEF Clustered
  <2>2. /\ clusters' \in Seq(SUBSET Stored) /\ DOMAIN clusters' = 1..(Len(clusters) + 1)
        /\ clusters'[Len(clusters) + 1] = {row}
        /\ \A i \in DOMAIN clusters : clusters'[i] = clusters[i]
    BY <1>3, <1>4, <2>1
  <2>3. \A i \in DOMAIN clusters' : (i \in DOMAIN clusters /\ clusters'[i] = clusters[i]) \/ (i = Len(clusters) + 1 /\ clusters'[i] = {row})
    BY <1>4, <2>2
  <2>4. Chained(Stored, row, row)
    BY <1>3, ChainedThere
  <2>5. \A i \in DOMAIN clusters' : \A a, b \in clusters'[i] : Chained(Stored, a, b)
    BY <1>1, <2>3, <2>4 DEF Clusters
  <2>6. \A i, j \in DOMAIN clusters' : i # j => clusters'[i] \cap clusters'[j] = {}
    BY <1>1, <1>4, <2>3 DEF Clusters
  <2> QED
    BY <1>3, <2>2, <2>5, <2>6 DEF Clusters
<1>6. CASE fits # {}
  <2> DEFINE k == Min(fits)
  <2>1. k \in fits
    <3>1. fits \in SUBSET Nat
      BY <1>4
    <3> HIDE DEF fits
    <3> QED
      BY <1>6, <3>1, MinIsLeast
  <2>2. clusters' = [clusters EXCEPT ![k] = @ \cup {row}]
    BY <1>2, <1>6 DEF Clustered
  <2>3. PICK r \in clusters[k] : Linked(r, row)
    BY <2>1 DEF Linked
  <2> HIDE DEF k
  <2>4. k \in DOMAIN clusters
    BY <2>1
  <2>5. /\ clusters' \in Seq(SUBSET Stored) /\ DOMAIN clusters' = DOMAIN clusters
        /\ clusters'[k] = clusters[k] \cup {row}
        /\ \A i \in DOMAIN clusters : i # k => clusters'[i] = clusters[i]
    BY <1>3, <1>4, <2>2, <2>4
  <2>6. \A a \in clusters[k] : Chained(Stored, a, row) /\ Chained(Stored, row, a)
    <3> TAKE a \in clusters[k]
    <3>1. a \in Stored /\ r \in Stored /\ Chained(Stored, a, r) /\ Chained(Stored, r, row)
      BY <1>1, <1>3, <1>4, <2>3, <2>4, ChainedThere DEF Clusters
    <3>2. Chained(Stored, a, row)
      BY <3>1, ChainedThere
    <3> QED
      BY <1>3, <3>1, <3>2, ChainedBack
  <2>7. Chained(Stored, row, row)
    BY <1>3, ChainedThere
  <2>8. \A i \in DOMAIN clusters' : \A a, b \in clusters'[i] : Chained(Stored, a, b)
    BY <1>1, <2>5, <2>6, <2>7 DEF Clusters
  <2>9. \A i, j \in DOMAIN clusters' : i # j => clusters'[i] \cap clusters'[j] = {}
    BY <1>1, <1>4, <2>5 DEF Clusters
  <2> QED
    BY <1>3, <2>5, <2>8, <2>9 DEF Clusters
<1> QED
  BY <1>5, <1>6

(* What is written, grouped, clustered and answered agrees at every moment, whatever is cut *)
(* short (_write_restriction, group_all).                                                     *)
THEOREM GroupingInductive == Spec => []Grouping
<1>1. Init => Grouping
  <2> SUFFICES ASSUME Init, question.kind = "rows"
               PROVE  Grouping
    BY DEF Grouping
  <2>1. /\ question \in Questions /\ answer = None /\ left = question.rows
        /\ pending = {} /\ group = << >> /\ clusters = << >> /\ Stored = {}
    BY DEF Init, Stored
  <2>2. Rows
    <3>1. question.rows \in Seq(ToSet(question.rows))
      BY <2>1, RowsAssumption
    <3> QED
      BY <2>1, <3>1, FS_EmptySet DEF Rows
  <2>3. Clusters
    <3>1. DOMAIN clusters = {}
      BY <2>1
    <3> QED
      BY <2>1, <3>1 DEF Clusters
  <2> QED
    BY <2>1, <2>2, <2>3 DEF Grouping, Named, WritesNamed, Alone, SearchAnswered
<1>2. Grouping /\ [Next]_vars => Grouping'
  <2> SUFFICES ASSUME Grouping, [Next]_vars, question.kind = "rows"
               PROVE  Grouping'
    <3>1. [Next]_vars => question' = question
      BY DEF Next, CompileSpec, ResolveName, GroupRows, SearchRows, FindConflicts, CompareVotes, PlanNorm,
             ClassifyKind, vars
    <3> QED
      BY <3>1 DEF Grouping
  <2>1. question \in Questions /\ Rows /\ Named /\ WritesNamed /\ Clusters /\ SearchAnswered
    BY DEF Grouping
  <2>2. CASE GroupRows
    <3>1. question' = question /\ answer' = None
      BY <2>2 DEF GroupRows, Asked
    <3>2. SearchAnswered'
      BY <3>1 DEF SearchAnswered
    <3>3. CASE ReadCandidates /\ Cardinality(pending) < question.writers
      <4>1. left # << >> /\ UNCHANGED clusters
        BY <3>3 DEF ReadCandidates
      <4> QED
        BY <2>1, <3>1, <3>2, <3>3, <4>1, ReadingKeeps, ReadingAlone, NoClustersYet DEF Grouping
    <3>4. CASE Upsert
      <4>1. pending # {} /\ UNCHANGED clusters
        BY <3>4 DEF Upsert
      <4> QED
        BY <2>1, <3>1, <3>2, <3>4, <4>1, UpsertKeeps, UpsertAlone, NoClustersYet DEF Grouping
    <3>5. CASE SetGroup
      <4>1. pending # {} /\ UNCHANGED clusters
        BY <3>5 DEF SetGroup
      <4> QED
        BY <2>1, <3>1, <3>2, <3>5, <4>1, SetGroupKeeps, SetGroupAlone, NoClustersYet DEF Grouping
    <3>6. CASE Cut
      <4>1. pending # {} /\ UNCHANGED clusters
        BY <3>6 DEF Cut
      <4> QED
        BY <2>1, <3>1, <3>2, <3>6, <4>1, CutKeeps, CutAlone, NoClustersYet DEF Grouping
    <3>7. CASE ClusterRow
      <4>1. left' = left /\ pending' = pending /\ group' = group
        BY <3>7 DEF ClusterRow
      <4>2. Rows' /\ Named' /\ WritesNamed'
        BY <2>1, <3>1, <4>1 DEF Rows, Named, WritesNamed, WriteNamed, Leads, Stored
      <4>3. question.writers = 1 => Alone'
        BY <4>1 DEF Grouping, Alone, Stored, Settled
      <4> QED
        BY <2>1, <3>1, <3>2, <3>7, <4>2, <4>3, ClusterKeeps DEF Grouping
    <3> QED
      BY <2>2, <3>3, <3>4, <3>5, <3>6, <3>7 DEF GroupRows
  <2>3. ASSUME UNCHANGED <<question, groupVars>>, SearchAnswered'
        PROVE  Grouping'
    <3>1. question' = question /\ left' = left /\ pending' = pending /\ group' = group /\ clusters' = clusters
      BY <2>3 DEF groupVars
    <3>2. Rows' /\ Named' /\ WritesNamed' /\ Clusters'
      BY <2>1, <3>1 DEF Rows, Named, WritesNamed, WriteNamed, Leads, Stored, Clusters
    <3>3. question.writers = 1 => Alone'
      BY <3>1 DEF Grouping, Alone, Stored, Settled
    <3> QED
      BY <2>1, <2>3, <3>1, <3>2, <3>3 DEF Grouping
  <2>4. CASE SearchRows
    <3>1. answer'[1] = [consolidated |-> Consolidated, shown |-> Shown(question.hits, question.limit)]
      BY <2>4, SomeOrNone DEF SearchRows
    <3>2. UNCHANGED <<question, groupVars>> /\ left = << >> /\ pending = {} /\ Unclustered = {}
      BY <2>4 DEF SearchRows
    <3>3. SearchAnswered'
      BY <3>1, <3>2 DEF SearchAnswered, groupVars, Unclustered, Stored, Consolidated, Shown, Kept, Listed
    <3> QED
      BY <2>3, <3>2, <3>3
  <2>5. CASE UNCHANGED vars
    <3>1. SearchAnswered'
      BY <2>1, <2>5 DEF SearchAnswered, vars, groupVars, Unclustered, Stored, Consolidated, Shown, Kept, Listed
    <3> QED
      BY <2>3, <2>5, <3>1 DEF vars
  <2> QED
    BY <2>2, <2>4, <2>5 DEF Next, CompileSpec, ResolveName, FindConflicts, CompareVotes, PlanNorm,
                             ClassifyKind, Asked
<1> QED
  BY <1>1, <1>2, PTL DEF Spec

(* Who shares a group states the same norm, for any rows, whoever writes them in whatever *)
(* order, as long as no row is written again with another quote (RowsAssumption) or       *)
(* deleted (GroupsAreNorms; _write_restriction, group_of and group_all).                   *)
PROPOSITION GroupsFormed == Spec => []GroupsAreNorms
<1>1. Grouping => GroupsAreNorms
  <2> SUFFICES ASSUME Grouping, question.kind = "rows"
               PROVE  GroupsAreNorms
    BY DEF GroupsAreNorms
  <2>1. question \in Questions /\ Rows /\ Named /\ Clusters /\ SearchAnswered
    BY DEF Grouping
  <2>2. \A a, b \in Stored : a.id \in Nat /\ a.id # NoGroup /\ (a.id = b.id => a = b)
    BY <2>1, RowsAssumption DEF Rows
  <2>3. NormsOf(group)
    <3> SUFFICES ASSUME NEW a \in Stored, NEW b \in Stored, group[a] = group[b], group[a] # NoGroup
                 PROVE  Chained(Stored, a, b)
      BY DEF NormsOf
    <3>1. PICK m \in Stored : m.id = group[a] /\ Chained(Stored, a, m)
      BY <2>1 DEF Named, Leads
    <3>2. PICK n \in Stored : n.id = group[b] /\ Chained(Stored, b, n)
      BY <2>1 DEF Named, Leads
    <3>3. m = n /\ Chained(Stored, m, b)
      BY <2>2, <3>1, <3>2, ChainedBack
    <3> QED
      BY <3>1, <3>3, ChainedThere
  <2>4. ASSUME answer # None
        PROVE  NormsOf(answer[1].consolidated)
    <3> DEFINE its(r) == CHOOSE c \in ToSet(clusters) : r \in c
    <3>1. answer[1].consolidated = Consolidated /\ Unclustered = {}
      BY <2>1, <2>4 DEF SearchAnswered
    <3>2. \A r \in Stored : its(r) \in ToSet(clusters) /\ r \in its(r) /\ its(r) \subseteq Stored
      BY <2>1, <3>1 DEF Unclustered, Clusters, ToSet
    <3> SUFFICES ASSUME NEW a \in Stored, NEW b \in Stored,
                        Consolidated[a] = Consolidated[b], Consolidated[a] # NoGroup
                 PROVE  Chained(Stored, a, b)
      BY <3>1 DEF NormsOf
    <3>3. Consolidated[a] = Min({m.id : m \in its(a)}) /\ Consolidated[b] = Min({m.id : m \in its(b)})
      BY DEF Consolidated
    <3> HIDE DEF its
    <3>4. \A r \in Stored : Min({m.id : m \in its(r)}) \in {m.id : m \in its(r)}
      <4> TAKE r \in Stored
      <4>1. {m.id : m \in its(r)} \in SUBSET Nat /\ {m.id : m \in its(r)} # {}
        BY <2>2, <3>2
      <4> QED
        BY <4>1, MinIsLeast
    <3>5. PICK m \in its(a) : Consolidated[a] = m.id
      BY <3>3, <3>4
    <3>6. PICK n \in its(b) : Consolidated[b] = n.id
      BY <3>3, <3>4
    <3>7. m = n
      BY <2>2, <3>2, <3>5, <3>6
    <3>8. its(a) = its(b)
      BY <2>1, <3>2, <3>7 DEF Clusters, ToSet
    <3> QED
      BY <2>1, <3>2, <3>8 DEF Clusters, ToSet
  <2>5. ASSUME question.writers = 1, left = << >>, pending = {},
               NEW a \in Stored, NEW b \in Stored, a # b, Linked(a, b), AllCompared(Stored, a.key)
        PROVE  group[a] # NoGroup
    <3>1. Settled(a) /\ Settled(b)
      BY <2>5 DEF Settled, ToSet
    <3> QED
      BY <2>5, <3>1 DEF Grouping, Alone
  <2> QED
    BY <2>3, <2>4, <2>5 DEF GroupsAreNorms
<1> QED
  BY <1>1, GroupingInductive, PTL

(* The first of the hits of a group is kept. *)
LEMMA FirstOfGroup ==
    ASSUME NEW n \in Nat, NEW hits, DOMAIN hits = 1..n, NEW i \in 1..n, group[hits[i]] # NoGroup
    PROVE  \E j \in Kept(hits) : j <= i /\ group[hits[j]] = group[hits[i]]
<1> DEFINE same == {j \in 1..n : group[hits[j]] = group[hits[i]]}
           j == Min(same)
<1>1. j \in same /\ \A k \in same : j <= k
  <2>1. same \in SUBSET Nat /\ same # {}
    OBVIOUS
  <2> HIDE DEF same
  <2> QED
    BY <2>1, MinIsLeast
<1>2. i \in same
  OBVIOUS
<1> HIDE DEF j
<1>3. \A k \in 1..(j - 1) : group[hits[k]] # group[hits[j]]
  <2> SUFFICES ASSUME NEW k \in 1..(j - 1), group[hits[k]] = group[hits[j]]
               PROVE  FALSE
    OBVIOUS
  <2>1. k \in 1..n /\ j \in 1..n /\ k < j
    BY <1>1
  <2>2. k \in same
    BY <1>1, <2>1
  <2> QED
    BY <1>1, <2>1, <2>2
<1> QED
  BY <1>1, <1>2, <1>3 DEF Kept

(* Fewer than the limit are only shown if all are. *)
LEMMA AllShown ==
    ASSUME NEW S \in SUBSET Nat, IsFiniteSet(S), NEW limit \in Nat,
           Cardinality({k \in S : Cardinality({j \in S : j <= k}) <= limit}) < limit
    PROVE  \A k \in S : Cardinality({j \in S : j <= k}) <= limit
<1> DEFINE upto(k) == {j \in S : j <= k}
           shown == {k \in S : Cardinality(upto(k)) <= limit}
           hidden == S \ shown
<1> SUFFICES ASSUME hidden # {}
             PROVE  FALSE
  OBVIOUS
<1>1. PICK k \in hidden : \A j \in hidden : k <= j
  <2>1. hidden \in SUBSET Nat
    OBVIOUS
  <2> HIDE DEF hidden
  <2> QED
    BY <2>1, MinIsLeast
<1>2. upto(k) \subseteq shown \cup {k}
  <2> SUFFICES ASSUME NEW j \in S, j <= k, j # k
               PROVE  j \in shown
    OBVIOUS
  <2> QED
    BY <1>1
<1>3. /\ IsFiniteSet(shown) /\ IsFiniteSet(shown \cup {k}) /\ IsFiniteSet(upto(k))
      /\ Cardinality(shown) \in Nat /\ Cardinality(upto(k)) \in Nat
      /\ Cardinality(shown \cup {k}) = Cardinality(shown) + 1
  <2>1. shown \subseteq S /\ upto(k) \subseteq S /\ k \notin shown
    OBVIOUS
  <2> HIDE DEF shown, upto
  <2> QED
    BY <2>1, FS_Subset, FS_AddElement, FS_CardinalityType
<1>4. Cardinality(upto(k)) <= Cardinality(shown) + 1
  <2> HIDE DEF shown, upto
  <2> QED
    BY <1>2, <1>3, FS_Subset
<1>5. Cardinality(upto(k)) <= limit
  <2>1. Cardinality(shown) < limit
    OBVIOUS
  <2> HIDE DEF shown, upto
  <2> QED
    BY <1>3, <1>4, <2>1
<1> QED
  BY <1>1, <1>5

(* A search hides nothing, whatever is found, in whatever groups, and however many are *)
(* shown (NothingHidden; _with_duplicates of the query service).                        *)
THEOREM SearchHidesNothing == Spec => []NothingHidden
<1>1. Grouping => NothingHidden
  <2> DEFINE hits == question.hits
             shown == answer[1].shown
             places == DOMAIN shown
             upto(k) == {j \in Kept(hits) : j <= k}
  <2> SUFFICES ASSUME Grouping, Answered("rows")
               PROVE  /\ \A i \in DOMAIN hits :
                           Cardinality(places) < question.limit \/ (\E j \in places : i <= j) =>
                               \E s \in places : hits[i].id \in {shown[s].id} \cup shown[s].duplicates
                      /\ \A r, s \in places : shown[r].id \notin shown[s].duplicates
    BY DEF NothingHidden
  <2>1. /\ question \in Questions /\ question.kind = "rows" /\ Rows
        /\ left = << >> /\ pending = {} /\ shown = Shown(hits, question.limit)
    BY DEF Grouping, SearchAnswered, Answered
  <2>2. PICK n \in Nat : DOMAIN hits = 1..n
    BY <2>1, RowsAssumption
  <2>3. \A i \in DOMAIN hits : hits[i] \in Stored
    <3>1. ToSet(question.rows) \subseteq Stored
      BY <2>1 DEF Rows, ToSet
    <3>2. hits \in Seq(ToSet(question.rows))
      BY <2>1, RowsAssumption
    <3> QED
      BY <3>1, <3>2
  <2>4. \A i, j \in DOMAIN hits : hits[i].id = hits[j].id => i = j
    <3>1. \A a, b \in Stored : a.id = b.id => a = b
      BY <2>1, RowsAssumption DEF Rows
    <3>2. \A i, j \in DOMAIN hits : hits[i] = hits[j] => i = j
      BY <2>1, RowsAssumption DEF IsInjective
    <3> QED
      BY <2>3, <3>1, <3>2
  <2>5. /\ places = {k \in Kept(hits) : Cardinality(upto(k)) <= question.limit}
        /\ \A s \in places : shown[s].id = hits[s].id /\ shown[s].duplicates = Listed(hits[s])
    BY <2>1 DEF Shown
  <2>6. Kept(hits) \subseteq 1..n /\ IsFiniteSet(Kept(hits)) /\ question.limit \in Nat
    <3>1. Kept(hits) \subseteq 1..n
      BY <2>2 DEF Kept
    <3>2. IsFiniteSet(1..n)
      BY FS_Interval
    <3> QED
      BY <2>1, <3>1, <3>2, FS_Subset, RowsAssumption
  <2> HIDE DEF hits, shown
  <2>7. \A r, s \in places : shown[r].id \notin shown[s].duplicates
    <3> SUFFICES ASSUME NEW r \in places, NEW s \in places, hits[r].id \in Listed(hits[s])
                 PROVE  FALSE
      BY <2>5
    <3>1. /\ r \in 1..n /\ s \in 1..n /\ r \in Kept(hits) /\ s \in Kept(hits)
      BY <2>5, <2>6
    <3>2. PICK m \in Stored : /\ m.id = hits[r].id /\ group[m] = group[hits[s]] /\ m.id # hits[s].id
                              /\ group[hits[s]] # NoGroup
      BY DEF Listed
    <3>3. m = hits[r] /\ r # s
      BY <2>1, <2>2, <2>3, <3>1, <3>2, RowsAssumption DEF Rows
    <3>4. group[hits[r]] = group[hits[s]] /\ group[hits[r]] # NoGroup
      BY <3>2, <3>3
    <3>5. r < s \/ s < r
      BY <3>1, <3>3
    <3>6. r \in 1..(s - 1) \/ s \in 1..(r - 1)
      BY <3>1, <3>5
    <3> QED
      BY <3>1, <3>4, <3>6 DEF Kept
  <2>8. ASSUME NEW i \in DOMAIN hits, NEW k \in Kept(hits), k <= i,
               Cardinality(places) < question.limit \/ (\E j \in places : i <= j)
        PROVE  k \in places
    <3>1. CASE Cardinality(places) < question.limit
      <4>1. Kept(hits) \in SUBSET Nat
        BY <2>6
      <4>2. \A x \in Kept(hits) : Cardinality({j \in Kept(hits) : j <= x}) <= question.limit
        BY <2>5, <2>6, <3>1, <4>1, AllShown
      <4> QED
        BY <2>5, <2>8, <4>2
    <3>2. ASSUME NEW j \in places, i <= j
          PROVE  k \in places
      <4>1. j \in Kept(hits) /\ j \in 1..n /\ i \in 1..n /\ k \in 1..n /\ Cardinality(upto(j)) <= question.limit
        BY <2>2, <2>5, <2>6, <2>8
      <4>2. upto(k) \subseteq upto(j) /\ upto(j) \subseteq Kept(hits)
        BY <2>6, <2>8, <3>2, <4>1
      <4>3. Cardinality(upto(k)) <= question.limit
        <5> HIDE DEF upto
        <5>1. IsFiniteSet(upto(j)) /\ IsFiniteSet(upto(k))
          BY <2>6, <4>2, FS_Subset
        <5>2. Cardinality(upto(k)) <= Cardinality(upto(j)) /\ Cardinality(upto(k)) \in Nat /\ Cardinality(upto(j)) \in Nat
          BY <4>2, <5>1, FS_Subset, FS_CardinalityType
        <5> QED
          BY <2>6, <4>1, <5>2
      <4> QED
        BY <2>5, <2>8, <4>3
    <3> QED
      BY <2>8, <3>1, <3>2
  <2>9. ASSUME NEW i \in DOMAIN hits,
               Cardinality(places) < question.limit \/ (\E j \in places : i <= j)
        PROVE  \E s \in places : hits[i].id \in {shown[s].id} \cup shown[s].duplicates
    <3>1. i \in 1..n
      BY <2>2
    <3>2. CASE group[hits[i]] = NoGroup
      <4>1. i \in Kept(hits) /\ i <= i
        BY <2>9, <3>1, <3>2 DEF Kept
      <4>2. i \in places
        BY <2>8, <2>9, <4>1
      <4> QED
        BY <2>5, <4>2
    <3>3. CASE group[hits[i]] # NoGroup
      <4>1. PICK s \in Kept(hits) : s <= i /\ group[hits[s]] = group[hits[i]]
        BY <2>2, <3>1, <3>3, FirstOfGroup
      <4>2. s \in places /\ s \in DOMAIN hits
        BY <2>2, <2>6, <2>8, <2>9, <4>1
      <4>3. CASE s = i
        BY <2>5, <4>2, <4>3
      <4>4. CASE s # i
        <5>1. hits[i] \in Stored /\ hits[i].id # hits[s].id
          BY <2>3, <2>4, <2>9, <4>2, <4>4
        <5>2. hits[i].id \in Listed(hits[s])
          BY <3>3, <4>1, <5>1 DEF Listed
        <5> QED
          BY <2>5, <4>2, <5>2
      <4> QED
        BY <4>3, <4>4
    <3> QED
      BY <3>2, <3>3
  <2> QED
    BY <2>7, <2>9
<1> QED
  BY <1>1, GroupingInductive, PTL

-----------------------------------------------------------------------------
(* One norm, one plan. *)

(* What is checked, with what and against which value: the essence of a plan of two layers. *)
EssenceOfTwo(t, checked, other, demand) ==
    [template |-> t, checked |-> {checked}, others |-> {other}, demand |-> demand]

CheckedRoles == {"targets", "objects", "numerator"}

(* A layer of a role for a name and a type. *)
LEMMA LayerHas == \A role, e : /\ Layer(role, e).role = role /\ Layer(role, e).entity = e.name
                               /\ Layer(role, e).type = e.type
BY DEF Layer

LEMMA TwoLayers ==
    ASSUME NEW plan, NEW cat, NEW x, NEW y, x.role \in CheckedRoles, y.role \notin CheckedRoles,
           plan.layers = <<x, y>> \/ plan.layers = <<y, x>>
    PROVE  /\ ToSet(plan.layers) = {x, y}
           /\ Essence(plan, cat) = EssenceOfTwo(plan.template, Resolve(cat, x.entity, x.type),
                                                Resolve(cat, y.entity, y.type), Essence(plan, cat).demand)
<1>1. ToSet(plan.layers) = {x, y}
  <2>1. \A u, v : ToSet(<<u, v>>) = {u, v}
    <3> TAKE u, v
    <3>1. DOMAIN <<u, v>> = {1, 2}
      OBVIOUS
    <3> QED
      BY <3>1 DEF ToSet
  <2> QED
    BY <2>1
<1> DEFINE layers == ToSet(plan.layers)
           checked == {l \in layers : l.role \in CheckedRoles}
           types(some) == {Resolve(cat, l.entity, l.type) : l \in some}
<1>2. checked = {x} /\ layers \ checked = {y}
  BY <1>1
<1>3. types({x}) = {Resolve(cat, x.entity, x.type)} /\ types({y}) = {Resolve(cat, y.entity, y.type)}
  OBVIOUS
<1> QED
  BY <1>1, <1>2, <1>3 DEF Essence, EssenceOfTwo, CheckedRoles

(* An entry is what its own name and type mean, if no two of a type share a name. *)
LEMMA EntryFound ==
    ASSUME NEW cat \in Seq(Entry), NamesDiffer(cat), NEW e \in ToSet(cat)
    PROVE  Resolve(cat, e.name, e.type) = Some(e)
<1>1. PICK i \in DOMAIN cat : cat[i] = e
  BY DEF ToSet
<1>2. e \in Entry
  BY <1>1
<1>3. e.type # AnyType
  BY <1>2 DEF Entry, EntityTypes, AnyType
<1> DEFINE same == {j \in Called(cat, e.name) : cat[j].type = e.type}
<1>4. same = {i}
  BY <1>1 DEF Called, NamesDiffer
<1>5. same \in SUBSET DOMAIN cat /\ i \in same
  BY <1>4
<1>6. FirstOf(cat, same) = Some(e)
  <2>1. PICK n \in Nat : DOMAIN cat = 1..n
    OBVIOUS
  <2> HIDE DEF same
  <2> QED
    BY <1>1, <1>4, <1>5, <2>1, SolePlace
<1>7. Called(cat, e.name) # {}
  BY <1>5
<1> QED
  BY <1>3, <1>6, <1>7 DEF Resolve, Exact

(* What is grounded is found as it is, and what is found is grounded so. *)
LEMMA GroundFound ==
    ASSUME NEW cat \in Seq(Entry), NamesDiffer(cat), NEW item, Ground(item, cat) # None
    PROVE  LET e == Ground(item, cat)[1]
           IN /\ Ground(item, cat) = Some(e) /\ e \in ToSet(cat)
              /\ Resolve(cat, e.name, e.type) = Ground(item, cat)
<1>1. PICK n, type : Ground(item, cat) = Resolve(cat, n, type)
  BY DEF Ground
<1>2. PICK e \in ToSet(cat) : Ground(item, cat) = Some(e)
  BY <1>1, ResolvedIsListed
<1>3. Ground(item, cat)[1] = e
  BY <1>2, SomeOrNone
<1> QED
  BY <1>2, <1>3, EntryFound

LEMMA ResolvedIsGround ==
    ASSUME NEW cat, NEW label, Resolve(cat, label.name, TypeOf(label)) # None
    PROVE  Ground(Mentioned(label), cat) = Resolve(cat, label.name, TypeOf(label))
BY DEF Ground, Mentioned

(* What a rule of the grammar makes. *)
LEMMA RuledIs ==
    ASSUME NEW t, NEW params, NEW layers, NEW attributes, Ruled(t, params, layers, attributes) # None
    PROVE  LET plan == Ruled(t, params, layers, attributes)
           IN /\ plan = Some(plan[1])
              /\ plan[1].template = t /\ plan[1].params = params /\ plan[1].layers = layers
<1> DEFINE plan == [template |-> t, params |-> params, layers |-> layers,
                    attributes |-> attributes, scope |-> None, applicability |-> None]
<1>1. Ruled(t, params, layers, attributes) = Some(plan)
  BY DEF Ruled
<1> QED
  BY <1>1, SomeOrNone

(* What is tried of a triple. *)
LEMMA TriedIs ==
    ASSUME NEW t, NEW params, NEW layers, NEW why, Tried(t, params, layers, why).plan # None
    PROVE  LET made == Tried(t, params, layers, why)
           IN /\ made.plan = Some(made.plan[1]) /\ made.reasons = why
              /\ made.plan[1].template = t /\ made.plan[1].params = params /\ made.plan[1].layers = layers
<1> DEFINE plan == [template |-> t, params |-> params, layers |-> layers,
                    attributes |-> << >>, scope |-> None, applicability |-> None]
<1>1. Refused({"invalid_plan_parameters"}).plan = None
  BY DEF Refused
<1>2. Tried(t, params, layers, why) = [plan |-> Some(plan), reasons |-> why]
  BY <1>1 DEF Tried
<1> QED
  BY <1>2, SomeOrNone

(* A plan that was made of a triple and is grounded. *)
LEMMA GroundedIs ==
    ASSUME NEW ex, NEW cat, Grounded(FirstPass(ex), cat) # None
    PROVE  LET plan == Grounded(FirstPass(ex), cat)
           IN /\ plan = Deterministic(ex).plan /\ plan # None
              /\ Deterministic(ex).reasons = {} /\ TripleReasons(ex) = {}
              /\ \A l \in ToSet(plan[1].layers) : Resolve(cat, l.entity, l.type) # None
<1> DEFINE known == TripleReasons(ex)
           made == IF known \subseteq {"applicability_not_verified", "walking_route_required"}
                   THEN Deterministic(ex) ELSE Refused({})
<1>1. /\ FirstPass(ex).plan = made.plan
      /\ known \cup made.reasons \subseteq FirstPass(ex).reasons
  BY DEF FirstPass
<1>2. /\ FirstPass(ex).plan # None /\ FirstPass(ex).reasons = {}
      /\ Grounded(FirstPass(ex), cat) = FirstPass(ex).plan
      /\ \A l \in ToSet(FirstPass(ex).plan[1].layers) : Resolve(cat, l.entity, l.type) # None
  BY DEF Grounded
<1>3. known = {} /\ made = Deterministic(ex)
  BY <1>1, <1>2
<1> QED
  BY <1>1, <1>2, <1>3

(* A reading of one value that means only one thing is compiled as it stands. *)
LEMMA ReadAsOne ==
    ASSUME NEW s, NEW source, NEW cat, IsReading(s), s.unconditional, s.variants = << >>,
           s.housing = {}, s.quote.ranges = << >>, "accessibility" \notin source.says,
           Compile(s, source, {}, cat).plan # None
    PROVE  /\ Compile(s, source, {}, cat) = CompileOne(s, source, {}, cat)
           /\ Readable(s)
<1>1. Read(s, source) = s
  <2>1. AsAccessibility(s, source) = s
    BY DEF AsAccessibility
  <2>2. \A f : {i \in DOMAIN s.quote.ranges : f[i]} = {}
    OBVIOUS
  <2>3. WithRangeVariant(s) = s
    BY DEF WithRangeVariant, None
  <2> QED
    BY <2>1, <2>3 DEF Read
<1>2. DOMAIN s.variants = {}
  OBVIOUS
<1>3. CompileVariants(s, {}, source, {}, cat) = CompileOne(s, source, {}, cat)
  <2> DEFINE results == [i \in {0} \cup {} |-> CompileOne(Reading(s, i), source, {}, cat)]
  <2>1. results[0] = CompileOne(Reading(s, 0), source, {}, cat)
    OBVIOUS
  <2>2. Reading(s, 0) = s
    BY DEF Reading
  <2> HIDE DEF results
  <2>3. CompileVariants(s, {}, source, {}, cat) = results[0]
    BY DEF CompileVariants, results
  <2> QED
    BY <2>1, <2>2, <2>3
<1>4. \A reasons : Refused(reasons).plan = None
  BY DEF Refused
<1>5. s.template # "none" /\ Compile(s, source, {}, cat) = CompileVariants(s, {}, source, {}, cat)
  BY <1>1, <1>2, <1>4 DEF Compile, ForHousing
<1>6. Readable(s)
  BY <1>5 DEF IsReading, SpecFields, Readable
<1> QED
  BY <1>3, <1>5, <1>6

(* The plan of a reading is what its builder builds, and nothing is known against it. *)
LEMMA SidesCompiled ==
    ASSUME NEW spec, NEW checked, NEW other, NEW source, NEW labels,
           CompileSides(spec, checked, other, source, labels).plan # None, spec.unit # "places"
    PROVE  LET plan == CompileSides(spec, checked, other, source, labels).plan
               built == Build(spec, checked, other, spec.unit)
           IN /\ plan = Some(plan[1]) /\ built.reasons = {}
              /\ plan[1].template = built.template /\ plan[1].params = built.params
              /\ plan[1].layers = built.layers
              /\ KnownReasons(spec, source, checked, other) = {}
<1> DEFINE built == Build(spec, checked, other, spec.unit)
           names == {e.name : e \in ToSet(checked \o other)}
<1>1. \A reasons : Refused(reasons).plan = None
  BY DEF Refused
<1>2. /\ KnownReasons(spec, source, checked, other) = {}
      /\ CompileSides(spec, checked, other, source, labels) = Guarded(built, spec, source, labels, names)
  BY <1>1 DEF CompileSides
<1> HIDE DEF built, names
<1> QED
  BY <1>2, GuardedIsPlanned DEF built

(* The reading that is compiled, with its sides. *)
Sided(s) == WithSides([s EXCEPT !.mode = Mode(s, {})])

(* A reading of one value and two sides of which there is a plan. *)
TwoSided(s, source, cat, a, b) ==
    /\ cat \in Seq(Entry) /\ NamesDiffer(cat)
    /\ IsReading(s) /\ s.unconditional /\ s.variants = << >> /\ s.housing = {} /\ s.quote.ranges = << >>
    /\ "accessibility" \notin source.says
    /\ s.template \in {"min_distance", "max_distance", "zone_attribute_limit", "zone_share"}
    /\ s.checked = Some(a) /\ s.other = Some(b) /\ s.unit # "places"
    /\ Compile(s, source, {}, cat).plan # None

(* Its plan is what is built of two types of the catalog, and they differ where a distance counts. *)
BuiltOf(s, source, cat, checked, other) ==
    LET plan == Compile(s, source, {}, cat).plan
        built == Build(Sided(s), checked, other, s.unit)
    IN /\ plan = Some(plan[1]) /\ built.reasons = {}
       /\ plan[1].template = built.template /\ plan[1].params = built.params
       /\ plan[1].layers = built.layers
       /\ checked # None /\ other # None
       /\ s.template \in {"min_distance", "max_distance"} =>
             ~ (checked[1].name = other[1].name /\ checked[1].type = other[1].type)
       /\ Sided(s).template = s.template /\ Sided(s).value = s.value /\ Sided(s).unit = s.unit
       /\ Sided(s).operator = s.operator /\ Sided(s).attribute = s.attribute

(* Which side of a reading is checked: of a reach, the dwellings. *)
LEMMA TwoSidesRead ==
    ASSUME NEW s, NEW source, NEW cat, NEW a, NEW b, TwoSided(s, source, cat, a, b)
    PROVE  LET swapped == s.template = "max_distance" /\ b.name \in Residences /\ a.name \notin Residences
           IN BuiltOf(s, source, cat, Ground(IF swapped THEN b ELSE a, cat), Ground(IF swapped THEN a ELSE b, cat))
<1>0. /\ IsReading(s) /\ s.unconditional /\ s.variants = << >> /\ s.housing = {} /\ s.quote.ranges = << >>
      /\ "accessibility" \notin source.says
      /\ s.template \in {"min_distance", "max_distance", "zone_attribute_limit", "zone_share"}
      /\ s.checked = Some(a) /\ s.other = Some(b) /\ s.unit # "places"
      /\ Compile(s, source, {}, cat).plan # None
  BY DEF TwoSided
<1> DEFINE moded == [s EXCEPT !.mode = Mode(s, {})]
           swapped == s.template = "max_distance" /\ b.name \in Residences /\ a.name \notin Residences
           checked == Ground(IF swapped THEN b ELSE a, cat)
           other == Ground(IF swapped THEN a ELSE b, cat)
<1>1. Compile(s, source, {}, cat) = CompileOne(s, source, {}, cat)
  BY <1>0, ReadAsOne, Zenon
<1>2. /\ SpecFields \subseteq DOMAIN s
      /\ moded.template = s.template /\ moded.checked = Some(a) /\ moded.other = Some(b)
      /\ moded.value = s.value /\ moded.unit = s.unit /\ moded.operator = s.operator
      /\ moded.attribute = s.attribute /\ SpecFields \subseteq DOMAIN moded
  BY <1>0 DEF IsReading, SpecFields
<1>3. /\ IsResidence(Some(b)) <=> b.name \in Residences
      /\ IsResidence(Some(a)) <=> a.name \in Residences
  BY SomeOrNone DEF IsResidence
<1> HIDE DEF moded
<1>4. Sided(s) = IF swapped THEN [moded EXCEPT !.checked = Some(b), !.other = Some(a)] ELSE moded
  <2>1. Some(a) # None /\ Some(b) # None
    BY SomeOrNone
  <2>2. WithSides(moded) = IF swapped THEN [moded EXCEPT !.checked = moded.other, !.other = moded.checked]
                           ELSE moded
    BY <1>0, <1>2, <1>3, <2>1 DEF WithSides
  <2>3. Sided(s) = WithSides(moded)
    BY DEF Sided, moded
  <2> HIDE DEF swapped
  <2> QED
    BY <1>2, <2>2, <2>3
<1>5. /\ Sided(s).template = s.template /\ Sided(s).value = s.value /\ Sided(s).unit = s.unit
      /\ Sided(s).operator = s.operator /\ Sided(s).attribute = s.attribute
      /\ Sided(s).checked = Some(IF swapped THEN b ELSE a)
      /\ Sided(s).other = Some(IF swapped THEN a ELSE b)
  BY <1>0, <1>2, <1>4 DEF SpecFields
<1>6. CompileOne(s, source, {}, cat) = CompileSides(Sided(s), checked, other, source, {})
  BY <1>0, <1>5, SomeOrNone DEF CompileOne, Sided
<1> HIDE DEF checked, other
<1>7. LET plan == CompileSides(Sided(s), checked, other, source, {}).plan
          built == Build(Sided(s), checked, other, s.unit)
      IN /\ plan = Some(plan[1]) /\ built.reasons = {}
         /\ plan[1].template = built.template /\ plan[1].params = built.params
         /\ plan[1].layers = built.layers
         /\ KnownReasons(Sided(s), source, checked, other) = {}
  <2>1. CompileSides(Sided(s), checked, other, source, {}).plan # None /\ Sided(s).unit # "places"
    BY <1>0, <1>1, <1>5, <1>6
  <2>2. Sided(s).unit = s.unit
    BY <1>5
  <2> DEFINE spec == Sided(s)
  <2>3. CompileSides(spec, checked, other, source, {}).plan # None /\ spec.unit # "places"
    BY <2>1
  <2> HIDE DEF spec
  <2>4. LET plan == CompileSides(spec, checked, other, source, {}).plan
            built == Build(spec, checked, other, spec.unit)
        IN /\ plan = Some(plan[1]) /\ built.reasons = {}
           /\ plan[1].template = built.template /\ plan[1].params = built.params
           /\ plan[1].layers = built.layers
           /\ KnownReasons(spec, source, checked, other) = {}
    BY <2>3, SidesCompiled, Zenon
  <2> QED
    BY <2>2, <2>4 DEF spec
<1>8. checked # None /\ other # None
  BY <1>0, <1>5, <1>7 DEF KnownReasons, GroundReasons
<1>9. s.template \in {"min_distance", "max_distance"} =>
         ~ (checked[1].name = other[1].name /\ checked[1].type = other[1].type)
  BY <1>0, <1>5, <1>7, <1>8 DEF KnownReasons, If
<1>10. Compile(s, source, {}, cat).plan = CompileSides(Sided(s), checked, other, source, {}).plan
  BY <1>1, <1>6
<1>11. BuiltOf(s, source, cat, checked, other)
  <2> DEFINE plan == Compile(s, source, {}, cat).plan
             built == Build(Sided(s), checked, other, s.unit)
  <2>1. /\ plan = Some(plan[1]) /\ built.reasons = {}
        /\ plan[1].template = built.template /\ plan[1].params = built.params
        /\ plan[1].layers = built.layers
    BY <1>7, <1>10
  <2> QED
    BY <1>5, <1>8, <1>9, <2>1 DEF BuiltOf
<1> QED
  BY <1>11 DEF checked, other

(* A reading whose first side stays the checked one, and one whose sides change places. *)
LEMMA SidesKept ==
    ASSUME NEW s, NEW source, NEW cat, NEW a, NEW b, TwoSided(s, source, cat, a, b),
           s.template # "max_distance" \/ b.name \notin Residences \/ a.name \in Residences
    PROVE  BuiltOf(s, source, cat, Ground(a, cat), Ground(b, cat))
<1> DEFINE swapped == s.template = "max_distance" /\ b.name \in Residences /\ a.name \notin Residences
<1>1. BuiltOf(s, source, cat, Ground(IF swapped THEN b ELSE a, cat), Ground(IF swapped THEN a ELSE b, cat))
  BY TwoSidesRead, Zenon
<1>2. (IF swapped THEN b ELSE a) = a /\ (IF swapped THEN a ELSE b) = b
  OBVIOUS
<1> QED
  BY <1>1, <1>2, Zenon

LEMMA SidesSwapped ==
    ASSUME NEW s, NEW source, NEW cat, NEW a, NEW b, TwoSided(s, source, cat, a, b),
           s.template = "max_distance", b.name \in Residences, a.name \notin Residences
    PROVE  BuiltOf(s, source, cat, Ground(b, cat), Ground(a, cat))
<1> DEFINE swapped == s.template = "max_distance" /\ b.name \in Residences /\ a.name \notin Residences
<1>1. BuiltOf(s, source, cat, Ground(IF swapped THEN b ELSE a, cat), Ground(IF swapped THEN a ELSE b, cat))
  BY TwoSidesRead, Zenon
<1>2. (IF swapped THEN b ELSE a) = b /\ (IF swapped THEN a ELSE b) = a
  OBVIOUS
<1> QED
  BY <1>1, <1>2, Zenon

-----------------------------------------------------------------------------
(* What a label is in the catalog. *)
Item(label, cat) == Ground(Mentioned(label), cat)

LEMMA WordFits ==
    ASSUME NEW label, NEW cat, LabelFits(label, cat), label.name \in DOMAIN Inflected
    PROVE  LET w == Inflected[label.name]
           IN Item(label, cat) # None /\ Resolve(cat, w.name, w.type) = Item(label, cat)
BY DEF LabelFits, Item

(* A layer of a triple for a label. *)
LEMMA LabelledIs ==
    ASSUME NEW role, NEW label, NEW cat
    PROVE  LET l == Labelled(role, label)
           IN /\ l.role = role
              /\ Resolve(cat, l.entity, l.type) # None => Resolve(cat, l.entity, l.type) = Item(label, cat)
<1>1. Labelled(role, label) = Layer(role, [name |-> label.name, type |-> TypeOf(label)])
  BY DEF Labelled
<1>2. /\ Labelled(role, label).role = role
      /\ Labelled(role, label).entity = label.name /\ Labelled(role, label).type = TypeOf(label)
  BY <1>1, LayerHas
<1> QED
  BY <1>2, ResolvedIsGround DEF Item

(* The demand in the essence of a plan. *)
LEMMA DemandOf ==
    ASSUME NEW plan, NEW cat
    PROVE  /\ Essence(plan, cat).template = plan.template
           /\ plan.template = "distance_from_source" => Essence(plan, cat).demand = plan.params.distance
           /\ plan.template = "presence_within" =>
                 Essence(plan, cat).demand = <<plan.params.distance, plan.params.minimum>>
           /\ plan.template \in {"zonal_ratio", "zonal_attribute_threshold"} =>
                 Essence(plan, cat).demand = <<plan.params.operator, plan.params.threshold>>
BY DEF Essence

(* The essence of a plan of two layers whose types are known. *)
LEMMA EssenceIs ==
    ASSUME NEW plan, NEW cat, NEW x, NEW y, NEW checked, NEW other,
           x.role \in CheckedRoles, y.role \notin CheckedRoles,
           plan.layers = <<x, y>> \/ plan.layers = <<y, x>>,
           Resolve(cat, x.entity, x.type) = checked, Resolve(cat, y.entity, y.type) = other
    PROVE  Essence(plan, cat) = EssenceOfTwo(plan.template, checked, other, Essence(plan, cat).demand)
BY TwoLayers

(* The plan of a distance. *)
LEMMA DistanceEssence ==
    ASSUME NEW p, NEW cat, NEW x, NEW y, NEW checked, NEW other, NEW d,
           p.template = "distance_from_source", p.params.distance = Some(d), p.layers = <<y, x>>,
           x.role = "targets", y.role = "source",
           Resolve(cat, x.entity, x.type) = checked, Resolve(cat, y.entity, y.type) = other
    PROVE  Essence(p, cat) = EssenceOfTwo("distance_from_source", checked, other, Some(d))
<1>1. x.role \in CheckedRoles /\ y.role \notin CheckedRoles
  BY DEF CheckedRoles
<1>2. Essence(p, cat).demand = p.params.distance
  BY DemandOf
<1> QED
  BY <1>1, <1>2, EssenceIs, Zenon

(* The plans of a sentence: one of the grammar, one of the triple and one of the reading. *)
OfGrammar(q, p) == CompileRule(q.clause) # None /\ p = CompileRule(q.clause)[1]
OfTriple(q, p) ==
    LET made == Grounded(FirstPass(q.triple), q.catalog) IN made # None /\ p = made[1]
OfReading(q, p) ==
    LET made == Compile(q.spec, q.source, {}, q.catalog).plan IN made # None /\ p = made[1]

PlanOf(q, p) == OfGrammar(q, p) \/ OfTriple(q, p) \/ OfReading(q, p)

(* What is a sentence, and in which snapshot. *)
IsSentence(q) == SaysOneNorm(q) /\ q.catalog \in Seq(Entry)

Number(q) == q.triple.value[1].number[1]
Length(q) == Number(q) * LengthScale[q.triple.value[1].unit]

LEMMA SentenceNumber ==
    ASSUME NEW q, IsSentence(q), q.clause.form # "table"
    PROVE  LET ex == q.triple
               v == ex.value[1]
           IN /\ ex.value # None /\ v.number = Some(Number(q)) /\ Number(q) \in Int
              /\ q.spec.value = Some(Number(q)) /\ q.spec.unit = v.unit
              /\ Numbered(ex) /\ (Lengthy(ex) <=> v.unit \in DOMAIN LengthScale)
              /\ (Relative(ex) <=> v.unit = "percent")
<1>1. /\ q.triple.value # None /\ q.triple.value[1].number = Some(Number(q)) /\ Number(q) \in Int
      /\ q.spec.value = Some(Number(q)) /\ q.spec.unit = q.triple.value[1].unit
  BY DEF IsSentence, SaysOneNorm, Number
<1> QED
  BY <1>1, SomeOrNone DEF Numbered, Lengthy, Relative

(* What is built of a least distance. *)
LEMMA LeastBuilt ==
    ASSUME NEW spec, NEW checked, NEW other, MinDistanceOf(spec, checked, other).reasons = {}
    PROVE  MinDistanceOf(spec, checked, other)
               = FromSource(spec, checked, other, Some(Distance(spec.unit, spec.value[1]).m))
<1> DEFINE distance == Distance(spec.unit, spec.value[1])
<1>1. \A reason : NotBuilt(reason).reasons # {}
  BY DEF NotBuilt
<1>2. \A reasons : [reasons |-> reasons].reasons = reasons
  OBVIOUS
<1> HIDE DEF distance
<1>3. MinDistanceOf(spec, checked, other) =
          IF spec.operator \notin {">=", ">"} THEN NotBuilt("operator_direction_conflict")
          ELSE IF distance.reasons # {} THEN [reasons |-> distance.reasons]
          ELSE FromSource(spec, checked, other, Some(distance.m))
  BY DEF MinDistanceOf, distance
<1> QED
  BY <1>1, <1>2, <1>3 DEF distance

(* The same of a greatest distance. *)
LEMMA GreatestBuilt ==
    ASSUME NEW spec, NEW checked, NEW other, MaxDistanceOf(spec, checked, other).reasons = {}
    PROVE  LET n == Distance(spec.unit, spec.value[1]).m
           IN MaxDistanceOf(spec, checked, other)
                  = Built("presence_within",
                          [neighbors |-> <<"neighbors">>, distance |-> n, minimum |-> 1],
                          <<Layer("objects", checked), Layer("neighbors", other)>>, << >>, Some(n))
<1> DEFINE distance == Distance(spec.unit, spec.value[1])
           made == Built("presence_within",
                         [neighbors |-> <<"neighbors">>, distance |-> distance.m, minimum |-> 1],
                         <<Layer("objects", checked), Layer("neighbors", other)>>, << >>, Some(distance.m))
<1>1. \A reason : NotBuilt(reason).reasons # {}
  BY DEF NotBuilt
<1>2. \A reasons : [reasons |-> reasons].reasons = reasons
  OBVIOUS
<1>3. MaxDistanceOf(spec, checked, other) =
          IF spec.operator = "<" THEN NotBuilt("strict_distance_not_supported")
          ELSE IF spec.operator # "<=" THEN NotBuilt("operator_direction_conflict")
          ELSE IF distance.reasons # {} THEN [reasons |-> distance.reasons] ELSE made
  BY DEF MaxDistanceOf, Reach
<1> HIDE DEF distance, made
<1>4. MaxDistanceOf(spec, checked, other) = made
  BY <1>1, <1>2, <1>3
<1> QED
  BY <1>4 DEF distance, made

(* No less than so far from one thing to another. *)
LEMMA DistanceOneWay ==
    ASSUME NEW q, IsSentence(q), q.clause.form = "distance", NEW p, PlanOf(q, p)
    PROVE  Essence(p, q.catalog) = EssenceOfTwo("distance_from_source", Item(q.triple.object, q.catalog),
                                                Item(q.triple.subject, q.catalog), Some(Length(q)))
<1> DEFINE cat == q.catalog
           c == q.clause
           ex == q.triple
           a == ex.subject
           b == ex.object
           v == ex.value[1]
           s == q.spec
           d == Length(q)
           goal == Essence(p, cat) = EssenceOfTwo("distance_from_source", Item(b, cat), Item(a, cat), Some(d))
<1>1. /\ cat \in Seq(Entry) /\ NamesDiffer(cat)
      /\ IsReading(s) /\ s.unconditional /\ s.variants = << >> /\ s.housing = {} /\ s.quote.ranges = << >>
      /\ "accessibility" \notin q.source.says
      /\ LabelFits(a, cat) /\ LabelFits(b, cat)
  BY DEF IsSentence, SaysOneNorm
<1>2. /\ c.source = a.name /\ c.target = b.name
      /\ v.operator \in {">", ">="} /\ v.unit \in DOMAIN LengthScale /\ c.unit = v.unit /\ c.amount = Number(q)
      /\ s.template = "min_distance" /\ s.checked = Some(Mentioned(b)) /\ s.other = Some(Mentioned(a))
  BY DEF IsSentence, SaysOneNorm, Number
<1>3. /\ Numbered(ex) /\ Lengthy(ex) /\ v.number[1] = Number(q)
      /\ s.value = Some(Number(q)) /\ s.unit = v.unit
  BY <1>2, SentenceNumber, SomeOrNone
<1>5. CASE OfGrammar(q, p)
  <2>1. /\ a.name \in DOMAIN Inflected /\ b.name \in DOMAIN Inflected
        /\ CompileRule(c) = DistanceRule(c) /\ CompileRule(c) # None /\ p = CompileRule(c)[1]
    BY <1>2, <1>5 DEF OfGrammar, CompileRule, WordsOf
  <2> DEFINE y == Place("source", c.source)
             x == Place("targets", c.target)
  <2>2. p.template = "distance_from_source" /\ p.params.distance = Some(d) /\ p.layers = <<y, x>>
    <3> DEFINE params == [targets |-> <<"targets">>, geometry_mode |-> "buffered",
                          distance |-> Some(c.amount * LengthScale[c.unit])]
    <3>1. DistanceRule(c) = Ruled("distance_from_source", params, <<y, x>>, << >>)
      BY <2>1 DEF DistanceRule
    <3>2. params.distance = Some(d)
      BY <1>2 DEF Length
    <3> HIDE DEF params, x, y
    <3> QED
      BY <2>1, <3>1, <3>2, RuledIs
  <2>3. /\ x.role = "targets" /\ y.role = "source"
        /\ Resolve(cat, x.entity, x.type) = Item(b, cat) /\ Resolve(cat, y.entity, y.type) = Item(a, cat)
    BY <1>1, <1>2, <2>1, LayerHas, WordFits DEF Place
  <2> HIDE DEF x, y
  <2> QED
    BY <2>2, <2>3, DistanceEssence
<1>6. CASE OfTriple(q, p)
  <2>1. /\ Deterministic(ex).plan # None /\ p = Deterministic(ex).plan[1]
        /\ \A l \in ToSet(p.layers) : Resolve(cat, l.entity, l.type) # None
    BY <1>6, GroundedIs DEF OfTriple
  <2> DEFINE y == Labelled("source", a)
             x == Labelled("targets", b)
  <2>2. Deterministic(ex) = FromSubject(ex, d)
    <3>1. \A reasons : Refused(reasons).plan = None
      BY DEF Refused
    <3>2. v.number[1] * LengthScale[v.unit] = d
      BY <1>3 DEF Length
    <3> QED
      BY <1>2, <1>3, <2>1, <3>1, <3>2 DEF Deterministic
  <2>3. p.template = "distance_from_source" /\ p.params.distance = Some(d) /\ p.layers = <<y, x>>
    BY <2>1, <2>2, TriedIs DEF FromSubject
  <2>4. x.role = "targets" /\ y.role = "source" /\ ToSet(p.layers) = {x, y}
    <3>1. x.role = "targets" /\ y.role = "source"
      BY LabelledIs
    <3> HIDE DEF x, y
    <3> QED
      BY <2>3, <3>1, TwoLayers DEF CheckedRoles
  <2>5. Resolve(cat, x.entity, x.type) = Item(b, cat) /\ Resolve(cat, y.entity, y.type) = Item(a, cat)
    BY <2>1, <2>4, LabelledIs
  <2> HIDE DEF x, y
  <2> QED
    BY <2>3, <2>4, <2>5, DistanceEssence
<1>7. CASE OfReading(q, p)
  <2> DEFINE checked == Item(b, cat)
             other == Item(a, cat)
             built == Build(Sided(s), checked, other, s.unit)
  <2>1. /\ built.reasons = {} /\ p.template = built.template /\ p.params = built.params
        /\ p.layers = built.layers /\ checked # None /\ other # None
        /\ Sided(s).template = "min_distance" /\ Sided(s).value = Some(Number(q))
        /\ Sided(s).unit = v.unit
    <3>1. s.unit # "places"
      BY <1>2, <1>3 DEF LengthScale
    <3>2. Compile(s, q.source, {}, cat).plan # None /\ p = Compile(s, q.source, {}, cat).plan[1]
      BY <1>7 DEF OfReading
    <3>3. TwoSided(s, q.source, cat, Mentioned(b), Mentioned(a))
      BY <1>1, <1>2, <3>1, <3>2 DEF TwoSided
    <3>4. BuiltOf(s, q.source, cat, checked, other)
      BY <1>2, <3>3, SidesKept DEF Item
    <3> QED
      BY <1>2, <1>3, <3>2, <3>4 DEF BuiltOf
  <2> DEFINE y == Layer("source", other[1])
             x == Layer("targets", checked[1])
  <2>2. p.template = "distance_from_source" /\ p.params.distance = Some(d) /\ p.layers = <<y, x>>
    <3>1. built = MinDistanceOf(Sided(s), checked[1], other[1])
      BY <2>1 DEF Build
    <3>2. Distance(Sided(s).unit, Sided(s).value[1]).m = d
      BY <1>2, <2>1, SomeOrNone DEF Distance, Length
    <3>3. built = FromSource(Sided(s), checked[1], other[1], Some(d))
      BY <2>1, <3>1, <3>2, LeastBuilt
    <3> QED
      BY <2>1, <3>3 DEF FromSource, Built
  <2>3. x.role = "targets" /\ y.role = "source"
    BY LayerHas
  <2>4. Resolve(cat, x.entity, x.type) = Item(b, cat) /\ Resolve(cat, y.entity, y.type) = Item(a, cat)
    BY <1>1, <2>1, LayerHas, GroundFound DEF Item
  <2> HIDE DEF x, y
  <2> QED
    BY <2>2, <2>3, <2>4, DistanceEssence
<1> QED
  BY <1>5, <1>6, <1>7 DEF PlanOf

-----------------------------------------------------------------------------
(* Within so far of what is checked. *)
Lives(label) == "residence" \in label.says

NearRoles == {"neighbors", "schools", "kindergartens"}

(* Everything that x is has something that y is within n metres. *)
Reaching(p, cat, x, y, n) ==
    /\ p.template = "presence_within" /\ p.params.distance = n /\ p.params.minimum = 1
    /\ Item(x, cat) # None /\ Item(y, cat) # None
    /\ \E u, w : /\ p.layers = <<u, w>> /\ u.role = "objects" /\ w.role \in NearRoles
                  /\ Resolve(cat, u.entity, u.type) = Item(x, cat)
                  /\ Resolve(cat, w.entity, w.type) = Item(y, cat)

LEMMA ReachEssence ==
    ASSUME NEW p, NEW cat, NEW x, NEW y, NEW n, Reaching(p, cat, x, y, n)
    PROVE  Essence(p, cat) = EssenceOfTwo("presence_within", Item(x, cat), Item(y, cat), <<n, 1>>)
<1>1. PICK u, w : /\ p.layers = <<u, w>> /\ u.role = "objects" /\ w.role \in NearRoles
                  /\ Resolve(cat, u.entity, u.type) = Item(x, cat)
                  /\ Resolve(cat, w.entity, w.type) = Item(y, cat)
  BY DEF Reaching
<1>2. u.role \in CheckedRoles /\ w.role \notin CheckedRoles
  BY <1>1 DEF CheckedRoles, NearRoles
<1>3. p.template = "presence_within" /\ Essence(p, cat).demand = <<n, 1>>
  BY DemandOf DEF Reaching
<1> QED
  BY <1>1, <1>2, <1>3, EssenceIs, Zenon

(* If one side are dwellings, what is checked is. *)
LEMMA ReachDwells ==
    ASSUME NEW p, NEW cat, NEW x, NEW y, NEW n, Reaching(p, cat, x, y, n),
           LabelFits(x, cat), LabelFits(y, cat), Lives(y) => Lives(x)
    PROVE  LET dwells(l) == Resolve(cat, l.entity, l.type)[1].name \in Residences
           IN (\E l \in ToSet(p.layers) : l.role \in NearRoles /\ dwells(l)) =>
                  \E l \in ToSet(p.layers) : l.role = "objects" /\ dwells(l)
<1>1. PICK u, w : /\ p.layers = <<u, w>> /\ u.role = "objects" /\ w.role \in NearRoles
                  /\ Resolve(cat, u.entity, u.type) = Item(x, cat)
                  /\ Resolve(cat, w.entity, w.type) = Item(y, cat)
  BY DEF Reaching
<1>2. ToSet(p.layers) = {u, w} /\ u.role \notin NearRoles
  BY <1>1, TwoLayers DEF CheckedRoles, NearRoles
<1>3. /\ Item(x, cat)[1].name \in Residences <=> Lives(x)
      /\ Item(y, cat)[1].name \in Residences <=> Lives(y)
  BY DEF Reaching, LabelFits, Item, Lives
<1> QED
  BY <1>1, <1>2, <1>3

(* What is known of a sentence on how far something may be. *)
LEMMA PresenceSentence ==
    ASSUME NEW q, IsSentence(q), q.clause.form = "presence"
    PROVE  LET c == q.clause
               ex == q.triple
               v == ex.value[1]
               s == q.spec
               cat == q.catalog
           IN /\ cat \in Seq(Entry) /\ NamesDiffer(cat)
              /\ IsReading(s) /\ s.unconditional /\ s.variants = << >> /\ s.housing = {}
              /\ s.quote.ranges = << >> /\ "accessibility" \notin q.source.says
              /\ LabelFits(ex.subject, cat) /\ LabelFits(ex.object, cat)
              /\ c.count = 1 /\ v.operator \in {"<", "<="} /\ v.unit \in DOMAIN LengthScale
              /\ c.unit = v.unit /\ c.amount = Number(q) /\ s.template = "max_distance"
              /\ \E t \in {<<ex.subject, ex.object>>, <<ex.object, ex.subject>>} :
                    s.checked = Some(Mentioned(t[1])) /\ s.other = Some(Mentioned(t[2]))
              /\ WordsOf(c) \subseteq DOMAIN Inflected =>
                    \E t \in {<<ex.subject, ex.object>>, <<ex.object, ex.subject>>} :
                       "house" \in t[1].says /\ c.neighbors = t[2].name
              /\ Numbered(ex) /\ Lengthy(ex) /\ v.number[1] = Number(q)
              /\ s.value = Some(Number(q)) /\ s.unit = v.unit /\ s.unit # "places"
<1>1. /\ q.catalog \in Seq(Entry) /\ NamesDiffer(q.catalog)
      /\ IsReading(q.spec) /\ q.spec.unconditional /\ q.spec.variants = << >> /\ q.spec.housing = {}
      /\ q.spec.quote.ranges = << >> /\ "accessibility" \notin q.source.says
      /\ LabelFits(q.triple.subject, q.catalog) /\ LabelFits(q.triple.object, q.catalog)
  BY DEF IsSentence, SaysOneNorm
<1>2. LET c == q.clause
          ex == q.triple
          v == ex.value[1]
          s == q.spec
      IN /\ c.count = 1 /\ v.operator \in {"<", "<="} /\ v.unit \in DOMAIN LengthScale
         /\ c.unit = v.unit /\ c.amount = Number(q) /\ s.template = "max_distance"
         /\ \E t \in {<<ex.subject, ex.object>>, <<ex.object, ex.subject>>} :
               s.checked = Some(Mentioned(t[1])) /\ s.other = Some(Mentioned(t[2]))
         /\ WordsOf(c) \subseteq DOMAIN Inflected =>
               \E t \in {<<ex.subject, ex.object>>, <<ex.object, ex.subject>>} :
                  "house" \in t[1].says /\ c.neighbors = t[2].name
  BY DEF IsSentence, SaysOneNorm, Number
<1>3. LET ex == q.triple
          v == ex.value[1]
      IN /\ Numbered(ex) /\ Lengthy(ex) /\ v.number[1] = Number(q)
         /\ q.spec.value = Some(Number(q)) /\ q.spec.unit = v.unit
  BY <1>2, SentenceNumber, SomeOrNone
<1>4. q.spec.unit # "places"
  BY <1>2, <1>3 DEF LengthScale
<1> QED
  BY <1>1, <1>2, <1>3, <1>4

LEMMA GrammarReaches ==
    ASSUME NEW q, IsSentence(q), q.clause.form = "presence", NEW p, OfGrammar(q, p)
    PROVE  \E t \in {<<q.triple.subject, q.triple.object>>, <<q.triple.object, q.triple.subject>>} :
              Lives(t[1]) /\ Reaching(p, q.catalog, t[1], t[2], Length(q))
                         /\ (Lives(t[2]) => Item(t[2], q.catalog) = Item(t[1], q.catalog))
<1> DEFINE cat == q.catalog
           c == q.clause
           ex == q.triple
<1>1. /\ WordsOf(c) = {c.neighbors, c.contour} /\ WordsOf(c) \subseteq DOMAIN Inflected
      /\ CompileRule(c) = PresenceRule(c) /\ CompileRule(c) # None /\ p = CompileRule(c)[1]
  BY DEF OfGrammar, CompileRule, WordsOf
<1>2. PICK t \in {<<ex.subject, ex.object>>, <<ex.object, ex.subject>>} :
              "house" \in t[1].says /\ c.neighbors = t[2].name
  BY <1>1, PresenceSentence
<1>3. LabelFits(t[1], cat) /\ LabelFits(t[2], cat)
  BY <1>2, PresenceSentence
<1>4. /\ Lives(t[1]) /\ Item(t[1], cat) # None /\ Item(t[1], cat) = Resolve(cat, House, "physical_object")
  BY <1>2, <1>3 DEF LabelFits, Item, Lives
<1>5. t[2].name \in DOMAIN Inflected
  BY <1>1, <1>2
<1>6. LET w == Inflected[t[2].name]
      IN Item(t[2], cat) # None /\ Resolve(cat, w.name, w.type) = Item(t[2], cat)
  BY <1>3, <1>5, WordFits
<1>7. Lives(t[2]) => Item(t[2], cat) = Item(t[1], cat)
  BY <1>3, <1>4, <1>5 DEF LabelFits, Item, Lives
<1> DEFINE u == Layer("objects", [name |-> House, type |-> "physical_object"])
           w == Place("neighbors", c.neighbors)
           params == [neighbors |-> <<"neighbors">>, distance |-> c.amount * LengthScale[c.unit],
                      minimum |-> c.count]
<1>8. /\ p.template = "presence_within" /\ p.params = params /\ p.layers = <<u, w>>
  <2>1. PresenceRule(c) = Ruled("presence_within", params, <<u, w>>, << >>)
    BY <1>1 DEF PresenceRule
  <2> HIDE DEF params, u, w
  <2> QED
    BY <1>1, <2>1, RuledIs
<1>9. params.distance = Length(q) /\ params.minimum = 1
  BY PresenceSentence DEF Length
<1>10. /\ u.role = "objects" /\ w.role \in NearRoles
       /\ Resolve(cat, u.entity, u.type) = Item(t[1], cat) /\ Resolve(cat, w.entity, w.type) = Item(t[2], cat)
  BY <1>2, <1>4, <1>6, LayerHas DEF Place, NearRoles
<1> HIDE DEF params, u, w
<1>11. Reaching(p, cat, t[1], t[2], Length(q))
  BY <1>4, <1>6, <1>8, <1>9, <1>10 DEF Reaching
<1> QED
  BY <1>4, <1>7, <1>11

(* A sequence of one after another. *)
LEMMA Joined == \A x, y : <<x>> \o <<y>> = <<x, y>>
<1> TAKE x, y
<1> DEFINE S == {x, y}
           s == <<x>>
           t == <<y>>
           st == s \o t
           r == <<x, y>>
<1>1. \A v, w \in Seq(S) : /\ v \o w \in Seq(S) /\ Len(v \o w) = Len(v) + Len(w)
                           /\ \A i \in 1..Len(v \o w) :
                                 (v \o w)[i] = IF i <= Len(v) THEN v[i] ELSE w[i - Len(v)]
  OBVIOUS
<1>2. \A v, w \in Seq(S) : Len(v) = Len(w) /\ (\A i \in 1..Len(v) : v[i] = w[i]) => v = w
  OBVIOUS
<1>3. /\ s \in Seq(S) /\ t \in Seq(S) /\ r \in Seq(S)
      /\ Len(s) = 1 /\ Len(t) = 1 /\ Len(r) = 2
  OBVIOUS
<1>4. 1 + 1 = 2 /\ 2 - 1 = 1 /\ 1 \in 1..2 /\ 2 \in 1..2 /\ \A i \in 1..2 : i = 1 \/ i = 2
  OBVIOUS
<1>5. st \in Seq(S) /\ Len(st) = 2
  <2> HIDE DEF s, t, S
  <2> QED
    BY <1>1, <1>3, <1>4
<1>6. st[1] = x /\ st[2] = y
  <2>1. \A i \in 1..2 : st[i] = IF i <= 1 THEN s[i] ELSE t[i - 1]
    BY <1>1, <1>3, <1>5
  <2>2. s[1] = x /\ t[1] = y
    OBVIOUS
  <2> HIDE DEF s, t, S, st
  <2> QED
    BY <2>1, <2>2
<1>7. \A i \in 1..2 : st[i] = r[i]
  <2> HIDE DEF st
  <2> QED
    BY <1>4, <1>6
<1>8. st = r
  <2> HIDE DEF S, st, r
  <2> QED
    BY <1>2, <1>3, <1>5, <1>7
<1> QED
  BY <1>8

(* The schools and nurseries of a triple, one of them, for the houses it names. *)
LEMMA EducationIs ==
    ASSUME NEW ex, NEW cat, LabelFits(ex.subject, cat), LabelFits(ex.object, cat),
           EducationLayers(ex) # << >>
    PROVE  /\ "house" \in ex.object.says /\ Lives(ex.object) /\ ~Lives(ex.subject)
           /\ Item(ex.object, cat) # None
           /\ Item(ex.object, cat) = Resolve(cat, House, "physical_object")
           /\ \E w : /\ EducationLayers(ex) = <<w>> /\ w.role \in NearRoles
                     /\ Item(ex.subject, cat) # None
                     /\ Resolve(cat, w.entity, w.type) = Item(ex.subject, cat)
<1> DEFINE a == ex.subject
           b == ex.object
           service(role, name) == Layer(role, [name |-> name, type |-> "service"])
           nursery == service("kindergartens", Kindergarten)
           school == service("schools", School)
<1>1. "house" \in b.says
  BY DEF EducationLayers
<1>2. Lives(b) /\ Item(b, cat) # None /\ Item(b, cat) = Resolve(cat, House, "physical_object")
  BY <1>1 DEF LabelFits, Item, Lives
<1>3. /\ nursery.role \in NearRoles /\ nursery.entity = Kindergarten /\ nursery.type = "service"
      /\ school.role \in NearRoles /\ school.entity = School /\ school.type = "service"
  BY LayerHas DEF NearRoles
<1>4. "kindergarten" \in a.says =>
         Item(a, cat) # None /\ Resolve(cat, Kindergarten, "service") = Item(a, cat)
  BY DEF LabelFits, Item
<1>5. "school" \in a.says =>
         Item(a, cat) # None /\ Resolve(cat, School, "service") = Item(a, cat)
  BY DEF LabelFits, Item
<1>6. \A u, w \in a.says \cap {"residence", "kindergarten", "school"} : u = w
  BY DEF LabelFits
<1> HIDE DEF nursery, school
<1>7. EducationLayers(ex) = (IF "kindergarten" \in a.says THEN <<nursery>> ELSE << >>)
                            \o (IF "school" \in a.says THEN <<school>> ELSE << >>)
  BY <1>1 DEF EducationLayers, nursery, school
<1>8. \A x : <<x>> \o << >> = <<x>> /\ << >> \o <<x>> = <<x>>
  OBVIOUS
<1>9. << >> \o << >> = << >>
  OBVIOUS
<1>10. CASE "kindergarten" \in a.says
  <2>1. "school" \notin a.says /\ ~Lives(a)
    BY <1>6, <1>10 DEF Lives
  <2>2. EducationLayers(ex) = <<nursery>>
    BY <1>7, <1>8, <1>10, <2>1
  <2> QED
    BY <1>1, <1>2, <1>3, <1>4, <1>10, <2>1, <2>2
<1>11. CASE "kindergarten" \notin a.says
  <2>1. "school" \in a.says
    BY <1>7, <1>9, <1>11
  <2>2. ~Lives(a)
    BY <1>6, <2>1 DEF Lives
  <2>3. EducationLayers(ex) = <<school>>
    BY <1>7, <1>8, <1>11, <2>1
  <2> QED
    BY <1>1, <1>2, <1>3, <1>5, <2>1, <2>2, <2>3
<1> QED
  BY <1>10, <1>11

(* A triple on how far something may be has a plan only if one side of it are dwellings. *)
LEMMA TripleReaches ==
    ASSUME NEW q, IsSentence(q), q.clause.form = "presence", NEW p, OfTriple(q, p)
    PROVE  \E t \in {<<q.triple.subject, q.triple.object>>, <<q.triple.object, q.triple.subject>>} :
              Lives(t[1]) /\ ~Lives(t[2]) /\ Reaching(p, q.catalog, t[1], t[2], Length(q))
<1> DEFINE cat == q.catalog
           ex == q.triple
           a == ex.subject
           b == ex.object
           v == ex.value[1]
           d == Length(q)
           education == EducationLayers(ex)
           sides == CheckedSide(ex)
<1>1. /\ Deterministic(ex).plan # None /\ p = Deterministic(ex).plan[1] /\ Deterministic(ex).reasons = {}
      /\ \A l \in ToSet(p.layers) : Resolve(cat, l.entity, l.type) # None
  BY GroundedIs DEF OfTriple
<1>2. /\ LabelFits(a, cat) /\ LabelFits(b, cat) /\ v.operator \in {"<", "<="}
      /\ Numbered(ex) /\ Lengthy(ex) /\ v.number[1] = Number(q)
  BY PresenceSentence
<1>3. Deterministic(ex) = WithinReach(ex, d)
  <2>1. \A reasons : Refused(reasons).plan = None
    BY DEF Refused
  <2>2. v.number[1] * LengthScale[v.unit] = d
    BY <1>2 DEF Length
  <2> QED
    BY <1>1, <1>2, <2>1, <2>2 DEF Deterministic
<1> DEFINE side == IF sides = None THEN <<b, a>> ELSE sides[1]
           u == IF education # << >> THEN Layer("objects", [name |-> House, type |-> "physical_object"])
                ELSE Labelled("objects", side[1])
           near == IF education # << >> THEN education ELSE <<Labelled("neighbors", side[2])>>
           params == [neighbors |-> [i \in DOMAIN near |-> near[i].role], distance |-> d, minimum |-> 1]
           why == If("checked_entity_not_verified", education = << >> /\ sides = None)
<1>4. /\ p.template = "presence_within" /\ p.params = params /\ p.layers = <<u>> \o near
      /\ Deterministic(ex).reasons = why
  <2>1. WithinReach(ex, d) = Tried("presence_within", params, <<u>> \o near, why)
    BY DEF WithinReach
  <2> DEFINE layers == <<u>> \o near
  <2> HIDE DEF params, u, near, why, layers
  <2>2. /\ Deterministic(ex) = Tried("presence_within", params, layers, why)
        /\ Tried("presence_within", params, layers, why).plan # None
    BY <1>1, <1>3, <2>1 DEF layers
  <2>3. LET made == Tried("presence_within", params, layers, why)
        IN /\ made.plan = Some(made.plan[1]) /\ made.reasons = why
           /\ made.plan[1].template = "presence_within" /\ made.plan[1].params = params
           /\ made.plan[1].layers = layers
    BY <2>2, TriedIs
  <2> QED
    BY <1>1, <2>2, <2>3 DEF layers
<1>5. params.distance = d /\ params.minimum = 1
  OBVIOUS
<1>6. ~ (education = << >> /\ sides = None)
  BY <1>1, <1>4 DEF If
<1>7. ASSUME NEW x, NEW y, NEW w, near = <<w>>, u.role = "objects", w.role \in NearRoles,
             Resolve(cat, u.entity, u.type) # None => Resolve(cat, u.entity, u.type) = Item(x, cat),
             Resolve(cat, w.entity, w.type) # None => Resolve(cat, w.entity, w.type) = Item(y, cat)
      PROVE  Reaching(p, cat, x, y, d)
  <2> HIDE DEF u, near, params
  <2>1. p.layers = <<u, w>>
    BY <1>4, <1>7, Joined, Zenon
  <2>2. ToSet(p.layers) = {u, w}
    BY <1>7, <2>1, TwoLayers DEF CheckedRoles, NearRoles
  <2> QED
    BY <1>1, <1>4, <1>5, <1>7, <2>1, <2>2 DEF Reaching
<1> HIDE DEF params
<1>8. CASE education # << >>
  <2>1. /\ Lives(b) /\ ~Lives(a) /\ Item(b, cat) = Resolve(cat, House, "physical_object")
        /\ \E w : /\ education = <<w>> /\ w.role \in NearRoles
                  /\ Resolve(cat, w.entity, w.type) = Item(a, cat)
    BY <1>2, <1>8, EducationIs
  <2>2. PICK w : /\ education = <<w>> /\ w.role \in NearRoles
                 /\ Resolve(cat, w.entity, w.type) = Item(a, cat)
    BY <2>1
  <2>3. /\ near = <<w>> /\ u.role = "objects"
        /\ Resolve(cat, u.entity, u.type) = Item(b, cat)
    BY <1>8, <2>1, <2>2, LayerHas
  <2> HIDE DEF u, near
  <2>4. Reaching(p, cat, b, a, d)
    BY <1>7, <2>2, <2>3
  <2> QED
    BY <2>1, <2>4
<1>9. CASE education = << >>
  <2>1. PICK t \in {<<a, b>>, <<b, a>>} : Lives(t[1]) /\ ~Lives(t[2]) /\ side = t
    <3>1. sides # None
      BY <1>6, <1>9
    <3> QED
      BY <3>1, SomeOrNone DEF CheckedSide, Lives
  <2> DEFINE w == Labelled("neighbors", t[2])
  <2>2. u = Labelled("objects", t[1]) /\ near = <<w>>
    BY <1>9, <2>1
  <2>3. /\ u.role = "objects" /\ w.role \in NearRoles
        /\ Resolve(cat, u.entity, u.type) # None => Resolve(cat, u.entity, u.type) = Item(t[1], cat)
        /\ Resolve(cat, w.entity, w.type) # None => Resolve(cat, w.entity, w.type) = Item(t[2], cat)
    BY <2>2, LabelledIs DEF NearRoles
  <2> HIDE DEF u, near, w
  <2>4. Reaching(p, cat, t[1], t[2], d)
    BY <1>7, <2>2, <2>3
  <2> QED
    BY <2>1, <2>4
<1> QED
  BY <1>8, <1>9

(* A reading on how far something may be: of dwellings and something else, the dwellings are *)
(* checked, and the sides differ.                                                             *)
LEMMA ReadingReaches ==
    ASSUME NEW q, IsSentence(q), q.clause.form = "presence", NEW p, OfReading(q, p)
    PROVE  \E t \in {<<q.triple.subject, q.triple.object>>, <<q.triple.object, q.triple.subject>>} :
              /\ Lives(t[2]) => Lives(t[1])
              /\ Reaching(p, q.catalog, t[1], t[2], Length(q))
              /\ Item(t[1], q.catalog) # Item(t[2], q.catalog)
<1> DEFINE cat == q.catalog
           ex == q.triple
           s == q.spec
           both == {<<ex.subject, ex.object>>, <<ex.object, ex.subject>>}
           d == Length(q)
<1>1. PICK r \in both : s.checked = Some(Mentioned(r[1])) /\ s.other = Some(Mentioned(r[2]))
  BY PresenceSentence
<1>2. LabelFits(r[1], cat) /\ LabelFits(r[2], cat)
  BY PresenceSentence
<1>3. Compile(s, q.source, {}, cat).plan # None /\ p = Compile(s, q.source, {}, cat).plan[1]
  BY DEF OfReading
<1>4. TwoSided(s, q.source, cat, Mentioned(r[1]), Mentioned(r[2])) /\ s.template = "max_distance"
  BY <1>1, <1>3, PresenceSentence DEF TwoSided
<1>5. /\ Lives(r[1]) <=> Mentioned(r[1]).name \in Residences
      /\ Lives(r[2]) <=> Mentioned(r[2]).name \in Residences
  BY <1>2 DEF LabelFits, Lives, Mentioned
<1>6. PICK t \in both : /\ Lives(t[2]) => Lives(t[1])
                        /\ BuiltOf(s, q.source, cat, Item(t[1], cat), Item(t[2], cat))
  <2>1. CASE Lives(r[2]) /\ ~Lives(r[1])
    <3>1. BuiltOf(s, q.source, cat, Item(r[2], cat), Item(r[1], cat))
      BY <1>4, <1>5, <2>1, SidesSwapped DEF Item
    <3> DEFINE t == <<r[2], r[1]>>
    <3>2. t \in both /\ t[1] = r[2] /\ t[2] = r[1]
      OBVIOUS
    <3> HIDE DEF t, both
    <3> QED
      BY <2>1, <3>1, <3>2
  <2>2. CASE ~ (Lives(r[2]) /\ ~Lives(r[1]))
    <3>1. BuiltOf(s, q.source, cat, Item(r[1], cat), Item(r[2], cat))
      BY <1>4, <1>5, <2>2, SidesKept DEF Item
    <3> QED
      BY <2>2, <3>1
  <2> QED
    BY <2>1, <2>2
<1> DEFINE checked == Item(t[1], cat)
           other == Item(t[2], cat)
           built == Build(Sided(s), checked, other, s.unit)
           u == Layer("objects", checked[1])
           w == Layer("neighbors", other[1])
<1>7. /\ built.reasons = {} /\ p.template = built.template /\ p.params = built.params
      /\ p.layers = built.layers /\ checked # None /\ other # None /\ checked # other
      /\ Sided(s).template = "max_distance" /\ Sided(s).value = Some(Number(q))
      /\ Sided(s).unit = ex.value[1].unit
  BY <1>3, <1>4, <1>6, PresenceSentence DEF BuiltOf
<1>8. /\ p.template = "presence_within" /\ p.layers = <<u, w>>
      /\ p.params.distance = d /\ p.params.minimum = 1
  <2>1. built = MaxDistanceOf(Sided(s), checked[1], other[1])
    BY <1>7 DEF Build
  <2>2. Distance(Sided(s).unit, Sided(s).value[1]).m = d
    <3>1. ex.value[1].unit \in DOMAIN LengthScale
      BY PresenceSentence
    <3>2. Sided(s).value[1] = Number(q)
      BY <1>7, SomeOrNone
    <3>3. Distance(ex.value[1].unit, Number(q)).m = d
      BY <3>1 DEF Distance, Length
    <3> QED
      BY <1>7, <3>2, <3>3
  <2> DEFINE params == [neighbors |-> <<"neighbors">>, distance |-> d, minimum |-> 1]
  <2>3. built = Built("presence_within", params, <<u, w>>, << >>, Some(d))
    <3> DEFINE read == Sided(s)
               first == checked[1]
               second == other[1]
               n == Distance(read.unit, read.value[1]).m
    <3>1. MaxDistanceOf(read, first, second).reasons = {}
      BY <1>7, <2>1
    <3> HIDE DEF read, first, second
    <3>2. MaxDistanceOf(read, first, second)
              = Built("presence_within",
                      [neighbors |-> <<"neighbors">>, distance |-> n, minimum |-> 1],
                      <<Layer("objects", first), Layer("neighbors", second)>>, << >>, Some(n))
      BY <3>1, GreatestBuilt
    <3>3. n = d
      BY <2>2 DEF read
    <3> HIDE DEF n
    <3> QED
      BY <2>1, <3>2, <3>3 DEF read, first, second
  <2>4. params.distance = d /\ params.minimum = 1
    OBVIOUS
  <2> HIDE DEF params
  <2> QED
    BY <1>7, <2>3, <2>4 DEF Built
<1>9. /\ u.role = "objects" /\ w.role \in NearRoles
      /\ Resolve(cat, u.entity, u.type) = checked /\ Resolve(cat, w.entity, w.type) = other
  <2>1. cat \in Seq(Entry) /\ NamesDiffer(cat)
    BY PresenceSentence
  <2>2. /\ u.role = "objects" /\ u.entity = checked[1].name /\ u.type = checked[1].type
        /\ w.role = "neighbors" /\ w.entity = other[1].name /\ w.type = other[1].type
    BY LayerHas
  <2>3. ASSUME NEW label, Item(label, cat) # None
        PROVE  Resolve(cat, Item(label, cat)[1].name, Item(label, cat)[1].type) = Item(label, cat)
    BY <2>1, <2>3, GroundFound DEF Item
  <2>4. /\ Resolve(cat, checked[1].name, checked[1].type) = checked
        /\ Resolve(cat, other[1].name, other[1].type) = other
    BY <1>7, <2>3
  <2> HIDE DEF u, w, checked, other
  <2> QED
    BY <2>2, <2>4 DEF NearRoles
<1> HIDE DEF u, w
<1>10. Reaching(p, cat, t[1], t[2], d)
  BY <1>7, <1>8, <1>9 DEF Reaching
<1> QED
  BY <1>6, <1>7, <1>10

(* Whichever way the plan was made: what is checked is one side, and the dwellings if one side is. *)
LEMMA PresenceReaches ==
    ASSUME NEW q, IsSentence(q), q.clause.form = "presence", NEW p, PlanOf(q, p)
    PROVE  \E t \in {<<q.triple.subject, q.triple.object>>, <<q.triple.object, q.triple.subject>>} :
              (Lives(t[2]) => Lives(t[1])) /\ Reaching(p, q.catalog, t[1], t[2], Length(q))
<1>1. CASE OfGrammar(q, p)
  BY <1>1, GrammarReaches
<1>2. CASE OfTriple(q, p)
  BY <1>2, TripleReaches
<1>3. CASE OfReading(q, p)
  BY <1>3, ReadingReaches
<1> QED
  BY <1>1, <1>2, <1>3 DEF PlanOf

(* Within so far of one thing, another. *)
LEMMA PresenceOneWay ==
    ASSUME NEW q, IsSentence(q), q.clause.form = "presence", NEW p, PlanOf(q, p), NEW r, PlanOf(q, r)
    PROVE  Essence(p, q.catalog) = Essence(r, q.catalog)
<1> DEFINE cat == q.catalog
           a == q.triple.subject
           b == q.triple.object
           both == {<<a, b>>, <<b, a>>}
           d == Length(q)
<1>0. \A x, y : Reaching(p, cat, x, y, d) /\ Reaching(r, cat, x, y, d) => Essence(p, cat) = Essence(r, cat)
  <2> TAKE x, y
  <2> HAVE Reaching(p, cat, x, y, d) /\ Reaching(r, cat, x, y, d)
  <2> DEFINE e == EssenceOfTwo("presence_within", Item(x, cat), Item(y, cat), <<d, 1>>)
  <2>1. Essence(p, cat) = e
    BY ReachEssence
  <2>2. Essence(r, cat) = e
    BY ReachEssence
  <2> QED
    BY <2>1, <2>2
<1>1. CASE ~ (Lives(a) <=> Lives(b))
  <2>1. PICK t \in both : (Lives(t[2]) => Lives(t[1])) /\ Reaching(p, cat, t[1], t[2], d)
    BY PresenceReaches
  <2>2. PICK u \in both : (Lives(u[2]) => Lives(u[1])) /\ Reaching(r, cat, u[1], u[2], d)
    BY PresenceReaches
  <2>3. CASE Lives(a) /\ ~Lives(b)
    <3>1. t[1] = a /\ t[2] = b /\ u[1] = a /\ u[2] = b
      BY <2>1, <2>2, <2>3
    <3>2. Reaching(p, cat, a, b, d) /\ Reaching(r, cat, a, b, d)
      BY <2>1, <2>2, <3>1
    <3> QED
      BY <1>0, <3>2
  <2>4. CASE Lives(b) /\ ~Lives(a)
    <3>1. t[1] = b /\ t[2] = a /\ u[1] = b /\ u[2] = a
      BY <2>1, <2>2, <2>4
    <3>2. Reaching(p, cat, b, a, d) /\ Reaching(r, cat, b, a, d)
      BY <2>1, <2>2, <3>1
    <3> QED
      BY <1>0, <3>2
  <2> QED
    BY <1>1, <2>3, <2>4
<1>2. CASE Lives(a) <=> Lives(b)
  <2>1. ~OfTriple(q, p) /\ ~OfTriple(q, r)
    BY <1>2, TripleReaches
  <2>2. ASSUME NEW x, NEW y, OfGrammar(q, x), OfReading(q, y)
        PROVE  FALSE
    <3>1. PICK t \in both : Lives(t[1]) /\ (Lives(t[2]) => Item(t[2], cat) = Item(t[1], cat))
      BY <2>2, GrammarReaches
    <3>2. PICK u \in both : Item(u[1], cat) # Item(u[2], cat)
      BY <2>2, ReadingReaches
    <3> QED
      BY <1>2, <3>1, <3>2
  <2>3. p = r
    BY <2>1, <2>2 DEF PlanOf, OfGrammar, OfReading
  <2> QED
    BY <2>3
<1> QED
  BY <1>1, <1>2

-----------------------------------------------------------------------------
(* So much of a zone, and so many floors in one. *)
AllOfThem == [name |-> AllZones, type |-> "functional_zone"]

(* What lies in the zones of a plan of one of these kinds. *)
Zonal(p, cat, x, operator, n) ==
    /\ p.params.operator = operator /\ p.params.threshold = Some(n)
    /\ \E u, w : /\ p.layers \in {<<u, w>>, <<w, u>>} /\ u.role \in {"objects", "numerator"} /\ w.role = "zones"
                  /\ Resolve(cat, u.entity, u.type) = Item(x, cat)
                  /\ Resolve(cat, w.entity, w.type) = Resolve(cat, AllZones, "functional_zone")

LEMMA ZonalEssence ==
    ASSUME NEW p, NEW cat, NEW x, NEW operator, NEW n, Zonal(p, cat, x, operator, n),
           p.template \in {"zonal_ratio", "zonal_attribute_threshold"}
    PROVE  Essence(p, cat) = EssenceOfTwo(p.template, Item(x, cat), Resolve(cat, AllZones, "functional_zone"),
                                          <<operator, Some(n)>>)
<1>1. PICK u, w : /\ p.layers = <<u, w>> \/ p.layers = <<w, u>>
                  /\ u.role \in {"objects", "numerator"} /\ w.role = "zones"
                  /\ Resolve(cat, u.entity, u.type) = Item(x, cat)
                  /\ Resolve(cat, w.entity, w.type) = Resolve(cat, AllZones, "functional_zone")
  BY DEF Zonal
<1>2. u.role \in CheckedRoles /\ w.role \notin CheckedRoles
  BY <1>1 DEF CheckedRoles
<1>3. Essence(p, cat).demand = <<operator, Some(n)>>
  BY DemandOf DEF Zonal
<1> QED
  BY <1>1, <1>2, <1>3, EssenceIs, Zenon

(* The types of zones: what stands for all of them is one and found as such. *)
LEMMA ZonesGrounded ==
    ASSUME NEW cat \in Seq(Entry), NamesDiffer(cat), Ground(AllOfThem, cat) # None
    PROVE  LET e == Ground(AllOfThem, cat)[1]
           IN Resolve(cat, e.name, e.type) = Resolve(cat, AllZones, "functional_zone")
<1>1. Ground(AllOfThem, cat) = Resolve(cat, AllZones, "functional_zone")
  BY DEF Ground, AllOfThem, None
<1> QED
  BY <1>1, GroundFound

LEMMA ZonedHas == \A role : /\ Zoned(role).role = role /\ Zoned(role).entity = AllZones
                            /\ Zoned(role).type = "functional_zone"
BY LayerHas DEF Zoned

(* What is known of a sentence on a share of the zones, or on floors in them. *)
LEMMA ZonalSentence ==
    ASSUME NEW q, IsSentence(q), q.clause.form \in {"share", "floors"}
    PROVE  LET c == q.clause
               ex == q.triple
               v == ex.value[1]
               s == q.spec
               cat == q.catalog
           IN /\ cat \in Seq(Entry) /\ NamesDiffer(cat)
              /\ IsReading(s) /\ s.unconditional /\ s.variants = << >> /\ s.housing = {}
              /\ s.quote.ranges = << >> /\ "accessibility" \notin q.source.says
              /\ LabelFits(ex.object, cat)
              /\ c.objects = ex.object.name /\ c.threshold = Number(q)
              /\ v.operator = "<=" /\ s.operator = "<=" /\ s.unit = v.unit
              /\ v.unit = (IF c.form = "share" THEN "percent" ELSE "floors")
              /\ s.template = (IF c.form = "share" THEN "zone_share" ELSE "zone_attribute_limit")
              /\ c.form = "share" => \A parts \in ToSet(AreaRatio(ex)) :
                                        parts[1] = ex.object /\ parts[2].name = AllZones
              /\ c.form = "floors" => s.attribute = Some("floors")
              /\ s.checked = Some(Mentioned(ex.object)) /\ s.other = Some(AllOfThem)
              /\ Numbered(ex) /\ ~Lengthy(ex) /\ (Relative(ex) <=> c.form = "share")
              /\ v.number = Some(Number(q)) /\ s.value = Some(Number(q)) /\ Number(q) \in Int
<1>1. /\ q.catalog \in Seq(Entry) /\ NamesDiffer(q.catalog)
      /\ IsReading(q.spec) /\ q.spec.unconditional /\ q.spec.variants = << >> /\ q.spec.housing = {}
      /\ q.spec.quote.ranges = << >> /\ "accessibility" \notin q.source.says
      /\ LabelFits(q.triple.object, q.catalog)
  BY DEF IsSentence, SaysOneNorm
<1>2. LET c == q.clause
          ex == q.triple
          v == ex.value[1]
          s == q.spec
      IN /\ c.objects = ex.object.name /\ c.threshold = Number(q)
         /\ v.operator = "<=" /\ s.operator = "<="
         /\ v.unit = (IF c.form = "share" THEN "percent" ELSE "floors")
         /\ s.template = (IF c.form = "share" THEN "zone_share" ELSE "zone_attribute_limit")
         /\ c.form = "share" => \A parts \in ToSet(AreaRatio(ex)) :
                                   parts[1] = ex.object /\ parts[2].name = AllZones
         /\ c.form = "floors" => s.attribute = Some("floors")
         /\ s.checked = Some(Mentioned(ex.object)) /\ s.other = Some(AllOfThem)
  BY DEF IsSentence, SaysOneNorm, Number, AllOfThem
<1>3. LET ex == q.triple
          v == ex.value[1]
      IN /\ Numbered(ex) /\ v.number = Some(Number(q)) /\ Number(q) \in Int
         /\ q.spec.value = Some(Number(q)) /\ q.spec.unit = v.unit
         /\ Lengthy(ex) <=> v.unit \in DOMAIN LengthScale
         /\ Relative(ex) <=> v.unit = "percent"
  BY SentenceNumber
<1>4. ~Lengthy(q.triple) /\ (Relative(q.triple) <=> q.clause.form = "share")
  BY <1>2, <1>3 DEF LengthScale
<1> QED
  BY <1>1, <1>2, <1>3, <1>4

(* What a rule of the grammar makes of a clause on zones. *)
LEMMA GrammarZonal ==
    ASSUME NEW q, IsSentence(q), q.clause.form \in {"share", "floors"}, NEW p, OfGrammar(q, p)
    PROVE  /\ p.template = IF q.clause.form = "share" THEN "zonal_ratio" ELSE "zonal_attribute_threshold"
           /\ Zonal(p, q.catalog, q.triple.object, "<=", Number(q))
           /\ q.clause.form = "floors" => p.params.join = JoinOf[q.clause.join]
<1> DEFINE cat == q.catalog
           c == q.clause
           b == q.triple.object
<1>1. /\ c.objects \in WordsOf(c) /\ WordsOf(c) \subseteq DOMAIN Inflected
      /\ CompileRule(c) = (IF c.form = "share" THEN ShareRule(c) ELSE FloorsRule(c))
      /\ CompileRule(c) # None /\ p = CompileRule(c)[1]
  BY DEF OfGrammar, CompileRule, WordsOf
<1>2. /\ LabelFits(b, cat) /\ c.objects = b.name /\ c.threshold = Number(q)
  BY ZonalSentence
<1>3. \A role : /\ Place(role, c.objects).role = role
                /\ Resolve(cat, Place(role, c.objects).entity, Place(role, c.objects).type) = Item(b, cat)
  BY <1>1, <1>2, WordFits, LayerHas DEF Place
<1>4. CASE c.form = "share"
  <2> DEFINE u == Place("numerator", c.objects)
             w == Zoned("zones")
             params == [operator |-> "<=", threshold |-> Some(c.threshold)]
  <2>1. ShareRule(c) = Ruled("zonal_ratio", params, <<w, u>>, << >>)
    BY <1>1, <1>4 DEF ShareRule
  <2>2. params.operator = "<=" /\ params.threshold = Some(Number(q))
    BY <1>2
  <2>3. /\ u.role = "numerator" /\ w.role = "zones"
        /\ Resolve(cat, u.entity, u.type) = Item(b, cat)
        /\ Resolve(cat, w.entity, w.type) = Resolve(cat, AllZones, "functional_zone")
    BY <1>3, ZonedHas
  <2> HIDE DEF params, u, w
  <2>4. p.template = "zonal_ratio" /\ p.params = params /\ p.layers = <<w, u>>
    BY <1>1, <1>4, <2>1, RuledIs
  <2> QED
    BY <1>4, <2>2, <2>3, <2>4 DEF Zonal
<1>5. CASE c.form = "floors"
  <2> DEFINE u == Place("objects", c.objects)
             w == Zoned("zones")
             params == [attribute_role |-> "floors", operator |-> "<=", threshold |-> Some(c.threshold),
                        threshold_role |-> None, join |-> JoinOf[c.join]]
             attributes == <<FloorsOf("objects")>>
  <2>1. FloorsRule(c) = Ruled("zonal_attribute_threshold", params, <<u, w>>, attributes)
    BY DEF FloorsRule
  <2>2. /\ params.operator = "<=" /\ params.threshold = Some(Number(q))
        /\ params.join = JoinOf[c.join]
    BY <1>2
  <2>3. /\ u.role = "objects" /\ w.role = "zones"
        /\ Resolve(cat, u.entity, u.type) = Item(b, cat)
        /\ Resolve(cat, w.entity, w.type) = Resolve(cat, AllZones, "functional_zone")
    BY <1>3, ZonedHas
  <2> HIDE DEF params, u, w, attributes
  <2>4. p.template = "zonal_attribute_threshold" /\ p.params = params /\ p.layers = <<u, w>>
    BY <1>1, <1>5, <2>1, RuledIs
  <2> QED
    BY <1>5, <2>2, <2>3, <2>4 DEF Zonal
<1> QED
  BY <1>4, <1>5

(* What is made of a triple on zones: a share, if it is said to be one. *)
LEMMA TripleZonal ==
    ASSUME NEW q, IsSentence(q), q.clause.form \in {"share", "floors"}, NEW p, OfTriple(q, p)
    PROVE  /\ q.clause.form = "share" /\ p.template = "zonal_ratio"
           /\ Zonal(p, q.catalog, q.triple.object, "<=", Number(q))
<1> DEFINE cat == q.catalog
           ex == q.triple
           b == ex.object
           v == ex.value[1]
           ratio == AreaRatio(ex)
           parts == ratio[1]
<1>1. /\ Deterministic(ex).plan # None /\ p = Deterministic(ex).plan[1]
      /\ \A l \in ToSet(p.layers) : Resolve(cat, l.entity, l.type) # None
  BY GroundedIs DEF OfTriple
<1>2. /\ Numbered(ex) /\ ~Lengthy(ex) /\ (Relative(ex) <=> q.clause.form = "share")
      /\ v.operator = "<=" /\ v.number = Some(Number(q))
  BY ZonalSentence
<1>3. q.clause.form = "share" /\ ratio # None /\ Deterministic(ex) = ShareOf(ex, parts)
  <2>1. \A reasons : Refused(reasons).plan = None
    BY DEF Refused
  <2> QED
    BY <1>1, <1>2, <2>1 DEF Deterministic
<1>4. parts[1] = b /\ parts[2].name = AllZones
  <2>1. ratio = Some(parts)
    BY <1>3, SomeOrNone DEF AreaRatio
  <2>2. parts \in ToSet(ratio)
    BY <2>1, SomeOrNone
  <2> QED
    BY <1>3, <2>2, ZonalSentence
<1> DEFINE u == Labelled("numerator", parts[1])
           w == Layer("zones", [name |-> parts[2].name, type |-> "functional_zone"])
           params == [operator |-> v.operator, threshold |-> v.number]
<1>5. ShareOf(ex, parts) = Tried("zonal_ratio", params, <<w, u>>, {})
  BY DEF ShareOf
<1>6. params.operator = "<=" /\ params.threshold = Some(Number(q))
  BY <1>2
<1>7. /\ u.role = "numerator" /\ w.role = "zones"
      /\ Resolve(cat, u.entity, u.type) # None => Resolve(cat, u.entity, u.type) = Item(b, cat)
      /\ Resolve(cat, w.entity, w.type) = Resolve(cat, AllZones, "functional_zone")
  BY <1>4, LabelledIs, LayerHas
<1> HIDE DEF params, u, w
<1>8. p.template = "zonal_ratio" /\ p.params = params /\ p.layers = <<w, u>>
  BY <1>1, <1>3, <1>5, TriedIs
<1>9. Resolve(cat, u.entity, u.type) = Item(b, cat)
  <2>1. u \in ToSet(p.layers)
    BY <1>7, <1>8, TwoLayers DEF CheckedRoles
  <2> QED
    BY <1>1, <1>7, <2>1
<1> QED
  BY <1>3, <1>6, <1>7, <1>8, <1>9 DEF Zonal

(* What is built of a reading on zones. *)
LEMMA ReadingZonal ==
    ASSUME NEW q, IsSentence(q), q.clause.form \in {"share", "floors"}, NEW p, OfReading(q, p)
    PROVE  /\ p.template = IF q.clause.form = "share" THEN "zonal_ratio" ELSE "zonal_attribute_threshold"
           /\ Zonal(p, q.catalog, q.triple.object, "<=", Number(q))
           /\ q.clause.form = "floors" => p.params.join = "intersects"
<1> DEFINE cat == q.catalog
           s == q.spec
           b == q.triple.object
           read == Sided(s)
           checked == Item(b, cat)
           other == Ground(AllOfThem, cat)
           built == Build(read, checked, other, s.unit)
<1>1. /\ cat \in Seq(Entry) /\ NamesDiffer(cat)
      /\ IsReading(s) /\ s.unconditional /\ s.variants = << >> /\ s.housing = {}
      /\ s.quote.ranges = << >> /\ "accessibility" \notin q.source.says
      /\ s.operator = "<=" /\ s.unit = (IF q.clause.form = "share" THEN "percent" ELSE "floors")
      /\ s.template = (IF q.clause.form = "share" THEN "zone_share" ELSE "zone_attribute_limit")
      /\ q.clause.form = "floors" => s.attribute = Some("floors")
      /\ s.checked = Some(Mentioned(b)) /\ s.other = Some(AllOfThem)
      /\ s.value = Some(Number(q)) /\ Number(q) \in Int
  BY ZonalSentence
<1>2. Compile(s, q.source, {}, cat).plan # None /\ p = Compile(s, q.source, {}, cat).plan[1]
  BY DEF OfReading
<1>3. TwoSided(s, q.source, cat, Mentioned(b), AllOfThem)
  BY <1>1, <1>2 DEF TwoSided
<1>4. BuiltOf(s, q.source, cat, checked, other)
  BY <1>1, <1>3, SidesKept DEF Item
<1>5. /\ built.reasons = {} /\ p.template = built.template /\ p.params = built.params
      /\ p.layers = built.layers /\ checked # None /\ other # None
      /\ read.template = s.template /\ read.value = Some(Number(q)) /\ read.unit = s.unit
      /\ read.operator = "<=" /\ read.attribute = s.attribute
  BY <1>1, <1>2, <1>4 DEF BuiltOf
<1> DEFINE w == Layer("zones", other[1])
<1>6. /\ w.role = "zones" /\ Resolve(cat, w.entity, w.type) = Resolve(cat, AllZones, "functional_zone")
  BY <1>1, <1>5, LayerHas, ZonesGrounded
<1>7. \A role : /\ Layer(role, checked[1]).role = role
                /\ Resolve(cat, Layer(role, checked[1]).entity, Layer(role, checked[1]).type) = Item(b, cat)
  BY <1>1, <1>5, LayerHas, GroundFound DEF Item
<1>8. \A reason : NotBuilt(reason).reasons # {}
  BY DEF NotBuilt
<1>9. CASE q.clause.form = "share"
  <2> DEFINE u == Layer("numerator", checked[1])
             params == [operator |-> read.operator, threshold |-> read.value]
  <2>1. built = ZoneShareOf(read, checked[1], other[1])
    BY <1>1, <1>5, <1>9 DEF Build
  <2> HIDE DEF read, checked, other
  <2>2. built = Built("zonal_ratio", params, <<w, u>>, << >>, None)
    BY <1>5, <1>8, <2>1 DEF ZoneShareOf
  <2>3. params.operator = "<=" /\ params.threshold = Some(Number(q)) /\ u.role = "numerator"
    BY <1>5, <1>7
  <2>4. Resolve(cat, u.entity, u.type) = Item(b, cat)
    BY <1>7
  <2> HIDE DEF params, u, w
  <2>5. p.template = "zonal_ratio" /\ p.params = params /\ p.layers = <<w, u>>
    BY <1>5, <2>2 DEF Built
  <2> QED
    BY <1>6, <1>9, <2>3, <2>4, <2>5 DEF Zonal
<1>10. CASE q.clause.form = "floors"
  <2> DEFINE u == Layer("objects", checked[1])
             params == [attribute_role |-> "attribute", operator |-> read.operator,
                        threshold |-> Some(Number(q)), threshold_role |-> None,
                        join |-> "intersects"]
             required == <<[role |-> "attribute", on |-> "objects", accepts |-> Candidates("floors")]>>
  <2>1. built = AttributeOf(read, checked[1], other)
    BY <1>1, <1>5, <1>8, <1>10 DEF Build
  <2> HIDE DEF read, checked, other
  <2>2. /\ read.attribute = Some("floors") /\ read.attribute[1] = "floors" /\ read.value[1] = Number(q)
        /\ read.unit = "floors" /\ ScaleOf("floors").floors = 1 /\ Number(q) * 1 = Number(q)
    BY <1>1, <1>5, <1>10, SomeOrNone DEF ScaleOf
  <2>3. built = Built("zonal_attribute_threshold", params, <<u, w>>, required, None)
    BY <1>5, <1>8, <2>1, <2>2 DEF AttributeOf
  <2>4. /\ params.operator = "<=" /\ params.threshold = Some(Number(q)) /\ u.role = "objects"
        /\ params.join = "intersects"
    BY <1>5, <1>7
  <2>5. Resolve(cat, u.entity, u.type) = Item(b, cat)
    BY <1>7
  <2> HIDE DEF params, u, w, required
  <2>6. p.template = "zonal_attribute_threshold" /\ p.params = params /\ p.layers = <<u, w>>
    BY <1>5, <2>3 DEF Built
  <2> QED
    BY <1>6, <1>10, <2>4, <2>5, <2>6 DEF Zonal
<1> QED
  BY <1>9, <1>10

(* A share of the zones, or the floors in them. *)
LEMMA ZonalOneWay ==
    ASSUME NEW q, IsSentence(q), q.clause.form \in {"share", "floors"}, NEW p, PlanOf(q, p)
    PROVE  LET t == IF q.clause.form = "share" THEN "zonal_ratio" ELSE "zonal_attribute_threshold"
           IN Essence(p, q.catalog) = EssenceOfTwo(t, Item(q.triple.object, q.catalog),
                                                   Resolve(q.catalog, AllZones, "functional_zone"),
                                                   <<"<=", Some(Number(q))>>)
<1> DEFINE t == IF q.clause.form = "share" THEN "zonal_ratio" ELSE "zonal_attribute_threshold"
<1>1. p.template = t /\ Zonal(p, q.catalog, q.triple.object, "<=", Number(q))
  <2>1. CASE OfGrammar(q, p)
    BY <2>1, GrammarZonal
  <2>2. CASE OfTriple(q, p)
    BY <2>2, TripleZonal
  <2>3. CASE OfReading(q, p)
    BY <2>3, ReadingZonal
  <2> QED
    BY <2>1, <2>2, <2>3 DEF PlanOf
<1>2. p.template \in {"zonal_ratio", "zonal_attribute_threshold"}
  BY <1>1
<1> HIDE DEF t
<1>3. Essence(p, q.catalog) = EssenceOfTwo(p.template, Item(q.triple.object, q.catalog),
                                           Resolve(q.catalog, AllZones, "functional_zone"),
                                           <<"<=", Some(Number(q))>>)
  BY <1>1, <1>2, ZonalEssence
<1> QED
  BY <1>1, <1>3 DEF t

-----------------------------------------------------------------------------
(* Distances by floors: only the grammar has a plan for them. *)
LEMMA TableOneWay ==
    ASSUME NEW q, IsSentence(q), q.clause.form = "table"
    PROVE  /\ Grounded(FirstPass(q.triple), q.catalog) = None
           /\ Compile(q.spec, q.source, {}, q.catalog).plan = None
<1> DEFINE s == q.spec
           cat == q.catalog
<1>1. \A reasons : Refused(reasons).plan = None
  BY DEF Refused
<1>2. /\ q.triple.value = None
      /\ IsReading(s) /\ s.unconditional /\ s.variants = << >> /\ s.housing = {}
      /\ s.quote.ranges = << >> /\ "accessibility" \notin q.source.says
      /\ s.value = None /\ s.template # "prohibited_within"
  BY DEF IsSentence, SaysOneNorm
<1>3. Grounded(FirstPass(q.triple), cat) = None
  <2>1. ~Numbered(q.triple)
    BY <1>2 DEF Numbered
  <2>2. Deterministic(q.triple).plan = None
    BY <1>1, <2>1 DEF Deterministic
  <2> QED
    BY <2>2, GroundedIs
<1>4. CompileOne(s, q.source, {}, cat).plan = None
  <2>1. \A read : /\ SpecFields \subseteq DOMAIN read
                  => WithSides(read).value = read.value /\ WithSides(read).template = read.template
    BY DEF WithSides, SpecFields
  <2> DEFINE moded == [s EXCEPT !.mode = Mode(s, {})]
  <2>2. /\ SpecFields \subseteq DOMAIN moded /\ moded.value = None
        /\ moded.template = s.template
    BY <1>2 DEF IsReading, SpecFields
  <2> HIDE DEF moded
  <2>3. WithSides(moded).value = None /\ WithSides(moded).template # "prohibited_within"
    BY <1>2, <2>1, <2>2
  <2>4. \A spec, checked, other : spec.value = None /\ spec.template # "prohibited_within"
            => CompileSides(spec, checked, other, q.source, {}).plan = None
    <3> TAKE spec, checked, other
    <3> HAVE spec.value = None /\ spec.template # "prohibited_within"
    <3>1. "rewrite_missing_value" \in ValueReasons(spec, q.source)
      BY DEF ValueReasons, If
    <3>2. KnownReasons(spec, q.source, checked, other) # {}
      BY <3>1 DEF KnownReasons
    <3> QED
      BY <1>1, <3>2 DEF CompileSides
  <2> QED
    BY <2>3, <2>4 DEF CompileOne, moded
<1>5. Compile(s, q.source, {}, cat).plan = None
  <2> SUFFICES ASSUME Compile(s, q.source, {}, cat).plan # None
               PROVE  FALSE
    OBVIOUS
  <2>1. Compile(s, q.source, {}, cat) = CompileOne(s, q.source, {}, cat)
    BY <1>2, ReadAsOne
  <2> QED
    BY <1>4, <2>1
<1> QED
  BY <1>3, <1>5

-----------------------------------------------------------------------------
(* The plans of a sentence together. *)

(* What is in one sequence after another is in one of them. *)
LEMMA InEither ==
    ASSUME NEW S, NEW x \in Seq(S), NEW y \in Seq(S), NEW p \in ToSet(x \o y)
    PROVE  p \in ToSet(x) \cup ToSet(y)
<1>1. PICK i \in DOMAIN (x \o y) : p = (x \o y)[i]
  BY DEF ToSet
<1>2. /\ i \in 1..(Len(x) + Len(y)) /\ Len(x) \in Nat /\ Len(y) \in Nat
      /\ p = IF i <= Len(x) THEN x[i] ELSE y[i - Len(x)]
      /\ DOMAIN x = 1..Len(x) /\ DOMAIN y = 1..Len(y)
  BY <1>1
<1>3. CASE i <= Len(x)
  BY <1>2, <1>3 DEF ToSet
<1>4. CASE ~ (i <= Len(x))
  <2>1. i - Len(x) \in DOMAIN y /\ p = y[i - Len(x)]
    BY <1>2, <1>4
  <2> QED
    BY <2>1 DEF ToSet
<1> QED
  BY <1>3, <1>4

LEMMA OneOfThree ==
    ASSUME NEW x, NEW y, NEW z, Optional(x), Optional(y), Optional(z), NEW p \in ToSet(x \o y \o z)
    PROVE  \E s \in {x, y, z} : s # None /\ p = s[1]
<1> DEFINE S == {x[1], y[1], z[1]}
<1>1. \A s : Optional(s) /\ s[1] \in S => s \in Seq(S)
  <2>1. << >> \in Seq(S) /\ \A e \in S : <<e>> \in Seq(S)
    OBVIOUS
  <2> HIDE DEF S
  <2> TAKE s
  <2> HAVE Optional(s) /\ s[1] \in S
  <2>2. s = << >> \/ s = <<s[1]>>
    BY DEF Optional, None, Some
  <2>3. <<s[1]>> \in Seq(S)
    BY <2>1
  <2> QED
    BY <2>1, <2>2, <2>3, Zenon
<1>2. x \in Seq(S) /\ y \in Seq(S) /\ z \in Seq(S)
  BY <1>1
<1> HIDE DEF S
<1>3. x \o y \in Seq(S)
  BY <1>2
<1>4. p \in ToSet(x \o y) \cup ToSet(z)
  BY <1>2, <1>3, InEither
<1>5. p \in ToSet(x) \cup ToSet(y) \cup ToSet(z)
  BY <1>2, <1>4, InEither
<1> QED
  BY <1>5, SomeOrNone

(* Each pass makes one plan or none. *)
LEMMA PlansAreOptional ==
    ASSUME NEW q, IsSentence(q)
    PROVE  /\ Optional(CompileRule(q.clause))
           /\ Optional(Grounded(FirstPass(q.triple), q.catalog))
           /\ Optional(Compile(q.spec, q.source, {}, q.catalog).plan)
<1> DEFINE cat == q.catalog
           c == q.clause
           s == q.spec
<1>1. c.form \in {"distance", "presence", "share", "floors", "table"}
  BY DEF IsSentence, SaysOneNorm
<1>2. Optional(CompileRule(c))
  <2>1. \A t, params, layers, attributes : Optional(Ruled(t, params, layers, attributes))
    BY SomeOrNone DEF Ruled
  <2> QED
    BY <1>1, <2>1, SomeOrNone DEF CompileRule, DistanceRule, PresenceRule, ShareRule, FloorsRule, TableRule
<1>3. Optional(Grounded(FirstPass(q.triple), cat))
  <2>1. \A reasons : Refused(reasons).plan = None
    BY DEF Refused
  <2>2. \A t, params, layers, why : Optional(Tried(t, params, layers, why).plan)
    BY <2>1, SomeOrNone DEF Tried
  <2>3. Optional(Deterministic(q.triple).plan)
    <3>1. \A d : Optional(FromSubject(q.triple, d).plan)
      BY <2>2 DEF FromSubject
    <3>2. \A d : Optional(WithinReach(q.triple, d).plan)
      BY <2>2 DEF WithinReach
    <3>3. \A parts : Optional(ShareOf(q.triple, parts).plan)
      BY <2>2 DEF ShareOf
    <3> QED
      BY <2>1, <3>1, <3>2, <3>3, SomeOrNone DEF Deterministic
  <2> QED
    BY <2>3, GroundedIs, SomeOrNone
<1>4. Optional(Compile(s, q.source, {}, cat).plan)
  <2> SUFFICES ASSUME Compile(s, q.source, {}, cat).plan # None
               PROVE  Optional(Compile(s, q.source, {}, cat).plan)
    BY SomeOrNone
  <2>1. \E a, b : TwoSided(s, q.source, cat, a, b)
    <3>1. c.form # "table"
      BY TableOneWay
    <3>2. /\ cat \in Seq(Entry) /\ NamesDiffer(cat)
          /\ IsReading(s) /\ s.unconditional /\ s.variants = << >> /\ s.housing = {}
          /\ s.quote.ranges = << >> /\ "accessibility" \notin q.source.says
          /\ s.unit = q.triple.value[1].unit
      BY <3>1, SentenceNumber DEF IsSentence, SaysOneNorm
    <3>3. /\ s.template \in {"min_distance", "max_distance", "zone_attribute_limit", "zone_share"}
          /\ \E a, b : s.checked = Some(a) /\ s.other = Some(b)
          /\ q.triple.value[1].unit \in DOMAIN LengthScale \cup {"percent", "floors"}
      BY <1>1, <3>1 DEF IsSentence, SaysOneNorm
    <3>4. s.unit # "places"
      BY <3>2, <3>3 DEF LengthScale
    <3> QED
      BY <3>2, <3>3, <3>4 DEF TwoSided
  <2>2. PICK a, b : TwoSided(s, q.source, cat, a, b)
    BY <2>1
  <2>3. \E checked, other : BuiltOf(s, q.source, cat, checked, other)
    BY <2>2, TwoSidesRead
  <2> QED
    BY <2>3, SomeOrNone DEF BuiltOf
<1> QED
  BY <1>2, <1>3, <1>4

(* Two plans of a sentence are the same check. *)
LEMMA OneEssence ==
    ASSUME NEW q, IsSentence(q), NEW p, PlanOf(q, p), NEW r, PlanOf(q, r)
    PROVE  Essence(p, q.catalog) = Essence(r, q.catalog)
<1>1. q.clause.form \in {"distance", "presence", "share", "floors", "table"}
  BY DEF IsSentence, SaysOneNorm
<1>2. CASE q.clause.form = "distance"
  <2> DEFINE e == EssenceOfTwo("distance_from_source", Item(q.triple.object, q.catalog),
                               Item(q.triple.subject, q.catalog), Some(Length(q)))
  <2>1. Essence(p, q.catalog) = e
    BY <1>2, DistanceOneWay
  <2>2. Essence(r, q.catalog) = e
    BY <1>2, DistanceOneWay
  <2> QED
    BY <2>1, <2>2
<1>3. CASE q.clause.form = "presence"
  BY <1>3, PresenceOneWay
<1>4. CASE q.clause.form \in {"share", "floors"}
  <2> DEFINE t == IF q.clause.form = "share" THEN "zonal_ratio" ELSE "zonal_attribute_threshold"
             e == EssenceOfTwo(t, Item(q.triple.object, q.catalog),
                               Resolve(q.catalog, AllZones, "functional_zone"), <<"<=", Some(Number(q))>>)
  <2>1. Essence(p, q.catalog) = e
    BY <1>4, ZonalOneWay
  <2>2. Essence(r, q.catalog) = e
    BY <1>4, ZonalOneWay
  <2> QED
    BY <2>1, <2>2
<1>5. CASE q.clause.form = "table"
  <2>1. OfGrammar(q, p) /\ OfGrammar(q, r)
    BY <1>5, TableOneWay DEF PlanOf, OfTriple, OfReading
  <2> QED
    BY <2>1 DEF OfGrammar
<1> QED
  BY <1>1, <1>2, <1>3, <1>4, <1>5

(* Of a table the grammar alone makes a plan, of a kind of its own. *)
LEMMA TableOnly ==
    ASSUME NEW q, IsSentence(q), NEW p, PlanOf(q, p), q.clause.form = "table"
    PROVE  p.template = "distance_table"
<1>1. /\ CompileRule(q.clause) = TableRule(q.clause) /\ CompileRule(q.clause) # None
      /\ p = CompileRule(q.clause)[1]
  BY TableOneWay DEF PlanOf, OfGrammar, OfTriple, OfReading, CompileRule
<1>2. \E params, layers, attributes :
          TableRule(q.clause) = Ruled("distance_table", params, layers, attributes)
  BY <1>1 DEF TableRule
<1> QED
  BY <1>1, <1>2, RuledIs

(* Only of how far something may be a plan of that kind is made. *)
LEMMA PresenceOnly ==
    ASSUME NEW q, IsSentence(q), NEW p, PlanOf(q, p), p.template = "presence_within"
    PROVE  q.clause.form = "presence"
<1>1. q.clause.form \in {"distance", "presence", "share", "floors", "table"}
  BY DEF IsSentence, SaysOneNorm
<1>2. Essence(p, q.catalog).template = "presence_within"
  BY DemandOf
<1>3. \A t, checked, other, demand : EssenceOfTwo(t, checked, other, demand).template = t
  BY DEF EssenceOfTwo
<1>4. q.clause.form # "distance"
  <2> SUFFICES ASSUME q.clause.form = "distance" PROVE FALSE
    OBVIOUS
  <2>1. Essence(p, q.catalog).template = "distance_from_source"
    BY <1>3, DistanceOneWay
  <2> QED
    BY <1>2, <2>1
<1>5. q.clause.form \notin {"share", "floors"}
  <2> SUFFICES ASSUME q.clause.form \in {"share", "floors"} PROVE FALSE
    OBVIOUS
  <2> DEFINE t == IF q.clause.form = "share" THEN "zonal_ratio" ELSE "zonal_attribute_threshold"
  <2>1. t # "presence_within"
    OBVIOUS
  <2> HIDE DEF t
  <2>2. \E checked, other, demand : Essence(p, q.catalog) = EssenceOfTwo(t, checked, other, demand)
    BY ZonalOneWay DEF t
  <2> QED
    BY <1>2, <1>3, <2>1, <2>2
<1>6. q.clause.form # "table"
  BY TableOnly
<1> QED
  BY <1>1, <1>4, <1>5, <1>6

(* Only of floors in zones is a plan of that kind made, and how the objects lie in the zones is *)
(* the same in all, unless the clause asks for those that lie in one as a whole.                *)
LEMMA OneJoin ==
    ASSUME NEW q, IsSentence(q), ~SaysWhole(q.clause), NEW p, PlanOf(q, p)
    PROVE  JoinedBy(p) = IF q.clause.form = "floors" THEN "intersects" ELSE "none"
<1>1. q.clause.form \in {"distance", "presence", "share", "floors", "table"}
  BY DEF IsSentence, SaysOneNorm
<1>2. \A t, checked, other, demand : EssenceOfTwo(t, checked, other, demand).template = t
  BY DEF EssenceOfTwo
<1>3. Essence(p, q.catalog).template = p.template
  BY DemandOf
<1>4. CASE q.clause.form = "distance"
  <2>1. p.template = "distance_from_source"
    BY <1>2, <1>3, <1>4, DistanceOneWay
  <2> QED
    BY <1>4, <2>1 DEF JoinedBy
<1>5. CASE q.clause.form = "presence"
  <2>1. p.template = "presence_within"
    BY <1>5, PresenceReaches DEF Reaching
  <2> QED
    BY <1>5, <2>1 DEF JoinedBy
<1>6. CASE q.clause.form = "share"
  <2>1. p.template = "zonal_ratio"
    BY <1>6, GrammarZonal, TripleZonal, ReadingZonal DEF PlanOf
  <2> QED
    BY <1>6, <2>1 DEF JoinedBy
<1>7. CASE q.clause.form = "floors"
  <2>1. q.clause.join = "part" /\ JoinOf["part"] = "intersects"
    BY <1>7 DEF IsSentence, SaysOneNorm, SaysWhole, JoinOf
  <2>2. p.template = "zonal_attribute_threshold" /\ p.params.join = "intersects"
    BY <1>7, <2>1, GrammarZonal, TripleZonal, ReadingZonal DEF PlanOf
  <2> QED
    BY <1>7, <2>2 DEF JoinedBy
<1>8. CASE q.clause.form = "table"
  <2>1. p.template # "zonal_attribute_threshold"
    BY <1>8, TableOnly
  <2> QED
    BY <1>8, <2>1 DEF JoinedBy
<1> QED
  BY <1>1, <1>4, <1>5, <1>6, <1>7, <1>8

(* A clause that the grammar, the triple and the reading understand alike, in labels that the *)
(* tables of all passes know alike (SaysOneNorm, LabelFits), is checked in one way, whichever   *)
(* of the passes of plan_with_trace makes its plan, and of a norm on dwellings and what is near *)
(* them the dwellings are checked.                                                               *)
PROPOSITION OneNormOnePlan == Spec => []SameNormSamePlan
<1>1. OneAnswer => SameNormSamePlan
  <2> SUFFICES ASSUME OneAnswer, Answered("sentence")
               PROVE  SameNormSamePlan
    BY DEF SameNormSamePlan
  <2> DEFINE q == question
             cat == q.catalog
             plans == ToSet(answer[1].grammar \o answer[1].triple \o answer[1].read)
             dwells(l) == Resolve(cat, l.entity, l.type)[1].name \in Residences
             side(p, role) == \E l \in ToSet(p.layers) : l.role \in role /\ dwells(l)
  <2>1. q \in Questions /\ q.kind = "sentence"
    BY DEF OneAnswer, Answered
  <2>2. /\ answer[1].grammar = CompileRule(q.clause)
        /\ answer[1].triple = Grounded(FirstPass(q.triple), cat)
        /\ answer[1].read = Compile(q.spec, q.source, {}, cat).plan
    BY DEF OneAnswer, SentenceAnswered
  <2>3. IsSentence(q)
    BY <2>1, SentencesAssumption, CatalogsAssumption DEF IsSentence
  <2>4. ASSUME NEW p \in plans
        PROVE  PlanOf(q, p)
    <3>1. PICK s \in {answer[1].grammar, answer[1].triple, answer[1].read} : s # None /\ p = s[1]
      BY <2>2, <2>3, <2>4, PlansAreOptional, OneOfThree
    <3> QED
      BY <2>2, <3>1 DEF PlanOf, OfGrammar, OfTriple, OfReading
  <2> HIDE DEF plans
  <2>5. \A p, r \in plans : Essence(p, cat) = Essence(r, cat)
    BY <2>3, <2>4, OneEssence
  <2>6. ASSUME NEW p \in plans, p.template = "presence_within", side(p, NearRoles)
        PROVE  side(p, {"objects"})
    <3>1. PlanOf(q, p)
      BY <2>4, <2>6
    <3>2. q.clause.form = "presence"
      BY <2>3, <2>6, <3>1, PresenceOnly
    <3>3. PICK t \in {<<q.triple.subject, q.triple.object>>, <<q.triple.object, q.triple.subject>>} :
              (Lives(t[2]) => Lives(t[1])) /\ Reaching(p, cat, t[1], t[2], Length(q))
      BY <2>3, <3>1, <3>2, PresenceReaches
    <3>4. LabelFits(t[1], cat) /\ LabelFits(t[2], cat)
      BY <2>3, <3>2, PresenceSentence
    <3>5. \E l \in ToSet(p.layers) : l.role = "objects" /\ dwells(l)
      BY <2>6, <3>3, <3>4, ReachDwells
    <3> QED
      BY <3>5
  <2>7. ~SaysWhole(q.clause) => \A p, r \in plans : JoinedBy(p) = JoinedBy(r)
    BY <2>3, <2>4, OneJoin
  <2> QED
    BY <2>5, <2>6, <2>7 DEF SameNormSamePlan, plans, NearRoles
<1> QED
  BY <1>1, AnswersInductive, PTL

================================================================================
