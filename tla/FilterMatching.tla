---------------------------- MODULE FilterMatching ----------------------------
(***************************************************************************)
(* Message filters: how they are read from JSON (filters/filter.rs,        *)
(* value.rs), and their evaluators: matches_filters, which compares index  *)
(* values in memory (filters/matching.rs), the SQL predicates the SQLite   *)
(* store renders (sqlite/query.rs), and SQLite's feed reader, which runs   *)
(* matches_filters over indexes it reads back from JSON.  A prefix and a   *)
(* subtree are ranges in SQL, which rests on how text is ordered, so text  *)
(* is modelled: a string is a short sequence of characters, numbered as    *)
(* code points with one gap for the surrogates.                            *)
(*                                                                         *)
(* probe is one value met by one filter, one row met by a filter list, or  *)
(* a tag and a filter as they are sent; the module has no behaviour beyond *)
(* evaluating them.                                                        *)
(***************************************************************************)
EXTENDS Naturals, FiniteSets, FiniteSetsExt, Sequences, SequencesExt

CONSTANTS
    Chars,           \* code points in use
    MaxChar,         \* char::MAX
    Gap,             \* the first surrogate, 0xD800; the one after it is valid
    MaxText,         \* longest string explored
    Missing          \* no value

Slash == 1           \* '/' and '0' are neighbours
Zero  == 2

VARIABLE probe

-----------------------------------------------------------------------------
(* Values: numbers, booleans, strings, CIDs, arrays, and timestamps: a     *)
(* DateTime (spelling 0), or a string spelled canonically (1) or as chrono *)
(* spells it (2).                                                          *)

Texts == UNION {[1 .. n -> Chars] : n \in 0 .. MaxText}

Num(n)     == [kind |-> "num",  num |-> n]
Bool(b)    == [kind |-> "bool", holds |-> b]
Str(s)     == [kind |-> "str",  text |-> s]
Cid(s)     == [kind |-> "cid",  text |-> s]
Arr(S)     == [kind |-> "arr",  elems |-> S]
Time(t, w) == [kind |-> "time", instant |-> t, spelling |-> w]

TextLess(s, t) ==
    \/ Len(s) < Len(t) /\ \A i \in DOMAIN s : s[i] = t[i]
    \/ \E i \in DOMAIN s \cap DOMAIN t : s[i] < t[i] /\ \A j \in 1 .. i - 1 : s[j] = t[j]

(* How a value is written as text; timestamps share no text with Texts. *)
TimeMark == 5
Written(a) ==
    IF a.kind = "time" THEN <<TimeMark, a.instant>> \o (IF a.spelling = 2 THEN <<1>> ELSE <<>>) ELSE a.text

IsString(a) == a.kind = "str" \/ (a.kind = "time" /\ a.spelling # 0)

(* compare_values: less, equal, greater, or Missing when the two are not   *)
(* comparable.  Timestamps, strings that spell one included, compare as    *)
(* instants.                                                               *)
Sign(less, equal) == IF less THEN 0 ELSE IF equal THEN 1 ELSE 2

compare_values(a, b) ==
    IF {a.kind, b.kind} = {"time"} THEN Sign(a.instant < b.instant, a.instant = b.instant)
    ELSE IF {a.kind, b.kind} = {"num"} THEN Sign(a.num < b.num, a.num = b.num)
    ELSE IF {a.kind, b.kind} = {"bool"} THEN Sign(b.holds /\ ~ a.holds, a.holds = b.holds)
    ELSE IF (IsString(a) /\ IsString(b)) \/ {a.kind, b.kind} = {"cid"}
    THEN Sign(TextLess(Written(a), Written(b)), Written(a) = Written(b))
    ELSE Missing

(* A filter: Equal, OneOf, Range with two bounds, Prefix, Subtree. *)
Bound(type, v) == [type |-> type, v |-> v]

(* A CID equals the string that spells it. *)
values_equal_flexibly(a, b) ==
    IF {a.kind, b.kind} = {"cid", "str"} THEN a.text = b.text ELSE a = b

matches_equal(actual, v) ==
    \/ values_equal_flexibly(actual, v)
    \/ actual.kind = "arr" /\ \E e \in actual.elems : values_equal_flexibly(e, v)

bound_matches(actual, b, lower) ==
    \/ b.type = "unbounded"
    \/ /\ compare_values(actual, b.v) # Missing
       /\ compare_values(actual, b.v) \in
            (IF lower THEN {2} ELSE {0}) \cup (IF b.type = "included" THEN {1} ELSE {})

StartsWith(s, p) == Len(p) <= Len(s) /\ SubSeq(s, 1, Len(p)) = p

matches_filter(actual, f) ==
    CASE f.type = "equal"  -> matches_equal(actual, f.v)
      [] f.type = "oneof"  -> \E v \in f.vs : matches_equal(actual, v)
      [] f.type = "range"  -> bound_matches(actual, f.lo, TRUE) /\ bound_matches(actual, f.hi, FALSE)
      [] f.type = "prefix" ->
            actual.kind = "str" /\ f.v.kind = "str" /\ StartsWith(actual.text, f.v.text)
      [] f.type = "subtree" ->
            actual.kind = "str" /\ (actual.text = f.prefix \/ StartsWith(actual.text, f.prefix \o <<Slash>>))

(* The clauses of filter lists, by name. *)
Clause(name) == IF name = "zero" THEN [type |-> "equal", v |-> Num(0)] ELSE [type |-> "prefix", v |-> Str(<<Slash>>)]

(* matches_filters: some set of clauses has every clause satisfied; no set *)
(* at all matches everything.                                              *)
matches_filters(row, groups) ==
    \/ groups = <<>>
    \/ \E g \in ToSet(groups) : \A k \in DOMAIN g : row[k] # Missing /\ matches_filter(row[k], Clause(g[k]))

-----------------------------------------------------------------------------
(* SQLite compares by storage class first: numbers, and booleans as 0 and  *)
(* 1, sort before text.  A DateTime is written canonically, a string as it *)
(* is, a CID as its text.                                                  *)

SqlInteger(a) == a.kind \in {"num", "bool"}

SqlNumber(a) == IF a.kind = "num" THEN a.num ELSE IF a.holds THEN 1 ELSE 0

SqlLess(a, b) ==
    IF SqlInteger(a) THEN SqlInteger(b) => SqlNumber(a) < SqlNumber(b)
    ELSE ~ SqlInteger(b) /\ TextLess(Written(a), Written(b))

SqlEqual(a, b) ==
    IF SqlInteger(a) THEN SqlInteger(b) /\ SqlNumber(a) = SqlNumber(b)
    ELSE ~ SqlInteger(b) /\ Written(a) = Written(b)

(* col = ? OR EXISTS (SELECT 1 FROM json_each(...) WHERE value = ?) *)
sql_equal(a, v) ==
    IF a.kind = "arr" THEN \E e \in a.elems : SqlEqual(e, v) ELSE SqlEqual(a, v)

sql_bound(a, b, lower) ==
    \/ b.type = "unbounded"
    \/ b.type = "included" /\ SqlEqual(a, b.v)
    \/ IF lower THEN SqlLess(b.v, a) ELSE SqlLess(a, b.v)

(* The next character, past the surrogates; Missing beyond char::MAX. *)
NextChar(c) ==
    LET next == IF c + 1 = Gap THEN Gap + 1 ELSE c + 1
    IN  IF next <= MaxChar THEN next ELSE Missing

(* Trailing characters without a successor are dropped before the last one *)
(* is replaced by its successor.                                           *)
prefix_upper_bound(p) ==
    LET stepped == {i \in DOMAIN p : NextChar(p[i]) # Missing}
    IN  IF stepped = {} THEN Missing
        ELSE SubSeq(p, 1, Max(stepped) - 1) \o <<NextChar(p[Max(stepped)])>>

predicate(a, f) ==
    CASE f.type = "equal"  -> sql_equal(a, f.v)
      [] f.type = "oneof"  -> \E v \in f.vs : sql_equal(a, v)
      [] f.type = "range"  -> sql_bound(a, f.lo, TRUE) /\ sql_bound(a, f.hi, FALSE)
      [] f.type = "prefix" ->
            /\ ~ SqlLess(a, f.v)
            /\ prefix_upper_bound(f.v.text) # Missing => SqlLess(a, Str(prefix_upper_bound(f.v.text)))
      [] f.type = "subtree" ->
            \/ SqlEqual(a, Str(f.prefix))
            \/ (~ SqlLess(a, Str(f.prefix \o <<Slash>>)) /\ SqlLess(a, Str(f.prefix \o <<Zero>>)))

(* json_col: the path $.<key> into the flat object of the indexes.  A tag   *)
(* is indexed under "tag.<name>"; its path asks for a member of an object   *)
(* "tag", and there is none.                                                *)
TagKey == "tag.k"

json_col(row, k) == IF k = TagKey THEN Missing ELSE row[k]

(* A set without clauses renders nothing. *)
render_filters(groups) == {g \in ToSet(groups) : DOMAIN g # {}}

(* Without rendered sets there is no condition. *)
where_clause(row, groups) ==
    \/ render_filters(groups) = {}
    \/ \E g \in render_filters(groups) : \A k \in DOMAIN g :
          json_col(row, k) # Missing /\ predicate(json_col(row, k), Clause(g[k]))

-----------------------------------------------------------------------------
(* JSON.  A string may spell a timestamp; CidText and TrueText stand for    *)
(* the texts that parse as a CID and as a boolean.                          *)

CidText  == <<4, 4>>
TrueText == <<4, 1>>

(* Value::deserialize: strings are given the type they parse as. *)
deserialize_value(j) ==
    CASE j.kind = "time" -> Time(j.instant, 0)
      [] j.kind = "str" /\ j.text = CidText  -> Cid(j.text)
      [] j.kind = "str" /\ j.text = TrueText -> Bool(TRUE)
      [] j.kind = "arr" -> Arr({IF e.kind = "str" /\ e.text = CidText THEN Cid(e.text) ELSE e : e \in j.elems})
      [] OTHER -> j

serialize_value(v) ==
    CASE v.kind = "time" /\ v.spelling = 0 -> Time(v.instant, 1)
      [] v.kind = "cid" -> Str(v.text)
      [] OTHER -> v

(* The index value the SQLite feed reader filters on. *)
ReadBack(v) == deserialize_value(serialize_value(v))

Equal(v) == [type |-> "equal", v |-> v]

(* FilterVisitor::visit_str and the other scalars: a timestamp becomes the *)
(* string chrono spells, a CID stays a string.                             *)
visit_scalar(j) ==
    CASE j.kind = "time" -> Equal(Time(j.instant, 2))
      [] j.kind = "str" /\ j.text = TrueText -> Equal(Bool(TRUE))
      [] OTHER -> Equal(j)

visit_seq(js) == [type |-> "oneof", vs |-> {deserialize_value(j) : j \in js}]

LowerKeys     == {"gt", "gte", "from"}
UpperKeys     == {"lt", "lte", "to"}
RangeKeys     == {"lt", "lte", "gt", "gte"}
CriterionKeys == {"from", "to"}
Families      == {RangeKeys, CriterionKeys, {"prefix"}, {"subtree"}}

BoundOf(j, keys) ==
    LET k == CHOOSE k \in keys : TRUE
    IN  IF keys = {} THEN Bound("unbounded", Missing)
        ELSE Bound(IF k \in {"lt", "gt"} THEN "excluded" ELSE "included", deserialize_value(j[k]))

(* FilterVisitor::visit_map: Missing when the filter is refused: two       *)
(* bounds on one side, a subtree that is no string, families combined, or  *)
(* nothing at all.                                                         *)
visit_map(j) ==
    LET K == DOMAIN j
    IN  IF \/ Cardinality(K \cap LowerKeys) > 1 \/ Cardinality(K \cap UpperKeys) > 1
           \/ "subtree" \in K /\ deserialize_value(j["subtree"]).kind # "str"
           \/ Cardinality({F \in Families : F \cap K # {}}) # 1
        THEN Missing
        ELSE IF K = {"prefix"} THEN [type |-> "prefix", v |-> deserialize_value(j["prefix"])]
        ELSE IF K = {"subtree"} THEN [type |-> "subtree", prefix |-> j["subtree"].text]
        ELSE [type |-> "range", lo |-> BoundOf(j, K \cap LowerKeys), hi |-> BoundOf(j, K \cap UpperKeys)]

deserialize_filter(w) ==
    CASE w.type = "scalar" -> visit_scalar(w.j)
      [] w.type = "seq"    -> visit_seq(w.js)
      [] w.type = "map"    -> visit_map(w.of)

-----------------------------------------------------------------------------
(* What is probed. *)

Strings == {Str(s) : s \in Texts}

Short == {Str(s) : s \in {t \in Texts : Len(t) <= 1}}

Values ==
    Strings \cup {Num(0), Num(1), Bool(FALSE), Bool(TRUE), Cid(CidText)}
    \cup {Time(t, w) : t \in 0 .. 1, w \in 0 .. 2}
    \cup {Arr(S) : S \in SUBSET {Str(<<>>), Str(<<0>>), Str(<<1>>), Num(0)}}

Bounds == {Bound("unbounded", Missing)}
          \cup {Bound(t, v) : t \in {"included", "excluded"},
                              v \in Short \cup {Num(0), Num(1), Time(0, 0), Time(1, 1), Time(1, 2)}}

FilterCases ==
    [type : {"equal"}, v : {v \in Values : v.kind # "arr"}]
    \cup [type : {"oneof"}, vs : {{Num(0), Num(1)}, {Str(<<1>>), Str(<<2>>)}}]
    \cup {r \in [type : {"range"}, lo : Bounds, hi : Bounds] :
            r.lo.type # "unbounded" \/ r.hi.type # "unbounded"}
    \cup [type : {"prefix"}, v : Strings]
    \cup [type : {"subtree"}, prefix : Texts]

SomeValues == [none |-> Missing, zero |-> Num(0), under |-> Str(<<1, 2>>)]

(* Clauses and rows, by the names of their filters and values. *)
Clauses == UNION {[D -> {"zero", "under"}] : D \in (SUBSET {"k", "m"}) \cup {{TagKey}, {"k", TagKey}}}

Row == [k \in DOMAIN probe.row |-> SomeValues[probe.row[k]]]

Scalars == {Num(0), Num(1), Bool(TRUE), Str(<<1>>), Str(<<1, 2>>), Str(CidText), Str(TrueText),
            Time(0, 1), Time(0, 2), Time(1, 1)}

MapKeys == RangeKeys \cup CriterionKeys \cup {"prefix", "subtree"}

Maps == UNION {[K -> {Num(0), Num(1), Str(<<1>>), Str(CidText), Time(0, 2)}] :
                  K \in {K \in SUBSET MapKeys : Cardinality(K) <= 2}}

FilterInit ==
    \/ probe \in [actual : Values, filter : FilterCases]
    \/ probe \in [row : [{"k", "m", TagKey} -> {"none", "zero", "under"}], groups : UNION {[1 .. n -> Clauses] : n \in 0 .. 2}]
    \/ probe \in [tag : Scalars, wire : [type : {"scalar"}, j : Scalars]
                                        \cup [type : {"seq"}, js : {S \in SUBSET Scalars : Cardinality(S) = 2}]
                                        \cup [type : {"map"}, of : Maps]]

FilterNext == UNCHANGED probe

(* A value of the kind the filter asks for: numbers with numbers, text     *)
(* with text, timestamps in the canonical spelling, arrays only compared   *)
(* for membership.                                                         *)
Wanted(v) == v # Missing => v.kind = probe.actual.kind /\ (v.kind = "time" => v.spelling # 2)

WellTyped ==
    LET f == probe.filter
        actual == probe.actual
    IN  /\ actual.kind = "time" => actual.spelling # 2
        /\ CASE f.type = "equal" -> /\ Wanted(f.v) \/ (actual.kind = "arr" /\ f.v.kind = "str")
                                    /\ actual.kind = "time" => f.v.spelling = actual.spelling
             [] f.type = "oneof" -> \A v \in f.vs : Wanted(v)
             [] f.type = "range" -> actual.kind # "arr" /\ Wanted(f.lo.v) /\ Wanted(f.hi.v)
             [] OTHER -> actual.kind = "str"

(* Whether reading an index value back from JSON leaves what the filter    *)
(* accepts alone: the value keeps its type, a CID is compared for          *)
(* equality, or a timestamp with timestamps by range.                      *)
KeepsMeaning(a, f) ==
    \/ ReadBack(a) = a
    \/ a.kind = "str" /\ a.text = CidText /\ f.type \in {"equal", "oneof"}
    \/ /\ a.kind = "time" /\ f.type = "range"
       /\ \A b \in {f.lo, f.hi} : b.type = "unbounded" \/ b.v.kind = "time"

(* What one key of a filter asks of a tag. *)
Asks(k, v, w) ==
    CASE k = "prefix"  -> v.kind = "str" /\ w.kind = "str" /\ StartsWith(v.text, w.text)
      [] k = "subtree" -> v.kind = "str" /\ (v.text = w.text \/ StartsWith(v.text, w.text \o <<Slash>>))
      [] OTHER -> compare_values(v, w) \in
                      CASE k = "lt" -> {0} [] k = "gt" -> {2}
                        [] k \in {"lte", "to"} -> {0, 1} [] OTHER -> {1, 2}

(* What a filter means, as it is sent: a scalar is the tag itself, except  *)
(* that no tag equals a timestamp; a list holds the tag; a map asks        *)
(* everything its keys ask.                                                *)
Means(tag, w) ==
    LET v == deserialize_value(tag)
    IN  CASE w.type = "scalar" -> w.j.kind # "time" /\ v = deserialize_value(w.j)
          [] w.type = "seq"    -> \E j \in w.js : v = deserialize_value(j)
          [] w.type = "map"    -> \A k \in DOMAIN w.of : Asks(k, v, deserialize_value(w.of[k]))

(* A filter is accepted whole or refused: it never means less than it says.*)
WireExact ==
    LET f == deserialize_filter(probe.wire)
    IN  f # Missing => (matches_filter(deserialize_value(probe.tag), f) <=> Means(probe.tag, probe.wire))

(* The in-memory matcher, the SQL predicate and the feed reader accept the *)
(* same values: the text ranges a prefix and a subtree become hold exactly *)
(* the strings that start with the prefix or lie in the subtree, also at   *)
(* the last character and across the surrogate gap; an index value read    *)
(* back from JSON is accepted as before unless its text reads as another   *)
(* type; a filter list without clause-less sets and without tags selects   *)
(* the same rows; and a filter sent as JSON is refused or means what each  *)
(* of its keys says.                                                       *)
MatchersAgree ==
    IF "row" \in DOMAIN probe
    THEN (\A g \in ToSet(probe.groups) : DOMAIN g # {} /\ TagKey \notin DOMAIN g) =>
            (matches_filters(Row, probe.groups) <=> where_clause(Row, probe.groups))
    ELSE IF "wire" \in DOMAIN probe THEN WireExact
    ELSE LET accepted == matches_filter(probe.actual, probe.filter)
         IN  /\ WellTyped => (accepted <=> predicate(probe.actual, probe.filter))
             /\ KeepsMeaning(probe.actual, probe.filter) =>
                    (accepted <=> matches_filter(ReadBack(probe.actual), probe.filter))
=============================================================================
