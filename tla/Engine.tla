------------------------------- MODULE Engine -------------------------------
(***************************************************************************)
(* The rule engine (engine/engine.go): path lookup, the predicates, and    *)
(* the StreamChecker's state as pure operators. A record is a number that   *)
(* names an object; Member gives the objects' fields, so that objects can   *)
(* nest. The violations of a record are the set of the indexes of the       *)
(* rules it breaches, and Precedes is the order they are reported in.       *)
(***************************************************************************)
EXTENDS Result, Numbers

CONSTANTS
  Member,   \* Member[o] : the fields of object o, a function from names to values
  Text,     \* Text[o] : the JSON text of object o, if json.Marshal can encode it
  Emails,   \* the texts that net/mail parses and gives back unchanged
  Matches   \* the pairs <<pattern, text>> that regexp matches

(***************************************************************************)
(* lookup                                                                  *)
(***************************************************************************)
Child(x, name) ==
  IF x.t = "map" /\ name \in DOMAIN Member[x.v]
    THEN Member[x.v][name]
    ELSE V("absent", 0)

Lookup(o, path) ==
  IF path = Root
    THEN V("Record", o)
    ELSE LET walk[n \in Nat] == IF n <= 1 THEN V("map", o)
                                ELSE Child(walk[n - 1], path[n])
         IN  walk[Len(path)]

Missing(x) == x.t \in {"absent", "nil"}

(***************************************************************************)
(* Numbers                                                                 *)
(***************************************************************************)
Float64(x) == IF x.t \in {"int", "literal"} THEN Rounded(x.v) ELSE x.v

\* Mutated: numberValue knows no Go integer.
NumericFloat == {"float", "nan", "inf"}

Finite == {"int", "float", "literal"}

Numeric == Finite \cup {"nan", "inf"}

IsInteger(x) == x.t = "int" \/ (x.t \in {"float", "literal"} /\ Float64(x) % 2 = 0)

\* number < *p.Min and number > *p.Max: NaN compares false with every bound.
BelowMin(x, p) ==
  \/ x.t \in Finite /\ \E low \in p.min : Float64(x) < low
  \/ x.t = "inf" /\ x.v < 0 /\ p.min # {}

\* Mutated: an int64 is compared as it is.
AboveMaxExact(x, p) ==
  \/ x.t \in Finite /\ \E high \in p.max : x.v > high
  \/ x.t = "inf" /\ x.v > 0 /\ p.max # {}

AboveMax(x, p) ==
  \/ x.t \in Finite /\ \E high \in p.max : Float64(x) > high
  \/ x.t = "inf" /\ x.v > 0 /\ p.max # {}

(***************************************************************************)
(* json.Marshal as a key. A number has one encoding whatever its Go type,     *)
(* but that a float past Exact is written with the shortest digits that read  *)
(* back as it, and a literal as it is. A missing value encodes as null. NaN   *)
(* and the infinities have no encoding, nor has an object that holds one at   *)
(* any depth. An array is opaque: a number that names its elements' text.     *)
(***************************************************************************)
Marshals(x) ==
  /\ x.t \notin {"nan", "inf"}
  /\ x.t \in {"map", "Record"} => x.v \in DOMAIN Text

Key(x) ==
  CASE x.t = "absent" -> V("nil", 0)
    [] x.t = "int"    -> V("number", x.v)
    [] x.t = "float"  -> V("number", Digits(x.v))
    [] x.t \in {"map", "Record"} -> V("map", Text[x.v])
    [] OTHER          -> x

\* An object encodes if its members do; its text is their names, in order, with theirs.
ASSUME TextAssumption ==
  /\ DOMAIN Text \subseteq DOMAIN Member
  /\ \A o \in DOMAIN Member :
       o \in DOMAIN Text <=> \A name \in DOMAIN Member[o] : Marshals(Member[o][name])
  /\ \A o, p \in DOMAIN Text :
       Text[o] = Text[p] <=>
         /\ DOMAIN Member[o] = DOMAIN Member[p]
         /\ \A name \in DOMAIN Member[o] : Key(Member[o][name]) = Key(Member[p][name])

EqualJSON(x, y) == Marshals(x) /\ Marshals(y) /\ Key(x) = Key(y)

TypeMatches(x, type) ==
  \/ type = "string"  /\ x.t = "string"
  \/ type = "number"  /\ x.t \in Numeric
  \/ type = "integer" /\ IsInteger(x)
  \/ type = "boolean" /\ x.t = "bool"
  \/ type = "object"  /\ x.t = "map"
  \/ type = "array"   /\ x.t = "array"

\* evaluate: whether value x breaches predicate p.
Fails(p, x) ==
  CASE p.op = "required" -> Missing(x) \/ x = V("string", 0)
    [] p.op = "not_null" -> Missing(x)
    [] p.op = "type"     -> ~TypeMatches(x, p.arg)
    [] p.op = "format"   -> ~(p.arg = "email" /\ x.t = "string" /\ x.v \in Emails)
    [] p.op = "regex"    -> ~(x.t = "string" /\ <<p.arg, x.v>> \in Matches)
    [] p.op = "range"    -> x.t \notin Numeric \/ BelowMin(x, p) \/ AboveMax(x, p)
    [] p.op = "enum"     -> \A k \in DOMAIN p.values : ~EqualJSON(p.values[k], x)
    [] OTHER             -> TRUE

(***************************************************************************)
(* StreamChecker                                                           *)
(***************************************************************************)
IsUnique(r) == r.kind = "stream" /\ r.predicate.op = "unique"

IsCount(r) == r.kind = "stream" /\ r.predicate.op = "count"

RecordBreach(r, o) == r.kind = "record" /\ Fails(r.predicate, Lookup(o, r.path))

\* Mutated: a null has a key like any other value.
ComparableNull(x) == x.t # "absent" /\ Marshals(x)

Comparable(x) == ~Missing(x) /\ Marshals(x)

\* The key that unique rule r takes from record o, if it has one.
KeysOf(r, o) ==
  LET x == Lookup(o, r.path) IN
  IF IsUnique(r) /\ Comparable(x) THEN {Key(x)} ELSE {}

RuleIds(rules) == {rules[i].id : i \in DOMAIN rules}

NoneSeen(rules) == [id \in RuleIds(rules) |-> {}]

\* s.seen[rule.ID] when Check reaches rule i: the keys of earlier records, and
\* those that earlier rules of the same id have just added.
SeenBy(rules, seen, i, o) ==
  seen[rules[i].id] \cup
    UNION {KeysOf(rules[j], o) : j \in {k \in DOMAIN rules : k < i /\ rules[k].id = rules[i].id}}

UniqueBreach(rules, seen, i, o) ==
  /\ IsUnique(rules[i])
  /\ \/ KeysOf(rules[i], o) = {}
     \/ KeysOf(rules[i], o) \cap SeenBy(rules, seen, i, o) # {}

\* Mutated: Check returns at the first violation.
ViolatedFirst(rules, seen, o) ==
  LET hits == {i \in DOMAIN rules : RecordBreach(rules[i], o) \/ UniqueBreach(rules, seen, i, o)}
  IN  {i \in hits : \A j \in hits : i <= j}

\* StreamChecker.Check: the rules that record o breaches ...
Violated(rules, seen, o) ==
  {i \in DOMAIN rules : RecordBreach(rules[i], o) \/ UniqueBreach(rules, seen, i, o)}

\* Mutated: the set of a rule starts afresh with every record.
RememberLast(rules, seen, o) ==
  [id \in RuleIds(rules) |->
     UNION {KeysOf(rules[i], o) : i \in {j \in DOMAIN rules : rules[j].id = id}}]

\* ... and s.seen after it.
Remember(rules, seen, o) ==
  [id \in RuleIds(rules) |->
     seen[id] \cup UNION {KeysOf(rules[i], o) : i \in {j \in DOMAIN rules : rules[j].id = id}}]

\* Finalize: the count rules that n parsed records breach.
CountBreach(r, n) ==
  /\ IsCount(r)
  /\ \/ \E low \in r.predicate.min : 2 * n < low
     \/ \E high \in r.predicate.max : 2 * n > high

FinalBreaches(rules, n) == {i \in DOMAIN rules : CountBreach(rules[i], n)}

\* Violations are reported record rules first, each group in contract order.
Precedes(rules, i, j) ==
  IF rules[i].kind = rules[j].kind THEN i < j ELSE rules[i].kind = "record"

\* Mutated: one group, in contract order.
IsFirstOfContract(rules, i, pending) == i \in pending /\ \A j \in pending \ {i} : i < j

IsFirst(rules, i, pending) ==
  i \in pending /\ \A j \in pending \ {i} : Precedes(rules, i, j)
=============================================================================
