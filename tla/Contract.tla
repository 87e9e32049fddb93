------------------------------ MODULE Contract ------------------------------
(***************************************************************************)
(* The contract artifact (contract/contract.go): its rules, what Validate  *)
(* admits and what Normalize makes of it.                                   *)
(*                                                                         *)
(* Data is abstracted to what the engine and the gates tell apart:         *)
(*  - a rule id is a number, 0 standing for the empty string, and the      *)
(*    order of numbers stands for Go's byte order of strings;              *)
(*  - a path is the sequence of its dot-separated parts: <<"$">>,          *)
(*    <<"$", "id">>; anything else that does not start with "$" is a path   *)
(*    that Validate refuses;                                               *)
(*  - a JSON or Go value is [t, v], a kind and a number that tells values   *)
(*    of the kind apart. Numbers are counted in halves (1.5 is 3), bounds   *)
(*    too; text 0 is the empty string; a bound is a set of at most one      *)
(*    number, {} standing for a nil pointer.                               *)
(***************************************************************************)
EXTENDS Integers, Sequences, FiniteSets, TLC

CONSTANT Patterns   \* the regular expressions that compile; "" is not one

ASSUME PatternsAssumption == Patterns \subseteq STRING \ {""}

Root == <<"$">>

Types == {"string", "number", "integer", "boolean", "object", "array"}

RecordOps == {"required", "not_null", "type", "format", "regex", "range", "enum"}

StreamOps == {"unique", "count"}

Actions == {"warn", "reject", "quarantine", "halt"}

V(t, v) == [t |-> t, v |-> v]

\* What Go's encoding/json decodes a document into, and Arrow's column kinds. A literal
\* is a json.Number that spells a number otherwise than json.Marshal does (1.0, 1e3).
Kinds == {"absent", "nil", "string", "bool", "int", "float", "literal", "nan", "inf",
          "array", "map", "Record"}

Values == [t : Kinds, v : Int]

Predicates == [op : STRING, arg : STRING, min : SUBSET Int, max : SUBSET Int,
               values : Seq(Values)]

Rules == [id : Nat, version : STRING, kind : STRING, path : Seq(STRING),
          predicate : Predicates, severity : STRING, action : STRING]

Contracts == [ir : STRING, id : STRING, version : STRING, input : STRING,
              rules : Seq(Rules)]

(***************************************************************************)
(* Validate                                                                *)
(***************************************************************************)
BoundsValid(p) ==
  /\ p.min # {} \/ p.max # {}
  /\ \A low \in p.min, high \in p.max : low <= high

PathValid(path) == Len(path) > 0 /\ path[1] = "$"

PredicateValid(r) ==
  LET p == r.predicate IN
  /\ r.kind = "record" => p.op \in RecordOps
  /\ r.kind = "stream" => p.op \in StreamOps
  /\ p.op = "type" => p.arg \in Types
  /\ p.op = "format" => p.arg = "email"
  /\ p.op = "regex" => p.arg \in Patterns
  /\ p.op = "enum" => p.values # <<>>
  /\ p.op = "count" => r.path = Root
  /\ p.op \in {"range", "count"} => BoundsValid(p)

RuleValid(r) ==
  /\ r.id # 0
  /\ r.version \in {"", "1"}
  /\ r.kind \in {"record", "stream"}
  /\ PathValid(r.path)
  /\ PredicateValid(r)
  /\ r.severity \in {"", "warning", "error"}
  /\ r.action \in Actions

\* Mutated: only the presence of an id is checked.
IdsPresent(rules) == \A i \in DOMAIN rules : rules[i].id # 0

IdsUnique(rules) ==
  \A i, j \in DOMAIN rules : rules[i].id = rules[j].id => i = j

Validate(c) ==
  /\ c.ir = "1.0"
  /\ c.id # ""
  /\ c.version # ""
  /\ c.input = "record-stream"
  /\ Len(c.rules) > 0
  /\ IdsUnique(c.rules)
  /\ \A i \in DOMAIN c.rules : RuleValid(c.rules[i])

\* The defaults are texts. TLC evaluates this; TLAPS knows no literal to be in STRING.
ASSUME DefaultsAssumption == {"1", "error"} \subseteq STRING

(***************************************************************************)
(* Normalize: semantic defaults, then the rules sorted by id. It is called  *)
(* on contracts that Validate admits.                                      *)
(***************************************************************************)
RuleVersion(r) == IF r.version = "" THEN "1" ELSE r.version

\* Mutated: the default is left to the engine.
SeverityAsIs(r) == r.severity

Severity(r) == IF r.severity = "" THEN "error" ELSE r.severity

WithDefaults(r) == [r EXCEPT !.version = RuleVersion(r), !.severity = Severity(r)]

\* Sequence s in the order of the numbers key, of equal ones in the order of s.
SortedBy(s, key) ==
  LET before(i) == {j \in DOMAIN s : key[j] < key[i] \/ (key[j] = key[i] /\ j < i)}
  IN  [n \in DOMAIN s |-> s[CHOOSE i \in DOMAIN s : Cardinality(before(i)) = n - 1]]

SortedById(rules) == SortedBy(rules, [i \in DOMAIN rules |-> rules[i].id])

Normalize(c) ==
  [c EXCEPT !.rules = SortedById([i \in DOMAIN c.rules |-> WithDefaults(c.rules[i])])]
=============================================================================
