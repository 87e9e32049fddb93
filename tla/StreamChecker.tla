---------------------------- MODULE StreamChecker ----------------------------
(***************************************************************************)
(* engine.StreamChecker (engine/engine.go) as an object of its own: created   *)
(* for a contract that Validate admits, asked to Check one record after       *)
(* another, and at last to Finalize. The gates use the same operators; here   *)
(* they meet every predicate, nested paths, and the numbers of Go callers.    *)
(***************************************************************************)
EXTENDS Engine

CONSTANTS
  Given,       \* the contracts that are offered to Validate
  Objects,     \* the records that may come
  Read,        \* Read[o] : the object that encoding/json makes of the text of object o
  MaxRecords   \* bound on the records checked

\* What a field of a record may hold: an integer is whole, a float a float64, and an
\* object is no engine.Record, which only a record itself is.
Fields ==
  {x \in Values : /\ x.t \notin {"absent", "Record"}
                  /\ x.t = "int" => x.v % 2 = 0
                  /\ x.t = "float" => Rounded(x.v) = x.v
                  /\ x.t = "map" => x.v \in DOMAIN Member}

ASSUME FieldsAssumption ==
  \A o \in DOMAIN Member : \A name \in DOMAIN Member[o] : Member[o][name] \in Fields

\* encoding/json decodes every number of a document, at any depth, to float64.
FromJSON(x) ==
  CASE x.t \in {"int", "literal"} -> V("float", Float64(x))
    [] x.t \in {"map", "Record"}  -> V(x.t, Read[x.v])
    [] OTHER                      -> x

ASSUME ReadAssumption ==
  \A o \in DOMAIN Text :
    /\ Read[o] \in DOMAIN Member
    /\ Member[Read[o]] = [name \in DOMAIN Member[o] |-> FromJSON(Member[o][name])]

ASSUME GivenAssumption == Given \subseteq Contracts
ASSUME ObjectsAssumption == Objects \subseteq DOMAIN Member
ASSUME MaxRecordsAssumption == MaxRecords \in Nat

VARIABLES
  contract,
  seen, count,  \* the checker
  history,      \* the records checked
  violations,   \* what the last call returned, as indexes of rules
  finalized     \* the last call was Finalize

vars == <<contract, seen, count, history, violations, finalized>>

rules == contract.rules

\* NewStreamChecker, behind the Validate of its callers.
Init ==
  /\ contract \in {c \in Given : Validate(c)}
  /\ seen = NoneSeen(rules) /\ count = 0
  /\ history = <<>>
  /\ violations = {} /\ finalized = FALSE

Check(o) ==
  /\ ~finalized /\ Len(history) < MaxRecords
  /\ violations' = Violated(rules, seen, o)
  /\ seen' = Remember(rules, seen, o)
  /\ count' = count + 1
  /\ history' = Append(history, o)
  /\ UNCHANGED <<contract, finalized>>

Finalize ==
  /\ ~finalized
  /\ violations' = FinalBreaches(rules, count)
  /\ finalized' = TRUE
  /\ UNCHANGED <<contract, seen, count, history>>

Next == (\E o \in Objects : Check(o)) \/ Finalize

Spec == Init /\ [][Next]_vars
=============================================================================
