----------------------- MODULE StreamCheckerProperties -----------------------
(***************************************************************************)
(* What the engine must do, over the history of records.                     *)
(***************************************************************************)
EXTENDS StreamChecker

\* Type correctness of a StreamChecker: it knows the rules of its contract and
\* remembers keys only, never a null and never a value that has no encoding, and
\* under one rule no more of them than records.
TypeOK ==
  /\ contract \in Contracts
  /\ DOMAIN seen = RuleIds(rules)
  /\ \A id \in DOMAIN seen :
       /\ \A key \in seen[id] : key.t \notin {"absent", "nil", "nan", "inf"}
       /\ Cardinality(seen[id]) <= count
  /\ count = Len(history)
  /\ history \in Seq(Objects)
  /\ violations \subseteq DOMAIN rules
  /\ finalized \in BOOLEAN

Checked == history # <<>> /\ ~finalized

Latest == history[Len(history)]

\* docs/rules.md, unique: "Every non-null value at the path occurs once; missing and
\* null values breach". The verdict on a record under a unique rule depends on the
\* values earlier records had at that rule's path and on nothing else: not on the
\* other rules of the contract, and not on what became of those records.
UniqueOnce ==
  Checked =>
    \A i \in DOMAIN rules : IsUnique(rules[i]) =>
      LET x == Lookup(Latest, rules[i].path) IN
      i \in violations <=>
        \/ ~Comparable(x)
        \/ \E k \in 1..(Len(history) - 1) : EqualJSON(x, Lookup(history[k], rules[i].path))

\* A checker's memory after the first n records of the history, for these rules.
SeenAfter(rs, h) ==
  LET after[n \in 0..Len(h)] == IF n = 0 THEN NoneSeen(rs) ELSE Remember(rs, after[n - 1], h[n])
  IN  after

\* Normalizing a contract changes no verdict: a checker of the canonical contract
\* breaches the same rules on every record of the same history, and at its end.
VerdictsCanonical ==
  LET canonical == Normalize(contract).rules
      before == SeenAfter(canonical, history)[IF Checked THEN Len(history) - 1 ELSE 0]
      hits == CASE finalized -> FinalBreaches(canonical, Len(history))
                [] Checked -> Violated(canonical, before, Latest)
                [] OTHER -> {}
  IN  {rules[i].id : i \in violations} = {canonical[i].id : i \in hits}

\* A verdict depends on the JSON value at a rule's path, not on the Go type that
\* carries it: int64 1 and float64 1 satisfy and breach the same rules, as do an
\* absent field and a null.
JSONDecides ==
  Checked =>
    \A i \in DOMAIN rules, o \in Objects :
      EqualJSON(Lookup(o, rules[i].path), Lookup(Latest, rules[i].path)) =>
        (RecordBreach(rules[i], o) <=> i \in {j \in violations : rules[j].kind = "record"})

(***************************************************************************)
(* The same rows over NDJSON, and over Arrow or from a Go host. Arrow hands     *)
(* int64 cells over as they are, a host may hold literals; JSON knows neither   *)
(* NaN nor the infinities.                                                   *)
(***************************************************************************)
Row(o) ==
  \A name \in DOMAIN Member[o] : Member[o][name].t \in {"nil", "string", "bool", "int", "float", "literal"}

\* A number that is the same to both, in digits and in comparison.
PortableNumber(x) == x.t # "literal" /\ (x.t = "int" => Magnitude(x.v) <= 2 * Exact)

\* All the numbers that value x holds are.
Portable(x) ==
  /\ PortableNumber(x)
  /\ x.t \in {"map", "Record"} =>
       \A name \in DOMAIN Member[x.v] : PortableNumber(Member[x.v][name])

\* A value that a contract file may list: it was read from JSON itself.
FromFile(x) == x \in Fields /\ FromJSON(x) = x

At(k, r) == Lookup(history[k], r.path)

\* Whether rule r is breached by the last row of the history read from NDJSON.
BreachFromJSON(r) ==
  LET n == Len(history)
      x == FromJSON(At(n, r))
  IN  IF IsUnique(r)
        THEN ~Comparable(x) \/ \E k \in 1..(n - 1) : EqualJSON(x, FromJSON(At(k, r)))
        ELSE r.kind = "record" /\ Fails(r.predicate, x)

\* engine.go:236-245: integers are read as float64 or as int64, and neither may breach
\* "for a value that was fine". Whether rows come as NDJSON, over Arrow or from a host,
\* every rule judges them alike, the whole row at $ included, while the integers at its
\* path are float64s. Past 2^53, and on literals, unique and enum see digits that NDJSON
\* has rounded. Then they err on one side each: a row that is unique over NDJSON is unique
\* elsewhere, rounding hides no duplicate; and a row that a contract file's enum admits
\* elsewhere it admits over NDJSON.
TransportsAgree ==
  Checked /\ (\A k \in DOMAIN history : Row(history[k])) =>
    \A i \in DOMAIN rules :
      LET r == rules[i]
          values == r.predicate.values
      IN
      /\ IsUnique(r) => (i \in violations => BreachFromJSON(r))
      /\ r.predicate.op = "enum" /\ (\A k \in DOMAIN values : FromFile(values[k]))
           => (BreachFromJSON(r) => i \in violations)
      /\ (r.predicate.op \notin {"unique", "enum"} \/ \A k \in DOMAIN history : Portable(At(k, r)))
           => (i \in violations <=> BreachFromJSON(r))

\* docs/rules.md, type: "Value has the exact JSON type requested". The value at the
\* path $ is the record, which is a JSON object.
RecordsAreObjects ==
  Checked =>
    \A i \in DOMAIN rules :
      rules[i].path = Root /\ rules[i].predicate.op = "type" /\ rules[i].predicate.arg = "object" =>
        i \notin violations
=============================================================================
