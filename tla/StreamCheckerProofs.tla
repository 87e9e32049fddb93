------------------------- MODULE StreamCheckerProofs -------------------------
(***************************************************************************)
(* Theorems about engine.StreamChecker for every contract, all records and    *)
(* every length of the stream.                                              *)
(***************************************************************************)
EXTENDS StreamCheckerProperties, EngineLemmas

(***************************************************************************)
(* The memory of a checker                                                  *)
(***************************************************************************)
Remembers ==
  /\ contract \in Contracts /\ IdsUnique(rules)
  /\ history \in Seq(Objects) /\ count = Len(history) /\ finalized \in BOOLEAN
  /\ DOMAIN seen = RuleIds(rules)
  /\ \A i \in DOMAIN rules :
       seen[rules[i].id] = UNION {KeysOf(rules[i], history[k]) : k \in 1..Len(history)}

\* No key is kept twice, so there are no more of them than records.
Bounded ==
  \A id \in DOMAIN seen : IsFiniteSet(seen[id]) /\ Cardinality(seen[id]) <= count

Inv == Remembers /\ Bounded /\ UniqueOnce /\ violations \subseteq DOMAIN rules

LEMMA RulesType ==
  ASSUME contract \in Contracts
  PROVE  rules \in Seq(Rules)
BY DEF Contracts, rules

LEMMA InitInv == Init => Inv
<1> SUFFICES ASSUME Init PROVE Inv
  OBVIOUS
<1>1. contract \in Contracts /\ IdsUnique(rules)
  BY GivenAssumption DEF Init, Validate, rules
<1>2. history \in Seq(Objects) /\ Len(history) = 0 /\ count = 0 /\ finalized = FALSE
  BY DEF Init
<1>3. DOMAIN seen = RuleIds(rules) /\ \A id \in DOMAIN seen : seen[id] = {}
  BY DEF Init, NoneSeen
<1>4. \A i \in DOMAIN rules : rules[i].id \in DOMAIN seen
  BY <1>3 DEF RuleIds
<1>5. \A i \in DOMAIN rules :
        seen[rules[i].id] = UNION {KeysOf(rules[i], history[k]) : k \in 1..Len(history)}
  BY <1>2, <1>3, <1>4
<1>6. Remembers
  BY <1>1, <1>2, <1>3, <1>5 DEF Remembers
<1>7. Bounded
  <2>1. IsFiniteSet({}) /\ Cardinality({}) = 0 /\ count = 0
    BY <1>2, FS_EmptySet
  <2>2. \A id \in DOMAIN seen : IsFiniteSet(seen[id]) /\ Cardinality(seen[id]) = 0
    BY <1>3, <2>1, Zenon
  <2> QED
    BY <2>1, <2>2 DEF Bounded
<1>8. UniqueOnce /\ violations \subseteq DOMAIN rules
  BY DEF Init, UniqueOnce, Checked
<1> QED
  BY <1>6, <1>7, <1>8 DEF Inv

LEMMA CheckRemembers ==
  ASSUME Remembers, NEW o \in Objects, Check(o)
  PROVE  Remembers'
<1>1. rules \in Seq(Rules) /\ rules' = rules /\ IdsUnique(rules)
  BY RulesType DEF Remembers, Check, rules
<1>2. /\ history' \in Seq(Objects) /\ Len(history') = Len(history) + 1
      /\ history'[Len(history) + 1] = o
      /\ \A k \in 1..Len(history) : history'[k] = history[k]
      /\ Len(history) \in Nat
  BY DEF Remembers, Check
<1>3. DOMAIN seen' = RuleIds(rules)
  BY DEF Check, Remember
<1>4. ASSUME NEW i \in DOMAIN rules
      PROVE  seen'[rules[i].id] = UNION {KeysOf(rules[i], history'[k]) : k \in 1..Len(history')}
  <2>1. seen'[rules[i].id] = seen[rules[i].id] \cup KeysOf(rules[i], o)
    BY <1>1, OwnKeys DEF Check
  <2>2. seen[rules[i].id] = UNION {KeysOf(rules[i], history[k]) : k \in 1..Len(history)}
    BY DEF Remembers
  <2>3. 1..Len(history') = 1..Len(history) \cup {Len(history) + 1}
    BY <1>2
  <2>4. UNION {KeysOf(rules[i], history'[k]) : k \in 1..Len(history')}
          = (UNION {KeysOf(rules[i], history[k]) : k \in 1..Len(history)}) \cup KeysOf(rules[i], o)
    BY <1>2, <2>3
  <2> QED
    BY <2>1, <2>2, <2>4
<1> QED
  BY <1>1, <1>2, <1>3, <1>4 DEF Remembers, Check

LEMMA CheckBounded ==
  ASSUME Remembers, Bounded, NEW o \in Objects, Check(o)
  PROVE  Bounded'
<1>1. rules \in Seq(Rules) /\ IdsUnique(rules) /\ DOMAIN seen = RuleIds(rules)
  BY RulesType DEF Remembers
<1>2. DOMAIN seen' = RuleIds(rules) /\ count \in Nat /\ count' = count + 1
  BY DEF Check, Remember, Remembers
<1> SUFFICES ASSUME NEW id \in RuleIds(rules)
             PROVE  IsFiniteSet(seen'[id]) /\ Cardinality(seen'[id]) <= count + 1
  BY <1>2 DEF Bounded
<1>3. PICK i \in DOMAIN rules : rules[i].id = id
  BY DEF RuleIds
<1>4. seen'[id] = seen[id] \cup KeysOf(rules[i], o)
  BY <1>1, <1>3, OwnKeys DEF Check
<1>5. IsFiniteSet(seen[id]) /\ Cardinality(seen[id]) <= count
  BY <1>1 DEF Bounded
<1>6. IsFiniteSet(KeysOf(rules[i], o)) /\ Cardinality(KeysOf(rules[i], o)) <= 1
  BY KeysFew
<1> DEFINE old == seen[id]
           new == KeysOf(rules[i], o)
<1>7. /\ IsFiniteSet(old \cup new)
      /\ Cardinality(old \cup new) = Cardinality(old) + Cardinality(new) - Cardinality(old \cap new)
  BY <1>5, <1>6, FS_Union
<1>8. IsFiniteSet(old \cap new)
  BY <1>5, FS_Subset
<1>9. Cardinality(old) \in Nat /\ Cardinality(new) \in Nat /\ Cardinality(old \cap new) \in Nat
  BY <1>5, <1>6, <1>8, FS_CardinalityType
<1> HIDE DEF old, new
<1>10. Cardinality(old \cup new) <= count + 1
  BY <1>2, <1>5, <1>6, <1>7, <1>9 DEF old, new
<1> QED
  BY <1>4, <1>7, <1>10 DEF old, new

\* What the checker finds is what the history says.
LEMMA CheckUnique ==
  ASSUME Remembers, NEW o \in Objects, Check(o)
  PROVE  UniqueOnce' /\ (violations \subseteq DOMAIN rules)'
<1>1. rules \in Seq(Rules) /\ rules' = rules /\ IdsUnique(rules)
  BY RulesType DEF Remembers, Check, rules
<1>2. /\ Len(history') = Len(history) + 1 /\ history'[Len(history) + 1] = o
      /\ \A k \in 1..Len(history) : history'[k] = history[k]
      /\ Len(history) \in Nat
  BY DEF Remembers, Check
<1>3. violations' = Violated(rules, seen, o)
  BY DEF Check
<1>4. ASSUME NEW i \in DOMAIN rules, IsUnique(rules[i])
      PROVE  LET x == Lookup(o, rules[i].path) IN
             i \in violations' <=>
               \/ ~Comparable(x)
               \/ \E k \in 1..Len(history) : EqualJSON(x, Lookup(history[k], rules[i].path))
  <2> DEFINE r == rules[i]
             x == Lookup(o, r.path)
             y(k) == Lookup(history[k], r.path)
  <2>1. i \in violations' <=> UniqueBreach(rules, seen, i, o)
    <3>1. ~RecordBreach(r, o)
      BY <1>4 DEF RecordBreach, IsUnique
    <3> QED
      BY <1>3, <3>1 DEF Violated
  <2>2. SeenBy(rules, seen, i, o) = UNION {KeysOf(r, history[k]) : k \in 1..Len(history)}
    BY <1>1, OwnKeys DEF Remembers
  <2>3. UniqueBreach(rules, seen, i, o) <=>
          KeysOf(r, o) = {} \/ \E k \in 1..Len(history) : KeysOf(r, o) \cap KeysOf(r, history[k]) # {}
    BY <1>4, <2>2 DEF UniqueBreach
  <2>4. KeysOf(r, o) = IF Comparable(x) THEN {Key(x)} ELSE {}
    BY <1>4 DEF KeysOf
  <2>5. \A k \in 1..Len(history) : KeysOf(r, history[k]) = IF Comparable(y(k)) THEN {Key(y(k))} ELSE {}
    BY <1>4 DEF KeysOf
  <2>6. ASSUME Comparable(x), NEW k \in 1..Len(history)
        PROVE  KeysOf(r, o) \cap KeysOf(r, history[k]) # {} <=> EqualJSON(x, y(k))
    <3> HIDE DEF x, y, r
    <3>1. ASSUME EqualJSON(x, y(k)) PROVE Comparable(y(k)) /\ Key(x) = Key(y(k))
      BY <2>6, <3>1, KeyOfMissing DEF EqualJSON
    <3>2. ASSUME Comparable(y(k)), Key(x) = Key(y(k)) PROVE EqualJSON(x, y(k))
      BY <2>6, <3>2 DEF EqualJSON, Comparable
    <3> QED
      BY <2>4, <2>5, <2>6, <3>1, <3>2
  <2> HIDE DEF x, y, r
  <2>7. i \in violations' <=> ~Comparable(x) \/ \E k \in 1..Len(history) : EqualJSON(x, y(k))
    BY <2>1, <2>3, <2>4, <2>6
  <2> QED
    BY <2>7 DEF x, y, r
<1>5. violations' \subseteq DOMAIN rules
  BY <1>3 DEF Violated
<1>6. Len(history') - 1 = Len(history) /\ Latest' = o
  BY <1>2 DEF Latest
<1>7. UniqueOnce'
  BY <1>1, <1>2, <1>4, <1>6 DEF UniqueOnce
<1> QED
  BY <1>1, <1>5, <1>7

LEMMA NextInv == Inv /\ [Next]_vars => Inv'
<1> SUFFICES ASSUME Inv, [Next]_vars PROVE Inv'
  OBVIOUS
<1>1. CASE \E o \in Objects : Check(o)
  <2>1. PICK o \in Objects : Check(o)
    BY <1>1
  <2> QED
    BY <2>1, CheckRemembers, CheckBounded, CheckUnique DEF Inv
<1>2. CASE Finalize
  <2>1. Remembers'
    BY <1>2 DEF Inv, Remembers, Finalize, rules
  <2>2. Bounded'
    BY <1>2 DEF Inv, Bounded, Finalize
  <2>3. UniqueOnce' /\ (violations \subseteq DOMAIN rules)'
    BY <1>2 DEF Finalize, UniqueOnce, Checked, FinalBreaches, rules
  <2> QED
    BY <2>1, <2>2, <2>3 DEF Inv
<1>3. CASE UNCHANGED vars
  <2>1. Remembers' /\ Bounded'
    BY <1>3 DEF Inv, Remembers, Bounded, vars, rules
  <2>2. UniqueOnce' /\ (violations \subseteq DOMAIN rules)'
    BY <1>3 DEF Inv, vars, UniqueOnce, Checked, Latest, rules
  <2> QED
    BY <2>1, <2>2 DEF Inv
<1> QED
  BY <1>1, <1>2, <1>3 DEF Next

(***************************************************************************)
(* Lookup: what it finds at a path                                          *)
(***************************************************************************)
\* The values on the way of a lookup.
Nodes == Fields \cup {V("absent", 0)} \cup {V("map", o) : o \in DOMAIN Member}

LEMMA ChildNode ==
  ASSUME NEW x \in Nodes, NEW name
  PROVE  Child(x, name) \in Nodes
<1>1. x.t = "map" => x.v \in DOMAIN Member
  BY DEF Nodes, Fields, V
<1>2. CASE x.t = "map" /\ name \in DOMAIN Member[x.v]
  BY <1>1, <1>2, FieldsAssumption DEF Child, Nodes
<1>3. CASE ~(x.t = "map" /\ name \in DOMAIN Member[x.v])
  BY <1>3 DEF Child, Nodes
<1> QED
  BY <1>2, <1>3

\* A lookup stays where the object and the children of what is there are.
LEMMA LookupWithin ==
  ASSUME NEW o, NEW Near, V("map", o) \in Near,
         \A x \in Near : \A name : Child(x, name) \in Near,
         NEW path, Len(path) \in Nat, path # Root
  PROVE  Lookup(o, path) \in Near
<1> DEFINE W(w) == w = [n \in Nat |-> IF n <= 1 THEN V("map", o) ELSE Child(w[n - 1], path[n])]
           walk == CHOOSE w : W(w)
           first == V("map", o)
           g == [n \in Nat |-> [x \in Near |-> IF n = 0 THEN first ELSE Child(x, path[n + 1])]]
<1>1. first \in Near
  OBVIOUS
<1>2. Stepping(Near, g)
  BY <1>1 DEF Stepping
<1>3. PICK f : Recursive(Near, first, g, f)
  <2> HIDE DEF g, first
  <2> QED
    BY <1>1, <1>2, RecursionDefines, Zenon
<1>4. W(f)
  <2>1. ASSUME NEW n \in Nat
        PROVE  f[n] = IF n <= 1 THEN V("map", o) ELSE Child(f[n - 1], path[n])
    <3>1. CASE n = 0
      BY <1>3, <3>1 DEF Recursive
    <3>2. CASE n # 0
      <4>1. n - 1 \in Nat /\ (n - 1) + 1 = n
        BY <3>2
      <4>2. f[n] = g[n - 1][f[n - 1]] /\ f[n - 1] \in Near
        BY <1>3, <4>1 DEF Recursive
      <4>3. f[n] = IF n - 1 = 0 THEN V("map", o) ELSE Child(f[n - 1], path[n])
        BY <4>1, <4>2
      <4> QED
        BY <3>2, <4>3
    <3> QED
      BY <3>1, <3>2
  <2> QED
    BY <1>3, <2>1 DEF Recursive
<1>5. W(walk)
  <2> HIDE DEF W
  <2> QED
    BY <1>4, Zenon
<1> HIDE DEF walk
<1> DEFINE S == {n \in Nat : walk[n] \in Near}
<1>6. S = Nat
  <2>0. \A n \in Nat : walk[n] = IF n <= 1 THEN V("map", o) ELSE Child(walk[n - 1], path[n])
    BY <1>5
  <2>1. 0 \in S
    BY <1>1, <2>0
  <2>2. ASSUME NEW n \in S PROVE n + 1 \in S
    <3>1. n + 1 \in Nat /\ (n + 1) - 1 = n /\ walk[n] \in Near
      OBVIOUS
    <3>2. walk[n + 1] = IF n + 1 <= 1 THEN V("map", o) ELSE Child(walk[n], path[n + 1])
      BY <2>0, <3>1
    <3> QED
      BY <1>1, <3>1, <3>2
  <2>3. S \in SUBSET Nat
    OBVIOUS
  <2> HIDE DEF S
  <2> QED
    BY <2>1, <2>2, <2>3, InductiveSet
<1>7. Lookup(o, path) = walk[Len(path)]
  BY DEF Lookup, walk
<1> QED
  BY <1>6, <1>7

LEMMA LookupNode ==
  ASSUME NEW o \in DOMAIN Member, NEW path, Len(path) \in Nat, path # Root
  PROVE  Lookup(o, path) \in Nodes
<1>1. V("map", o) \in Nodes
  BY DEF Nodes
<1>2. \A x \in Nodes : \A name : Child(x, name) \in Nodes
  BY ChildNode
<1> QED
  BY <1>1, <1>2, LookupWithin

\* What lies at one path in two records.
LEMMA LookupPair ==
  ASSUME NEW o \in DOMAIN Member, NEW q \in DOMAIN Member, NEW path, Len(path) \in Nat
  PROVE  \/ Lookup(o, path) = V("Record", o) /\ Lookup(q, path) = V("Record", q)
         \/ Lookup(o, path) \in Nodes /\ Lookup(q, path) \in Nodes
BY LookupNode DEF Lookup

(***************************************************************************)
(* Keys                                                                    *)
(***************************************************************************)
\* A float64 and an integer that has its digits.
Spells(x, y) == x.t = "int" /\ y.t = "float" /\ Float64(x) = y.v /\ y.v % 2 = 0

\* What a lookup finds.
Found == Nodes \cup {V("Record", o) : o \in DOMAIN Member}

LEMMA FoundIs ==
  ASSUME NEW x \in Found
  PROVE  /\ x = V(x.t, x.v) /\ x.t \in Kinds
         /\ x.t = "int" => x.v \in Int /\ x.v % 2 = 0
         /\ x.t = "float" => x.v \in Int /\ Rounded(x.v) = x.v
         /\ x.t \in {"map", "Record"} => x.v \in DOMAIN Member
BY DEF Found, Nodes, Fields, Values, V, Kinds

IsObject(x) == x.t \in {"map", "Record"}

\* Two objects of one JSON text.
SameText(x, y) ==
  /\ IsObject(x) /\ IsObject(y) /\ x.v \in DOMAIN Text /\ y.v \in DOMAIN Text
  /\ Text[x.v] = Text[y.v]

LEMMA KeyIs ==
  ASSUME NEW x \in Found
  PROVE  /\ x.t = "absent" => Key(x).t = "nil"
         /\ x.t = "int" => Key(x).t = "number" /\ Key(x).v = x.v
         /\ x.t = "float" => Key(x).t = "number" /\ Key(x).v = Digits(x.v)
         /\ IsObject(x) => Key(x).t = "map" /\ Key(x).v = Text[x.v]
         /\ x.t \notin {"absent", "int", "float", "map", "Record"} => Key(x) = x /\ x.t # "number"
BY FoundIs DEF Key, V, Kinds, IsObject

\* JSON values are equal if they are the same, both missing, one number of two types,
\* or objects of one text.
LEMMA KeysMeet ==
  ASSUME NEW x \in Found, NEW y \in Found, EqualJSON(x, y)
  PROVE  x = y \/ (Missing(x) /\ Missing(y)) \/ Spells(x, y) \/ Spells(y, x) \/ SameText(x, y)
<1>1. /\ Key(x) = Key(y) /\ x.t \notin {"nan", "inf"} /\ y.t \notin {"nan", "inf"}
      /\ IsObject(x) => x.v \in DOMAIN Text
      /\ IsObject(y) => y.v \in DOMAIN Text
  BY DEF EqualJSON, Marshals, IsObject
<1>2. CASE x.t = "int" /\ y.t = "float"
  <2>1. x.v = Digits(y.v) /\ x.v \in Int /\ x.v % 2 = 0 /\ y.v \in Int /\ Rounded(y.v) = y.v
    BY <1>1, <1>2, FoundIs, KeyIs
  <2>2. Rounded(x.v) = y.v /\ y.v % 2 = 0
    BY <2>1, DigitsRead
  <2> QED
    BY <1>2, <2>2 DEF Spells, Float64
<1>3. CASE y.t = "int" /\ x.t = "float"
  <2>1. y.v = Digits(x.v) /\ y.v \in Int /\ y.v % 2 = 0 /\ x.v \in Int /\ Rounded(x.v) = x.v
    BY <1>1, <1>3, FoundIs, KeyIs
  <2>2. Rounded(y.v) = x.v /\ x.v % 2 = 0
    BY <2>1, DigitsRead
  <2> QED
    BY <1>3, <2>2 DEF Spells, Float64
<1>4. CASE x.t = "float" /\ y.t = "float"
  <2>1. Digits(x.v) = Digits(y.v) /\ x.v \in Int /\ Rounded(x.v) = x.v /\ y.v \in Int /\ Rounded(y.v) = y.v
    BY <1>1, <1>4, FoundIs, KeyIs
  <2>2. x.v = y.v
    BY <2>1, DigitsRead
  <2> QED
    BY <1>4, <2>2, FoundIs
<1>5. CASE x.t = "int" /\ y.t = "int"
  BY <1>1, <1>5, FoundIs, KeyIs
<1>6. CASE IsObject(x) /\ IsObject(y)
  <2>1. Text[x.v] = Text[y.v]
    BY <1>1, <1>6, KeyIs
  <2> QED
    BY <1>1, <1>6, <2>1 DEF SameText
<1>7. CASE x.t \notin {"int", "float", "map", "Record"} /\ y.t \notin {"int", "float", "map", "Record"}
  BY <1>1, <1>7, FoundIs, KeyIs DEF Missing
<1>8. /\ (x.t \in {"int", "float"}) <=> (y.t \in {"int", "float"})
      /\ IsObject(x) <=> IsObject(y)
  BY <1>1, KeyIs DEF IsObject
<1> QED
  BY <1>2, <1>3, <1>4, <1>5, <1>6, <1>7, <1>8 DEF IsObject

\* No predicate but enum looks into an object or tells a missing value from a null.
LEMMA KindDecides ==
  ASSUME NEW x, NEW y, NEW p, p.op # "enum",
         \/ Missing(x) /\ Missing(y)
         \/ IsObject(x) /\ y.t = x.t
  PROVE  Fails(p, x) <=> Fails(p, y)
<1>1. x.t \notin Numeric /\ y.t \notin Numeric /\ ~IsInteger(x) /\ ~IsInteger(y)
  BY DEF Missing, IsObject, Numeric, Finite, IsInteger
<1>2. x.t # "string" /\ y.t # "string" /\ x # V("string", 0) /\ y # V("string", 0)
  BY DEF Missing, IsObject, V
<1>3. TypeMatches(x, p.arg) <=> TypeMatches(y, p.arg)
  BY <1>1, <1>2 DEF TypeMatches, Missing, IsObject
<1>4. Missing(x) <=> Missing(y)
  BY DEF Missing, IsObject
<1> QED
  BY <1>1, <1>2, <1>3, <1>4 DEF Fails

\* No predicate tells equal values apart, but that type tells an object from a record.
LEMMA SameVerdict ==
  ASSUME NEW x \in Found, NEW y \in Found, EqualJSON(x, y), x.t = "Record" <=> y.t = "Record", NEW p
  PROVE  Fails(p, x) <=> Fails(p, y)
<1>1. \A z : EqualJSON(z, x) <=> EqualJSON(z, y)
  BY DEF EqualJSON
<1>2. CASE p.op = "enum"
  BY <1>1, <1>2 DEF Fails
<1>3. ASSUME NEW u, NEW w, Spells(u, w), p.op # "enum"
      PROVE  Fails(p, u) <=> Fails(p, w)
  <2>1. u.t = "int" /\ w.t = "float" /\ Float64(u) = w.v /\ Float64(w) = w.v /\ IsInteger(u) /\ IsInteger(w)
    BY <1>3 DEF Spells, Float64, IsInteger
  <2>2. /\ TypeMatches(u, p.arg) <=> TypeMatches(w, p.arg)
        /\ BelowMin(u, p) <=> BelowMin(w, p)
        /\ AboveMax(u, p) <=> AboveMax(w, p)
    BY <2>1 DEF TypeMatches, BelowMin, AboveMax, Finite, Numeric
  <2>3. u # V("string", 0) /\ w # V("string", 0) /\ ~Missing(u) /\ ~Missing(w)
    BY <2>1 DEF V, Missing
  <2> QED
    BY <1>3, <2>1, <2>2, <2>3 DEF Fails, Numeric, Finite
<1>4. CASE Missing(x) /\ Missing(y) /\ p.op # "enum"
  BY <1>4, KindDecides
<1>5. CASE SameText(x, y) /\ p.op # "enum"
  <2>1. IsObject(x) /\ y.t = x.t
    BY <1>5 DEF SameText, IsObject
  <2> QED
    BY <1>5, <2>1, KindDecides
<1> QED
  BY <1>2, <1>3, <1>4, <1>5, KeysMeet

(***************************************************************************)
(* Verdicts, from the history                                               *)
(***************************************************************************)
\* Rule r is breached by the last record of h, after the others.
BreachedBy(r, h) ==
  \/ RecordBreach(r, h[Len(h)])
  \/ /\ IsUnique(r)
     /\ \/ KeysOf(r, h[Len(h)]) = {}
        \/ \E k \in 1..(Len(h) - 1) : KeysOf(r, h[Len(h)]) \cap KeysOf(r, h[k]) # {}

\* A memory of the records of h before the last finds what the history says.
LEMMA FreshVerdict ==
  ASSUME NEW rs \in Seq(Rules), IdsUnique(rs), NEW s, NEW h, NEW i \in DOMAIN rs,
         s[rs[i].id] = UNION {KeysOf(rs[i], h[k]) : k \in 1..(Len(h) - 1)}
  PROVE  i \in Violated(rs, s, h[Len(h)]) <=> BreachedBy(rs[i], h)
<1> DEFINE r == rs[i]
           o == h[Len(h)]
           before == 1..(Len(h) - 1)
<1>1. SeenBy(rs, s, i, o) = UNION {KeysOf(r, h[k]) : k \in before}
  BY OwnKeys
<1>2. KeysOf(r, o) \cap SeenBy(rs, s, i, o) # {} <=> \E k \in before : KeysOf(r, o) \cap KeysOf(r, h[k]) # {}
  <2> HIDE DEF before, o, r
  <2> QED
    BY <1>1
<1>3. UniqueBreach(rs, s, i, o) <=>
        /\ IsUnique(r)
        /\ KeysOf(r, o) = {} \/ \E k \in before : KeysOf(r, o) \cap KeysOf(r, h[k]) # {}
  BY <1>2 DEF UniqueBreach
<1>4. i \in Violated(rs, s, o) <=> RecordBreach(r, o) \/ UniqueBreach(rs, s, i, o)
  BY DEF Violated
<1> QED
  BY <1>3, <1>4 DEF BreachedBy

\* The defaults change no verdict.
LEMMA DefaultVerdict ==
  ASSUME NEW r \in Rules, NEW h
  PROVE  /\ BreachedBy(WithDefaults(r), h) <=> BreachedBy(r, h)
         /\ \A n : CountBreach(WithDefaults(r), n) <=> CountBreach(r, n)
<1> DEFINE d == WithDefaults(r)
<1>1. d.kind = r.kind /\ d.path = r.path /\ d.predicate = r.predicate
  BY Defaults
<1> HIDE DEF d
<1>2. (IsUnique(d) <=> IsUnique(r)) /\ (IsCount(d) <=> IsCount(r))
  BY <1>1 DEF IsUnique, IsCount
<1>3. \A o : KeysOf(d, o) = KeysOf(r, o) /\ (RecordBreach(d, o) <=> RecordBreach(r, o))
  BY <1>1, <1>2 DEF KeysOf, RecordBreach
<1>4. BreachedBy(d, h) <=> BreachedBy(r, h)
  BY <1>2, <1>3 DEF BreachedBy
<1>5. \A n : CountBreach(d, n) <=> CountBreach(r, n)
  BY <1>1, <1>2 DEF CountBreach
<1> QED
  BY <1>4, <1>5 DEF d

\* What a checker of rules rs remembers of the first n records of h.
Kept(rs, h, n) ==
  [id \in RuleIds(rs) |->
     UNION {UNION {KeysOf(rs[i], h[k]) : i \in {j \in DOMAIN rs : rs[j].id = id}} : k \in 1..n}]

LEMMA KeptGrows ==
  ASSUME NEW rs, NEW h, NEW n \in Nat
  PROVE  Kept(rs, h, 0) = NoneSeen(rs) /\ Kept(rs, h, n + 1) = Remember(rs, Kept(rs, h, n), h[n + 1])
<1> DEFINE New(id, k) == UNION {KeysOf(rs[i], h[k]) : i \in {j \in DOMAIN rs : rs[j].id = id}}
<1>1. ASSUME NEW id \in RuleIds(rs)
      PROVE  /\ UNION {New(id, k) : k \in 1..0} = {}
             /\ UNION {New(id, k) : k \in 1..(n + 1)} = (UNION {New(id, k) : k \in 1..n}) \cup New(id, n + 1)
  <2>1. 1..0 = {} /\ 1..(n + 1) = 1..n \cup {n + 1}
    OBVIOUS
  <2> HIDE DEF New
  <2> QED
    BY <2>1
<1> QED
  BY <1>1 DEF Kept, NoneSeen, Remember

LEMMA SeenAfterIs ==
  ASSUME NEW rs, NEW h, Len(h) \in Nat, NEW n \in 0..Len(h)
  PROVE  SeenAfter(rs, h)[n] = Kept(rs, h, n)
<1> DEFINE A(f) == f = [m \in 0..Len(h) |-> IF m = 0 THEN NoneSeen(rs) ELSE Remember(rs, f[m - 1], h[m])]
           after == CHOOSE f : A(f)
           kept == [m \in 0..Len(h) |-> Kept(rs, h, m)]
<1>1. A(kept)
  <2>1. ASSUME NEW m \in 0..Len(h)
        PROVE  Kept(rs, h, m) = IF m = 0 THEN NoneSeen(rs) ELSE Remember(rs, kept[m - 1], h[m])
    <3>1. CASE m = 0
      BY <3>1, KeptGrows
    <3>2. CASE m # 0
      <4>1. m - 1 \in Nat /\ (m - 1) + 1 = m /\ m - 1 \in 0..Len(h)
        BY <3>2
      <4>2. Kept(rs, h, (m - 1) + 1) = Remember(rs, Kept(rs, h, m - 1), h[(m - 1) + 1])
        BY <4>1, KeptGrows
      <4>3. kept[m - 1] = Kept(rs, h, m - 1)
        BY <4>1
      <4> QED
        BY <3>2, <4>1, <4>2, <4>3
    <3> QED
      BY <3>1, <3>2
  <2> QED
    BY <2>1
<1>2. A(after)
  <2> HIDE DEF A
  <2> QED
    BY <1>1, Zenon
<1>3. SeenAfter(rs, h) = after
  BY DEF SeenAfter
<1> HIDE DEF after
<1> DEFINE S == {m \in Nat : m <= Len(h) => after[m] = Kept(rs, h, m)}
<1>4. S = Nat
  <2>0. \A m \in 0..Len(h) : after[m] = IF m = 0 THEN NoneSeen(rs) ELSE Remember(rs, after[m - 1], h[m])
    BY <1>2
  <2>1. 0 \in S
    BY <2>0, KeptGrows
  <2>2. ASSUME NEW m \in S PROVE m + 1 \in S
    <3>1. SUFFICES ASSUME m + 1 <= Len(h) PROVE after[m + 1] = Kept(rs, h, m + 1)
      OBVIOUS
    <3>2. m \in Nat /\ m <= Len(h) /\ m + 1 \in 0..Len(h) /\ m + 1 # 0 /\ (m + 1) - 1 = m
      BY <3>1
    <3>3. after[m] = Kept(rs, h, m)
      BY <3>2
    <3>4. after[m + 1] = Remember(rs, after[m], h[m + 1])
      BY <2>0, <3>2
    <3> QED
      BY <3>2, <3>3, <3>4, KeptGrows
  <2>3. S \in SUBSET Nat
    OBVIOUS
  <2> HIDE DEF S
  <2> QED
    BY <2>1, <2>2, <2>3, InductiveSet
<1>5. n \in S /\ n <= Len(h)
  BY <1>4
<1> QED
  BY <1>3, <1>5

LEMMA KeptOwn ==
  ASSUME NEW rs, IdsUnique(rs), NEW h, NEW n, NEW i \in DOMAIN rs
  PROVE  Kept(rs, h, n)[rs[i].id] = UNION {KeysOf(rs[i], h[k]) : k \in 1..n}
<1>1. {j \in DOMAIN rs : rs[j].id = rs[i].id} = {i} /\ rs[i].id \in RuleIds(rs)
  BY DEF IdsUnique, RuleIds
<1>2. \A k : UNION {KeysOf(rs[j], h[k]) : j \in {i}} = KeysOf(rs[i], h[k])
  OBVIOUS
<1> QED
  BY <1>1, <1>2 DEF Kept

(***************************************************************************)
(* The verdict of the last call is the one the history calls for              *)
(***************************************************************************)
Judged ==
  /\ Validate(contract)
  /\ history = <<>> /\ ~finalized => violations = {}
  /\ Checked => violations = {i \in DOMAIN rules : BreachedBy(rules[i], history)}
  /\ finalized => violations = FinalBreaches(rules, Len(history))

LEMMA InitJudged == Init => Judged
BY DEF Init, Judged, Checked

LEMMA NextJudged == Inv /\ Judged /\ [Next]_vars => Judged'
<1> SUFFICES ASSUME Inv, Judged, [Next]_vars PROVE Judged'
  OBVIOUS
<1>1. ASSUME NEW o \in Objects, Check(o) PROVE Judged'
  <2>1. rules \in Seq(Rules) /\ rules' = rules /\ contract' = contract /\ IdsUnique(rules) /\ finalized' = FALSE
    BY <1>1, RulesType DEF Inv, Remembers, Check, rules
  <2>2. /\ Len(history') = Len(history) + 1 /\ history'[Len(history')] = o
        /\ \A k \in 1..Len(history) : history'[k] = history[k]
        /\ Len(history) \in Nat /\ Len(history') - 1 = Len(history)
    BY <1>1 DEF Inv, Remembers, Check
  <2>3. ASSUME NEW i \in DOMAIN rules
        PROVE  i \in violations' <=> BreachedBy(rules[i], history')
    <3>1. seen[rules[i].id] = UNION {KeysOf(rules[i], history'[k]) : k \in 1..(Len(history') - 1)}
      BY <2>2 DEF Inv, Remembers
    <3>2. violations' = Violated(rules, seen, history'[Len(history')])
      BY <1>1, <2>2 DEF Check
    <3>3. i \in Violated(rules, seen, history'[Len(history')]) <=> BreachedBy(rules[i], history')
      BY <2>1, <3>1, FreshVerdict
    <3> QED
      BY <3>2, <3>3
  <2>4. violations' = {i \in DOMAIN rules : BreachedBy(rules[i], history')}
    BY <1>1, <2>3 DEF Check, Violated
  <2>5. history' # <<>>
    BY <2>2
  <2> QED
    BY <2>1, <2>4, <2>5 DEF Judged, Checked
<1>2. CASE Finalize
  BY <1>2 DEF Inv, Remembers, Judged, Finalize, Checked, rules
<1>3. CASE UNCHANGED vars
  BY <1>3 DEF Judged, Checked, vars, rules
<1> QED
  BY <1>1, <1>2, <1>3 DEF Next

LEMMA Verdicts == Spec => [](Inv /\ Judged)
<1>1. Init => Inv /\ Judged
  BY InitInv, InitJudged
<1>2. (Inv /\ Judged) /\ [Next]_vars => (Inv /\ Judged)'
  BY NextInv, NextJudged
<1> QED
  BY <1>1, <1>2, PTL DEF Spec

(***************************************************************************)
(* Normalization                                                           *)
(***************************************************************************)
LEMMA CanonicalVerdicts == Inv /\ Judged => VerdictsCanonical
<1> SUFFICES ASSUME Inv, Judged PROVE VerdictsCanonical
  OBVIOUS
<1> DEFINE q == Normalize(contract).rules
           last == IF Checked THEN Len(history) - 1 ELSE 0
           before == SeenAfter(q, history)[last]
           hits == CASE finalized -> FinalBreaches(q, Len(history))
                     [] Checked -> Violated(q, before, Latest)
                     [] OTHER -> {}
<1>1. /\ contract \in Contracts /\ Validate(contract) /\ rules \in Seq(Rules)
      /\ history \in Seq(Objects) /\ Len(history) \in Nat /\ finalized \in BOOLEAN
  BY RulesType DEF Inv, Remembers, Judged
<1>2. q \in Seq(Rules) /\ IdsUnique(q)
  BY <1>1, NormalizeKeepsValid DEF Contracts, Validate
<1>3. PICK p \in Bijection(DOMAIN rules, DOMAIN rules) :
        q = [n \in DOMAIN rules |-> WithDefaults(rules[p[n]])]
  BY <1>1, NormalizeRearranges DEF rules
<1>4. /\ \A n \in DOMAIN rules : p[n] \in DOMAIN rules
      /\ \A i \in DOMAIN rules : \E n \in DOMAIN rules : p[n] = i
  BY <1>3 DEF Bijection, Injection, Surjection, IsInjective
<1>5. DOMAIN q = DOMAIN rules
  BY <1>3
<1>6. ASSUME NEW n \in DOMAIN rules
      PROVE  /\ q[n].id = rules[p[n]].id
             /\ BreachedBy(q[n], history) <=> BreachedBy(rules[p[n]], history)
             /\ \A k : CountBreach(q[n], k) <=> CountBreach(rules[p[n]], k)
  <2> DEFINE r == rules[p[n]]
  <2> HIDE DEF q
  <2>1. r \in Rules /\ q[n] = WithDefaults(r)
    <3>1. p[n] \in DOMAIN rules /\ rules \in Seq(Rules)
      BY <1>1, <1>4
    <3>2. r \in Rules
      BY <3>1
    <3> QED
      BY <1>3, <3>2, Zenon
  <2> HIDE DEF r
  <2>2. q[n].id = r.id
    BY <2>1, Defaults
  <2>3. /\ BreachedBy(q[n], history) <=> BreachedBy(r, history)
        /\ \A k : CountBreach(q[n], k) <=> CountBreach(r, k)
    BY <2>1, DefaultVerdict
  <2> QED
    BY <2>2, <2>3 DEF r
<1>7. ASSUME NEW n \in DOMAIN rules PROVE n \in hits <=> p[n] \in violations
  <2>1. CASE finalized
    <3>1. hits = FinalBreaches(q, Len(history))
      <4>1. finalized /\ ~Checked
        BY <2>1 DEF Checked
      <4> HIDE DEF before, q
      <4> QED
        BY <4>1
    <3>2. violations = FinalBreaches(rules, Len(history))
      BY <2>1 DEF Judged
    <3> QED
      BY <1>4, <1>5, <1>6, <3>1, <3>2 DEF FinalBreaches
  <2>2. CASE Checked
    <3>1. ~finalized /\ last = Len(history) - 1 /\ last \in 0..Len(history)
      BY <1>1, <2>2 DEF Checked
    <3>2. hits = Violated(q, before, history[Len(history)])
      BY <2>2, <3>1 DEF Latest
    <3>3. violations = {i \in DOMAIN rules : BreachedBy(rules[i], history)}
      BY <2>2 DEF Judged
    <3>4. before = Kept(q, history, last)
      BY <1>1, <3>1, SeenAfterIs
    <3>5. before[q[n].id] = UNION {KeysOf(q[n], history[k]) : k \in 1..(Len(history) - 1)}
      <4> HIDE DEF last, before, q
      <4> QED
        BY <1>2, <1>5, <3>1, <3>4, KeptOwn
    <3>6. n \in Violated(q, before, history[Len(history)]) <=> BreachedBy(q[n], history)
      <4> HIDE DEF last, before, q
      <4> QED
        BY <1>2, <1>5, <3>5, FreshVerdict
    <3> QED
      BY <1>4, <1>6, <3>2, <3>3, <3>6
  <2>3. CASE ~finalized /\ ~Checked
    <3>1. history = <<>>
      BY <2>3 DEF Checked
    <3>2. hits = {} /\ violations = {}
      BY <2>3, <3>1 DEF Judged
    <3> QED
      BY <3>2
  <2> QED
    BY <2>1, <2>2, <2>3
<1>8. violations \subseteq DOMAIN rules /\ hits \subseteq DOMAIN rules
  BY <1>5 DEF Inv, FinalBreaches, Violated
<1> HIDE DEF hits, q
<1>9. {rules[i].id : i \in violations} = {q[i].id : i \in hits}
  <2>1. ASSUME NEW i \in violations PROVE rules[i].id \in {q[n].id : n \in hits}
    <3>1. PICK n \in DOMAIN rules : p[n] = i
      BY <1>4, <1>8
    <3> QED
      BY <1>6, <1>7, <3>1
  <2>2. ASSUME NEW n \in hits PROVE q[n].id \in {rules[i].id : i \in violations}
    BY <1>6, <1>7, <1>8
  <2> QED
    BY <2>1, <2>2
<1> QED
  BY <1>9 DEF VerdictsCanonical, q, hits

(***************************************************************************)
(* Types of values                                                         *)
(***************************************************************************)
LEMMA PathsHaveLength ==
  ASSUME NEW r \in Rules
  PROVE  Len(r.path) \in Nat
BY DEF Rules

LEMMA ValuesDecide == Inv /\ Judged => JSONDecides
<1> SUFFICES ASSUME Inv, Judged, Checked, NEW i \in DOMAIN rules, NEW o \in Objects,
                    EqualJSON(Lookup(o, rules[i].path), Lookup(Latest, rules[i].path))
             PROVE  RecordBreach(rules[i], o) <=> i \in {j \in violations : rules[j].kind = "record"}
  BY DEF JSONDecides
<1> DEFINE r == rules[i]
<1>1. rules \in Seq(Rules) /\ history \in Seq(Objects) /\ Len(history) \in Nat /\ history # <<>>
  BY RulesType DEF Inv, Remembers, Checked
<1>2. r \in Rules /\ Latest \in DOMAIN Member /\ o \in DOMAIN Member
  BY <1>1, ObjectsAssumption DEF Latest
<1>3. i \in {j \in violations : rules[j].kind = "record"} <=> RecordBreach(r, Latest)
  BY DEF Judged, BreachedBy, RecordBreach, IsUnique, Latest
<1>4. Len(r.path) \in Nat
  BY <1>2, PathsHaveLength
<1>5. \/ Lookup(o, r.path) = V("Record", o) /\ Lookup(Latest, r.path) = V("Record", Latest)
      \/ Lookup(o, r.path) \in Nodes /\ Lookup(Latest, r.path) \in Nodes
  BY <1>2, <1>4, LookupPair
<1>6. /\ Lookup(o, r.path) \in Found /\ Lookup(Latest, r.path) \in Found
      /\ Lookup(o, r.path).t = "Record" <=> Lookup(Latest, r.path).t = "Record"
  <2>1. \A q : V("Record", q).t = "Record"
    BY DEF V
  <2>2. \A z \in Nodes : z.t # "Record"
    BY DEF Nodes, Fields, V
  <2> QED
    BY <1>2, <1>5, <2>1, <2>2 DEF Found
<1> QED
  BY <1>3, <1>6, SameVerdict DEF RecordBreach

(***************************************************************************)
(* Transports                                                              *)
(***************************************************************************)
\* What is no object is read from JSON as a float64 or as it is.
LEMMA ReadScalar ==
  ASSUME NEW x \in Found, ~IsObject(x)
  PROVE  /\ x.t \in {"int", "literal"} =>
              FromJSON(x) = V("float", Float64(x)) /\ FromJSON(x).t = "float" /\ FromJSON(x).v = Float64(x)
         /\ x.t \notin {"int", "literal"} => FromJSON(x) = x
         /\ Missing(FromJSON(x)) <=> Missing(x)
         /\ Marshals(FromJSON(x)) <=> Marshals(x)
         /\ ~IsObject(FromJSON(x))
<1>1. CASE x.t \in {"int", "literal"}
  <2>1. FromJSON(x) = V("float", Float64(x)) /\ FromJSON(x).t = "float" /\ FromJSON(x).v = Float64(x)
    BY <1>1 DEF FromJSON, V
  <2>2. ~Missing(x) /\ ~Missing(FromJSON(x)) /\ Marshals(x) /\ Marshals(FromJSON(x))
    BY <1>1, <2>1 DEF Missing, Marshals
  <2> QED
    BY <1>1, <2>1, <2>2 DEF IsObject
<1>2. CASE x.t \notin {"int", "literal"}
  <2>1. FromJSON(x) = x
    BY <1>2 DEF FromJSON, IsObject
  <2> QED
    BY <1>2, <2>1
<1> QED
  BY <1>1, <1>2

\* Two such values that are equal are read as equal ones.
LEMMA EqualScalars ==
  ASSUME NEW x \in Found, NEW y \in Found, ~IsObject(x), ~IsObject(y), EqualJSON(x, y)
  PROVE  EqualJSON(FromJSON(x), FromJSON(y))
<1>1. Marshals(FromJSON(x)) /\ Marshals(FromJSON(y))
  BY ReadScalar DEF EqualJSON
<1>2. ASSUME NEW u \in Found, NEW w \in Found, Spells(u, w)
      PROVE  FromJSON(u) = FromJSON(w)
  <2>1. u.t = "int" /\ w.t = "float" /\ Float64(u) = w.v /\ ~IsObject(u) /\ ~IsObject(w)
    BY <1>2 DEF Spells, IsObject
  <2>2. FromJSON(u) = V("float", w.v) /\ FromJSON(w) = w /\ w = V("float", w.v)
    BY <2>1, FoundIs, ReadScalar
  <2> QED
    BY <2>2
<1>3. CASE x = y
  BY <1>1, <1>3 DEF EqualJSON
<1>4. CASE Missing(x) /\ Missing(y)
  <2>1. FromJSON(x) = x /\ FromJSON(y) = y
    BY <1>4, ReadScalar DEF Missing
  <2> QED
    BY <2>1
<1>5. CASE Spells(x, y) \/ Spells(y, x)
  <2>1. FromJSON(x) = FromJSON(y)
    BY <1>2, <1>5
  <2> QED
    BY <1>1, <2>1 DEF EqualJSON
<1> QED
  BY <1>3, <1>4, <1>5, KeysMeet DEF SameText

\* A portable number is the same after it.
LEMMA PortableScalar ==
  ASSUME NEW x \in Found, ~IsObject(x), PortableNumber(x)
  PROVE  Key(FromJSON(x)) = Key(x)
<1>1. x.t # "literal"
  BY DEF PortableNumber
<1>2. CASE x.t = "int"
  <2>1. x.v \in Int /\ x.v % 2 = 0 /\ Magnitude(x.v) <= 2 * Exact
    BY <1>2, FoundIs DEF PortableNumber
  <2>2. Rounded(x.v) = x.v /\ Digits(x.v) = x.v
    BY <2>1, RoundedExact, DigitsExact
  <2>3. FromJSON(x).t = "float" /\ FromJSON(x).v = x.v
    BY <1>2, <2>2, ReadScalar DEF Float64
  <2> QED
    BY <1>2, <2>2, <2>3 DEF Key
<1>3. CASE x.t # "int"
  BY <1>1, <1>3, ReadScalar
<1> QED
  BY <1>2, <1>3

\* An object that has a text and no objects in it.
Plain(o) ==
  o \in DOMAIN Text /\ \A name \in DOMAIN Member[o] : ~IsObject(Member[o][name])

LEMMA MembersFound ==
  ASSUME NEW o \in DOMAIN Member, NEW name \in DOMAIN Member[o]
  PROVE  Member[o][name] \in Found /\ Member[o][name].t \notin {"absent", "Record"}
BY FieldsAssumption DEF Found, Nodes, Fields

\* It is read as another one.
LEMMA PlainRead ==
  ASSUME NEW o, Plain(o)
  PROVE  /\ o \in DOMAIN Member /\ Read[o] \in DOMAIN Text
         /\ DOMAIN Member[Read[o]] = DOMAIN Member[o]
         /\ \A name \in DOMAIN Member[o] : Member[Read[o]][name] = FromJSON(Member[o][name])
<1>1. o \in DOMAIN Text /\ o \in DOMAIN Member
  BY TextAssumption DEF Plain
<1>2. Read[o] \in DOMAIN Member /\ Member[Read[o]] = [name \in DOMAIN Member[o] |-> FromJSON(Member[o][name])]
  BY <1>1, ReadAssumption
<1>3. ASSUME NEW name \in DOMAIN Member[o]
      PROVE  Marshals(FromJSON(Member[o][name]))
  <2>1. Member[o][name] \in Found /\ ~IsObject(Member[o][name])
    BY <1>1, MembersFound DEF Plain
  <2>2. Marshals(Member[o][name])
    BY <1>1, TextAssumption
  <2> QED
    BY <2>1, <2>2, ReadScalar
<1>4. Read[o] \in DOMAIN Text
  BY <1>2, <1>3, TextAssumption
<1> QED
  BY <1>1, <1>2, <1>4

\* Objects of one text, one of them plain, are read as objects of one text.
LEMMA TextsRead ==
  ASSUME NEW o \in DOMAIN Text, NEW q, Plain(q), Text[o] = Text[q]
  PROVE  Read[o] \in DOMAIN Text /\ Read[q] \in DOMAIN Text /\ Text[Read[o]] = Text[Read[q]]
<1>1. o \in DOMAIN Member /\ q \in DOMAIN Text /\ q \in DOMAIN Member
  BY TextAssumption DEF Plain
<1>2. /\ DOMAIN Member[o] = DOMAIN Member[q]
      /\ \A name \in DOMAIN Member[o] : Key(Member[o][name]) = Key(Member[q][name])
  BY <1>1, TextAssumption
<1>3. ASSUME NEW name \in DOMAIN Member[o]
      PROVE  /\ Member[o][name] \in Found /\ Member[q][name] \in Found
             /\ ~IsObject(Member[o][name]) /\ ~IsObject(Member[q][name])
             /\ EqualJSON(Member[o][name], Member[q][name])
  <2>1. Member[o][name] \in Found /\ Member[q][name] \in Found
    BY <1>1, <1>2, MembersFound
  <2>2. ~IsObject(Member[q][name])
    BY <1>2 DEF Plain
  <2>3. Key(Member[o][name]) = Key(Member[q][name])
    BY <1>2
  <2>4. Key(Member[q][name]).t # "map"
    BY <2>1, <2>2, KeyIs DEF IsObject
  <2>5. ~IsObject(Member[o][name])
    BY <2>1, <2>3, <2>4, KeyIs
  <2>6. Marshals(Member[o][name]) /\ Marshals(Member[q][name])
    BY <1>1, <1>2, TextAssumption
  <2> QED
    BY <2>1, <2>2, <2>3, <2>5, <2>6 DEF EqualJSON
<1>4. Plain(o)
  BY <1>3 DEF Plain
<1>5. /\ Read[o] \in DOMAIN Text /\ DOMAIN Member[Read[o]] = DOMAIN Member[o]
      /\ \A name \in DOMAIN Member[o] : Member[Read[o]][name] = FromJSON(Member[o][name])
  BY <1>4, PlainRead
<1>6. /\ Read[q] \in DOMAIN Text /\ DOMAIN Member[Read[q]] = DOMAIN Member[q]
      /\ \A name \in DOMAIN Member[q] : Member[Read[q]][name] = FromJSON(Member[q][name])
  BY PlainRead
<1>7. ASSUME NEW name \in DOMAIN Member[o]
      PROVE  Key(FromJSON(Member[o][name])) = Key(FromJSON(Member[q][name]))
  BY <1>3, EqualScalars DEF EqualJSON
<1> QED
  BY <1>2, <1>5, <1>6, <1>7, TextAssumption

\* An object of portable numbers is read as one of the same text.
LEMMA PortableText ==
  ASSUME NEW o, Plain(o), \A name \in DOMAIN Member[o] : PortableNumber(Member[o][name])
  PROVE  Read[o] \in DOMAIN Text /\ Text[Read[o]] = Text[o]
<1>1. /\ o \in DOMAIN Text /\ o \in DOMAIN Member
      /\ Read[o] \in DOMAIN Text /\ DOMAIN Member[Read[o]] = DOMAIN Member[o]
      /\ \A name \in DOMAIN Member[o] : Member[Read[o]][name] = FromJSON(Member[o][name])
  BY PlainRead DEF Plain
<1>2. ASSUME NEW name \in DOMAIN Member[o]
      PROVE  Key(Member[Read[o]][name]) = Key(Member[o][name])
  <2>1. Member[o][name] \in Found /\ ~IsObject(Member[o][name])
    BY <1>1, MembersFound DEF Plain
  <2> QED
    BY <1>1, <2>1, PortableScalar
<1> QED
  BY <1>1, <1>2, TextAssumption

\* What lies at a path of a row: a scalar, or the row.
Shallow(x) == IsObject(x) => Plain(x.v)

LEMMA RowLookup ==
  ASSUME NEW o \in DOMAIN Member, Row(o), NEW path, Len(path) \in Nat
  PROVE  Lookup(o, path) \in Found /\ Shallow(Lookup(o, path))
<1>1. ASSUME NEW name \in DOMAIN Member[o]
      PROVE  ~IsObject(Member[o][name]) /\ Marshals(Member[o][name])
  BY DEF Row, IsObject, Marshals
<1>2. Plain(o)
  BY <1>1, TextAssumption DEF Plain
<1> DEFINE Near == {V("map", o), V("absent", 0)} \cup {Member[o][name] : name \in DOMAIN Member[o]}
<1>3. \A x \in Near : Shallow(x)
  <2>1. V("map", o).v = o /\ ~IsObject(V("absent", 0))
    BY DEF V, IsObject
  <2> QED
    BY <1>1, <1>2, <2>1 DEF Shallow
<1>4. ASSUME NEW x \in Near, NEW name
      PROVE  Child(x, name) \in Near
  <2>1. CASE x = V("map", o)
    BY <2>1 DEF Child, V
  <2>2. CASE x # V("map", o)
    <3>1. x.t # "map"
      BY <1>1, <2>2 DEF IsObject, V
    <3> QED
      BY <3>1 DEF Child
  <2> QED
    BY <2>1, <2>2
<1>5. CASE path = Root
  <2>1. Lookup(o, path) = V("Record", o)
    BY <1>5 DEF Lookup
  <2>2. V("Record", o).v = o
    BY DEF V
  <2> QED
    BY <1>2, <2>1, <2>2 DEF Found, Shallow
<1>6. CASE path # Root
  <2>1. V("map", o) \in Near
    OBVIOUS
  <2> HIDE DEF Near
  <2>2. Lookup(o, path) \in Near
    BY <1>4, <1>6, <2>1, LookupWithin
  <2>3. Lookup(o, path) \in Found
    BY <1>6, LookupNode DEF Found
  <2> QED
    BY <1>3, <2>2, <2>3
<1> QED
  BY <1>5, <1>6

LEMMA ReadShallow ==
  ASSUME NEW x \in Found, Shallow(x)
  PROVE  /\ Comparable(FromJSON(x)) <=> Comparable(x)
         /\ Marshals(FromJSON(x)) <=> Marshals(x)
         /\ IsObject(x) => FromJSON(x).t = x.t /\ FromJSON(x).v = Read[x.v]
<1>1. CASE IsObject(x)
  <2>1. FromJSON(x).t = x.t /\ FromJSON(x).v = Read[x.v]
    BY <1>1 DEF FromJSON, IsObject, V
  <2>2. x.v \in DOMAIN Text /\ Read[x.v] \in DOMAIN Text
    BY <1>1, PlainRead DEF Shallow, Plain
  <2>3. Marshals(x) /\ Marshals(FromJSON(x)) /\ ~Missing(x) /\ ~Missing(FromJSON(x))
    BY <1>1, <2>1, <2>2 DEF Marshals, Missing, IsObject
  <2> QED
    BY <2>1, <2>3 DEF Comparable
<1>2. CASE ~IsObject(x)
  BY <1>2, ReadScalar DEF Comparable
<1> QED
  BY <1>1, <1>2

\* Values that are equal are read as equal ones: rounding hides no duplicate.
LEMMA EqualsFromJSON ==
  ASSUME NEW x \in Found, NEW y \in Found, Shallow(y), EqualJSON(x, y)
  PROVE  EqualJSON(FromJSON(x), FromJSON(y))
<1>1. CASE ~IsObject(x) /\ ~IsObject(y)
  BY <1>1, EqualScalars
<1>2. CASE IsObject(x) \/ IsObject(y)
  <2>1. SameText(x, y)
    <3>1. IsObject(x) /\ IsObject(y)
      BY <1>2, KeyIs DEF EqualJSON, IsObject
    <3>2. x.v \in DOMAIN Text /\ y.v \in DOMAIN Text
      BY <3>1 DEF EqualJSON, Marshals, IsObject
    <3>3. Text[x.v] = Text[y.v]
      BY <3>1, KeyIs DEF EqualJSON
    <3> QED
      BY <3>1, <3>2, <3>3 DEF SameText
  <2>2. Read[x.v] \in DOMAIN Text /\ Read[y.v] \in DOMAIN Text /\ Text[Read[x.v]] = Text[Read[y.v]]
    BY <2>1, TextsRead DEF SameText, Shallow
  <2>3. FromJSON(x) = V(x.t, Read[x.v]) /\ FromJSON(y) = V(y.t, Read[y.v])
    BY <2>1 DEF SameText, IsObject, FromJSON
  <2>4. ASSUME NEW t \in {"map", "Record"}, NEW o \in DOMAIN Text
        PROVE  Marshals(V(t, o)) /\ Key(V(t, o)) = V("map", Text[o])
    BY DEF Marshals, Key, V
  <2> QED
    BY <2>1, <2>2, <2>3, <2>4 DEF EqualJSON, SameText, IsObject
<1> QED
  BY <1>1, <1>2

\* A portable value is the same after it, so it equals the same values.
LEMMA PortableFromJSON ==
  ASSUME NEW x \in Found, Shallow(x), Portable(x)
  PROVE  Key(FromJSON(x)) = Key(x)
<1>1. CASE IsObject(x)
  <2>1. Text[Read[x.v]] = Text[x.v]
    BY <1>1, PortableText DEF Shallow, Portable, IsObject
  <2>2. FromJSON(x) = V(x.t, Read[x.v])
    BY <1>1 DEF FromJSON, IsObject
  <2> QED
    BY <1>1, <2>1, <2>2 DEF Key, V, IsObject
<1>2. CASE ~IsObject(x)
  BY <1>2, PortableScalar DEF Portable
<1> QED
  BY <1>1, <1>2

\* No predicate but enum tells a value from its reading.
LEMMA FailsFromJSON ==
  ASSUME NEW x \in Found, Shallow(x), NEW p, p.op # "enum" \/ Portable(x)
  PROVE  Fails(p, FromJSON(x)) <=> Fails(p, x)
<1> DEFINE y == FromJSON(x)
<1>1. CASE p.op = "enum"
  <2>1. Key(y) = Key(x) /\ (Marshals(y) <=> Marshals(x))
    BY <1>1, PortableFromJSON, ReadShallow
  <2> HIDE DEF y
  <2>2. \A z : EqualJSON(z, y) <=> EqualJSON(z, x)
    BY <2>1 DEF EqualJSON
  <2> QED
    BY <1>1, <2>2 DEF Fails, y
<1>2. CASE p.op # "enum" /\ x.t \in {"int", "literal"}
  <2>1. y.t = "float" /\ y.v = Float64(x) /\ Float64(y) = Float64(x)
    BY <1>2, ReadScalar DEF Float64, IsObject
  <2>2. IsInteger(y) <=> IsInteger(x)
    <3>1. CASE x.t = "int"
      <4>1. Float64(x) % 2 = 0
        BY <3>1, FoundIs, RoundedEven DEF Float64
      <4> QED
        BY <2>1, <3>1, <4>1 DEF IsInteger
    <3>2. CASE x.t = "literal"
      BY <2>1, <3>2 DEF IsInteger
    <3> QED
      BY <1>2, <3>1, <3>2
  <2> HIDE DEF y
  <2>3. /\ TypeMatches(y, p.arg) <=> TypeMatches(x, p.arg)
        /\ BelowMin(y, p) <=> BelowMin(x, p)
        /\ AboveMax(y, p) <=> AboveMax(x, p)
    BY <1>2, <2>1, <2>2 DEF TypeMatches, BelowMin, AboveMax, Finite, Numeric
  <2>4. x # V("string", 0) /\ y # V("string", 0) /\ ~Missing(x) /\ ~Missing(y)
    BY <1>2, <2>1 DEF V, Missing
  <2> QED
    BY <1>2, <2>1, <2>3, <2>4 DEF Fails, Numeric, Finite, y
<1>3. CASE p.op # "enum" /\ IsObject(x)
  <2>1. y.t = x.t
    BY <1>3, ReadShallow
  <2> HIDE DEF y
  <2>2. Fails(p, x) <=> Fails(p, y)
    BY <1>3, <2>1, KindDecides
  <2> QED
    BY <2>2 DEF y
<1>4. CASE x.t \notin {"int", "literal"} /\ ~IsObject(x)
  BY <1>4, ReadScalar
<1> QED
  BY <1>1, <1>2, <1>3, <1>4 DEF IsObject

\* What an enum of a contract file admits, it admits as NDJSON.
LEMMA EnumFromJSON ==
  ASSUME NEW x \in Found, Shallow(x), NEW p, p.op = "enum",
         \A k \in DOMAIN p.values : FromFile(p.values[k]), ~Fails(p, x)
  PROVE  ~Fails(p, FromJSON(x))
<1>1. PICK k \in DOMAIN p.values : EqualJSON(p.values[k], x)
  BY DEF Fails
<1>2. p.values[k] \in Found /\ FromJSON(p.values[k]) = p.values[k]
  BY DEF FromFile, Found, Nodes
<1>3. EqualJSON(p.values[k], FromJSON(x))
  BY <1>1, <1>2, EqualsFromJSON
<1> QED
  BY <1>3 DEF Fails

LEMMA AgreeingTransports == Inv /\ Judged => TransportsAgree
<1> SUFFICES ASSUME Inv, Judged, Checked, \A k \in DOMAIN history : Row(history[k]), NEW i \in DOMAIN rules
             PROVE  LET r == rules[i]
                        values == r.predicate.values
                    IN
                    /\ IsUnique(r) => (i \in violations => BreachFromJSON(r))
                    /\ r.predicate.op = "enum" /\ (\A k \in DOMAIN values : FromFile(values[k]))
                         => (BreachFromJSON(r) => i \in violations)
                    /\ (r.predicate.op \notin {"unique", "enum"} \/ \A k \in DOMAIN history : Portable(At(k, r)))
                         => (i \in violations <=> BreachFromJSON(r))
  BY DEF TransportsAgree
<1> DEFINE r == rules[i]
           n == Len(history)
           x == At(n, r)
           alike == r.predicate.op \notin {"unique", "enum"} \/ \A k \in DOMAIN history : Portable(At(k, r))
<1>1. /\ rules \in Seq(Rules) /\ history \in Seq(Objects) /\ n \in Nat \ {0} /\ DOMAIN history = 1..n
      /\ n \in DOMAIN history /\ \A k \in 1..(n - 1) : k \in DOMAIN history
  BY RulesType DEF Inv, Remembers, Checked
<1>2. \A k \in DOMAIN history : At(k, r) \in Found /\ Shallow(At(k, r))
  <2>1. Len(r.path) \in Nat
    BY <1>1, PathsHaveLength
  <2>2. \A k \in DOMAIN history : history[k] \in DOMAIN Member
    BY <1>1, ObjectsAssumption
  <2> QED
    BY <2>1, <2>2, RowLookup DEF At
<1>3. CASE IsUnique(r)
  <2>1. i \in violations <=> ~Comparable(x) \/ \E k \in 1..(n - 1) : EqualJSON(x, At(k, r))
    BY <1>3 DEF Inv, UniqueOnce, Latest, At
  <2>2. BreachFromJSON(r) <=>
          ~Comparable(FromJSON(x)) \/ \E k \in 1..(n - 1) : EqualJSON(FromJSON(x), FromJSON(At(k, r)))
    BY <1>3 DEF BreachFromJSON
  <2>3. /\ x \in Found /\ Shallow(x)
        /\ \A k \in 1..(n - 1) : At(k, r) \in Found /\ Shallow(At(k, r))
    BY <1>1, <1>2
  <2>4. Comparable(FromJSON(x)) <=> Comparable(x)
    BY <2>3, ReadShallow
  <2>5. \A k \in 1..(n - 1) : EqualJSON(x, At(k, r)) => EqualJSON(FromJSON(x), FromJSON(At(k, r)))
    BY <2>3, EqualsFromJSON
  <2>6. ASSUME alike, NEW k \in 1..(n - 1), EqualJSON(FromJSON(x), FromJSON(At(k, r)))
        PROVE  EqualJSON(x, At(k, r))
    <3>1. Portable(x) /\ Portable(At(k, r))
      BY <1>1, <1>3, <2>6 DEF IsUnique
    <3>2. Key(FromJSON(x)) = Key(x) /\ Key(FromJSON(At(k, r))) = Key(At(k, r))
      BY <2>3, <3>1, PortableFromJSON
    <3>3. Marshals(x) /\ Marshals(At(k, r))
      BY <2>3, <2>6, ReadShallow DEF EqualJSON
    <3> QED
      BY <2>6, <3>2, <3>3 DEF EqualJSON
  <2>7. r.predicate.op # "enum"
    BY <1>3 DEF IsUnique
  <2> HIDE DEF x, r, n
  <2> QED
    BY <2>1, <2>2, <2>4, <2>5, <2>6, <2>7 DEF r
<1>4. CASE ~IsUnique(r)
  <2>1. i \in violations <=> r.kind = "record" /\ Fails(r.predicate, x)
    BY <1>4 DEF Judged, BreachedBy, RecordBreach, At
  <2>2. BreachFromJSON(r) <=> r.kind = "record" /\ Fails(r.predicate, FromJSON(x))
    BY <1>4 DEF BreachFromJSON
  <2>3. ASSUME alike PROVE r.predicate.op # "enum" \/ Portable(x)
    BY <1>1, <2>3
  <2>4. x \in Found /\ Shallow(x)
    BY <1>1, <1>2
  <2>5. ASSUME alike PROVE Fails(r.predicate, FromJSON(x)) <=> Fails(r.predicate, x)
    BY <2>3, <2>4, <2>5, FailsFromJSON
  <2>6. ASSUME r.predicate.op = "enum", \A k \in DOMAIN r.predicate.values : FromFile(r.predicate.values[k])
        PROVE  Fails(r.predicate, FromJSON(x)) => Fails(r.predicate, x)
    BY <2>4, <2>6, EnumFromJSON
  <2> HIDE DEF x
  <2> QED
    BY <1>4, <2>1, <2>2, <2>5, <2>6
<1> QED
  BY <1>3, <1>4

(***************************************************************************)
(* Theorems                                                                *)
(***************************************************************************)
LEMMA InvTypeOK == Inv => TypeOK
<1> SUFFICES ASSUME Inv PROVE TypeOK
  OBVIOUS
<1>1. Remembers /\ Bounded /\ violations \subseteq DOMAIN rules
  BY DEF Inv
<1>2. ASSUME NEW id \in DOMAIN seen, NEW key \in seen[id]
      PROVE  key.t \notin {"absent", "nil", "nan", "inf"}
  <2>1. PICK i \in DOMAIN rules : rules[i].id = id
    BY <1>1 DEF Remembers, RuleIds
  <2>2. PICK k \in 1..Len(history) : key \in KeysOf(rules[i], history[k])
    BY <1>1, <2>1 DEF Remembers
  <2> QED
    BY <2>2, KeysEncoded
<1> QED
  BY <1>1, <1>2 DEF Remembers, Bounded, TypeOK

\* NewStreamChecker, Check and Finalize: for every contract that Validate admits and
\* every stream, the checker remembers keys only, and under a rule no more than records.
THEOREM TypeCorrect == Spec => []TypeOK
<1>1. Spec => []Inv
  BY InitInv, NextInv, PTL DEF Spec
<1> QED
  BY <1>1, InvTypeOK, PTL

\* docs/rules.md, unique: for every contract and every stream, a record breaches a unique
\* rule exactly if it has no value there or shares it with an earlier record.
THEOREM UniqueJudgesHistory == Spec => []UniqueOnce
<1>1. Spec => []Inv
  BY InitInv, NextInv, PTL DEF Spec
<1>2. Inv => UniqueOnce
  BY DEF Inv
<1> QED
  BY <1>1, <1>2, PTL

\* Normalizing a contract changes no verdict, whatever the rules, the records and the
\* length of the stream: sorting its rules and writing its defaults out is all it does.
THEOREM NormalizationKeepsVerdicts == Spec => []VerdictsCanonical
<1>1. Spec => [](Inv /\ Judged)
  BY Verdicts
<1> QED
  BY <1>1, CanonicalVerdicts, PTL

\* A record's verdict under a record rule is one of the JSON value at its path, for every
\* value and every path: int64, float64 and their digits decide alike.
THEOREM ValueDecidesVerdict == Spec => []JSONDecides
<1>1. Spec => [](Inv /\ Judged)
  BY Verdicts
<1> QED
  BY <1>1, ValuesDecide, PTL

\* Rows judged from Arrow or from a Go host are judged as from NDJSON, whole rows at $
\* included, but that enum and unique tell apart numbers past 2^53, and spellings, that
\* decoding JSON has made one. Then unique breaches over NDJSON wherever it breaches
\* elsewhere, and enum elsewhere wherever it breaches over NDJSON.
THEOREM TransportsJudgeAlike == Spec => []TransportsAgree
<1>1. Spec => [](Inv /\ Judged)
  BY Verdicts
<1> QED
  BY <1>1, AgreeingTransports, PTL
=============================================================================
