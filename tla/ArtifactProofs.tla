--------------------------- MODULE ArtifactProofs ---------------------------
(***************************************************************************)
(* Theorems about the contract file, for every contract, both SDKs and every  *)
(* number of commands.                                                      *)
(***************************************************************************)
EXTENDS ArtifactProperties, EngineLemmas

(***************************************************************************)
(* Rules as documents hold them                                             *)
(***************************************************************************)
LEMMA RulesAre ==
  ASSUME NEW r \in Rules, NEW q \in Rules,
         r.id = q.id, r.version = q.version, r.kind = q.kind, r.path = q.path,
         r.severity = q.severity, r.action = q.action,
         r.predicate.op = q.predicate.op, r.predicate.arg = q.predicate.arg,
         r.predicate.min = q.predicate.min, r.predicate.max = q.predicate.max,
         r.predicate.values = q.predicate.values
  PROVE  r = q
<1>1. r.predicate \in Predicates /\ q.predicate \in Predicates
  BY DEF Rules
<1>2. r.predicate = q.predicate
  BY <1>1 DEF Predicates
<1> QED
  BY <1>2 DEF Rules

LEMMA BoundsAre ==
  ASSUME NEW r \in Rules
  PROVE  /\ r.predicate.min \subseteq Int /\ r.predicate.max \subseteq Int
         /\ r.predicate.op \in STRING /\ r.predicate.arg \in STRING /\ r.predicate.values \in Seq(Values)
         /\ r.id \in Nat /\ r.version \in STRING /\ r.kind \in STRING /\ r.path \in Seq(STRING)
         /\ r.severity \in STRING /\ r.action \in STRING
BY DEF Rules, Predicates

LEMMA RoundedInt ==
  ASSUME NEW bounds \in SUBSET Int
  PROVE  Floats(bounds) \in SUBSET Int
BY RoundedSide DEF Floats

LEMMA DigitsInt ==
  ASSUME NEW v \in Int
  PROVE  Digits(v) \in Int
BY SpellingAssumption DEF Digits

LEMMA UnmarshalRuleIs ==
  ASSUME NEW r \in Rules
  PROVE  LET u == UnmarshalRule(r) IN
         /\ u \in Rules
         /\ u.id = r.id /\ u.path = r.path /\ u.action = r.action
         /\ u.version = Or(r.version, "") /\ u.kind = Or(r.kind, "") /\ u.severity = Or(r.severity, "")
         /\ u.predicate.op = r.predicate.op /\ u.predicate.values = r.predicate.values
         /\ u.predicate.arg = Or(r.predicate.arg, "")
         /\ u.predicate.min = Floats(r.predicate.min)
         /\ u.predicate.max = Floats(r.predicate.max)
<1> DEFINE u == UnmarshalRule(r)
           low == Floats(r.predicate.min)
           high == Floats(r.predicate.max)
<1>1. low \in SUBSET Int /\ high \in SUBSET Int
  BY BoundsAre, RoundedInt
<1>2. /\ Or(r.version, "") \in STRING /\ Or(r.kind, "") \in STRING
      /\ Or(r.severity, "") \in STRING /\ Or(r.predicate.arg, "") \in STRING
  BY BoundsAre, TextsAssumption DEF Or
<1>3. u = [r EXCEPT !.version = Or(r.version, ""), !.kind = Or(r.kind, ""), !.severity = Or(r.severity, ""),
                    !.predicate.arg = Or(r.predicate.arg, ""), !.predicate.min = low, !.predicate.max = high]
  BY DEF UnmarshalRule
<1> HIDE DEF u, low, high
<1>4. r.predicate \in Predicates
  BY DEF Rules
<1>5. /\ u.id = r.id /\ u.path = r.path /\ u.action = r.action
      /\ u.version = Or(r.version, "") /\ u.kind = Or(r.kind, "") /\ u.severity = Or(r.severity, "")
      /\ u.predicate = [r.predicate EXCEPT !.arg = Or(r.predicate.arg, ""), !.min = low, !.max = high]
  BY <1>3 DEF Rules
<1>6. /\ u.predicate \in Predicates
      /\ u.predicate.op = r.predicate.op /\ u.predicate.values = r.predicate.values
      /\ u.predicate.arg = Or(r.predicate.arg, "") /\ u.predicate.min = low /\ u.predicate.max = high
  BY <1>1, <1>2, <1>4, <1>5 DEF Predicates
<1>7. u \in Rules
  BY <1>2, <1>3, <1>5, <1>6 DEF Rules
<1> QED
  BY <1>5, <1>6, <1>7 DEF u, low, high

LEMMA MarshalRuleIs ==
  ASSUME NEW r \in Rules
  PROVE  LET u == MarshalRule(r) IN
         /\ u \in Rules
         /\ u.id = r.id /\ u.path = r.path /\ u.action = r.action
         /\ u.version = r.version /\ u.kind = r.kind /\ u.severity = r.severity
         /\ u.predicate.op = r.predicate.op /\ u.predicate.values = r.predicate.values
         /\ u.predicate.arg = IF r.predicate.arg = "" THEN Unset ELSE r.predicate.arg
         /\ u.predicate.min = Shortest(r.predicate.min)
         /\ u.predicate.max = Shortest(r.predicate.max)
<1> DEFINE u == MarshalRule(r)
           arg == IF r.predicate.arg = "" THEN Unset ELSE r.predicate.arg
           low == Shortest(r.predicate.min)
           high == Shortest(r.predicate.max)
<1>1. low \in SUBSET Int /\ high \in SUBSET Int
  BY BoundsAre, DigitsInt DEF Shortest
<1>2. arg \in STRING
  BY BoundsAre, TextsAssumption
<1>3. u = [r EXCEPT !.predicate.arg = arg, !.predicate.min = low, !.predicate.max = high]
  BY DEF MarshalRule
<1> HIDE DEF u, arg, low, high
<1>4. r.predicate \in Predicates
  BY DEF Rules
<1>5. /\ u.id = r.id /\ u.path = r.path /\ u.action = r.action
      /\ u.version = r.version /\ u.kind = r.kind /\ u.severity = r.severity
      /\ u.predicate = [r.predicate EXCEPT !.arg = arg, !.min = low, !.max = high]
  BY <1>3 DEF Rules
<1>6. /\ u.predicate \in Predicates
      /\ u.predicate.op = r.predicate.op /\ u.predicate.values = r.predicate.values
      /\ u.predicate.arg = arg /\ u.predicate.min = low /\ u.predicate.max = high
  BY <1>1, <1>2, <1>4, <1>5 DEF Predicates
<1>7. u \in Rules
  BY <1>3, <1>5, <1>6 DEF Rules
<1> QED
  BY <1>5, <1>6, <1>7 DEF u, arg, low, high

\* A number that is read again is the number that was written.
LEMMA BoundsReturn ==
  ASSUME NEW bounds \in SUBSET Int
  PROVE  Floats(Shortest(Floats(bounds))) = Floats(bounds)
<1> DEFINE floats == Floats(bounds)
<1>1. \A b \in floats : b \in Int /\ Rounded(b) = b
  BY RoundedSide, RoundedTwice DEF Floats
<1> HIDE DEF floats
<1>2. \A b \in floats : Rounded(Digits(b)) = b
  BY <1>1, DigitsRead
<1>3. Floats(Shortest(floats)) = {Rounded(Digits(b)) : b \in floats}
  BY DEF Floats, Shortest
<1>4. {Rounded(Digits(b)) : b \in floats} = floats
  BY <1>2
<1> QED
  BY <1>3, <1>4 DEF floats

\* What was read, with defaults or without, is read again from what is written of it.
LEMMA RuleReturns ==
  ASSUME NEW r \in Rules, NEW u, u = UnmarshalRule(r) \/ u = WithDefaults(UnmarshalRule(r))
  PROVE  u \in Rules /\ UnmarshalRule(MarshalRule(u)) = u
<1> DEFINE v == UnmarshalRule(r)
           w == MarshalRule(u)
           z == UnmarshalRule(w)
           low == Floats(r.predicate.min)
           high == Floats(r.predicate.max)
<1>0. /\ v \in Rules
      /\ v.version = Or(r.version, "") /\ v.kind = Or(r.kind, "") /\ v.severity = Or(r.severity, "")
      /\ v.predicate.arg = Or(r.predicate.arg, "")
      /\ v.predicate.min = low /\ v.predicate.max = high
  BY UnmarshalRuleIs, Zenon
<1>2. u = v \/ u = WithDefaults(v)
  OBVIOUS
<1> HIDE DEF v, low, high
<1>1. /\ v \in Rules
      /\ v.version # Unset /\ v.severity # Unset /\ v.kind # Unset /\ v.predicate.arg # Unset
      /\ v.predicate.min = low /\ v.predicate.max = high
  BY <1>0 DEF Or, Unset
<1>3. u \in Rules /\ u.predicate = v.predicate /\ u.kind = v.kind
  BY <1>1, <1>2, Defaults
<1>4. u.version \in {v.version, "1"} /\ u.severity \in {v.severity, "error"}
  <2>1. RuleVersion(v) \in {v.version, "1"} /\ Severity(v) \in {v.severity, "error"}
    BY DEF RuleVersion, Severity
  <2>2. WithDefaults(v).version = RuleVersion(v) /\ WithDefaults(v).severity = Severity(v)
    BY <1>1, Defaults
  <2> QED
    BY <1>2, <2>1, <2>2
<1>5. u.version # Unset /\ u.severity # Unset /\ u.kind # Unset /\ u.predicate.arg # Unset
  BY <1>1, <1>3, <1>4 DEF Unset
<1>6. /\ w \in Rules
      /\ w.id = u.id /\ w.path = u.path /\ w.action = u.action
      /\ w.version = u.version /\ w.kind = u.kind /\ w.severity = u.severity
      /\ w.predicate.op = u.predicate.op /\ w.predicate.values = u.predicate.values
      /\ w.predicate.arg = IF u.predicate.arg = "" THEN Unset ELSE u.predicate.arg
      /\ w.predicate.min = Shortest(u.predicate.min)
      /\ w.predicate.max = Shortest(u.predicate.max)
  BY <1>3, MarshalRuleIs, Zenon
<1> HIDE DEF w
<1>7. /\ z \in Rules
      /\ z.id = w.id /\ z.path = w.path /\ z.action = w.action
      /\ z.version = Or(w.version, "") /\ z.kind = Or(w.kind, "") /\ z.severity = Or(w.severity, "")
      /\ z.predicate.op = w.predicate.op /\ z.predicate.values = w.predicate.values
      /\ z.predicate.arg = Or(w.predicate.arg, "")
      /\ z.predicate.min = Floats(w.predicate.min)
      /\ z.predicate.max = Floats(w.predicate.max)
  BY <1>6, UnmarshalRuleIs, Zenon
<1> HIDE DEF z
<1>8. z.version = u.version /\ z.severity = u.severity /\ z.kind = u.kind /\ z.predicate.arg = u.predicate.arg
  BY <1>5, <1>6, <1>7 DEF Or
<1>9. z.predicate.min = u.predicate.min /\ z.predicate.max = u.predicate.max
  <2>1. u.predicate.min = low /\ u.predicate.max = high
    BY <1>1, <1>3
  <2>2. /\ Floats(Shortest(low)) = low
        /\ Floats(Shortest(high)) = high
    BY BoundsAre, BoundsReturn DEF low, high
  <2> QED
    BY <1>6, <1>7, <2>1, <2>2
<1>10. z = u
  BY <1>3, <1>6, <1>7, <1>8, <1>9, RulesAre
<1> QED
  BY <1>3, <1>10 DEF w, z

(***************************************************************************)
(* Contracts as documents hold them                                          *)
(***************************************************************************)
LEMMA UnmarshalIs ==
  ASSUME NEW d \in Contracts
  PROVE  LET u == Unmarshal(d) IN
         /\ u \in Contracts /\ d.rules \in Seq(Rules) /\ u.rules \in Seq(Rules)
         /\ u.ir = d.ir /\ u.id = d.id /\ u.version = d.version /\ u.input = d.input
         /\ DOMAIN u.rules = DOMAIN d.rules /\ Len(u.rules) = Len(d.rules)
         /\ \A i \in DOMAIN d.rules : u.rules[i] = UnmarshalRule(d.rules[i])
<1> DEFINE u == Unmarshal(d)
           s == [i \in DOMAIN d.rules |-> UnmarshalRule(d.rules[i])]
<1>1. d.rules \in Seq(Rules)
  BY DEF Contracts
<1>2. Len(d.rules) \in Nat /\ DOMAIN d.rules = 1..Len(d.rules)
  BY <1>1
<1>3. ASSUME NEW i \in DOMAIN d.rules PROVE UnmarshalRule(d.rules[i]) \in Rules
  <2>1. d.rules[i] \in Rules
    BY <1>1
  <2> QED
    BY <2>1, UnmarshalRuleIs, Zenon
<1>4. s \in Seq(Rules) /\ DOMAIN s = DOMAIN d.rules /\ Len(s) = Len(d.rules)
  BY <1>2, <1>3
<1>5. u = [d EXCEPT !.rules = s]
  BY DEF Unmarshal
<1>6. \A i \in DOMAIN d.rules : s[i] = UnmarshalRule(d.rules[i])
  OBVIOUS
<1> HIDE DEF s, u
<1>7. u \in Contracts /\ u.ir = d.ir /\ u.id = d.id /\ u.version = d.version /\ u.input = d.input /\ u.rules = s
  BY <1>4, <1>5 DEF Contracts
<1> QED
  BY <1>1, <1>4, <1>6, <1>7 DEF u

LEMMA MarshalIs ==
  ASSUME NEW c \in Contracts
  PROVE  LET u == Marshal(c) IN
         /\ u \in Contracts /\ u.rules \in Seq(Rules)
         /\ u.ir = c.ir /\ u.id = c.id /\ u.version = c.version /\ u.input = c.input
         /\ DOMAIN u.rules = DOMAIN c.rules /\ Len(u.rules) = Len(c.rules)
         /\ \A i \in DOMAIN c.rules : u.rules[i] = MarshalRule(c.rules[i])
<1> DEFINE u == Marshal(c)
           s == [i \in DOMAIN c.rules |-> MarshalRule(c.rules[i])]
<1>1. c.rules \in Seq(Rules)
  BY DEF Contracts
<1>2. Len(c.rules) \in Nat /\ DOMAIN c.rules = 1..Len(c.rules)
  BY <1>1
<1>3. ASSUME NEW i \in DOMAIN c.rules PROVE MarshalRule(c.rules[i]) \in Rules
  <2>1. c.rules[i] \in Rules
    BY <1>1
  <2> QED
    BY <2>1, MarshalRuleIs, Zenon
<1>4. s \in Seq(Rules) /\ DOMAIN s = DOMAIN c.rules /\ Len(s) = Len(c.rules)
  BY <1>2, <1>3
<1>5. u = [c EXCEPT !.rules = s]
  BY DEF Marshal
<1>6. \A i \in DOMAIN c.rules : s[i] = MarshalRule(c.rules[i])
  OBVIOUS
<1> HIDE DEF s, u
<1>7. u \in Contracts /\ u.ir = c.ir /\ u.id = c.id /\ u.version = c.version /\ u.input = c.input /\ u.rules = s
  BY <1>4, <1>5 DEF Contracts
<1> QED
  BY <1>4, <1>6, <1>7 DEF u

LEMMA ContractsAre ==
  ASSUME NEW c \in Contracts, NEW d \in Contracts,
         c.ir = d.ir, c.id = d.id, c.version = d.version, c.input = d.input, c.rules = d.rules
  PROVE  c = d
BY DEF Contracts

(***************************************************************************)
(* Meanings: what Normalize makes of a rule that was read                    *)
(***************************************************************************)
LEMMA MeaningIs ==
  ASSUME NEW r \in Rules
  PROVE  Meaning(r) = WithDefaults(UnmarshalRule(r))
<1> DEFINE u == UnmarshalRule(r)
           w == WithDefaults(u)
           m == Meaning(r)
           version == IF r.version \in {"", Unset} THEN "1" ELSE r.version
           severity == IF r.severity \in {"", Unset} THEN "error" ELSE r.severity
           low == Floats(r.predicate.min)
           high == Floats(r.predicate.max)
<1>1. /\ u \in Rules
      /\ u.id = r.id /\ u.path = r.path /\ u.action = r.action
      /\ u.version = Or(r.version, "") /\ u.kind = Or(r.kind, "") /\ u.severity = Or(r.severity, "")
      /\ u.predicate.op = r.predicate.op /\ u.predicate.values = r.predicate.values
      /\ u.predicate.arg = Or(r.predicate.arg, "")
      /\ u.predicate.min = low /\ u.predicate.max = high
  BY UnmarshalRuleIs, Zenon
<1> HIDE DEF u
<1>2. /\ w \in Rules
      /\ w.id = u.id /\ w.kind = u.kind /\ w.path = u.path /\ w.predicate = u.predicate
      /\ w.action = u.action /\ w.version = RuleVersion(u) /\ w.severity = Severity(u)
  BY <1>1, Defaults
<1>3. RuleVersion(u) = version /\ Severity(u) = severity
  BY <1>1 DEF RuleVersion, Severity, Or, Unset
<1>4. m = [r EXCEPT !.version = version, !.severity = severity, !.kind = Or(r.kind, ""),
                    !.predicate.arg = Or(r.predicate.arg, ""), !.predicate.min = low, !.predicate.max = high]
  BY DEF Meaning
<1>5. r.predicate \in Predicates /\ low \in SUBSET Int /\ high \in SUBSET Int
  BY BoundsAre, RoundedInt DEF Rules
<1>6. version \in STRING /\ severity \in STRING /\ Or(r.kind, "") \in STRING /\ Or(r.predicate.arg, "") \in STRING
  BY BoundsAre, TextsAssumption, DefaultsAssumption DEF Or
<1> HIDE DEF w, m, version, severity, low, high
<1>7. /\ m.id = r.id /\ m.path = r.path /\ m.action = r.action
      /\ m.version = version /\ m.kind = Or(r.kind, "") /\ m.severity = severity
      /\ m.predicate = [r.predicate EXCEPT !.arg = Or(r.predicate.arg, ""), !.min = low, !.max = high]
  BY <1>4 DEF Rules
<1>8. /\ m.predicate \in Predicates
      /\ m.predicate.op = r.predicate.op /\ m.predicate.values = r.predicate.values
      /\ m.predicate.arg = Or(r.predicate.arg, "") /\ m.predicate.min = low /\ m.predicate.max = high
  BY <1>5, <1>6, <1>7 DEF Predicates
<1>9. m \in Rules
  BY <1>4, <1>6, <1>7, <1>8 DEF Rules
<1>10. m.id = w.id /\ m.path = w.path /\ m.action = w.action /\ m.kind = w.kind
  BY <1>1, <1>2, <1>7
<1>11. m.version = w.version /\ m.severity = w.severity
  BY <1>2, <1>3, <1>7
<1>12. /\ m.predicate.op = w.predicate.op /\ m.predicate.arg = w.predicate.arg
       /\ m.predicate.min = w.predicate.min /\ m.predicate.max = w.predicate.max
       /\ m.predicate.values = w.predicate.values
  BY <1>1, <1>2, <1>8
<1>13. m = w
  BY <1>2, <1>9, <1>10, <1>11, <1>12, RulesAre
<1> QED
  BY <1>13 DEF m, w, u

Meanings(d) == {Meaning(d.rules[i]) : i \in DOMAIN d.rules}

LEMMA MeaningsAre ==
  ASSUME NEW d \in Contracts
  PROVE  Meanings(d) = {WithDefaults(Unmarshal(d).rules[i]) : i \in DOMAIN Unmarshal(d).rules}
<1> DEFINE u == Unmarshal(d)
<1>1. DOMAIN u.rules = DOMAIN d.rules /\ d.rules \in Seq(Rules)
  BY UnmarshalIs
<1>2. ASSUME NEW i \in DOMAIN d.rules PROVE Meaning(d.rules[i]) = WithDefaults(u.rules[i])
  <2>1. d.rules[i] \in Rules /\ u.rules[i] = UnmarshalRule(d.rules[i])
    BY <1>1, UnmarshalIs
  <2> HIDE DEF u
  <2> QED
    BY <2>1, MeaningIs
<1> HIDE DEF u
<1>3. Meanings(d) = {WithDefaults(u.rules[i]) : i \in DOMAIN u.rules}
  BY <1>1, <1>2 DEF Meanings
<1> QED
  BY <1>3 DEF u

(***************************************************************************)
(* Canonical documents                                                     *)
(***************************************************************************)
\* The canonical document of contract c is read as what Normalize makes of c.
LEMMA CanonicalReturns ==
  ASSUME NEW d \in Contracts
  PROVE  /\ CanonicalJSON(Unmarshal(d)) \in Contracts
         /\ Unmarshal(CanonicalJSON(Unmarshal(d))) = Normalize(Unmarshal(d))
<1> DEFINE c == Unmarshal(d)
           C == Normalize(c)
           D == Marshal(C)
           E == Unmarshal(D)
<1>1. c \in Contracts
  BY UnmarshalIs
<1>2. PICK p \in Bijection(DOMAIN c.rules, DOMAIN c.rules) :
        C.rules = [n \in DOMAIN c.rules |-> WithDefaults(c.rules[p[n]])]
  BY <1>1, NormalizeRearranges
<1>3. C \in Contracts
  BY <1>1, NormalizeRearranges
<1>4. /\ D \in Contracts
      /\ D.ir = C.ir /\ D.id = C.id /\ D.version = C.version /\ D.input = C.input
      /\ DOMAIN D.rules = DOMAIN C.rules
      /\ \A i \in DOMAIN C.rules : D.rules[i] = MarshalRule(C.rules[i])
  BY <1>3, MarshalIs
<1>5. /\ E \in Contracts
      /\ E.ir = D.ir /\ E.id = D.id /\ E.version = D.version /\ E.input = D.input
      /\ DOMAIN E.rules = DOMAIN D.rules
      /\ \A i \in DOMAIN D.rules : E.rules[i] = UnmarshalRule(D.rules[i])
  <2> HIDE DEF D
  <2> QED
    BY <1>4, UnmarshalIs
<1>6. ASSUME NEW n \in DOMAIN C.rules PROVE E.rules[n] = C.rules[n]
  <2>1. n \in DOMAIN c.rules /\ p[n] \in DOMAIN c.rules
    BY <1>2, <1>6 DEF Bijection, Injection
  <2>2. DOMAIN c.rules = DOMAIN d.rules /\ d.rules \in Seq(Rules)
    BY UnmarshalIs
  <2>3. d.rules[p[n]] \in Rules /\ c.rules[p[n]] = UnmarshalRule(d.rules[p[n]])
    BY <2>1, <2>2, UnmarshalIs
  <2>4. C.rules[n] = WithDefaults(c.rules[p[n]])
    <3> HIDE DEF C, c
    <3> QED
      BY <1>2, <2>1
  <2> HIDE DEF c, C, D, E
  <2>5. C.rules[n] = WithDefaults(UnmarshalRule(d.rules[p[n]]))
    BY <2>3, <2>4
  <2>6. UnmarshalRule(MarshalRule(C.rules[n])) = C.rules[n]
    BY <2>3, <2>5, RuleReturns
  <2> QED
    BY <1>4, <1>5, <2>6
<1>7. C.rules \in Seq(Rules) /\ E.rules \in Seq(Rules)
  BY <1>3, <1>5 DEF Contracts
<1> HIDE DEF c, C, D, E
<1>8. E.rules = C.rules
  BY <1>4, <1>5, <1>6, <1>7
<1>9. E = C
  BY <1>3, <1>4, <1>5, <1>8, ContractsAre
<1> QED
  BY <1>4, <1>9 DEF E, D, C, c, CanonicalJSON

\* Two admitted documents have one canonical document exactly if they mean the same.
LEMMA CanonicalDecides ==
  ASSUME NEW d \in Contracts, NEW e \in Contracts, Validate(Unmarshal(d)), Validate(Unmarshal(e))
  PROVE  CanonicalJSON(Unmarshal(d)) = CanonicalJSON(Unmarshal(e)) <=> Equivalent(d, e)
<1> DEFINE c == Unmarshal(d)
           f == Unmarshal(e)
<1>1. /\ c \in Contracts /\ d.rules \in Seq(Rules)
      /\ c.ir = d.ir /\ c.id = d.id /\ c.version = d.version /\ c.input = d.input
      /\ Len(c.rules) = Len(d.rules) /\ c.rules \in Seq(Rules)
  BY UnmarshalIs
<1>2. /\ f \in Contracts /\ e.rules \in Seq(Rules)
      /\ f.ir = e.ir /\ f.id = e.id /\ f.version = e.version /\ f.input = e.input
      /\ Len(f.rules) = Len(e.rules) /\ f.rules \in Seq(Rules)
  BY UnmarshalIs
<1>3. /\ Meanings(d) = {WithDefaults(c.rules[i]) : i \in DOMAIN c.rules}
      /\ Meanings(e) = {WithDefaults(f.rules[i]) : i \in DOMAIN f.rules}
  BY MeaningsAre
<1>4. Equivalent(d, e) <=>
        /\ d.ir = e.ir /\ d.id = e.id /\ d.version = e.version /\ d.input = e.input
        /\ Len(d.rules) = Len(e.rules) /\ Meanings(d) = Meanings(e)
  BY DEF Equivalent, Meanings
<1>5. /\ Unmarshal(CanonicalJSON(c)) = Normalize(c)
      /\ Unmarshal(CanonicalJSON(f)) = Normalize(f)
  BY CanonicalReturns
<1>6. Validate(c) /\ Validate(f)
  OBVIOUS
<1> HIDE DEF c, f
<1>7. ASSUME Equivalent(d, e) PROVE CanonicalJSON(c) = CanonicalJSON(f)
  <2>1. Normalize(c) = Normalize(f)
    BY <1>1, <1>2, <1>3, <1>4, <1>6, <1>7, NormalizeCanonical
  <2> QED
    BY <2>1 DEF CanonicalJSON
<1>8. ASSUME CanonicalJSON(c) = CanonicalJSON(f) PROVE Equivalent(d, e)
  <2>1. Normalize(c) = Normalize(f)
    BY <1>5, <1>8
  <2>2. RulesIn(Normalize(c).rules) = Meanings(d) /\ RulesIn(Normalize(f).rules) = Meanings(e)
    BY <1>1, <1>2, <1>3, RulesNormalized
  <2>3. c.ir = f.ir /\ c.id = f.id /\ c.version = f.version /\ c.input = f.input
    BY <1>1, <1>2, <2>1, NormalizeRearranges
  <2>4. DOMAIN Normalize(c).rules = DOMAIN c.rules /\ DOMAIN Normalize(f).rules = DOMAIN f.rules
    BY <1>1, <1>2, NormalizeRearranges
  <2>5. Len(c.rules) = Len(f.rules)
    BY <1>1, <1>2, <2>1, <2>4
  <2> QED
    BY <1>1, <1>2, <1>4, <2>1, <2>2, <2>3, <2>5
<1> QED
  BY <1>7, <1>8 DEF c, f

(***************************************************************************)
(* Equivalent documents are both admitted or both refused                    *)
(***************************************************************************)
\* A rule is admitted for what it means.
LEMMA ValidMeaning ==
  ASSUME NEW d \in Contracts
  PROVE  (\A i \in DOMAIN Unmarshal(d).rules : RuleValid(Unmarshal(d).rules[i]))
           <=> \A m \in Meanings(d) : RuleValid(m)
<1> DEFINE u == Unmarshal(d)
<1>1. u.rules \in Seq(Rules)
  BY UnmarshalIs
<1>2. Meanings(d) = {WithDefaults(u.rules[i]) : i \in DOMAIN u.rules}
  BY MeaningsAre
<1> HIDE DEF u
<1>3. ASSUME NEW i \in DOMAIN u.rules
      PROVE  RuleValid(u.rules[i]) <=> RuleValid(WithDefaults(u.rules[i]))
  <2>1. u.rules[i] \in Rules
    BY <1>1
  <2> QED
    BY <2>1, DefaultsValid
<1>4. (\A i \in DOMAIN u.rules : RuleValid(u.rules[i])) <=> \A m \in Meanings(d) : RuleValid(m)
  BY <1>2, <1>3
<1> QED
  BY <1>4 DEF u

\* Two maps of n places onto one set are both one-to-one or neither is.
LEMMA OneToOne ==
  ASSUME NEW n \in Nat, NEW T, NEW f \in Injection(1..n, T), f \in Surjection(1..n, T),
         NEW g \in Surjection(1..n, T)
  PROVE  g \in Injection(1..n, T)
<1>1. IsFiniteSet(1..n)
  BY FS_Interval
<1>2. Cardinality(T) = Cardinality(1..n)
  BY <1>1, FS_Surjection
<1> QED
  BY <1>1, <1>2, FS_Surjection

\* With as many rules and no other meanings, one's ids differ if the other's do.
LEMMA IdsOfMeanings ==
  ASSUME NEW d \in Contracts, NEW e \in Contracts, Len(d.rules) = Len(e.rules),
         Meanings(d) = Meanings(e), IdsUnique(d.rules)
  PROVE  IdsUnique(e.rules)
<1> DEFINE n == Len(d.rules)
           T == Meanings(d)
           f == [i \in 1..n |-> Meaning(d.rules[i])]
           g == [i \in 1..n |-> Meaning(e.rules[i])]
<1>1. /\ d.rules \in Seq(Rules) /\ e.rules \in Seq(Rules) /\ n \in Nat
      /\ DOMAIN d.rules = 1..n /\ DOMAIN e.rules = 1..n
  BY UnmarshalIs
<1>2. \A r \in Rules : Meaning(r).id = r.id
  <2>1. ASSUME NEW r \in Rules PROVE Meaning(r).id = r.id
    <3>1. UnmarshalRule(r) \in Rules /\ UnmarshalRule(r).id = r.id
      BY UnmarshalRuleIs, Zenon
    <3>2. WithDefaults(UnmarshalRule(r)).id = UnmarshalRule(r).id
      BY <3>1, Defaults
    <3> QED
      BY <3>1, <3>2, MeaningIs
  <2> QED
    BY <2>1
<1>3. \A i \in 1..n : f[i].id = d.rules[i].id /\ g[i].id = e.rules[i].id
  BY <1>1, <1>2
<1>4. T = {f[i] : i \in 1..n} /\ T = {g[i] : i \in 1..n}
  BY <1>1 DEF Meanings
<1>5. DOMAIN f = 1..n /\ DOMAIN g = 1..n
  OBVIOUS
<1>6. f = [i \in 1..n |-> f[i]] /\ g = [i \in 1..n |-> g[i]]
  OBVIOUS
<1> HIDE DEF f, g, T, n
<1>7. f \in Surjection(1..n, T) /\ g \in Surjection(1..n, T)
  BY <1>4, <1>5, <1>6 DEF Surjection
<1>8. f \in Injection(1..n, T)
  <2>1. \A i, j \in 1..n : f[i] = f[j] => i = j
    BY <1>1, <1>3 DEF IdsUnique
  <2> QED
    BY <1>7, <2>1 DEF Surjection, Injection, IsInjective
<1>9. g \in Injection(1..n, T)
  BY <1>1, <1>7, <1>8, OneToOne
<1>10. ASSUME NEW i \in 1..n, NEW j \in 1..n, e.rules[i].id = e.rules[j].id PROVE i = j
  <2>0. g[i] \in {f[k] : k \in 1..n} /\ g[j] \in {f[k] : k \in 1..n}
    BY <1>4
  <2>1. \E k \in 1..n, l \in 1..n : f[k] = g[i] /\ f[l] = g[j]
    BY <2>0
  <2>5. PICK k \in 1..n, l \in 1..n : f[k] = g[i] /\ f[l] = g[j]
    BY <2>1
  <2>2. d.rules[k].id = d.rules[l].id
    BY <1>3, <1>10, <2>5
  <2>3. k = l
    BY <1>1, <2>2 DEF IdsUnique
  <2>4. g[i] = g[j]
    BY <2>3, <2>5
  <2> QED
    BY <1>9, <2>4 DEF Injection, IsInjective
<1> QED
  BY <1>1, <1>10 DEF IdsUnique

LEMMA IdsUnmarshalled ==
  ASSUME NEW d \in Contracts
  PROVE  IdsUnique(Unmarshal(d).rules) <=> IdsUnique(d.rules)
<1> DEFINE u == Unmarshal(d)
<1>1. DOMAIN u.rules = DOMAIN d.rules /\ d.rules \in Seq(Rules)
  BY UnmarshalIs
<1>2. ASSUME NEW i \in DOMAIN d.rules PROVE u.rules[i].id = d.rules[i].id
  <2>1. d.rules[i] \in Rules /\ u.rules[i] = UnmarshalRule(d.rules[i])
    BY <1>1, UnmarshalIs
  <2> HIDE DEF u
  <2>2. UnmarshalRule(d.rules[i]).id = d.rules[i].id
    BY <2>1, UnmarshalRuleIs, Zenon
  <2> QED
    BY <2>1, <2>2
<1> HIDE DEF u
<1>3. IdsUnique(u.rules) <=> IdsUnique(d.rules)
  BY <1>1, <1>2 DEF IdsUnique
<1> QED
  BY <1>3 DEF u

LEMMA EquivalentAdmitted ==
  ASSUME NEW d \in Contracts, NEW e \in Contracts, Equivalent(d, e), Validate(Unmarshal(d))
  PROVE  Validate(Unmarshal(e))
<1> DEFINE c == Unmarshal(d)
           f == Unmarshal(e)
<1>1. c.ir = f.ir /\ c.id = f.id /\ c.version = f.version /\ c.input = f.input /\ Len(c.rules) = Len(f.rules)
  <2>1. /\ d.ir = e.ir /\ d.id = e.id /\ d.version = e.version /\ d.input = e.input
        /\ Len(d.rules) = Len(e.rules)
    BY DEF Equivalent
  <2>2. /\ c.ir = d.ir /\ c.id = d.id /\ c.version = d.version /\ c.input = d.input
        /\ Len(c.rules) = Len(d.rules)
    BY UnmarshalIs
  <2>3. /\ f.ir = e.ir /\ f.id = e.id /\ f.version = e.version /\ f.input = e.input
        /\ Len(f.rules) = Len(e.rules)
    BY UnmarshalIs
  <2> HIDE DEF c, f
  <2> QED
    BY <2>1, <2>2, <2>3
<1>2. Len(d.rules) = Len(e.rules) /\ Meanings(d) = Meanings(e)
  BY DEF Equivalent, Meanings
<1>3. IdsUnique(c.rules) => IdsUnique(f.rules)
  BY <1>2, IdsOfMeanings, IdsUnmarshalled
<1>4. /\ (\A i \in DOMAIN c.rules : RuleValid(c.rules[i])) <=> \A m \in Meanings(d) : RuleValid(m)
      /\ (\A i \in DOMAIN f.rules : RuleValid(f.rules[i])) <=> \A m \in Meanings(e) : RuleValid(m)
  BY ValidMeaning
<1>5. Validate(c)
  OBVIOUS
<1> HIDE DEF c, f
<1>6. Validate(f)
  BY <1>1, <1>2, <1>3, <1>4, <1>5 DEF Validate
<1> QED
  BY <1>6 DEF f

LEMMA EquivalentSymmetric ==
  ASSUME NEW d, NEW e, Equivalent(d, e)
  PROVE  Equivalent(e, d)
BY DEF Equivalent

(***************************************************************************)
(* What the SDKs emit                                                      *)
(***************************************************************************)
LEMMA HeldIs ==
  ASSUME NEW lang, NEW bounds \in SUBSET Int
  PROVE  /\ Held(lang, bounds) \in SUBSET Int /\ Spelled(lang, bounds) \in SUBSET Int
         /\ Floats(Held(lang, bounds)) = Floats(bounds)
         /\ Floats(Spelled(lang, bounds)) = Floats(bounds)
         /\ lang # "python" => Held(lang, bounds) = Floats(bounds)
<1> DEFINE held(b) == IF lang = "python" /\ b % 2 = 0 THEN b ELSE Rounded(b)
<1>1. \A b \in bounds : held(b) \in Int /\ Rounded(held(b)) = Rounded(b)
  BY RoundedSide, RoundedTwice
<1>2. Held(lang, bounds) = {held(b) : b \in bounds}
  BY DEF Held
<1>3. lang # "python" => Held(lang, bounds) = Floats(bounds)
  BY DEF Held, Floats
<1> HIDE DEF held
<1>4. Held(lang, bounds) \in SUBSET Int
  BY <1>1, <1>2
<1>5. Floats(Held(lang, bounds)) = Floats(bounds)
  BY <1>1, <1>2 DEF Floats
<1>6. Spelled(lang, bounds) \in SUBSET Int
  BY <1>4, DigitsInt DEF Spelled, Shortest
<1>7. Floats(Spelled(lang, bounds)) = Floats(bounds)
  <2>1. CASE lang = "python"
    BY <1>5, <2>1 DEF Spelled
  <2>2. CASE lang # "python"
    <3>1. Spelled(lang, bounds) = Shortest(Floats(bounds))
      BY <1>3, <2>2 DEF Spelled
    <3> QED
      BY <3>1, BoundsReturn
  <2> QED
    BY <2>1, <2>2
<1> QED
  BY <1>3, <1>4, <1>5, <1>6, <1>7

\* A number of portable size that an SDK writes is written again from what is read of it.
LEMMA SpelledReturns ==
  ASSUME NEW lang, NEW bounds \in SUBSET Int,
         \A b \in Spelled(lang, bounds) : Magnitude(b) <= 2 * Exact
  PROVE  Shortest(Floats(Spelled(lang, bounds))) = Spelled(lang, bounds)
<1> DEFINE S == Spelled(lang, bounds)
<1>1. ASSUME NEW b \in S PROVE b \in Int /\ Digits(Rounded(b)) = b
  <2>1. b \in Int /\ Magnitude(b) <= 2 * Exact
    BY HeldIs
  <2>2. CASE b % 2 = 0
    BY <2>1, <2>2, RoundedExact, DigitsExact
  <2>3. CASE lang = "python" /\ b % 2 # 0
    <3>1. PICK x \in bounds : b = IF x % 2 = 0 THEN x ELSE Rounded(x)
      BY <2>3 DEF Spelled, Held
    <3>2. Rounded(b) = b
      BY <2>3, <3>1, RoundedTwice
    <3> QED
      BY <2>1, <3>2, DigitsExact
  <2>4. CASE lang # "python"
    <3>1. S = Shortest(Floats(bounds))
      BY <2>4, HeldIs DEF Spelled
    <3>2. PICK x \in bounds : b = Digits(Rounded(x))
      BY <3>1 DEF Shortest, Floats
    <3>3. Rounded(x) \in Int /\ Rounded(Rounded(x)) = Rounded(x)
      BY RoundedSide, RoundedTwice
    <3>4. Rounded(b) = Rounded(x)
      BY <3>2, <3>3, DigitsRead
    <3> QED
      BY <2>1, <3>2, <3>4
  <2> QED
    BY <2>2, <2>3, <2>4
<1> HIDE DEF S
<1>2. Shortest(Floats(S)) = {Digits(Rounded(b)) : b \in S}
  BY DEF Shortest, Floats
<1>3. {Digits(Rounded(b)) : b \in S} = S
  BY <1>1
<1> QED
  BY <1>2, <1>3 DEF S

\* Rounding keeps bounds in order.
LEMMA BoundsRounded ==
  ASSUME NEW low \in SUBSET Int, NEW high \in SUBSET Int,
         BoundsValid([min |-> low, max |-> high])
  PROVE  BoundsValid([min |-> Floats(low), max |-> Floats(high)])
<1>1. (low # {} \/ high # {}) /\ \A l \in low, h \in high : l <= h
  BY DEF BoundsValid
<1>2. Floats(low) # {} \/ Floats(high) # {}
  BY <1>1 DEF Floats
<1>3. ASSUME NEW x \in Floats(low), NEW y \in Floats(high) PROVE x <= y
  <2>1. PICK l \in low, h \in high : x = Rounded(l) /\ y = Rounded(h)
    BY DEF Floats
  <2> QED
    BY <1>1, <2>1, RoundedMonotone
<1> QED
  BY <1>2, <1>3 DEF BoundsValid

LEMMA RuleIRIs ==
  ASSUME NEW lang, NEW r \in Rules
  PROVE  LET q == RuleIR(lang, r) IN
         /\ q \in Rules
         /\ q.id = r.id /\ q.path = r.path /\ q.action = r.action
         /\ q.version = Or(r.version, "1") /\ q.kind = KindOf(lang, r) /\ q.severity = Or(r.severity, "error")
         /\ q.predicate.op = r.predicate.op /\ q.predicate.values = r.predicate.values
         /\ q.predicate.arg = r.predicate.arg
         /\ q.predicate.min = Spelled(lang, r.predicate.min)
         /\ q.predicate.max = Spelled(lang, r.predicate.max)
<1> DEFINE q == RuleIR(lang, r)
           version == Or(r.version, "1")
           severity == Or(r.severity, "error")
           kind == KindOf(lang, r)
           low == Spelled(lang, r.predicate.min)
           high == Spelled(lang, r.predicate.max)
<1>1. low \in SUBSET Int /\ high \in SUBSET Int
  BY BoundsAre, HeldIs
<1>2. version \in STRING /\ severity \in STRING /\ kind \in STRING
  BY BoundsAre, TextsAssumption, DefaultsAssumption DEF Or, KindOf, DerivedKind
<1>3. q = [r EXCEPT !.version = version, !.kind = kind, !.severity = severity,
                    !.predicate.min = low, !.predicate.max = high]
  BY DEF RuleIR
<1> HIDE DEF q, version, severity, kind, low, high
<1>4. r.predicate \in Predicates
  BY DEF Rules
<1>5. /\ q.id = r.id /\ q.path = r.path /\ q.action = r.action
      /\ q.version = version /\ q.kind = kind /\ q.severity = severity
      /\ q.predicate = [r.predicate EXCEPT !.min = low, !.max = high]
  BY <1>3 DEF Rules
<1>6. /\ q.predicate \in Predicates
      /\ q.predicate.op = r.predicate.op /\ q.predicate.values = r.predicate.values
      /\ q.predicate.arg = r.predicate.arg /\ q.predicate.min = low /\ q.predicate.max = high
  BY <1>1, <1>4, <1>5 DEF Predicates
<1>7. q \in Rules
  BY <1>2, <1>3, <1>5, <1>6 DEF Rules
<1> QED
  BY <1>5, <1>6, <1>7 DEF q, version, severity, kind, low, high

\* A rule that an SDK compiles spells its defaults out, and the engine admits it if its
\* pattern is one of Go's.
LEMMA RuleCompiled ==
  ASSUME NEW lang, NEW r \in Rules, RuleCompiles(lang, r)
  PROVE  LET q == RuleIR(lang, r)
             u == UnmarshalRule(q)
         IN  /\ q.version = "1" /\ q.kind \in {"record", "stream"} /\ q.severity \in {"warning", "error"}
             /\ u.version = q.version /\ u.kind = q.kind /\ u.severity = q.severity
             /\ WithDefaults(u) = u
             /\ (r.predicate.op = "regex" => r.predicate.arg \in Patterns) => RuleValid(u)
<1> DEFINE q == RuleIR(lang, r)
           u == UnmarshalRule(q)
           p == r.predicate
<1>1. /\ q \in Rules
      /\ q.id = r.id /\ q.path = r.path /\ q.action = r.action
      /\ q.version = Or(r.version, "1") /\ q.kind = KindOf(lang, r) /\ q.severity = Or(r.severity, "error")
      /\ q.predicate.op = p.op /\ q.predicate.values = p.values /\ q.predicate.arg = p.arg
      /\ q.predicate.min = Spelled(lang, p.min) /\ q.predicate.max = Spelled(lang, p.max)
  BY RuleIRIs, Zenon
<1> HIDE DEF q
<1>2. /\ u \in Rules
      /\ u.id = q.id /\ u.path = q.path /\ u.action = q.action
      /\ u.version = Or(q.version, "") /\ u.kind = Or(q.kind, "") /\ u.severity = Or(q.severity, "")
      /\ u.predicate.op = q.predicate.op /\ u.predicate.values = q.predicate.values
      /\ u.predicate.arg = Or(q.predicate.arg, "")
      /\ u.predicate.min = Floats(q.predicate.min) /\ u.predicate.max = Floats(q.predicate.max)
  BY <1>1, UnmarshalRuleIs, Zenon
<1> HIDE DEF u
<1>3. /\ r.id # 0 /\ p.op \in RecordOps \cup StreamOps /\ KindOf(lang, r) = DerivedKind(r)
      /\ PathValid(r.path) /\ r.action \in Actions
      /\ Or(r.severity, "error") \in {"warning", "error"} /\ Or(r.version, "1") = "1"
      /\ p.op = "type" => p.arg \in Types
      /\ p.op = "format" => p.arg = "email"
      /\ p.op \in {"range", "count"} => BoundsValid([min |-> Held(lang, p.min), max |-> Held(lang, p.max)])
      /\ p.op = "count" => r.path = Root
      /\ p.op = "enum" => p.values # <<>>
  BY DEF RuleCompiles
<1>4. q.version = "1" /\ q.kind = DerivedKind(r) /\ q.severity \in {"warning", "error"}
  BY <1>1, <1>3
<1>5. DerivedKind(r) \in {"record", "stream"}
  BY DEF DerivedKind
<1>6. u.version = q.version /\ u.kind = q.kind /\ u.severity = q.severity
  BY <1>2, <1>4, <1>5 DEF Or, Unset
<1>7. WithDefaults(u) = u
  <2>1. RuleVersion(u) = u.version /\ Severity(u) = u.severity
    BY <1>4, <1>6 DEF RuleVersion, Severity
  <2>2. /\ WithDefaults(u) \in Rules
        /\ WithDefaults(u).id = u.id /\ WithDefaults(u).kind = u.kind
        /\ WithDefaults(u).path = u.path /\ WithDefaults(u).predicate = u.predicate
        /\ WithDefaults(u).action = u.action
        /\ WithDefaults(u).version = u.version /\ WithDefaults(u).severity = u.severity
    BY <1>2, <2>1, Defaults
  <2> QED
    BY <1>2, <2>2, RulesAre
<1>8. ASSUME p.op = "regex" => p.arg \in Patterns PROVE RuleValid(u)
  <2>1. (u.kind = "record" => p.op \in RecordOps) /\ (u.kind = "stream" => p.op \in StreamOps)
    BY <1>3, <1>4, <1>6 DEF DerivedKind
  <2>2. p.op \in {"type", "format", "regex"} => u.predicate.arg = p.arg
    BY <1>1, <1>2, <1>3, <1>8, UnsetAssumption DEF Or, Unset, Types
  <2>3. ASSUME p.op \in {"range", "count"} PROVE BoundsValid(u.predicate)
    <3>1. p.min \in SUBSET Int /\ p.max \in SUBSET Int
      BY BoundsAre
    <3>5. ASSUME NEW bounds \in SUBSET Int
          PROVE  /\ Held(lang, bounds) \in SUBSET Int /\ Floats(Held(lang, bounds)) = Floats(bounds)
                 /\ Floats(Spelled(lang, bounds)) = Floats(bounds)
      BY HeldIs, Zenon
    <3>6. u.predicate.min = Floats(Spelled(lang, p.min)) /\ u.predicate.max = Floats(Spelled(lang, p.max))
      BY <1>1, <1>2, Zenon
    <3>2. /\ Held(lang, p.min) \in SUBSET Int /\ Held(lang, p.max) \in SUBSET Int
          /\ Floats(Held(lang, p.min)) = Floats(p.min) /\ Floats(Held(lang, p.max)) = Floats(p.max)
          /\ u.predicate.min = Floats(p.min) /\ u.predicate.max = Floats(p.max)
      <4> HIDE DEF p
      <4> QED
        BY <3>1, <3>5, <3>6, Zenon
    <3>3. BoundsValid([min |-> Held(lang, p.min), max |-> Held(lang, p.max)])
      BY <1>3, <2>3
    <3>4. BoundsValid([min |-> Floats(p.min), max |-> Floats(p.max)])
      BY <3>2, <3>3, BoundsRounded
    <3> QED
      BY <3>2, <3>4 DEF BoundsValid
  <2>4. PredicateValid(u)
    BY <1>1, <1>2, <1>3, <1>8, <2>1, <2>2, <2>3 DEF PredicateValid
  <2> QED
    BY <1>1, <1>2, <1>3, <1>4, <1>5, <1>6, <2>4 DEF RuleValid
<1> QED
  BY <1>4, <1>5, <1>6, <1>7, <1>8 DEF u, q

\* What of a document's rule is read and written again: all, if its spelling is portable.
LEMMA RuleIRReturns ==
  ASSUME NEW lang, NEW r \in Rules, RuleCompiles(lang, r), r.predicate.arg # "",
         \A b \in Spelled(lang, r.predicate.min) : Magnitude(b) <= 2 * Exact,
         \A b \in Spelled(lang, r.predicate.max) : Magnitude(b) <= 2 * Exact
  PROVE  MarshalRule(UnmarshalRule(RuleIR(lang, r))) = RuleIR(lang, r)
<1> DEFINE q == RuleIR(lang, r)
           u == UnmarshalRule(q)
           w == MarshalRule(u)
           low == Spelled(lang, r.predicate.min)
           high == Spelled(lang, r.predicate.max)
<1>1. /\ q \in Rules /\ q.predicate.arg = r.predicate.arg
      /\ q.predicate.min = low /\ q.predicate.max = high
  BY RuleIRIs, Zenon
<1>2. u.version = q.version /\ u.kind = q.kind /\ u.severity = q.severity
  BY RuleCompiled, Zenon
<1>3. Shortest(Floats(low)) = low /\ Shortest(Floats(high)) = high
  <2>1. r.predicate.min \in SUBSET Int /\ r.predicate.max \in SUBSET Int
    BY BoundsAre
  <2> QED
    BY <2>1, SpelledReturns
<1> HIDE DEF q, low, high
<1>4. /\ u \in Rules
      /\ u.id = q.id /\ u.path = q.path /\ u.action = q.action
      /\ u.predicate.op = q.predicate.op /\ u.predicate.values = q.predicate.values
      /\ u.predicate.arg = Or(q.predicate.arg, "")
      /\ u.predicate.min = Floats(q.predicate.min) /\ u.predicate.max = Floats(q.predicate.max)
  BY <1>1, UnmarshalRuleIs, Zenon
<1> HIDE DEF u
<1>5. /\ w \in Rules
      /\ w.id = u.id /\ w.path = u.path /\ w.action = u.action
      /\ w.version = u.version /\ w.kind = u.kind /\ w.severity = u.severity
      /\ w.predicate.op = u.predicate.op /\ w.predicate.values = u.predicate.values
      /\ w.predicate.arg = IF u.predicate.arg = "" THEN Unset ELSE u.predicate.arg
      /\ w.predicate.min = Shortest(u.predicate.min) /\ w.predicate.max = Shortest(u.predicate.max)
  BY <1>4, MarshalRuleIs, Zenon
<1> HIDE DEF w
<1>6. w.predicate.arg = q.predicate.arg
  BY <1>1, <1>4, <1>5 DEF Or
<1>7. w.predicate.min = q.predicate.min /\ w.predicate.max = q.predicate.max
  BY <1>1, <1>3, <1>4, <1>5
<1>8. w = q
  BY <1>1, <1>2, <1>4, <1>5, <1>6, <1>7, RulesAre
<1> QED
  BY <1>8 DEF w, u, q

\* The place of rule i of a draft in what an SDK emits.
Place(lang, d, i) == IF lang = "python" THEN d.rules[i].id ELSE Utf16[d.rules[i].id]

LEMMA ToIRIs ==
  ASSUME NEW lang, NEW d \in Drafts
  PROVE  LET D == ToIR(lang, d) IN
         /\ d \in Contracts /\ d.rules \in Seq(Rules) /\ D \in Contracts /\ D.rules \in Seq(Rules)
         /\ D.ir = "1.0" /\ D.input = "record-stream" /\ D.id = d.id /\ D.version = d.version
         /\ DOMAIN D.rules = DOMAIN d.rules /\ Len(D.rules) = Len(d.rules)
         /\ \E p \in Bijection(DOMAIN d.rules, DOMAIN d.rules) :
              /\ \A n \in DOMAIN d.rules : D.rules[n] = RuleIR(lang, d.rules[p[n]])
              /\ \A m, n \in DOMAIN d.rules : m < n => Place(lang, d, p[m]) <= Place(lang, d, p[n])
<1> DEFINE D == ToIR(lang, d)
           s == [i \in DOMAIN d.rules |-> RuleIR(lang, d.rules[i])]
           key == [i \in DOMAIN d.rules |-> IF lang = "python" THEN d.rules[i].id ELSE Utf16[d.rules[i].id]]
           sorted == SortedBy(s, key)
<1>1. d \in Contracts /\ d.rules \in Seq(Rules)
  BY DraftsAssumption DEF Contracts
<1>2. Len(d.rules) \in Nat /\ DOMAIN d.rules = 1..Len(d.rules)
  BY <1>1
<1>3. ASSUME NEW i \in DOMAIN d.rules PROVE RuleIR(lang, d.rules[i]) \in Rules /\ key[i] \in Int
  <2>1. d.rules[i] \in Rules /\ d.rules[i].id \in Nat
    BY <1>1, BoundsAre
  <2>2. RuleIR(lang, d.rules[i]) \in Rules
    BY <2>1, RuleIRIs, Zenon
  <2>3. Utf16[d.rules[i].id] \in Nat
    BY Utf16Assumption
  <2> QED
    BY <2>1, <2>2, <2>3
<1>4. s \in Seq(Rules) /\ DOMAIN s = DOMAIN d.rules /\ Len(s) = Len(d.rules)
  <2>1. \A i \in DOMAIN d.rules : RuleIR(lang, d.rules[i]) \in Rules
    BY <1>3
  <2> QED
    BY <1>2, <2>1
<1>5. key \in [DOMAIN s -> Int]
  BY <1>3, <1>4
<1>6. D = [d EXCEPT !.ir = "1.0", !.input = "record-stream", !.rules = sorted]
  BY DEF ToIR
<1>7. \A i \in DOMAIN d.rules : s[i] = RuleIR(lang, d.rules[i]) /\ key[i] = Place(lang, d, i)
  BY DEF Place
<1> HIDE DEF s, key, sorted, D
<1>8. PICK p \in Bijection(DOMAIN s, DOMAIN s) :
        /\ sorted = [n \in DOMAIN s |-> s[p[n]]]
        /\ \A m, n \in DOMAIN s : m < n => key[p[m]] <= key[p[n]]
  BY <1>4, <1>5, SortedByOrders DEF sorted
<1>9. \A n \in DOMAIN s : p[n] \in DOMAIN s
  BY <1>8 DEF Bijection, Injection
<1>10. sorted \in Seq(Rules) /\ DOMAIN sorted = DOMAIN d.rules /\ Len(sorted) = Len(d.rules)
  BY <1>2, <1>4, <1>8, <1>9
<1>11. /\ D \in Contracts /\ D.rules = sorted
       /\ D.ir = "1.0" /\ D.input = "record-stream" /\ D.id = d.id /\ D.version = d.version
  BY <1>1, <1>6, <1>10, TextsAssumption DEF Contracts
<1>12. ASSUME NEW n \in DOMAIN d.rules PROVE D.rules[n] = RuleIR(lang, d.rules[p[n]])
  <2>1. n \in DOMAIN s /\ p[n] \in DOMAIN d.rules
    BY <1>4, <1>9
  <2>2. D.rules[n] = s[p[n]]
    BY <1>8, <1>11, <2>1
  <2> QED
    BY <1>7, <2>1, <2>2
<1>13. ASSUME NEW m \in DOMAIN d.rules, NEW n \in DOMAIN d.rules, m < n
       PROVE  Place(lang, d, p[m]) <= Place(lang, d, p[n])
  <2>1. m \in DOMAIN s /\ n \in DOMAIN s /\ p[m] \in DOMAIN d.rules /\ p[n] \in DOMAIN d.rules
    BY <1>4, <1>9
  <2>2. key[p[m]] <= key[p[n]]
    BY <1>8, <1>13, <2>1
  <2> QED
    BY <1>7, <2>1, <2>2
<1> QED
  BY <1>1, <1>4, <1>8, <1>10, <1>11, <1>12, <1>13 DEF D

\* Every rule of a compiled document is a rule that compiled.
LEMMA CompiledRules ==
  ASSUME NEW lang, NEW d \in Drafts, Compiles(lang, d), NEW n \in DOMAIN ToIR(lang, d).rules
  PROVE  \E r \in Rules : RuleCompiles(lang, r) /\ ToIR(lang, d).rules[n] = RuleIR(lang, r)
<1> DEFINE D == ToIR(lang, d)
<1>1. d.rules \in Seq(Rules) /\ DOMAIN D.rules = DOMAIN d.rules
  BY ToIRIs, Zenon
<1>2. PICK p \in Bijection(DOMAIN d.rules, DOMAIN d.rules) :
        \A k \in DOMAIN d.rules : D.rules[k] = RuleIR(lang, d.rules[p[k]])
  BY ToIRIs, Zenon
<1> HIDE DEF D
<1>3. n \in DOMAIN d.rules
  BY <1>1 DEF D
<1>4. p[n] \in DOMAIN d.rules
  BY <1>2, <1>3 DEF Bijection, Injection
<1>5. d.rules[p[n]] \in Rules /\ RuleCompiles(lang, d.rules[p[n]])
  <2>1. \A i \in DOMAIN d.rules : RuleCompiles(lang, d.rules[i])
    BY DEF Compiles
  <2> QED
    BY <1>1, <1>4, <2>1
<1>6. D.rules[n] = RuleIR(lang, d.rules[p[n]])
  BY <1>2, <1>3
<1> QED
  BY <1>5, <1>6 DEF D

LEMMA CompiledIds ==
  ASSUME NEW lang, NEW d \in Drafts, Compiles(lang, d)
  PROVE  IdsUnique(ToIR(lang, d).rules)
<1> DEFINE D == ToIR(lang, d)
<1>1. d.rules \in Seq(Rules) /\ DOMAIN D.rules = DOMAIN d.rules
  BY ToIRIs, Zenon
<1>2. PICK p \in Bijection(DOMAIN d.rules, DOMAIN d.rules) :
        \A k \in DOMAIN d.rules : D.rules[k] = RuleIR(lang, d.rules[p[k]])
  BY ToIRIs, Zenon
<1>3. IdsUnique(d.rules)
  BY DEF Compiles
<1> HIDE DEF D
<1>4. ASSUME NEW k \in DOMAIN d.rules PROVE p[k] \in DOMAIN d.rules /\ D.rules[k].id = d.rules[p[k]].id
  <2>1. p[k] \in DOMAIN d.rules
    BY <1>2 DEF Bijection, Injection
  <2>2. d.rules[p[k]] \in Rules
    BY <1>1, <2>1
  <2>3. RuleIR(lang, d.rules[p[k]]).id = d.rules[p[k]].id
    BY <2>2, RuleIRIs, Zenon
  <2> QED
    BY <1>2, <2>1, <2>3
<1>5. \A i, j \in DOMAIN d.rules : p[i] = p[j] => i = j
  BY <1>2 DEF Bijection, Injection, IsInjective
<1>6. ASSUME NEW i \in DOMAIN D.rules, NEW j \in DOMAIN D.rules, D.rules[i].id = D.rules[j].id
      PROVE  i = j
  <2>1. i \in DOMAIN d.rules /\ j \in DOMAIN d.rules
    BY <1>1
  <2>2. p[i] \in DOMAIN d.rules /\ p[j] \in DOMAIN d.rules /\ d.rules[p[i]].id = d.rules[p[j]].id
    BY <1>4, <1>6, <2>1
  <2>3. p[i] = p[j]
    BY <1>3, <2>2 DEF IdsUnique
  <2> QED
    BY <1>5, <2>1, <2>3
<1> QED
  BY <1>6 DEF D, IdsUnique

\* What an SDK compiles the engine admits, if Go has its patterns.
LEMMA CompiledValid ==
  ASSUME NEW lang, NEW d \in Drafts, Compiles(lang, d), PortablePatterns(ToIR(lang, d))
  PROVE  Validate(Unmarshal(ToIR(lang, d)))
<1> DEFINE D == ToIR(lang, d)
           U == Unmarshal(D)
<1>1. /\ D \in Contracts /\ D.rules \in Seq(Rules)
      /\ D.ir = "1.0" /\ D.input = "record-stream" /\ D.id = d.id /\ D.version = d.version
      /\ Len(D.rules) = Len(d.rules) /\ d.rules \in Seq(Rules)
  BY ToIRIs, Zenon
<1>2. d.id # "" /\ d.version # "" /\ Len(d.rules) > 0
  <2>1. d.id # "" /\ d.version # "" /\ d.rules # <<>>
    BY DEF Compiles
  <2>2. d.rules \in Seq(Rules)
    BY <1>1
  <2>3. \A q \in Seq(Rules) : q # <<>> => Len(q) > 0
    OBVIOUS
  <2> QED
    BY <2>1, <2>2, <2>3, Zenon
<1>3. IdsUnique(U.rules)
  BY <1>1, CompiledIds, IdsUnmarshalled
<1>4. /\ U.ir = D.ir /\ U.id = D.id /\ U.version = D.version /\ U.input = D.input
      /\ DOMAIN U.rules = DOMAIN D.rules /\ Len(U.rules) = Len(D.rules)
      /\ \A i \in DOMAIN D.rules : U.rules[i] = UnmarshalRule(D.rules[i])
  <2> HIDE DEF D
  <2> QED
    BY <1>1, UnmarshalIs, Zenon
<1>5. ASSUME NEW i \in DOMAIN U.rules PROVE RuleValid(U.rules[i])
  <2>1. i \in DOMAIN D.rules
    BY <1>4
  <2>2. PICK r \in Rules : RuleCompiles(lang, r) /\ D.rules[i] = RuleIR(lang, r)
    BY <2>1, CompiledRules
  <2>6. RuleIR(lang, r).predicate.op = r.predicate.op /\ RuleIR(lang, r).predicate.arg = r.predicate.arg
    BY RuleIRIs, Zenon
  <2>3. D.rules[i].predicate.op = r.predicate.op /\ D.rules[i].predicate.arg = r.predicate.arg
    <3> HIDE DEF D
    <3> QED
      BY <2>2, <2>6
  <2>4. r.predicate.op = "regex" => r.predicate.arg \in Patterns
    BY <2>1, <2>3 DEF PortablePatterns
  <2>5. RuleValid(UnmarshalRule(RuleIR(lang, r)))
    BY <2>2, <2>4, RuleCompiled, Zenon
  <2> QED
    BY <1>4, <2>1, <2>2, <2>5
<1> HIDE DEF U, D
<1>6. Validate(U)
  BY <1>1, <1>2, <1>3, <1>4, <1>5 DEF Validate
<1> QED
  BY <1>6 DEF U, D

\* With portable ids nothing is left to normalize.
LEMMA CompiledNormal ==
  ASSUME NEW lang, NEW d \in Drafts, Compiles(lang, d), PortableIds(ToIR(lang, d)),
         Validate(Unmarshal(ToIR(lang, d)))
  PROVE  Normalize(Unmarshal(ToIR(lang, d))) = Unmarshal(ToIR(lang, d))
<1> DEFINE D == ToIR(lang, d)
           U == Unmarshal(D)
           N == Normalize(U)
<1>1. /\ d.rules \in Seq(Rules) /\ D \in Contracts /\ D.rules \in Seq(Rules)
      /\ DOMAIN D.rules = DOMAIN d.rules
  BY ToIRIs, Zenon
<1>2. PICK p \in Bijection(DOMAIN d.rules, DOMAIN d.rules) :
        /\ \A k \in DOMAIN d.rules : D.rules[k] = RuleIR(lang, d.rules[p[k]])
        /\ \A m, n \in DOMAIN d.rules : m < n => Place(lang, d, p[m]) <= Place(lang, d, p[n])
  BY ToIRIs, Zenon
<1>3. ASSUME NEW k \in DOMAIN d.rules
      PROVE  /\ p[k] \in DOMAIN d.rules /\ D.rules[k].id = d.rules[p[k]].id
             /\ D.rules[k].id \in Nat /\ Utf16[D.rules[k].id] \in Nat
  <2>1. p[k] \in DOMAIN d.rules
    BY <1>2 DEF Bijection, Injection
  <2>2. d.rules[p[k]] \in Rules /\ d.rules[p[k]].id \in Nat
    BY <1>1, <2>1, BoundsAre
  <2>3. RuleIR(lang, d.rules[p[k]]).id = d.rules[p[k]].id
    BY <2>2, RuleIRIs, Zenon
  <2>4. Utf16[d.rules[p[k]].id] \in Nat
    BY <2>1, Utf16Assumption
  <2>5. D.rules[k].id = d.rules[p[k]].id
    BY <1>2, <2>3
  <2> HIDE DEF D
  <2> QED
    BY <2>1, <2>2, <2>4, <2>5
<1>4. PortableIds(D)
  OBVIOUS
<1>5. /\ U \in Contracts /\ U.rules \in Seq(Rules) /\ DOMAIN U.rules = DOMAIN D.rules
      /\ \A i \in DOMAIN D.rules : U.rules[i] = UnmarshalRule(D.rules[i])
  <2> HIDE DEF D
  <2> QED
    BY <1>1, UnmarshalIs, Zenon
<1>6. ASSUME NEW k \in DOMAIN d.rules PROVE U.rules[k].id = D.rules[k].id /\ WithDefaults(U.rules[k]) = U.rules[k]
  <2>1. PICK r \in Rules : RuleCompiles(lang, r) /\ D.rules[k] = RuleIR(lang, r)
    BY <1>1, CompiledRules
  <2>2. U.rules[k] = UnmarshalRule(RuleIR(lang, r))
    BY <1>1, <1>5, <2>1
  <2>3. WithDefaults(UnmarshalRule(RuleIR(lang, r))) = UnmarshalRule(RuleIR(lang, r))
    BY <2>1, RuleCompiled, Zenon
  <2>4. D.rules[k] \in Rules
    BY <1>1
  <2>5. UnmarshalRule(D.rules[k]).id = D.rules[k].id
    <3> HIDE DEF D
    <3> QED
      BY <2>4, UnmarshalRuleIs, Zenon
  <2> QED
    BY <2>1, <2>2, <2>3, <2>5
<1>7. Validate(U) /\ IdsUnique(U.rules)
  BY DEF Validate
<1>8. N \in Contracts /\ Ascending(N.rules)
  BY <1>5, <1>7, NormalizeKeepsValid DEF Ascending
<1>9. N.ir = U.ir /\ N.id = U.id /\ N.version = U.version /\ N.input = U.input
  BY <1>5, NormalizeRearranges
<1>10. RulesIn(N.rules) = {WithDefaults(U.rules[i]) : i \in DOMAIN U.rules}
  BY <1>5, RulesNormalized
<1> HIDE DEF N, U, D
<1>11. ASSUME NEW m \in DOMAIN U.rules, NEW n \in DOMAIN U.rules, m < n
       PROVE  U.rules[m].id < U.rules[n].id
  <2>1. m \in DOMAIN d.rules /\ n \in DOMAIN d.rules /\ m \in Nat /\ n \in Nat
    BY <1>1, <1>5
  <2>2. Place(lang, d, p[m]) <= Place(lang, d, p[n])
    BY <1>2, <1>11, <2>1
  <2>3. D.rules[m].id <= D.rules[n].id
    <3>1. CASE lang = "python"
      BY <1>3, <2>1, <2>2, <3>1 DEF Place
    <3>2. CASE lang # "python"
      <4>1. Utf16[D.rules[m].id] <= Utf16[D.rules[n].id]
        BY <1>3, <2>1, <2>2, <3>2 DEF Place
      <4>2. D.rules[n].id < D.rules[m].id <=> Utf16[D.rules[n].id] < Utf16[D.rules[m].id]
        BY <1>1, <1>4, <2>1 DEF PortableIds
      <4> QED
        BY <1>3, <2>1, <4>1, <4>2
    <3> QED
      BY <3>1, <3>2
  <2>4. U.rules[m].id # U.rules[n].id
    BY <1>7, <1>11, <2>1 DEF IdsUnique
  <2> QED
    BY <1>3, <1>6, <2>1, <2>3, <2>4
<1>12. Ascending(U.rules)
  BY <1>11 DEF Ascending
<1>13. RulesIn(N.rules) = RulesIn(U.rules)
  BY <1>1, <1>5, <1>6, <1>10 DEF RulesIn
<1>14. N.rules = U.rules
  BY <1>5, <1>8, <1>12, <1>13, OneSortedSequence DEF Contracts
<1>15. N = U
  BY <1>5, <1>8, <1>9, <1>14, ContractsAre
<1> QED
  BY <1>15 DEF N, U, D

\* With portable spelling it is written again as it was.
LEMMA CompiledReturns ==
  ASSUME NEW lang, NEW d \in Drafts, Compiles(lang, d), PortableSpelling(ToIR(lang, d))
  PROVE  Marshal(Unmarshal(ToIR(lang, d))) = ToIR(lang, d)
<1> DEFINE D == ToIR(lang, d)
           U == Unmarshal(D)
           M == Marshal(U)
<1>1. D \in Contracts /\ D.rules \in Seq(Rules)
  BY ToIRIs, Zenon
<1>2. PortableSpelling(D)
  OBVIOUS
<1>3. ASSUME NEW k \in DOMAIN D.rules PROVE MarshalRule(UnmarshalRule(D.rules[k])) = D.rules[k]
  <2>1. PICK r \in Rules : RuleCompiles(lang, r) /\ D.rules[k] = RuleIR(lang, r)
    BY CompiledRules
  <2>2. /\ RuleIR(lang, r).predicate.arg = r.predicate.arg
        /\ RuleIR(lang, r).predicate.min = Spelled(lang, r.predicate.min)
        /\ RuleIR(lang, r).predicate.max = Spelled(lang, r.predicate.max)
    BY RuleIRIs, Zenon
  <2> HIDE DEF D
  <2>3. /\ r.predicate.arg # ""
        /\ \A b \in Spelled(lang, r.predicate.min) \cup Spelled(lang, r.predicate.max) : Magnitude(b) <= 2 * Exact
    BY <1>2, <2>1, <2>2 DEF PortableSpelling
  <2>4. MarshalRule(UnmarshalRule(RuleIR(lang, r))) = RuleIR(lang, r)
    BY <2>1, <2>3, RuleIRReturns
  <2> QED
    BY <2>1, <2>4
<1> HIDE DEF D
<1>4. /\ U \in Contracts /\ DOMAIN U.rules = DOMAIN D.rules
      /\ U.ir = D.ir /\ U.id = D.id /\ U.version = D.version /\ U.input = D.input
      /\ \A i \in DOMAIN D.rules : U.rules[i] = UnmarshalRule(D.rules[i])
  BY <1>1, UnmarshalIs, Zenon
<1> HIDE DEF U
<1>5. /\ M \in Contracts /\ M.rules \in Seq(Rules) /\ DOMAIN M.rules = DOMAIN U.rules
      /\ M.ir = U.ir /\ M.id = U.id /\ M.version = U.version /\ M.input = U.input
      /\ \A i \in DOMAIN U.rules : M.rules[i] = MarshalRule(U.rules[i])
  BY <1>4, MarshalIs, Zenon
<1> HIDE DEF M
<1>6. \A k \in DOMAIN D.rules : M.rules[k] = D.rules[k]
  BY <1>3, <1>4, <1>5
<1>7. M.rules = D.rules
  BY <1>1, <1>4, <1>5, <1>6
<1>8. M = D
  BY <1>1, <1>4, <1>5, <1>7, ContractsAre
<1> QED
  BY <1>8 DEF M, U, D

(***************************************************************************)
(* Files and reports                                                       *)
(***************************************************************************)
Emitted(doc) == \E lang \in Languages, d \in Drafts : Compiles(lang, d) /\ doc = ToIR(lang, d)

Canonical(doc) == \E d \in Contracts : Validate(Unmarshal(d)) /\ doc = CanonicalJSON(Unmarshal(d))

\* A digest comes with a document that an SDK emitted or the engine wrote.
Sourced(f, a) ==
  /\ f.form \in Forms /\ f.doc \in Contracts
  /\ a # {} => f.form = "contract" /\ a = {f.doc} /\ (Emitted(f.doc) \/ Canonical(f.doc))

\* A report says of its file what Decode and Digest say.
Truthful(r) ==
  /\ r.command \in {"run", "validate", "inspect"}
  /\ Sourced(r.file, r.announced)
  /\ r.refused \in BOOLEAN /\ (r.refused <=> ~Decodes(r.file))
  /\ r.digest # {} => Decodes(r.file) /\ r.digest = {CanonicalJSON(Unmarshal(r.file.doc))}

Inv == Sourced(file, announced) /\ \A r \in reports : Truthful(r)

LEMMA InitInv == Init => Inv
<1> SUFFICES ASSUME Init PROVE Inv
  OBVIOUS
<1>1. file.form = "malformed" /\ file.doc = CHOOSE d \in Drafts : TRUE
  BY DEF Init, Nothing
<1>2. file.doc \in Contracts
  BY <1>1, DraftsAssumption
<1>3. Sourced(file, announced)
  BY <1>1, <1>2 DEF Init, Sourced, Forms
<1> QED
  BY <1>3 DEF Init, Inv

LEMMA PublishSourced ==
  ASSUME Inv, NEW doc \in Contracts, Emitted(doc) \/ Canonical(doc), Publish(doc)
  PROVE  Inv'
<1>1. file' = [form |-> "contract", doc |-> doc] /\ announced' = {doc} /\ reports' = reports
  BY DEF Publish
<1>2. file'.form = "contract" /\ file'.doc = doc
  BY <1>1
<1>3. Sourced(file', announced')
  BY <1>1, <1>2 DEF Sourced, Forms
<1> QED
  BY <1>1, <1>3 DEF Inv

LEMMA ReportTruthful ==
  ASSUME Inv, NEW command \in {"run", "validate", "inspect"}, NEW refused \in BOOLEAN, NEW digests,
         refused <=> ~Decodes(file),
         digests # {} => Decodes(file) /\ digests = {CanonicalJSON(Unmarshal(file.doc))},
         Report(command, refused, digests)
  PROVE  Inv'
<1> DEFINE new == [command |-> command, file |-> file, announced |-> announced,
                   refused |-> refused, digest |-> digests]
<1>1. reports' = reports \cup {new} /\ file' = file /\ announced' = announced
  BY DEF Report
<1>2. /\ new.command = command /\ new.file = file /\ new.announced = announced
      /\ new.refused = refused /\ new.digest = digests
  OBVIOUS
<1> HIDE DEF new
<1>3. Truthful(new)
  BY <1>2 DEF Truthful, Inv
<1> QED
  BY <1>1, <1>3 DEF Inv

LEMMA NextInv == Inv /\ [Next]_vars => Inv'
<1> SUFFICES ASSUME Inv, [Next]_vars PROVE Inv'
  OBVIOUS
<1>1. ASSUME NEW d \in Drafts, NEW form \in Forms, Write(form, d) PROVE Inv'
  <2>1. file' = [form |-> form, doc |-> d] /\ announced' = {} /\ reports' = reports
    BY <1>1 DEF Write
  <2>2. file'.form = form /\ file'.doc = d /\ d \in Contracts
    BY <2>1, DraftsAssumption
  <2>3. Sourced(file', announced')
    BY <2>1, <2>2 DEF Sourced
  <2> QED
    BY <2>1, <2>3 DEF Inv
<1>2. ASSUME NEW d \in Drafts, NEW lang \in Languages, Compile(lang, d) PROVE Inv'
  <2>1. Compiles(lang, d) /\ Publish(ToIR(lang, d))
    BY <1>2 DEF Compile
  <2>2. ToIR(lang, d) \in Contracts
    BY ToIRIs, Zenon
  <2>3. Emitted(ToIR(lang, d))
    BY <2>1 DEF Emitted
  <2> QED
    BY <2>1, <2>2, <2>3, PublishSourced
<1>3. ASSUME NEW d \in Drafts, Canonicalize(d) PROVE Inv'
  <2>1. Validate(Unmarshal(d)) /\ Publish(CanonicalJSON(Unmarshal(d))) /\ d \in Contracts
    BY <1>3, DraftsAssumption DEF Canonicalize
  <2>2. Canonical(CanonicalJSON(Unmarshal(d)))
    BY <2>1 DEF Canonical
  <2> QED
    BY <2>1, <2>2, CanonicalReturns, PublishSourced
<1>4. ASSUME NEW command \in {"run", "validate", "inspect"}, Refuse(command) PROVE Inv'
  <2>1. ~Decodes(file) /\ Report(command, TRUE, {})
    BY <1>4 DEF Refuse
  <2> QED
    BY <2>1, ReportTruthful
<1>5. ASSUME NEW command \in {"validate", "inspect"}, Answer(command) PROVE Inv'
  <2>1. PICK digests \in {{}, {CanonicalJSON(Unmarshal(file.doc))}} : Report(command, FALSE, digests)
    BY <1>5 DEF Answer
  <2>2. Decodes(file)
    BY <1>5 DEF Answer
  <2> QED
    BY <2>1, <2>2, ReportTruthful
<1>6. ASSUME Run PROVE Inv'
  <2>1. Decodes(file) /\ Report("run", FALSE, {})
    BY <1>6 DEF Run
  <2> QED
    BY <2>1, ReportTruthful
<1>7. ASSUME NEW r \in reports, Adopt(r) PROVE Inv'
  <2>1. PICK doc \in r.digest : Publish(doc)
    BY <1>7 DEF Adopt
  <2>2. /\ r.file.doc \in Contracts /\ Validate(Unmarshal(r.file.doc))
        /\ doc = CanonicalJSON(Unmarshal(r.file.doc))
    BY <1>7, <2>1 DEF Inv, Truthful, Sourced, Decodes
  <2>3. doc \in Contracts /\ Canonical(doc)
    BY <2>2, CanonicalReturns DEF Canonical
  <2> QED
    BY <2>1, <2>3, PublishSourced
<1>8. CASE UNCHANGED vars
  BY <1>8 DEF vars, Inv
<1> QED
  BY <1>1, <1>2, <1>3, <1>4, <1>5, <1>6, <1>7, <1>8 DEF Next

LEMMA Always == Spec => []Inv
BY InitInv, NextInv, PTL DEF Spec

(***************************************************************************)
(* What follows for the documents that digests are taken of                  *)
(***************************************************************************)
Complete(doc) ==
  \A i \in DOMAIN doc.rules :
    /\ doc.rules[i].version = "1"
    /\ doc.rules[i].kind \in {"record", "stream"}
    /\ doc.rules[i].severity \in {"warning", "error"}

LEMMA EmittedComplete ==
  ASSUME NEW doc, Emitted(doc)
  PROVE  Complete(doc)
<1>1. PICK lang \in Languages, d \in Drafts : Compiles(lang, d) /\ doc = ToIR(lang, d)
  BY DEF Emitted
<1>2. ASSUME NEW i \in DOMAIN doc.rules
      PROVE  /\ doc.rules[i].version = "1" /\ doc.rules[i].kind \in {"record", "stream"}
             /\ doc.rules[i].severity \in {"warning", "error"}
  <2>1. PICK r \in Rules : RuleCompiles(lang, r) /\ doc.rules[i] = RuleIR(lang, r)
    BY <1>1, CompiledRules
  <2>2. /\ RuleIR(lang, r).version = "1" /\ RuleIR(lang, r).kind \in {"record", "stream"}
        /\ RuleIR(lang, r).severity \in {"warning", "error"}
    BY <2>1, RuleCompiled, Zenon
  <2> QED
    BY <2>1, <2>2
<1> QED
  BY <1>2 DEF Complete

LEMMA CanonicalComplete ==
  ASSUME NEW doc, Canonical(doc)
  PROVE  Complete(doc)
<1>1. PICK d \in Contracts : Validate(Unmarshal(d)) /\ doc = CanonicalJSON(Unmarshal(d))
  BY DEF Canonical
<1> DEFINE c == Unmarshal(d)
           C == Normalize(c)
<1>2. c \in Contracts /\ c.rules \in Seq(Rules)
  BY UnmarshalIs, Zenon
<1>3. Validate(c)
  BY <1>1
<1> HIDE DEF c
<1>4. PICK p \in Bijection(DOMAIN c.rules, DOMAIN c.rules) :
        C.rules = [n \in DOMAIN c.rules |-> WithDefaults(c.rules[p[n]])]
  BY <1>2, NormalizeRearranges
<1>5. C \in Contracts /\ C.rules \in Seq(Rules)
  BY <1>2, <1>3, NormalizeKeepsValid DEF Contracts
<1>6. DOMAIN doc.rules = DOMAIN C.rules /\ \A i \in DOMAIN C.rules : doc.rules[i] = MarshalRule(C.rules[i])
  <2>1. doc = Marshal(C)
    BY <1>1 DEF CanonicalJSON, c
  <2> HIDE DEF C
  <2> QED
    BY <1>5, <2>1, MarshalIs
<1>7. ASSUME NEW i \in DOMAIN doc.rules
      PROVE  /\ doc.rules[i].version = "1" /\ doc.rules[i].kind \in {"record", "stream"}
             /\ doc.rules[i].severity \in {"warning", "error"}
  <2> DEFINE r == c.rules[p[i]]
             q == C.rules[i]
  <2>1. i \in DOMAIN c.rules /\ p[i] \in DOMAIN c.rules
    BY <1>4, <1>6 DEF Bijection, Injection
  <2>2. r \in Rules /\ RuleValid(r)
    <3>1. \A k \in DOMAIN c.rules : RuleValid(c.rules[k])
      BY <1>3 DEF Validate
    <3>2. r \in Rules
      BY <1>2, <2>1
    <3>3. RuleValid(r)
      BY <2>1, <3>1
    <3> QED
      BY <3>2, <3>3
  <2>3. q = WithDefaults(r) /\ doc.rules[i] = MarshalRule(q)
    BY <1>4, <1>6, <2>1
  <2> HIDE DEF r, q
  <2>4. q \in Rules /\ q.version = RuleVersion(r) /\ q.severity = Severity(r) /\ q.kind = r.kind
    BY <2>2, <2>3, Defaults
  <2>5. q.version = "1" /\ q.kind \in {"record", "stream"} /\ q.severity \in {"warning", "error"}
    BY <2>2, <2>4 DEF RuleValid, RuleVersion, Severity
  <2>6. /\ MarshalRule(q).version = q.version /\ MarshalRule(q).kind = q.kind
        /\ MarshalRule(q).severity = q.severity
    BY <2>4, MarshalRuleIs, Zenon
  <2> QED
    BY <2>3, <2>5, <2>6
<1> QED
  BY <1>7 DEF Complete

\* The engine reads its own documents as normal contracts.
LEMMA CanonicalAdmitted ==
  ASSUME NEW doc, Canonical(doc)
  PROVE  /\ Validate(Unmarshal(doc)) /\ Normalize(Unmarshal(doc)) = Unmarshal(doc)
         /\ CanonicalJSON(Unmarshal(doc)) = doc
<1>1. PICK d \in Contracts : Validate(Unmarshal(d)) /\ doc = CanonicalJSON(Unmarshal(d))
  BY DEF Canonical
<1> DEFINE c == Unmarshal(d)
<1>2. c \in Contracts
  BY UnmarshalIs, Zenon
<1>3. Unmarshal(doc) = Normalize(c)
  BY <1>1, CanonicalReturns
<1>4. Validate(c) /\ doc = CanonicalJSON(c)
  BY <1>1
<1> HIDE DEF c
<1>5. Validate(Normalize(c)) /\ Normalize(Normalize(c)) = Normalize(c)
  BY <1>2, <1>4, NormalizeKeepsValid, NormalizeIdempotent
<1>6. CanonicalJSON(Normalize(c)) = doc
  BY <1>4, <1>5 DEF CanonicalJSON
<1> QED
  BY <1>3, <1>5, <1>6

LEMMA InvTypeOK == Inv => TypeOK
<1> SUFFICES ASSUME Inv PROVE TypeOK
  OBVIOUS
<1>1. file.form \in Forms /\ file.doc \in Contracts
  BY DEF Inv, Sourced
<1>2. ASSUME NEW r \in reports
      PROVE  /\ r.command \in {"run", "validate", "inspect"} /\ r.refused \in BOOLEAN
             /\ Cardinality(r.digest) <= 1
             /\ \A doc \in r.digest \cup r.announced : Complete(doc)
  <2>1. Truthful(r)
    BY DEF Inv
  <2>2. r.command \in {"run", "validate", "inspect"} /\ r.refused \in BOOLEAN
    BY <2>1 DEF Truthful
  <2>3. Cardinality(r.digest) <= 1
    <3>1. r.digest = {} \/ r.digest = {CanonicalJSON(Unmarshal(r.file.doc))}
      BY <2>1 DEF Truthful
    <3>2. Cardinality({}) = 0 /\ \A x : Cardinality({x}) = 1
      BY FS_EmptySet, FS_Singleton
    <3>3. Cardinality(r.digest) \in {0, 1}
      BY <3>1, <3>2, Zenon
    <3> QED
      BY <3>3
  <2>4. ASSUME NEW doc \in r.digest PROVE Complete(doc)
    <3>1. /\ r.file.doc \in Contracts /\ Validate(Unmarshal(r.file.doc))
          /\ doc = CanonicalJSON(Unmarshal(r.file.doc))
      BY <2>1 DEF Truthful, Sourced, Decodes
    <3> QED
      BY <3>1, CanonicalComplete DEF Canonical
  <2>5. ASSUME NEW doc \in r.announced PROVE Complete(doc)
    <3>1. Emitted(doc) \/ Canonical(doc)
      BY <2>1 DEF Truthful, Sourced
    <3> QED
      BY <3>1, EmittedComplete, CanonicalComplete
  <2> QED
    BY <2>2, <2>3, <2>4, <2>5
<1> QED
  BY <1>1, <1>2 DEF TypeOK, Complete

LEMMA InvCompiledAdmitted == Inv => CompiledAdmitted
<1> SUFFICES ASSUME Inv, announced # {}, PortablePatterns(file.doc)
             PROVE  /\ Decodes(file)
                    /\ PortableIds(file.doc) => Normalize(Unmarshal(file.doc)) = Unmarshal(file.doc)
  BY DEF CompiledAdmitted
<1>1. file.form = "contract" /\ (Emitted(file.doc) \/ Canonical(file.doc))
  BY DEF Inv, Sourced
<1>2. CASE Canonical(file.doc)
  BY <1>1, <1>2, CanonicalAdmitted DEF Decodes
<1>3. CASE Emitted(file.doc)
  <2>1. PICK lang \in Languages, d \in Drafts : Compiles(lang, d) /\ file.doc = ToIR(lang, d)
    BY <1>3 DEF Emitted
  <2>2. Validate(Unmarshal(file.doc))
    BY <2>1, CompiledValid
  <2>3. PortableIds(file.doc) => Normalize(Unmarshal(file.doc)) = Unmarshal(file.doc)
    BY <2>1, <2>2, CompiledNormal
  <2> QED
    BY <1>1, <2>2, <2>3 DEF Decodes
<1> QED
  BY <1>1, <1>2, <1>3

LEMMA InvDigestsAgree == Inv => DigestsAgree
<1> SUFFICES ASSUME Inv, NEW r \in reports, r.digest # {}, r.announced # {},
                    PortableIds(r.file.doc), PortableSpelling(r.file.doc)
             PROVE  r.digest = r.announced
  BY DEF DigestsAgree
<1> DEFINE doc == r.file.doc
<1>1. /\ r.digest = {CanonicalJSON(Unmarshal(doc))} /\ r.announced = {doc}
      /\ Validate(Unmarshal(doc)) /\ (Emitted(doc) \/ Canonical(doc))
  BY DEF Inv, Truthful, Sourced, Decodes
<1>2. CanonicalJSON(Unmarshal(doc)) = doc
  <2>1. CASE Canonical(doc)
    BY <2>1, CanonicalAdmitted
  <2>2. CASE Emitted(doc)
    <3>1. PICK lang \in Languages, d \in Drafts : Compiles(lang, d) /\ doc = ToIR(lang, d)
      BY <2>2 DEF Emitted
    <3>2. Normalize(Unmarshal(doc)) = Unmarshal(doc)
      BY <1>1, <3>1, CompiledNormal
    <3>3. Marshal(Unmarshal(doc)) = doc
      BY <3>1, CompiledReturns
    <3> QED
      BY <3>2, <3>3 DEF CanonicalJSON
  <2> QED
    BY <1>1, <2>1, <2>2
<1> QED
  BY <1>1, <1>2

LEMMA InvEquivalentContracts == Inv => EquivalentContracts
<1> SUFFICES ASSUME Inv, NEW q \in reports, NEW r \in reports
             PROVE  /\ q.file.form # "contract" => q.refused
                    /\ q.file.form = "contract" /\ r.file.form = "contract" =>
                         /\ Equivalent(q.file.doc, r.file.doc) => q.refused = r.refused
                         /\ q.digest # {} /\ r.digest # {} =>
                              (q.digest = r.digest <=> Equivalent(q.file.doc, r.file.doc))
  BY DEF EquivalentContracts
<1> DEFINE d == q.file.doc
           e == r.file.doc
<1>1. /\ d \in Contracts /\ q.refused \in BOOLEAN /\ (q.refused <=> ~Decodes(q.file))
      /\ q.digest # {} => Decodes(q.file) /\ q.digest = {CanonicalJSON(Unmarshal(d))}
  BY DEF Inv, Truthful, Sourced
<1>2. /\ e \in Contracts /\ r.refused \in BOOLEAN /\ (r.refused <=> ~Decodes(r.file))
      /\ r.digest # {} => Decodes(r.file) /\ r.digest = {CanonicalJSON(Unmarshal(e))}
  BY DEF Inv, Truthful, Sourced
<1>3. /\ Decodes(q.file) <=> q.file.form = "contract" /\ Validate(Unmarshal(d))
      /\ Decodes(r.file) <=> r.file.form = "contract" /\ Validate(Unmarshal(e))
  BY DEF Decodes
<1> HIDE DEF d, e
<1>4. ASSUME Equivalent(d, e) PROVE Validate(Unmarshal(d)) <=> Validate(Unmarshal(e))
  BY <1>1, <1>2, <1>4, EquivalentAdmitted, EquivalentSymmetric
<1>5. ASSUME Validate(Unmarshal(d)), Validate(Unmarshal(e))
      PROVE  CanonicalJSON(Unmarshal(d)) = CanonicalJSON(Unmarshal(e)) <=> Equivalent(d, e)
  BY <1>1, <1>2, <1>5, CanonicalDecides
<1> QED
  BY <1>1, <1>2, <1>3, <1>4, <1>5 DEF d, e

(***************************************************************************)
(* Theorems                                                                *)
(***************************************************************************)
\* contract.go, contract.py, index.ts and the commands: for every draft and every number
\* of commands, a digest is taken of one complete document or of none.
THEOREM TypeCorrect == Spec => []TypeOK
BY Always, InvTypeOK, PTL

\* What an SDK compiles, the engine admits, if Go has its patterns; and it finds nothing
\* to normalize in it, if both orders of texts agree on its ids.
THEOREM EngineAdmitsCompiled == Spec => []CompiledAdmitted
BY Always, InvCompiledAdmitted, PTL

\* The digest that a command prints is the one the SDK announced, whichever language the
\* contract was written in, for every portable contract.
THEOREM OneDigest == Spec => []DigestsAgree
BY Always, InvDigestsAgree, PTL

\* docs/contract-ir.md: equivalent contracts are admitted alike and have one digest, and
\* contracts that are not equivalent have two, whoever wrote them.
THEOREM DigestIdentifiesMeaning == Spec => []EquivalentContracts
BY Always, InvEquivalentContracts, PTL
=============================================================================
