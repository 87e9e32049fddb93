-------------------------- MODULE ArrowGateProofs --------------------------
(***************************************************************************)
(* What ArrowGate keeps, for all schemas, rows, batches and contracts:          *)
(* TypeCorrect, CellsAlwaysSurvive, WritersAlwaysClosed, StreamsAlwaysComplete    *)
(* and HostedAlwaysSurvive. The invariant follows a value from the input, whose  *)
(* columns have one kind each (Schema), to the row of a writer (Written).        *)
(***************************************************************************)
EXTENDS ArrowGateProperties, EngineLemmas, WellFoundedInduction

(***************************************************************************)
(* Columns of values                                                        *)
(***************************************************************************)
LEMMA LeastElement ==
  ASSUME NEW S \in SUBSET Nat, S # {}
  PROVE  Min(S) \in S
<1> DEFINE less == OpToRel(<, Nat)
<1>1. IsWellFoundedOn(less, Nat)
  BY NatLessThanWellFounded
<1>2. less = {ss \in Nat \X Nat : ss[1] < ss[2]}
  BY DEF OpToRel
<1> HIDE DEF less
<1>3. PICK x \in S : \A y \in S : <<y, x>> \notin less
  BY <1>1, WFMin
<1>4. ASSUME NEW y \in S PROVE x <= y
  <2>1. <<y, x>> \notin less /\ x \in Nat /\ y \in Nat
    BY <1>3
  <2>2. ~(y < x)
    BY <1>2, <2>1
  <2> QED
    BY <2>1, <2>2
<1> QED
  BY <1>4 DEF Min

\* A column's kind is that of one of its values, and text if all are null.
LEMMA KindOfColumn ==
  ASSUME NEW column, DOMAIN column \subseteq Nat
  PROVE  /\ Kind(column) \in ColumnKinds
         /\ (\A k \in DOMAIN column : column[k].t = "nil") => Kind(column) = "string"
         /\ (\E k \in DOMAIN column : column[k].t # "nil") =>
              \E k \in DOMAIN column : column[k].t # "nil" /\ Kind(column) = ValueKind(column[k])
<1> DEFINE known == {k \in DOMAIN column : column[k].t # "nil"}
<1>1. Kind(column) = IF known = {} THEN "string" ELSE ValueKind(column[Min(known)])
  BY DEF Kind
<1>2. known # {} => Min(known) \in known
  BY LeastElement
<1>3. \A x : ValueKind(x) \in ColumnKinds
  BY DEF ValueKind, ColumnKinds
<1> QED
  BY <1>1, <1>2, <1>3 DEF ColumnKinds

LEMMA ScalarKinds ==
  ASSUME NEW last, NEW x \in ScalarsUpTo(last)
  PROVE  /\ x = V(x.t, x.v) /\ x.v \in Int
         /\ x.t \in {"nil", "bool", "string", "int", "float", "nan", "inf"}
         /\ x.t = "int" => x.v <= 2 * last
BY DEF ScalarsUpTo, Values, V

LEMMA ScalarMade ==
  ASSUME NEW last, NEW t \in {"bool", "string", "int", "float"}, NEW v \in Int,
         t = "int" => v <= 2 * last
  PROVE  V(t, v) \in ScalarsUpTo(last) /\ V(t, v).t = t /\ V(t, v).v = v /\ ValueKind(V(t, v)) = t
BY DEF ScalarsUpTo, Values, V, Kinds, ValueKind

\* What Encode writes in a column fits it, unless it panics.
LEMMA ConvertedFits ==
  ASSUME NEW kind \in ColumnKinds, NEW x \in ScalarsUpTo(2 * MaxInt64 + 1),
         Converted(kind, x).t # "panic"
  PROVE  Fits(kind, Converted(kind, x))
<1>1. /\ x = V(x.t, x.v) /\ x.v \in Int
      /\ x.t \in {"nil", "bool", "string", "int", "float", "nan", "inf"}
      /\ x.t = "int" => x.v <= 2 * (2 * MaxInt64 + 1)
  BY ScalarKinds
<1>2. MaxInt64 \in Nat /\ ~(x.t = "int") => x \in ScalarsUpTo(MaxInt64)
  BY MaxInt64Assumption DEF ScalarsUpTo
<1>3. CASE x.t = "nil"
  BY <1>2, <1>3, MaxInt64Assumption DEF Converted, Fits
<1>4. CASE x.t = "int" /\ kind = "int"
  <2>1. ToInt64(x.v) \in Int /\ ToInt64(x.v) <= 2 * MaxInt64
    BY <1>1, <1>4, MaxInt64Assumption DEF ToInt64
  <2>2. Converted(kind, x) = V("int", ToInt64(x.v))
    BY <1>4 DEF Converted
  <2> QED
    BY <1>4, <2>1, <2>2, ScalarMade DEF Fits
<1>5. CASE x.t \notin {"nil", "int"} /\ ValueKind(x) = kind
  BY <1>2, <1>5, MaxInt64Assumption DEF Converted, Fits
<1>6. CASE x.t # "nil" /\ ValueKind(x) # kind /\ kind = "string"
  <2>1. Converted(kind, x) = V("string", 1000 + x.v)
    BY <1>6 DEF Converted, Printed
  <2> QED
    BY <1>1, <1>6, <2>1, ScalarMade DEF Fits
<1>7. CASE x.t # "nil" /\ ValueKind(x) # kind /\ kind = "bool"
  <2>1. Converted(kind, x).t = "panic"
    BY <1>7 DEF Converted, V
  <2> QED
    BY <2>1
<1>8. CASE x.t # "nil" /\ ValueKind(x) # kind /\ kind \in {"int", "float"}
  <2>0. (x.t = "int") => ValueKind(x) = "int"
    BY DEF ValueKind
  <2>1. Converted(kind, x) = V(kind, 0)
    BY <1>8, <2>0 DEF Converted
  <2>2. 0 <= 2 * MaxInt64
    BY MaxInt64Assumption
  <2> QED
    BY <1>8, <2>1, <2>2, ScalarMade DEF Fits
<1>9. (x.t = "int") => ValueKind(x) = "int"
  BY DEF ValueKind
<1> QED
  BY <1>3, <1>4, <1>5, <1>6, <1>7, <1>8, <1>9 DEF ColumnKinds

\* A value that fits its column is written as it is, or as its text.
LEMMA ConvertedKeeps ==
  ASSUME NEW kind \in ColumnKinds, NEW x, Fits(kind, x)
  PROVE  /\ Converted(kind, x) = x
         /\ x.t = "nil" \/ kind = "string" => Converted("string", x) = x
         /\ x.t # "nil" /\ kind # "string" => Converted("string", x) = Printed(x)
<1>1. /\ x = V(x.t, x.v) /\ x.v \in Int
      /\ x.t \in {"nil", "bool", "string", "int", "float", "nan", "inf"}
      /\ x.t = "int" => x.v <= 2 * MaxInt64
      /\ x.t = "nil" \/ ValueKind(x) = kind
  BY ScalarKinds DEF Fits
<1>2. (x.t = "int" <=> ValueKind(x) = "int") /\ (ValueKind(x) = "string" => x.t \in {"nil", "string"})
  BY <1>1 DEF ValueKind
<1>3. CASE x.t = "nil"
  BY <1>3 DEF Converted
<1>4. CASE x.t = "int"
  <2>1. ToInt64(x.v) = x.v
    BY <1>1, <1>4, MaxInt64Assumption DEF ToInt64
  <2> QED
    BY <1>1, <1>2, <1>4, <2>1 DEF Converted
<1>5. CASE x.t \notin {"nil", "int"}
  BY <1>1, <1>2, <1>5 DEF Converted
<1> QED
  BY <1>3, <1>4, <1>5

LEMMA ConvertedTyped ==
  ASSUME NEW kind \in ColumnKinds, NEW x, Fits(kind, x)
  PROVE  /\ CellTyped(kind, Converted(kind, x))
         /\ CellTyped("string", Converted("string", x))
<1>1. \A v : ValueKind(V("string", v)) = "string"
  BY DEF ValueKind, V
<1> QED
  BY <1>1, ConvertedKeeps DEF CellTyped, Fits, Printed

(***************************************************************************)
(* The invariant                                                           *)
(***************************************************************************)
\* The kinds of the input's columns.
Schema ==
  IF hosted = <<>>
    THEN CHOOSE kinds \in [Columns -> ColumnKinds] :
           \A o \in Record, c \in Columns : Fits(kinds[c], Member[o][c])
    ELSE KindsOf(hosted)

\* What Source.Next gives is an object whose values fit the input's columns.
FromInput(o) == o \in Nat /\ \A c \in Columns : Fits(Schema[c], Member[o][c])

\* RunBatches: BatchGateProofs says the same of a source with records of one kind.
Batched ==
  /\ request \in Requests
  /\ pc \in {"start", "next", "record", "report", "accept", "quarantine", "halted", "final", "done"}
  /\ err \in {"", "config", "cancelled", "read", "evidence", "accept", "quarantine"}
  /\ pc # "done" => err = ""
  /\ pc \notin {"start", "done"} => Accepts(request)
  /\ pc = "record" => batch # <<>>
  /\ pc = "report" => Len(input) >= 1
  /\ flagged \subseteq DOMAIN rules /\ pending \subseteq flagged
  /\ summary \in Summary

Sourced ==
  /\ batch \in Seq(Nat) /\ input \in Seq(LineType)
  /\ \A k \in DOMAIN batch : FromInput(batch[k])
  /\ \A n \in DOMAIN input : FromInput(input[n].rec)

\* The slices and the sinks hold lines that were read.
Routed ==
  /\ keep \in Seq(DOMAIN input) /\ divert \in Seq(DOMAIN input)
  /\ accepted \in Seq(DOMAIN input) /\ quarantined \in Seq(DOMAIN input)

Untouched ==
  /\ pc = "start" /\ err = "" /\ input = <<>> /\ batch = <<>>
  /\ keep = <<>> /\ divert = <<>> /\ accepted = <<>> /\ quarantined = <<>>
  /\ \A s \in Outputs : writers[s].state = "none"

Staged ==
  /\ stage \in {"open", "gate", "accepted", "quarantined", "returned"}
  /\ stage = "open" => Untouched
  /\ stage \in {"open", "gate"} => result = ""
  /\ stage \in {"accepted", "quarantined"} => pc = "done" /\ result = err
  /\ stage = "returned" =>
       \/ Untouched /\ result \in {"open", "panic"}
       \/ pc = "done" /\ result = err
       \/ pc = "done" /\ err = "" /\ result = "close"
  /\ hosted # <<>> => \E n \in 1..MaxBatch : hosted \in [1..n -> Hosted]
  /\ result # "panic" => ~Panics(hosted)

\* A writer holds the rows of the lines its sink took, as its kinds convert them, and
\* its kinds are those of the input, or text.
Written(s) ==
  LET w == writers[s] IN
  /\ w = [state |-> w.state, kinds |-> w.kinds, rows |-> w.rows]
  /\ w.state \in {"none", "open", "closed", "failed"}
  /\ w.state = "none" => w.rows = <<>> /\ Delivered(s) = <<>>
  /\ w.state # "none" =>
       /\ w.kinds \in [Columns -> ColumnKinds]
       /\ \A c \in Columns : w.kinds[c] \in {Schema[c], "string"}
       /\ w.rows = Appended(w.kinds, RowsOf(Delivered(s)))

Closing ==
  LET first == writers["accepted"].state
      second == writers["quarantined"].state
  IN
  /\ stage \in {"open", "gate", "accepted"} => {first, second} \subseteq {"none", "open"}
  /\ stage = "quarantined" => first \in {"none", "closed"} /\ second \in {"none", "open"}
  /\ stage = "returned" /\ result \notin {"open", "panic"} =>
       \/ {first, second} \subseteq {"none", "closed"}
       \/ first = "failed" /\ result # ""
       \/ first \in {"none", "closed"} /\ second = "failed" /\ result # ""

Inv ==
  /\ Batched /\ Sourced /\ Routed /\ Staged /\ Closing
  /\ writers = [s \in Outputs |-> writers[s]]
  /\ \A s \in Outputs : Written(s)

AcceptedCounted ==
  "accepted" \in request.sinks =>
    /\ pc \in {"record", "report", "accept"} => Len(accepted) + Len(keep) = summary.cleared
    /\ pc \in {"start", "next", "quarantine", "halted", "final"} \/ (pc = "done" /\ err = "") =>
         Len(accepted) = summary.cleared

QuarantinedCounted ==
  "quarantined" \in request.sinks =>
    /\ pc \in {"record", "report", "accept", "quarantine"} =>
         Len(quarantined) + Len(divert) = summary.quarantined
    /\ pc \in {"start", "next", "halted", "final"} \/ (pc = "done" /\ err = "") =>
         Len(quarantined) = summary.quarantined

Counts == AcceptedCounted /\ QuarantinedCounted

\* A host's rows are one batch, in order.
HostsLines ==
  \A n \in DOMAIN input : n \in DOMAIN hosted /\ Member[input[n].rec] = Encoded(hosted)[n]

HostsBatch ==
  \A k \in DOMAIN batch :
    Len(input) + k \in DOMAIN hosted /\ Member[batch[k]] = Encoded(hosted)[Len(input) + k]

\* A writer takes its kinds from all the rows that it will ever write.
Unopened ==
  /\ input = <<>> \/ pc \in {"record", "report", "accept"} => writers["accepted"].state = "none"
  /\ input = <<>> \/ pc \in {"record", "report", "accept", "quarantine"} =>
       writers["quarantined"].state = "none"

KindsKept(s) ==
  writers[s].state # "none" =>
    \A k \in DOMAIN Delivered(s), c \in Columns :
      Cell(Delivered(s)[k], c).t # "nil" => writers[s].kinds[c] = Schema[c]

OneBatch ==
  hosted # <<>> => HostsLines /\ HostsBatch /\ Unopened /\ \A s \in Outputs : KindsKept(s)

(***************************************************************************)
(* Rows                                                                    *)
(***************************************************************************)
\* The row that a writer makes of a line.
RowOf(kinds, n) == [c \in Columns |-> Converted(kinds[c], Cell(n, c))]

LEMMA Nothing == DOMAIN <<>> = {} /\ Len(<<>>) = 0 /\ \A S : <<>> \in Seq(S)
OBVIOUS

LEMMA NothingToTake ==
  ASSUME NEW s \in Seq({})
  PROVE  s = <<>>
<1>1. Len(s) \in Nat /\ DOMAIN s = 1..Len(s) /\ \A k \in DOMAIN s : s[k] \in {}
  OBVIOUS
<1>2. \A n \in Nat : n # 0 => 1 \in 1..n
  OBVIOUS
<1>3. Len(s) = 0
  BY <1>1, <1>2
<1> QED
  BY <1>3

LEMMA AfterNothing ==
  ASSUME NEW S, NEW s \in Seq(S)
  PROVE  <<>> \o s = s
OBVIOUS

LEMMA RowsRead ==
  ASSUME NEW s \in Seq(DOMAIN input)
  PROVE  /\ DOMAIN RowsOf(s) = DOMAIN s /\ DOMAIN s = 1..Len(s) /\ Len(s) \in Nat
         /\ DOMAIN RowsOf(s) \subseteq Nat
         /\ \A k \in DOMAIN s : s[k] \in DOMAIN input
         /\ \A k \in DOMAIN s, c \in Columns : RowsOf(s)[k][c] = Cell(s[k], c)
<1>1. DOMAIN s = 1..Len(s) /\ Len(s) \in Nat /\ 1..Len(s) \subseteq Nat
      /\ \A k \in DOMAIN s : s[k] \in DOMAIN input
  OBVIOUS
<1> QED
  BY <1>1 DEF RowsOf, Cell

LEMMA RowsAppended ==
  ASSUME NEW kinds, NEW s \in Seq(DOMAIN input)
  PROVE  /\ Appended(kinds, RowsOf(s)) = [k \in DOMAIN s |-> RowOf(kinds, s[k])]
         /\ Appended(kinds, RowsOf(s)) \in Seq({RowOf(kinds, n) : n \in DOMAIN input})
<1>1. /\ DOMAIN RowsOf(s) = DOMAIN s /\ DOMAIN s = 1..Len(s) /\ Len(s) \in Nat
      /\ \A k \in DOMAIN s, c \in Columns : RowsOf(s)[k][c] = Cell(s[k], c)
  BY RowsRead
<1>2. Appended(kinds, RowsOf(s)) = [k \in DOMAIN s |-> RowOf(kinds, s[k])]
  BY <1>1 DEF Appended, RowOf
<1>3. \A k \in DOMAIN s : s[k] \in DOMAIN input
  OBVIOUS
<1>4. [k \in DOMAIN s |-> RowOf(kinds, s[k])] \in Seq({RowOf(kinds, n) : n \in DOMAIN input})
  BY <1>1, <1>3
<1> QED
  BY <1>1, <1>2, <1>4

LEMMA Concatenated ==
  ASSUME NEW S, NEW s \in Seq(S), NEW t \in Seq(S)
  PROVE  /\ s \o t \in Seq(S) /\ Len(s \o t) = Len(s) + Len(t) /\ Len(s) \in Nat /\ Len(t) \in Nat
         /\ \A k \in 1..Len(s) : (s \o t)[k] = s[k]
         /\ \A k \in 1..(Len(s) + Len(t)) :
              k > Len(s) => k - Len(s) \in 1..Len(t) /\ (s \o t)[k] = t[k - Len(s)]
OBVIOUS

LEMMA RowsConcat ==
  ASSUME NEW kinds, NEW s \in Seq(DOMAIN input), NEW t \in Seq(DOMAIN input)
  PROVE  /\ s \o t \in Seq(DOMAIN input)
         /\ Appended(kinds, RowsOf(s \o t)) = Appended(kinds, RowsOf(s)) \o Appended(kinds, RowsOf(t))
<1> DEFINE S == {RowOf(kinds, n) : n \in DOMAIN input}
           Made(x) == Appended(kinds, RowsOf(x))
           Row(n) == RowOf(kinds, n)
<1>1. s \o t \in Seq(DOMAIN input) /\ Len(s \o t) = Len(s) + Len(t) /\ Len(s) \in Nat /\ Len(t) \in Nat
  OBVIOUS
<1>2. ASSUME NEW x \in Seq(DOMAIN input)
      PROVE  Made(x) \in Seq(S) /\ Len(Made(x)) = Len(x) /\ \A k \in 1..Len(x) : Made(x)[k] = Row(x[k])
  <2>1. Made(x) = [k \in DOMAIN x |-> Row(x[k])]
    BY RowsAppended
  <2>2. Made(x) \in Seq(S)
    BY RowsAppended
  <2>3. DOMAIN x = 1..Len(x) /\ Len(x) \in Nat
    OBVIOUS
  <2> DEFINE y == Made(x)
  <2> HIDE DEF Made, Row, S, y
  <2>4. y = [k \in 1..Len(x) |-> Row(x[k])] /\ y \in Seq(S)
    BY <2>1, <2>2, <2>3 DEF y
  <2> QED
    BY <2>3, <2>4 DEF y
<1> DEFINE p == Made(s)
           q == Made(t)
           r == Made(s \o t)
<1> HIDE DEF Made, Row, S, p, q, r
<1>3. /\ \A k \in 1..Len(s) : (s \o t)[k] = s[k]
      /\ \A k \in 1..(Len(s) + Len(t)) : k > Len(s) => k - Len(s) \in 1..Len(t) /\ (s \o t)[k] = t[k - Len(s)]
  BY <1>1
<1>4. /\ p \in Seq(S) /\ Len(p) = Len(s)
      /\ q \in Seq(S) /\ Len(q) = Len(t)
      /\ r \in Seq(S) /\ Len(r) = Len(s) + Len(t)
  BY <1>1, <1>2 DEF p, q, r
<1>5. /\ p \o q \in Seq(S) /\ Len(p \o q) = Len(s) + Len(t)
      /\ \A k \in 1..Len(s) : (p \o q)[k] = p[k]
      /\ \A k \in 1..(Len(s) + Len(t)) : k > Len(s) => (p \o q)[k] = q[k - Len(s)]
  <2>1. p \in Seq(S) /\ q \in Seq(S)
    BY <1>4
  <2>2. /\ p \o q \in Seq(S) /\ Len(p \o q) = Len(p) + Len(q)
        /\ \A k \in 1..Len(p) : (p \o q)[k] = p[k]
        /\ \A k \in 1..(Len(p) + Len(q)) : k > Len(p) => (p \o q)[k] = q[k - Len(p)]
    BY <2>1, Concatenated, Zenon
  <2>3. Len(p) = Len(s) /\ Len(q) = Len(t)
    BY <1>4
  <2> QED
    BY <2>2, <2>3
<1>6. ASSUME NEW k \in 1..(Len(s) + Len(t)) PROVE (p \o q)[k] = r[k]
  <2>0. k \in Nat
    BY <1>1
  <2>1. r[k] = Row((s \o t)[k])
    BY <1>1, <1>2 DEF r
  <2>2. CASE k <= Len(s)
    <3>1. k \in 1..Len(s)
      BY <1>1, <2>2
    <3>2. (p \o q)[k] = p[k]
      BY <1>5, <3>1
    <3> QED
      BY <1>2, <1>3, <2>1, <3>1, <3>2 DEF p
  <2>3. CASE k > Len(s)
    <3>1. k - Len(s) \in 1..Len(t)
      BY <1>3, <2>3
    <3>2. (p \o q)[k] = q[k - Len(s)]
      BY <1>5, <2>3
    <3> QED
      BY <1>2, <1>3, <2>1, <2>3, <3>1, <3>2 DEF q
  <2>4. k <= Len(s) \/ k > Len(s)
    BY <1>1, <2>0
  <2> QED
    BY <2>2, <2>3, <2>4
<1>7. p \o q = r
  BY <1>4, <1>5, <1>6
<1> QED
  BY <1>1, <1>7 DEF p, q, r, Made

\* Where Kind comes from in a writer's first batch.
LEMMA KindsOfRows ==
  ASSUME NEW rows, DOMAIN rows \subseteq Nat
  PROVE  /\ KindsOf(rows) \in [Columns -> ColumnKinds]
         /\ \A c \in Columns :
              \/ KindsOf(rows)[c] = "string" /\ \A k \in DOMAIN rows : rows[k][c].t = "nil"
              \/ \E k \in DOMAIN rows : rows[k][c].t # "nil" /\ KindsOf(rows)[c] = ValueKind(rows[k][c])
<1>1. ASSUME NEW c \in Columns
      PROVE  /\ KindsOf(rows)[c] \in ColumnKinds
             /\ \/ KindsOf(rows)[c] = "string" /\ \A k \in DOMAIN rows : rows[k][c].t = "nil"
                \/ \E k \in DOMAIN rows : rows[k][c].t # "nil" /\ KindsOf(rows)[c] = ValueKind(rows[k][c])
  <2> DEFINE column == [k \in DOMAIN rows |-> rows[k][c]]
  <2>1. DOMAIN column = DOMAIN rows /\ (\A k \in DOMAIN rows : column[k] = rows[k][c])
        /\ KindsOf(rows)[c] = Kind(column)
    BY DEF KindsOf
  <2> HIDE DEF column
  <2> QED
    BY <2>1, KindOfColumn
<1> QED
  BY <1>1 DEF KindsOf

(***************************************************************************)
(* The input                                                               *)
(***************************************************************************)
LEMMA HostedRows ==
  ASSUME Staged, hosted # <<>>
  PROVE  /\ DOMAIN hosted = 1..Len(hosted) /\ Len(hosted) \in Nat \ {0}
         /\ \A k \in DOMAIN hosted : hosted[k] \in [Columns -> ScalarsUpTo(2 * MaxInt64 + 1)]
<1>1. PICK n \in 1..MaxBatch : hosted \in [1..n -> Hosted]
  BY DEF Staged
<1>2. n \in Nat \ {0}
  BY <1>1, BoundsAssumption
<1> QED
  BY <1>1, <1>2, HostedAssumption

LEMMA SchemaHolds ==
  ASSUME Staged
  PROVE  /\ Schema \in [Columns -> ColumnKinds]
         /\ hosted = <<>> => \A o \in Record : FromInput(o)
<1>1. CASE hosted = <<>>
  <2>1. /\ Schema \in [Columns -> ColumnKinds]
        /\ \A o \in Record, c \in Columns : Fits(Schema[c], Member[o][c])
    BY <1>1, RowsAssumption DEF Schema
  <2> QED
    BY <1>1, <2>1, RecordAssumption DEF FromInput
<1>2. CASE hosted # <<>>
  BY <1>2, HostedRows, KindsOfRows DEF Schema
<1> QED
  BY <1>1, <1>2

\* Encode's rows fit the kinds it found.
LEMMA EncodedFits ==
  ASSUME Staged, hosted # <<>>, result # "panic", NEW k \in DOMAIN hosted, NEW c \in Columns
  PROVE  Fits(Schema[c], Encoded(hosted)[k][c])
<1>1. hosted[k][c] \in ScalarsUpTo(2 * MaxInt64 + 1)
  BY HostedRows
<1>2. Schema = KindsOf(hosted) /\ Schema[c] \in ColumnKinds
  BY SchemaHolds DEF Schema
<1>3. Encoded(hosted)[k][c] = Converted(Schema[c], hosted[k][c])
  BY <1>2 DEF Encoded, Appended
<1>4. Encoded(hosted)[k][c].t # "panic"
  BY DEF Staged, Panics
<1> QED
  BY <1>1, <1>2, <1>3, <1>4, ConvertedFits

LEMMA Fed ==
  ASSUME Staged, result # "panic", NEW b \in Feed
  PROVE  /\ b \in Seq(Nat) /\ \A k \in DOMAIN b : FromInput(b[k])
         /\ hosted # <<>> =>
              /\ b # <<>> /\ input = <<>> /\ DOMAIN b = DOMAIN hosted
              /\ \A k \in DOMAIN b : Member[b[k]] = Encoded(hosted)[k]
<1>1. CASE hosted = <<>>
  <2>1. PICK n \in Nat : b \in [1..n -> Record]
    BY <1>1, BoundsAssumption DEF Feed, Batches
  <2>2. b \in [1..n -> Nat]
    BY <2>1, RecordAssumption
  <2> QED
    BY <1>1, <2>1, <2>2, SchemaHolds
<1>2. CASE hosted # <<>>
  <2>1. /\ input = <<>>
        /\ b = [k \in DOMAIN hosted |-> CHOOSE o \in DOMAIN Member : Member[o] = Encoded(hosted)[k]]
    BY <1>2 DEF Feed
  <2>2. PICK n \in 1..MaxBatch : hosted \in [1..n -> Hosted]
    BY <1>2 DEF Staged
  <2>0. ~Panics(hosted)
    BY DEF Staged
  <2>3. n \in Nat \ {0} /\ DOMAIN hosted = 1..n
    BY <2>2, BoundsAssumption
  <2>4. \A k \in 1..n : \E o \in DOMAIN Member : Member[o] = Encoded(hosted)[k]
    BY <2>0, <2>2, <2>3, NamesAssumption
  <2>5. \A k \in 1..n : b[k] \in DOMAIN Member /\ Member[b[k]] = Encoded(hosted)[k]
    BY <2>1, <2>3, <2>4
  <2>6. b \in Seq(Nat) /\ DOMAIN b = 1..n /\ b # <<>>
    <3>1. b = [k \in 1..n |-> b[k]] /\ \A k \in 1..n : b[k] \in Nat
      BY <2>1, <2>3, <2>5, NamesAssumption
    <3>2. b \in [1..n -> Nat] /\ n >= 1
      BY <2>3, <3>1
    <3> HIDE DEF Feed
    <3> QED
      BY <2>3, <3>2
  <2>7. \A k \in 1..n : FromInput(b[k])
    BY <1>2, <2>3, <2>5, EncodedFits, NamesAssumption DEF FromInput
  <2> QED
    BY <2>1, <2>3, <2>5, <2>6, <2>7
<1> QED
  BY <1>1, <1>2

(***************************************************************************)
(* Steps                                                                   *)
(***************************************************************************)
LEMMA InitInv == ArrowInit => Inv
<1> SUFFICES ASSUME ArrowInit PROVE Inv
  OBVIOUS
<1>1. (\A S : <<>> \in Seq(S)) /\ DOMAIN <<>> = {}
  OBVIOUS
<1>2. Batched
  BY <1>1 DEF ArrowInit, Init, Batched, ZeroSummary, Summary
<1>3. Sourced /\ Routed
  BY <1>1 DEF ArrowInit, Init, Sourced, Routed
<1>4. Staged /\ Closing
  <2>1. \A s \in Outputs : writers[s].state = "none"
    BY DEF ArrowInit
  <2>2. ~Panics(<<>>)
    BY <1>1 DEF Panics
  <2> QED
    BY <2>1, <2>2 DEF ArrowInit, Init, Staged, Untouched, Closing, Outputs
<1>5. writers = [s \in Outputs |-> writers[s]] /\ \A s \in Outputs : Written(s)
  BY DEF ArrowInit, Init, Written, Delivered, Outputs
<1> QED
  BY <1>2, <1>3, <1>4, <1>5 DEF Inv

LEMMA SchemaStands == hosted' = hosted => Schema' = Schema
BY DEF Schema, KindsOf

LEMMA WrittenStands ==
  ASSUME NEW s \in Outputs, Written(s), UNCHANGED <<writers, hosted>>, Delivered(s)' = Delivered(s),
         RowsOf(Delivered(s))' = RowsOf(Delivered(s))
  PROVE  Written(s)'
<1>1. Schema' = Schema
  BY SchemaStands
<1> QED
  BY <1>1 DEF Written, Appended

\* Of RunBatches' state, what every step keeps that reads and delivers nothing.
LEMMA LinesKept ==
  ASSUME Inv, UNCHANGED <<batch, input, slices, accepted, quarantined, hosted>>
  PROVE  /\ Sourced' /\ Routed'
         /\ \A s \in Outputs : Delivered(s)' = Delivered(s) /\ RowsOf(Delivered(s))' = RowsOf(Delivered(s))
<1>1. Schema' = Schema
  BY SchemaStands
<1>2. Sourced'
  BY <1>1 DEF Inv, Sourced, FromInput
<1>3. Routed'
  BY DEF Inv, Routed, slices
<1> QED
  BY <1>2, <1>3 DEF Delivered, RowsOf

\* One writer is replaced.
LEMMA WriterReplaced ==
  ASSUME writers = [t \in Outputs |-> writers[t]], NEW s \in Outputs, NEW w,
         writers' = [writers EXCEPT ![s] = w]
  PROVE  /\ writers' = [t \in Outputs |-> writers'[t]]
         /\ writers'[s] = w /\ \A t \in Outputs \ {s} : writers'[t] = writers[t]
OBVIOUS

LEMMA StateReplaced ==
  ASSUME writers = [t \in Outputs |-> writers[t]], NEW s \in Outputs, NEW x, Written(s),
         writers' = [writers EXCEPT ![s].state = x]
  PROVE  /\ writers' = [t \in Outputs |-> writers'[t]]
         /\ writers'[s] = [state |-> x, kinds |-> writers[s].kinds, rows |-> writers[s].rows]
         /\ \A t \in Outputs \ {s} : writers'[t] = writers[t]
<1>1. writers[s] = [state |-> writers[s].state, kinds |-> writers[s].kinds, rows |-> writers[s].rows]
  BY DEF Written
<1>2. /\ writers' = [t \in Outputs |-> writers'[t]]
      /\ writers'[s] = [writers[s] EXCEPT !.state = x]
      /\ \A t \in Outputs \ {s} : writers'[t] = writers[t]
  OBVIOUS
<1> DEFINE w == writers[s]
<1>3. w = [state |-> w.state, kinds |-> w.kinds, rows |-> w.rows]
  BY <1>1
<1> HIDE DEF w
<1>4. [w EXCEPT !.state = x] = [state |-> x, kinds |-> w.kinds, rows |-> w.rows]
  BY <1>3
<1> QED
  BY <1>2, <1>4 DEF w

LEMMA EncodeStep ==
  ASSUME Inv, NEW n \in 1..MaxBatch, NEW rows \in [1..n -> Hosted], Encode(rows)
  PROVE  Inv'
<1> USE DEF Inv
<1>1. /\ stage = "open" /\ hosted' = rows /\ UNCHANGED <<vars, writers>> /\ Untouched /\ result = ""
      /\ \/ ~Panics(rows) /\ UNCHANGED <<stage, result>>
         \/ stage' = "returned" /\ result' = "panic"
  BY DEF Encode, Staged
<1>2. /\ Batched' /\ Routed' /\ Untouched' /\ writers' = [s \in Outputs |-> writers'[s]]
  BY <1>1 DEF Batched, Routed, Untouched, vars, slices, outputs, checker, rules, Accepts
<1>3. Sourced'
  <2>1. batch' = <<>> /\ input' = <<>>
    BY <1>1 DEF Untouched, vars
  <2>2. DOMAIN <<>> = {} /\ \A S : <<>> \in Seq(S)
    OBVIOUS
  <2> QED
    BY <2>1, <2>2 DEF Sourced
<1>4. Staged'
  BY <1>1, <1>2 DEF Staged
<1>5. Closing'
  BY <1>1 DEF Closing, Untouched, Outputs
<1>6. \A s \in Outputs : Written(s)'
  BY <1>1 DEF Written, Untouched, Delivered, vars, outputs
<1> QED
  BY <1>2, <1>3, <1>4, <1>5, <1>6

\* RunGate's own steps before, between and after RunBatches and closeWriters.
LEMMA StageStep ==
  ASSUME Inv, OpenFails \/ Open \/ Close \/ CancelGate \/ UNCHANGED arrowVars
  PROVE  Inv'
<1> USE DEF Inv
<1>1. /\ UNCHANGED <<request, pc, err, batch, input, flagged, pending, summary, slices, outputs,
                     writers, hosted>>
      /\ \/ stage' = stage /\ result' = result
         \/ stage = "open" /\ stage' = "returned" /\ result' = "open"
         \/ stage = "open" /\ stage' = "gate" /\ result' = result
         \/ stage = "gate" /\ pc = "done" /\ stage' = "accepted" /\ result' = err
  BY DEF OpenFails, Open, Close, CancelGate, Cancel, arrowVars, vars, slices, outputs
<1>2. UNCHANGED <<accepted, quarantined>>
  BY <1>1 DEF outputs
<1>3. Sourced' /\ Routed' /\ \A s \in Outputs : Written(s)'
  BY <1>1, <1>2, LinesKept, WrittenStands
<1>4. Batched'
  BY <1>1 DEF Batched, rules, Accepts
<1>5. Untouched' = Untouched /\ Panics(hosted)' = Panics(hosted)
  BY <1>1 DEF Untouched, slices, outputs, Panics
<1>6. Staged'
  BY <1>1, <1>5 DEF Staged
<1>7. Closing'
  BY <1>1 DEF Closing, Staged
<1> QED
  BY <1>1, <1>3, <1>4, <1>6, <1>7

LEMMA CloseStep ==
  ASSUME Inv, CloseWriter("accepted", "quarantined") \/ CloseWriter("quarantined", "returned")
  PROVE  Inv'
<1> USE DEF Inv
<1>1. PICK s, next : /\ <<s, next>> \in {<<"accepted", "quarantined">>, <<"quarantined", "returned">>}
                     /\ CloseWriter(s, next)
  OBVIOUS
<1>2. /\ s \in Outputs /\ stage = s /\ UNCHANGED <<vars, hosted>>
      /\ writers[s].state \in {"none", "open", "closed", "failed"}
  BY <1>1 DEF CloseWriter, Outputs, Written
<1>3. /\ \A t \in Outputs \ {s} : writers'[t] = writers[t]
      /\ writers'[s].kinds = writers[s].kinds /\ writers'[s].rows = writers[s].rows
      /\ writers'[s] = [state |-> writers'[s].state, kinds |-> writers'[s].kinds, rows |-> writers'[s].rows]
      /\ writers' = [t \in Outputs |-> writers'[t]]
      /\ \/ /\ writers[s].state # "open" /\ writers'[s].state = writers[s].state
            /\ stage' = next /\ result' = result
         \/ /\ writers[s].state = "open" /\ writers'[s].state = "closed"
            /\ stage' = next /\ result' = result
         \/ /\ writers[s].state = "open" /\ writers'[s].state = "failed" /\ stage' = "returned"
            /\ result' = IF result = "" THEN "close" ELSE result
  <2>1. writers[s] = [state |-> writers[s].state, kinds |-> writers[s].kinds, rows |-> writers[s].rows]
        /\ writers = [t \in Outputs |-> writers[t]] /\ Written(s)
    BY <1>2 DEF Written
  <2>2. CASE writers[s].state # "open" /\ stage' = next /\ UNCHANGED <<result, writers>>
    BY <1>2, <2>1, <2>2
  <2>3. ASSUME NEW x, writers' = [writers EXCEPT ![s].state = x]
        PROVE  /\ \A t \in Outputs \ {s} : writers'[t] = writers[t]
               /\ writers' = [t \in Outputs |-> writers'[t]]
               /\ writers'[s].kinds = writers[s].kinds /\ writers'[s].rows = writers[s].rows
               /\ writers'[s].state = x
               /\ writers'[s] = [state |-> writers'[s].state, kinds |-> writers'[s].kinds, rows |-> writers'[s].rows]
    <3>1. /\ writers' = [t \in Outputs |-> writers'[t]]
          /\ writers'[s] = [state |-> x, kinds |-> writers[s].kinds, rows |-> writers[s].rows]
          /\ \A t \in Outputs \ {s} : writers'[t] = writers[t]
      BY <1>2, <2>1, <2>3, StateReplaced
    <3> QED
      BY <3>1
  <2>4. CASE /\ writers[s].state = "open" /\ stage' = next
             /\ writers' = [writers EXCEPT ![s].state = "closed"] /\ UNCHANGED result
    BY <2>3, <2>4, Zenon
  <2>5. CASE /\ writers[s].state = "open" /\ stage' = "returned"
             /\ writers' = [writers EXCEPT ![s].state = "failed"]
             /\ result' = IF result = "" THEN "close" ELSE result
    BY <2>3, <2>5, Zenon
  <2> QED
    BY <1>1, <2>2, <2>4, <2>5 DEF CloseWriter
<1>4. UNCHANGED <<batch, input, slices, accepted, quarantined, request, pc, err, flagged, pending, summary>>
  BY <1>2 DEF vars, slices
<1>5. /\ Sourced' /\ Routed'
      /\ \A t \in Outputs : Delivered(t)' = Delivered(t) /\ RowsOf(Delivered(t))' = RowsOf(Delivered(t))
  BY <1>2, <1>4, LinesKept
<1>6. Batched'
  BY <1>4 DEF Batched, rules, Accepts
<1>7. ASSUME NEW t \in Outputs PROVE Written(t)'
  <2> DEFINE w == writers[t]
             v == writers'[t]
             rows == RowsOf(Delivered(t))
  <2>1. /\ v.kinds = w.kinds /\ v.rows = w.rows
        /\ v = [state |-> v.state, kinds |-> v.kinds, rows |-> v.rows]
        /\ v.state \in {"none", "open", "closed", "failed"} /\ (v.state = "none" <=> w.state = "none")
    <3>1. /\ w = [state |-> w.state, kinds |-> w.kinds, rows |-> w.rows]
          /\ w.state \in {"none", "open", "closed", "failed"}
      BY DEF Written
    <3>2. CASE t # s
      <4>1. v = w
        BY <1>3, <3>2
      <4> HIDE DEF v, w
      <4> QED
        BY <3>1, <4>1
    <3>3. CASE t = s
      <4>1. /\ v.kinds = w.kinds /\ v.rows = w.rows
            /\ v = [state |-> v.state, kinds |-> v.kinds, rows |-> v.rows]
            /\ \/ v.state = w.state
               \/ w.state = "open" /\ v.state \in {"closed", "failed"}
        BY <1>3, <3>3
      <4> HIDE DEF v, w
      <4> QED
        BY <3>1, <4>1
    <3> QED
      BY <3>2, <3>3
  <2>2. Schema' = Schema /\ Delivered(t)' = Delivered(t) /\ rows' = rows
    BY <1>2, <1>5, SchemaStands
  <2>3. /\ w.state = "none" => w.rows = <<>> /\ Delivered(t) = <<>>
        /\ w.state # "none" =>
             /\ w.kinds \in [Columns -> ColumnKinds]
             /\ \A c \in Columns : w.kinds[c] \in {Schema[c], "string"}
             /\ w.rows = Appended(w.kinds, rows)
    BY DEF Written
  <2> SUFFICES /\ v = [state |-> v.state, kinds |-> v.kinds, rows |-> v.rows]
               /\ v.state \in {"none", "open", "closed", "failed"}
               /\ v.state = "none" => v.rows = <<>> /\ Delivered(t)' = <<>>
               /\ v.state # "none" =>
                    /\ v.kinds \in [Columns -> ColumnKinds]
                    /\ \A c \in Columns : v.kinds[c] \in {Schema'[c], "string"}
                    /\ v.rows = Appended(v.kinds, rows')
    BY DEF Written
  <2> HIDE DEF w, v, rows
  <2> QED
    BY <2>1, <2>2, <2>3
<1>8. Staged'
  <2>1. Panics(hosted)' = Panics(hosted)
    BY <1>2 DEF Panics
  <2>2. pc' = pc /\ err' = err /\ stage \in {"accepted", "quarantined"} /\ pc = "done" /\ result = err
    BY <1>2, <1>4 DEF Staged, Outputs
  <2>3. stage' \in {"quarantined", "returned"} /\ result' \in {result, "close"}
        /\ (stage' = "quarantined" => result' = result) /\ (result' # result => err = "" /\ result' = "close")
    BY <1>1, <1>3, <2>2
  <2>4. result # "panic"
    BY <2>2 DEF Batched
  <2> QED
    BY <1>2, <2>1, <2>2, <2>3, <2>4 DEF Staged
<1>9. Closing'
  <2>1. result \notin {"open", "panic"}
    BY <1>2 DEF Staged, Batched, Outputs
  <2>2. CASE s = "accepted" /\ next = "quarantined"
    BY <1>2, <1>3, <2>1, <2>2 DEF Closing, Outputs
  <2>3. CASE s = "quarantined" /\ next = "returned"
    BY <1>2, <1>3, <2>1, <2>3 DEF Closing, Outputs
  <2> QED
    BY <1>1, <2>2, <2>3
<1> QED
  BY <1>3, <1>5, <1>6, <1>7, <1>8, <1>9

(***************************************************************************)
(* Steps of RunBatches                                                      *)
(***************************************************************************)
LEMMA GateFrame ==
  ASSUME Inv, GateStep
  PROVE  /\ stage = "gate" /\ UNCHANGED <<stage, result, hosted>> /\ result = ""
         /\ pc # "done" /\ err = ""
         /\ Staged'
<1>1. stage = "gate" /\ UNCHANGED <<stage, result, hosted>> /\ pc # "done"
  BY DEF GateStep
<1>2. result = "" /\ err = ""
  BY <1>1 DEF Inv, Staged, Batched
<1>3. Panics(hosted)' = Panics(hosted)
  BY <1>1 DEF Panics
<1> QED
  BY <1>1, <1>2, <1>3 DEF Inv, Staged

LEMMA ClosingStands ==
  ASSUME Inv, stage = "gate", stage' = "gate",
         \A s \in Outputs : writers'[s].state \in {"none", "open"}
  PROVE  Closing'
BY DEF Closing, Outputs

\* A step that reads and delivers nothing.
LEMMA GateUndisturbed ==
  ASSUME Inv, GateStep, UNCHANGED <<batch, input, slices, accepted, quarantined, writers>>, Batched'
  PROVE  Inv'
<1>1. UNCHANGED <<stage, result, hosted>> /\ Staged' /\ stage = "gate"
  BY GateFrame
<1>2. Sourced' /\ Routed' /\ \A s \in Outputs : Written(s)'
  BY <1>1, LinesKept, WrittenStands DEF Inv
<1>3. Closing'
  BY <1>1 DEF Inv, Closing
<1> QED
  BY <1>1, <1>2, <1>3 DEF Inv

LEMMA QuietStep ==
  ASSUME Inv, GateStep, UNCHANGED writers,
         Reject \/ Begin \/ NextCancelled \/ NextFailed \/ Conclude \/ ReturnSummary
  PROVE  Inv'
<1>1. /\ UNCHANGED <<request, batch, input, summary, slices, accepted, quarantined>>
      /\ \/ UNCHANGED <<flagged, pending>>
         \/ flagged' \subseteq DOMAIN rules /\ pending' = flagged'
      /\ \/ pc' = "done" /\ err' \in {"", "config", "cancelled", "read"}
         \/ pc' = "next" /\ Accepts(request) /\ err' = err
         \/ pc' = "final" /\ pc \in {"next", "halted"} /\ err' = err
  BY DEF Reject, Begin, NextCancelled, NextFailed, Conclude, ReturnSummary, Return, GoTo, outputs,
         FinalBreaches
<1>2. Batched'
  <2>1. rules' = rules /\ Accepts(request)' = Accepts(request)
    BY <1>1 DEF rules, Accepts
  <2> QED
    BY <1>1, <2>1, GateFrame DEF Inv, Batched
<1> QED
  BY <1>1, <1>2, GateUndisturbed

LEMMA BatchStep ==
  ASSUME Inv, GateStep, UNCHANGED writers, NEW b \in Feed, NextBatch(b)
  PROVE  Inv'
<1>1. UNCHANGED <<stage, result, hosted>> /\ Staged' /\ stage = "gate" /\ result = ""
  BY GateFrame
<1>2. /\ pc = "next" /\ batch' = b /\ keep' = <<>> /\ divert' = <<>> /\ err' = err
      /\ pc' \in {"accept", "record"} /\ (pc' = "record" => b # <<>>)
      /\ UNCHANGED <<request, input, flagged, pending, summary, accepted, quarantined>>
  BY DEF NextBatch, AfterRecord, GoTo, outputs
<1>3. b \in Seq(Nat) /\ \A k \in DOMAIN b : FromInput(b[k])
  BY <1>1, Fed DEF Inv
<1>4. Schema' = Schema
  BY <1>1, SchemaStands
<1>5. Sourced'
  BY <1>2, <1>3, <1>4 DEF Inv, Sourced, FromInput
<1>6. Routed'
  <2>1. \A S : <<>> \in Seq(S)
    OBVIOUS
  <2> QED
    BY <1>2, <2>1 DEF Inv, Routed
<1>7. Batched'
  BY <1>2 DEF Inv, Batched, rules, Accepts
<1>8. \A s \in Outputs : Written(s)'
  <2>1. \A s \in Outputs : Delivered(s)' = Delivered(s) /\ RowsOf(Delivered(s))' = RowsOf(Delivered(s))
    BY <1>2 DEF Delivered, RowsOf
  <2> QED
    BY <1>1, <2>1, WrittenStands DEF Inv
<1>9. Closing'
  BY <1>1 DEF Inv, Closing
<1> QED
  BY <1>1, <1>5, <1>6, <1>7, <1>8, <1>9 DEF Inv

LEMMA CheckStep ==
  ASSUME Inv, GateStep, UNCHANGED writers, CheckRecord
  PROVE  Inv'
<1> DEFINE line == [ok |-> TRUE, whole |-> TRUE, rec |-> Head(batch)]
<1>1. UNCHANGED <<stage, result, hosted>> /\ Staged' /\ stage = "gate" /\ result = ""
  BY GateFrame
<1>2. /\ pc = "record" /\ pc' = "report" /\ err' = err
      /\ input' = Append(input, line) /\ batch' = Tail(batch)
      /\ pending' = flagged' /\ flagged' \subseteq DOMAIN rules
      /\ UNCHANGED <<request, summary, slices, accepted, quarantined>>
  BY DEF CheckRecord, GoTo, outputs, Violated
<1>3. batch \in Seq(Nat) /\ batch # <<>> /\ input \in Seq(LineType)
  BY <1>2 DEF Inv, Batched, Sourced
<1>4. /\ Head(batch) = batch[1] /\ 1 \in DOMAIN batch /\ Head(batch) \in Nat /\ Tail(batch) \in Seq(Nat)
      /\ \A k \in DOMAIN Tail(batch) : k + 1 \in DOMAIN batch /\ Tail(batch)[k] = batch[k + 1]
  BY <1>3
<1>5. line \in LineType /\ line.rec = batch[1]
  BY <1>4 DEF LineType
<1> HIDE DEF line
<1>6. /\ input' \in Seq(LineType) /\ Len(input') >= 1
      /\ \A n \in DOMAIN input' : input'[n] = line \/ (n \in DOMAIN input /\ input'[n] = input[n])
  BY <1>2, <1>3, <1>5
<1>7. \A s \in Seq(DOMAIN input) : s \in Seq(DOMAIN input') /\ RowsOf(s)' = RowsOf(s)
  <2> TAKE s \in Seq(DOMAIN input)
  <2>1. DOMAIN input \subseteq DOMAIN input' /\ \A n \in DOMAIN input : input'[n] = input[n]
    BY <1>2, <1>3, <1>5
  <2>2. s \in Seq(DOMAIN input') /\ \A k \in DOMAIN s : s[k] \in DOMAIN input
    BY <2>1
  <2> QED
    BY <2>1, <2>2 DEF RowsOf
<1>8. Schema' = Schema
  BY <1>1, SchemaStands
<1>9. Sourced'
  BY <1>2, <1>4, <1>5, <1>6, <1>8 DEF Inv, Sourced, FromInput
<1>10. Routed'
  BY <1>2, <1>7 DEF Inv, Routed, slices
<1>11. Batched'
  <2>1. rules' = rules /\ Accepts(request)' = Accepts(request)
    BY <1>2 DEF rules, Accepts
  <2> QED
    BY <1>2, <1>6, <2>1 DEF Inv, Batched
<1>12. \A s \in Outputs : Written(s)'
  <2>1. \A s \in Outputs : Delivered(s)' = Delivered(s) /\ Delivered(s) \in Seq(DOMAIN input)
    BY <1>2 DEF Delivered, Inv, Routed
  <2>2. \A s \in Outputs : RowsOf(Delivered(s))' = RowsOf(Delivered(s))
    BY <1>7, <2>1 DEF RowsOf
  <2> QED
    BY <1>1, <2>1, <2>2, WrittenStands DEF Inv
<1>13. Closing'
  BY <1>1 DEF Inv, Closing
<1> QED
  BY <1>1, <1>9, <1>10, <1>11, <1>12, <1>13 DEF Inv

LEMMA ContractRun ==
  ASSUME Batched, Sourced, pc \notin {"start", "done"}
  PROVE  /\ request.contract \in Contracts /\ Validate(request.contract)
         /\ Len(input) \in Nat /\ FinalLine(Len(input)) \in Nat \ {0}
         /\ pc = "report" => Len(input) \in Nat \ {0}
<1>1. request \in RequestType
  BY RequestsAssumption DEF Batched
<1>2. request.contract \in Contracts /\ Validate(request.contract)
  BY <1>1 DEF RequestType, Batched, Accepts
<1>3. Len(input) \in Nat
  <2>1. input \in Seq(LineType)
    BY DEF Sourced
  <2> QED
    BY <2>1
<1>4. FinalLine(Len(input)) \in Nat \ {0}
  BY <1>3 DEF FinalLine
<1>5. pc = "report" => Len(input) \in Nat \ {0}
  <2>1. pc = "report" => Len(input) >= 1
    BY DEF Batched
  <2> QED
    BY <1>3, <2>1
<1> QED
  BY <1>2, <1>3, <1>4, <1>5

LEMMA ReportStep ==
  ASSUME Inv, GateStep, UNCHANGED writers, Report \/ ReportFinal
  PROVE  Inv'
<1>1. PICK i \in pending :
        /\ pending' = pending \ {i}
        /\ summary' = CountWarning(summary, rules[i]) \/ summary' = CountFinal(summary, rules[i])
        /\ \/ pc = "report" /\ PublishEvent(MakeEvent(request.contract, rules[i], Len(input)), "report")
           \/ pc = "final" /\ PublishEvent(MakeEvent(request.contract, rules[i], FinalLine(Len(input))), "final")
  BY DEF Report, ReportFinal
<1>2. UNCHANGED <<request, batch, input, flagged, slices, accepted, quarantined>>
  BY DEF Report, ReportFinal
<1>3. i \in DOMAIN request.contract.rules /\ request.contract.rules[i] = rules[i]
  BY <1>1 DEF Inv, Batched, rules
<1>4. /\ pc = "report" => EventValid(MakeEvent(request.contract, rules[i], Len(input)))
      /\ pc = "final" => EventValid(MakeEvent(request.contract, rules[i], FinalLine(Len(input))))
  BY <1>3, ContractRun, MakeEventValid DEF Inv
<1>5. (pc' = pc /\ err' = err) \/ (pc' = "done" /\ err' = "evidence")
  BY <1>1, <1>4 DEF PublishEvent, GoTo, Return
<1>6. summary' \in Summary
  BY <1>1, SummaryStays DEF Inv, Batched
<1>7. Batched'
  <2>1. rules' = rules /\ Accepts(request)' = Accepts(request)
    BY <1>2 DEF rules, Accepts
  <2> QED
    BY <1>1, <1>2, <1>5, <1>6, <2>1 DEF Inv, Batched
<1> QED
  BY <1>2, <1>7, GateUndisturbed

LEMMA TallyStep ==
  ASSUME Inv, GateStep, UNCHANGED writers, Tally
  PROVE  Inv'
<1> DEFINE outcome == Outcome(rules, flagged)
           halted == ShouldHalt(rules, flagged)
<1>1. UNCHANGED <<stage, result, hosted>> /\ Staged' /\ stage = "gate" /\ result = ""
  BY GateFrame
<1>2. /\ pc = "report" /\ UNCHANGED <<request, err, batch, input, flagged, pending, accepted, quarantined>>
      /\ keep' \in {keep, Append(keep, Len(input))} /\ divert' \in {divert, Append(divert, Len(input))}
      /\ pc' \in {"accept", "record"} /\ (pc' = "record" => batch # <<>>)
      /\ summary' = Counting(summary, outcome, halted)
  BY DEF Tally, GoTo, AfterRecord, Counting, outputs
<1>3. outcome \in {"cleared", "quarantined", "breached"} /\ halted \in BOOLEAN
  BY DEF Outcome, ShouldHalt
<1> HIDE DEF outcome, halted
<1>4. summary' \in Summary
  BY <1>2, <1>3, SummaryStays DEF Inv, Batched
<1>5. Batched'
  <2>1. rules' = rules /\ Accepts(request)' = Accepts(request)
    BY <1>2 DEF rules, Accepts
  <2> QED
    BY <1>2, <1>4, <2>1 DEF Inv, Batched
<1>6. Routed'
  <2>1. input \in Seq(LineType) /\ Len(input) >= 1
    BY <1>2 DEF Inv, Batched, Sourced
  <2>2. Len(input) \in DOMAIN input
    BY <2>1
  <2>3. keep \in Seq(DOMAIN input) /\ divert \in Seq(DOMAIN input)
    BY DEF Inv, Routed
  <2>4. Append(keep, Len(input)) \in Seq(DOMAIN input) /\ Append(divert, Len(input)) \in Seq(DOMAIN input)
    BY <2>2, <2>3
  <2> QED
    BY <1>2, <2>3, <2>4 DEF Inv, Routed
<1>7. Schema' = Schema
  BY <1>1, SchemaStands
<1>8. Sourced'
  BY <1>2, <1>7 DEF Inv, Sourced, FromInput
<1>9. \A s \in Outputs : Written(s)'
  <2>1. \A s \in Outputs : Delivered(s)' = Delivered(s) /\ RowsOf(Delivered(s))' = RowsOf(Delivered(s))
    BY <1>2 DEF Delivered, RowsOf
  <2> QED
    BY <1>1, <2>1, WrittenStands DEF Inv
<1>10. Closing'
  BY <1>1 DEF Inv, Closing
<1> QED
  BY <1>1, <1>5, <1>6, <1>8, <1>9, <1>10 DEF Inv

(***************************************************************************)
(* The sinks                                                               *)
(***************************************************************************)
LEMMA WriterFields ==
  ASSUME NEW a, NEW b, NEW c, NEW w, w = [state |-> a, kinds |-> b, rows |-> c]
  PROVE  w.state = a /\ w.kinds = b /\ w.rows = c
OBVIOUS

\* Lines of the input fix no kind but that of their column, if they have a value in it.
LEMMA KindsFromInput ==
  ASSUME Inv, NEW slice \in Seq(DOMAIN input)
  PROVE  /\ KindsOf(RowsOf(slice)) \in [Columns -> ColumnKinds]
         /\ \A c \in Columns :
              \/ KindsOf(RowsOf(slice))[c] = Schema[c]
              \/ /\ KindsOf(RowsOf(slice))[c] = "string"
                 /\ \A k \in DOMAIN slice : Cell(slice[k], c).t = "nil"
<1> DEFINE rows == RowsOf(slice)
           kinds == KindsOf(rows)
<1>1. /\ DOMAIN rows = DOMAIN slice /\ DOMAIN rows \subseteq Nat
      /\ \A k \in DOMAIN slice : slice[k] \in DOMAIN input
      /\ \A k \in DOMAIN slice, c \in Columns : rows[k][c] = Cell(slice[k], c)
  BY RowsRead
<1>2. /\ kinds \in [Columns -> ColumnKinds]
      /\ \A c \in Columns :
           \/ kinds[c] = "string" /\ \A k \in DOMAIN rows : rows[k][c].t = "nil"
           \/ \E k \in DOMAIN rows : rows[k][c].t # "nil" /\ kinds[c] = ValueKind(rows[k][c])
  BY <1>1, KindsOfRows
<1>3. \A k \in DOMAIN slice, c \in Columns : Fits(Schema[c], Cell(slice[k], c))
  BY <1>1 DEF Inv, Sourced, FromInput, Cell
<1> HIDE DEF rows, kinds
<1>4. ASSUME NEW c \in Columns
      PROVE  \/ kinds[c] = Schema[c]
             \/ kinds[c] = "string" /\ \A k \in DOMAIN slice : Cell(slice[k], c).t = "nil"
  <2>1. ASSUME NEW k \in DOMAIN rows, rows[k][c].t # "nil", kinds[c] = ValueKind(rows[k][c])
        PROVE  kinds[c] = Schema[c]
    BY <1>1, <1>3, <2>1 DEF Fits
  <2> QED
    BY <1>1, <1>2, <2>1
<1> QED
  BY <1>2, <1>4 DEF rows, kinds

\* BatchWriter.Write before it writes.
LEMMA OpenedTyped ==
  ASSUME Inv, NEW s \in Outputs, NEW slice \in Seq(DOMAIN input)
  PROVE  LET w == writers[s]
             v == Opened(w, slice)
         IN  /\ v = [state |-> v.state, kinds |-> v.kinds, rows |-> v.rows]
             /\ v.state = IF w.state = "none" THEN "open" ELSE w.state
             /\ v.kinds = IF w.state = "none" THEN KindsOf(RowsOf(slice)) ELSE w.kinds
             /\ v.kinds \in [Columns -> ColumnKinds]
             /\ \A c \in Columns : v.kinds[c] \in {Schema[c], "string"}
             /\ v.rows = w.rows /\ w.rows = Appended(v.kinds, RowsOf(Delivered(s)))
<1> DEFINE w == writers[s]
           v == Opened(w, slice)
           kinds == KindsOf(RowsOf(slice))
<1>1. Written(s) /\ Sourced /\ Schema \in [Columns -> ColumnKinds]
  BY SchemaHolds DEF Inv
<1>2. CASE w.state # "none"
  <2>1. v = w
    BY <1>2 DEF Opened
  <2>2. /\ w = [state |-> w.state, kinds |-> w.kinds, rows |-> w.rows]
        /\ w.kinds \in [Columns -> ColumnKinds]
        /\ \A c \in Columns : w.kinds[c] \in {Schema[c], "string"}
        /\ w.rows = Appended(w.kinds, RowsOf(Delivered(s)))
    BY <1>1, <1>2 DEF Written
  <2> HIDE DEF v, w
  <2> SUFFICES /\ v = [state |-> v.state, kinds |-> v.kinds, rows |-> v.rows]
               /\ v.state = IF w.state = "none" THEN "open" ELSE w.state
               /\ v.kinds = IF w.state = "none" THEN kinds ELSE w.kinds
               /\ v.kinds \in [Columns -> ColumnKinds]
               /\ \A c \in Columns : v.kinds[c] \in {Schema[c], "string"}
               /\ v.rows = w.rows /\ w.rows = Appended(v.kinds, RowsOf(Delivered(s)))
    BY DEF v, w
  <2> QED
    BY <1>2, <2>1, <2>2
<1>3. CASE w.state = "none"
  <2>1. w = [state |-> w.state, kinds |-> w.kinds, rows |-> w.rows] /\ w.rows = <<>> /\ Delivered(s) = <<>>
    BY <1>1, <1>3 DEF Written
  <2>2. v = [state |-> "open", kinds |-> kinds, rows |-> w.rows]
    BY <1>3 DEF Opened
  <2>3. kinds \in [Columns -> ColumnKinds]
    BY KindsFromInput
  <2>4. \A c \in Columns : kinds[c] \in {Schema[c], "string"}
    BY KindsFromInput
  <2> HIDE DEF v, w, kinds
  <2>5. v.state = "open" /\ v.kinds = kinds /\ v.rows = w.rows
    BY <2>2, WriterFields
  <2>6. Appended(kinds, RowsOf(<<>>)) = <<>>
    <3>1. DOMAIN <<>> = {}
      OBVIOUS
    <3>2. DOMAIN RowsOf(<<>>) = {}
      BY <3>1 DEF RowsOf
    <3>3. DOMAIN Appended(kinds, RowsOf(<<>>)) = {} /\ Appended(kinds, RowsOf(<<>>)) =
            [k \in {} |-> [c \in Columns |-> Converted(kinds[c], RowsOf(<<>>)[k][c])]]
      BY <3>2 DEF Appended
    <3>4. \A f : [k \in {} |-> [c \in Columns |-> Converted(kinds[c], f[k][c])]] = <<>>
      OBVIOUS
    <3> QED
      BY <3>3, <3>4
  <2> QED
    <3>1. w.state = "none" /\ w.rows = <<>> /\ Delivered(s) = <<>>
      BY <1>3, <2>1
    <3>2. v = [state |-> v.state, kinds |-> v.kinds, rows |-> v.rows]
      BY <2>2, <2>5
    <3>3. w.rows = Appended(v.kinds, RowsOf(Delivered(s)))
      BY <2>5, <2>6, <3>1
    <3>4. v.kinds \in [Columns -> ColumnKinds]
      BY <2>3, <2>5
    <3>5. v.kinds = IF w.state = "none" THEN kinds ELSE w.kinds
      BY <2>5, <3>1
    <3> SUFFICES /\ v = [state |-> v.state, kinds |-> v.kinds, rows |-> v.rows]
                 /\ v.state = IF w.state = "none" THEN "open" ELSE w.state
                 /\ v.kinds = IF w.state = "none" THEN kinds ELSE w.kinds
                 /\ v.kinds \in [Columns -> ColumnKinds]
                 /\ \A c \in Columns : v.kinds[c] \in {Schema[c], "string"}
                 /\ v.rows = w.rows /\ w.rows = Appended(v.kinds, RowsOf(Delivered(s)))
      BY DEF kinds, v, w
    <3> QED
      BY <2>4, <2>5, <3>1, <3>2, <3>3, <3>4, <3>5
<1> QED
  BY <1>2, <1>3

\* What a sink takes its writer has written, and only that.
LEMMA Delivers ==
  ASSUME Inv, NEW s \in Outputs, NEW slice \in Seq(DOMAIN input), NEW log,
         WriteBatch(s, slice, log), UNCHANGED <<input, hosted>>,
         \A t \in Outputs \ {s} : Delivered(t)' = Delivered(t),
         \/ /\ slice # <<>> /\ s \in request.sinks /\ err' = "" /\ Delivered(s)' = Delivered(s) \o slice
         \/ /\ slice # <<>> /\ s \in request.sinks /\ err' # "" /\ Delivered(s)' = Delivered(s)
         \/ /\ ~(slice # <<>> /\ s \in request.sinks) /\ Delivered(s)' = Delivered(s)
  PROVE  /\ writers' = [t \in Outputs |-> writers'[t]]
         /\ \A t \in Outputs : Written(t)'
         /\ \A t \in Outputs : writers'[t].state \in {writers[t].state, "open"}
<1> DEFINE w == writers[s]
           v == Opened(w, slice)
<1>0. writers = [t \in Outputs |-> writers[t]] /\ \A t \in Outputs : Written(t)
  BY DEF Inv
<1>1. Schema' = Schema
  BY SchemaStands
<1>2. \A t \in Outputs \ {s} : writers'[t] = writers[t] => Written(t)'
  <2> SUFFICES ASSUME NEW t \in Outputs \ {s}, writers'[t] = writers[t] PROVE Written(t)'
    OBVIOUS
  <2>1. Written(t) /\ Delivered(t)' = Delivered(t) /\ RowsOf(Delivered(t))' = RowsOf(Delivered(t))
    BY <1>0 DEF RowsOf
  <2> QED
    BY <1>1, <2>1 DEF Written
<1>3. CASE UNCHANGED writers /\ Delivered(s)' = Delivered(s)
  <2>1. Written(s)'
    <3>1. RowsOf(Delivered(s))' = RowsOf(Delivered(s))
      BY <1>3 DEF RowsOf
    <3> QED
      BY <1>0, <1>3, <3>1, WrittenStands
  <2> QED
    BY <1>0, <1>2, <1>3, <2>1
<1>4. /\ v = [state |-> v.state, kinds |-> v.kinds, rows |-> v.rows]
      /\ v.state = IF w.state = "none" THEN "open" ELSE w.state
      /\ v.kinds \in [Columns -> ColumnKinds]
      /\ \A c \in Columns : v.kinds[c] \in {Schema[c], "string"}
      /\ v.rows = w.rows /\ w.rows = Appended(v.kinds, RowsOf(Delivered(s)))
      /\ w.state \in {"none", "open", "closed", "failed"}
  <2>1. w.state \in {"none", "open", "closed", "failed"}
    BY <1>0 DEF Written
  <2> QED
    BY <2>1, OpenedTyped
<1>5. ASSUME NEW rows, writers' = [writers EXCEPT ![s] = [state |-> v.state, kinds |-> v.kinds, rows |-> rows]],
             rows = Appended(v.kinds, RowsOf(Delivered(s))')
      PROVE  /\ writers' = [t \in Outputs |-> writers'[t]]
             /\ \A t \in Outputs : Written(t)'
             /\ \A t \in Outputs : writers'[t].state \in {writers[t].state, "open"}
  <2>1. /\ writers' = [t \in Outputs |-> writers'[t]]
        /\ writers'[s] = [state |-> v.state, kinds |-> v.kinds, rows |-> rows]
        /\ \A t \in Outputs \ {s} : writers'[t] = writers[t]
    BY <1>0, <1>5, WriterReplaced
  <2> HIDE DEF v
  <2>2. /\ writers'[s].state = v.state /\ writers'[s].kinds = v.kinds /\ writers'[s].rows = rows
        /\ v.state \in {"open", "closed", "failed"}
    <3>1. writers'[s].state = v.state /\ writers'[s].kinds = v.kinds /\ writers'[s].rows = rows
      <4> DEFINE a == v.state
                 b == v.kinds
                 u == writers'[s]
      <4>1. u = [state |-> a, kinds |-> b, rows |-> rows]
        BY <2>1
      <4> HIDE DEF a, b, u
      <4>2. u.state = a /\ u.kinds = b /\ u.rows = rows
        BY <4>1
      <4> QED
        BY <4>2 DEF a, b, u
    <3>2. v.state \in {"open", "closed", "failed"}
      BY <1>4
    <3> QED
      BY <3>1, <3>2
  <2>3. Written(s)'
    BY <1>1, <1>4, <1>5, <2>1, <2>2 DEF Written
  <2> QED
    BY <1>2, <1>4, <2>1, <2>2, <2>3
<1>6. CASE slice # <<>> /\ s \in request.sinks /\ err' # "" /\ writers' = [writers EXCEPT ![s] = Opened(@, slice)]
  <2>1. Delivered(s)' = Delivered(s) /\ writers' = [writers EXCEPT ![s] = v]
    BY <1>6
  <2>2. RowsOf(Delivered(s))' = RowsOf(Delivered(s))
    BY <2>1 DEF RowsOf
  <2> HIDE DEF v
  <2> QED
    BY <1>4, <1>5, <2>1, <2>2
<1>7. CASE slice # <<>> /\ s \in request.sinks /\ err' = "" /\ writers' = [writers EXCEPT ![s] = Wrote(@, slice)]
  <2>1. Delivered(s)' = Delivered(s) \o slice
    BY <1>7
  <2>2. writers' = [writers EXCEPT ![s] = [state |-> v.state, kinds |-> v.kinds,
                                            rows |-> v.rows \o Appended(v.kinds, RowsOf(slice))]]
    BY <1>7 DEF Wrote
  <2> HIDE DEF v
  <2>4. Delivered(s) \in Seq(DOMAIN input)
    BY DEF Inv, Routed, Delivered
  <2>5. v.rows \o Appended(v.kinds, RowsOf(slice)) = Appended(v.kinds, RowsOf(Delivered(s) \o slice))
    <3>1. v.rows = Appended(v.kinds, RowsOf(Delivered(s)))
      BY <1>4
    <3>2. Appended(v.kinds, RowsOf(Delivered(s) \o slice))
            = Appended(v.kinds, RowsOf(Delivered(s))) \o Appended(v.kinds, RowsOf(slice))
      BY <2>4, RowsConcat
    <3> DEFINE p == Appended(v.kinds, RowsOf(Delivered(s)))
               q == Appended(v.kinds, RowsOf(slice))
               r == Appended(v.kinds, RowsOf(Delivered(s) \o slice))
    <3>3. v.rows = p /\ r = p \o q
      BY <3>1, <3>2, Zenon
    <3> HIDE DEF p, q, r
    <3>4. v.rows \o q = r
      BY <3>3
    <3> QED
      BY <3>4 DEF q, r
  <2>6. RowsOf(Delivered(s))' = RowsOf(Delivered(s) \o slice)
    BY <2>1 DEF RowsOf
  <2> QED
    BY <1>5, <2>2, <2>5, <2>6
<1> QED
  BY <1>3, <1>6, <1>7 DEF WriteBatch

\* A sink call: what the writer wrote is what the sink took.
LEMMA SinkStep ==
  ASSUME Inv, GateStep, NEW s \in Outputs, NEW slice \in Seq(DOMAIN input), NEW log,
         WriteBatch(s, slice, log), \A t \in Outputs \ {s} : Delivered(t)' = Delivered(t),
         \/ /\ slice # <<>> /\ s \in request.sinks /\ err' = "" /\ Delivered(s)' = Delivered(s) \o slice
         \/ /\ slice # <<>> /\ s \in request.sinks /\ err' # "" /\ Delivered(s)' = Delivered(s)
         \/ /\ ~(slice # <<>> /\ s \in request.sinks) /\ Delivered(s)' = Delivered(s),
         UNCHANGED <<request, batch, input, flagged, pending, summary, slices>>,
         pc \notin {"start", "done"}, pc' \in {"quarantine", "halted", "next", "done"},
         err' \in {"", "accept", "quarantine"}, pc' # "done" => err' = ""
  PROVE  Inv'
<1>1. stage = "gate" /\ UNCHANGED <<stage, result, hosted>> /\ Staged'
  BY GateFrame
<1>2. /\ writers' = [t \in Outputs |-> writers'[t]]
      /\ \A t \in Outputs : Written(t)'
      /\ \A t \in Outputs : writers'[t].state \in {writers[t].state, "open"}
  BY <1>1, Delivers
<1>3. Batched'
  <2>1. rules' = rules /\ Accepts(request)' = Accepts(request)
    BY DEF rules, Accepts
  <2> QED
    BY <2>1 DEF Inv, Batched
<1>4. Schema' = Schema
  BY <1>1, SchemaStands
<1>5. Sourced'
  BY <1>4 DEF Inv, Sourced, FromInput
<1>6. Routed'
  <2>1. \A t \in Outputs : Delivered(t) \in Seq(DOMAIN input)
    BY DEF Inv, Routed, Delivered
  <2>2. Delivered(s) \o slice \in Seq(DOMAIN input)
    BY <2>1, Concatenated
  <2>3. \A t \in Outputs : Delivered(t)' \in Seq(DOMAIN input)
    BY <2>1, <2>2
  <2>4. accepted' \in Seq(DOMAIN input) /\ quarantined' \in Seq(DOMAIN input)
    BY <2>3 DEF Delivered, Outputs
  <2> QED
    BY <2>4 DEF Inv, Routed, slices
<1>7. Closing'
  <2>1. \A t \in Outputs : writers[t].state \in {"none", "open"}
    BY <1>1 DEF Inv, Closing, Outputs
  <2>2. \A t \in Outputs : writers'[t].state \in {"none", "open"}
    BY <1>2, <2>1
  <2> QED
    BY <1>1, <2>2, ClosingStands
<1> QED
  BY <1>1, <1>2, <1>3, <1>5, <1>6, <1>7 DEF Inv

LEMMA AcceptStep ==
  ASSUME Inv, GateStep, Accept, WriteBatch("accepted", keep, accepted)
  PROVE  Inv'
<1>1. err = ""
  BY GateFrame
<1>2. /\ pc = "accept" /\ UNCHANGED <<request, batch, input, flagged, pending, summary, slices>>
      /\ quarantined' = quarantined
      /\ \/ /\ keep # <<>> /\ "accepted" \in request.sinks /\ accepted' = accepted \o keep
            /\ pc' = "quarantine" /\ err' = ""
         \/ /\ keep # <<>> /\ "accepted" \in request.sinks /\ accepted' = accepted
            /\ pc' = "done" /\ err' = "accept"
         \/ /\ ~(keep # <<>> /\ "accepted" \in request.sinks) /\ accepted' = accepted
            /\ pc' = "quarantine" /\ err' = ""
  BY <1>1 DEF Accept, SendBatch, GoTo, Return
<1> DEFINE s == "accepted"
<1>3. s \in Outputs /\ keep \in Seq(DOMAIN input) /\ Delivered(s) = accepted /\ Delivered(s)' = accepted'
      /\ \A t \in Outputs \ {s} : Delivered(t)' = Delivered(t)
  BY <1>2 DEF Outputs, Delivered, Inv, Routed
<1> QED
  BY <1>2, <1>3, SinkStep

LEMMA QuarantineStep ==
  ASSUME Inv, GateStep, Quarantine, WriteBatch("quarantined", divert, quarantined)
  PROVE  Inv'
<1>1. err = ""
  BY GateFrame
<1>2. /\ pc = "quarantine" /\ UNCHANGED <<request, batch, input, flagged, pending, summary, slices>>
      /\ accepted' = accepted
      /\ \/ /\ divert # <<>> /\ "quarantined" \in request.sinks /\ quarantined' = quarantined \o divert
            /\ pc' \in {"halted", "next"} /\ err' = ""
         \/ /\ divert # <<>> /\ "quarantined" \in request.sinks /\ quarantined' = quarantined
            /\ pc' = "done" /\ err' = "quarantine"
         \/ /\ ~(divert # <<>> /\ "quarantined" \in request.sinks) /\ quarantined' = quarantined
            /\ pc' \in {"halted", "next"} /\ err' = ""
  BY <1>1 DEF Quarantine, SendBatch, GoTo, Return, AfterBatch
<1> DEFINE s == "quarantined"
<1>3. s \in Outputs /\ divert \in Seq(DOMAIN input) /\ Delivered(s) = quarantined /\ Delivered(s)' = quarantined'
      /\ \A t \in Outputs \ {s} : Delivered(t)' = Delivered(t)
  BY <1>2 DEF Outputs, Delivered, Inv, Routed
<1> QED
  BY <1>2, <1>3, SinkStep

LEMMA NextInv == Inv /\ [ArrowNext]_arrowVars => Inv'
<1> SUFFICES ASSUME Inv, [ArrowNext]_arrowVars PROVE Inv'
  OBVIOUS
<1>1. CASE GateStep
  BY <1>1, QuietStep, BatchStep, CheckStep, ReportStep, TallyStep, AcceptStep, QuarantineStep DEF GateStep
<1>2. CASE \E n \in 1..MaxBatch : \E rows \in [1..n -> Hosted] : Encode(rows)
  BY <1>2, EncodeStep
<1>3. CASE OpenFails \/ Open \/ Close \/ CancelGate \/ Finished \/ UNCHANGED arrowVars
  BY <1>3, StageStep DEF Finished
<1>4. CASE CloseWriter("accepted", "quarantined") \/ CloseWriter("quarantined", "returned")
  BY <1>4, CloseStep
<1> QED
  BY <1>1, <1>2, <1>3, <1>4 DEF ArrowNext

LEMMA AlwaysInv == ArrowSpec => []Inv
BY InitInv, NextInv, PTL DEF ArrowSpec

(***************************************************************************)
(* Type correctness: a stream has one schema, and every row a writer wrote     *)
(* fits it.                                                                 *)
(***************************************************************************)
\* A row that a writer wrote, from the line it was delivered for.
LEMMA RowsWritten ==
  ASSUME Inv, NEW s \in Outputs, NEW k \in DOMAIN writers[s].rows, NEW c \in Columns
  PROVE  /\ writers[s].state # "none"
         /\ k \in DOMAIN Delivered(s) /\ Delivered(s)[k] \in DOMAIN input
         /\ writers[s].rows[k][c] = Converted(writers[s].kinds[c], Cell(Delivered(s)[k], c))
         /\ writers[s].kinds[c] \in {Schema[c], "string"} /\ Schema[c] \in ColumnKinds
         /\ Fits(Schema[c], Cell(Delivered(s)[k], c))
<1> DEFINE w == writers[s]
           sent == Delivered(s)
<1>1. w.state # "none"
  <2>1. DOMAIN <<>> = {}
    OBVIOUS
  <2>2. w.state = "none" => w.rows = <<>>
    BY DEF Inv, Written
  <2> QED
    BY <2>1, <2>2
<1>2. w.rows = Appended(w.kinds, RowsOf(sent)) /\ w.kinds[c] \in {Schema[c], "string"}
  BY <1>1 DEF Inv, Written
<1>3. sent \in Seq(DOMAIN input)
  BY DEF Inv, Routed, Delivered
<1>4. w.rows = [j \in DOMAIN sent |-> RowOf(w.kinds, sent[j])]
  BY <1>2, <1>3, RowsAppended
<1>5. k \in DOMAIN sent /\ w.rows[k] = RowOf(w.kinds, sent[k]) /\ sent[k] \in DOMAIN input
  BY <1>3, <1>4
<1>6. w.rows[k][c] = Converted(w.kinds[c], Cell(sent[k], c))
  BY <1>5 DEF RowOf
<1>7. Schema \in [Columns -> ColumnKinds] /\ Fits(Schema[c], Cell(sent[k], c))
  BY <1>5, SchemaHolds DEF Inv, Sourced, FromInput, Cell
<1> QED
  BY <1>1, <1>2, <1>5, <1>6, <1>7

THEOREM TypeCorrect == ArrowSpec => []TypeOK
<1>1. Inv => TypeOK
  <2> SUFFICES ASSUME Inv PROVE TypeOK
    OBVIOUS
  <2>1. /\ stage \in {"open", "gate", "accepted", "quarantined", "returned"}
        /\ result \in {"", "panic", "open", "close", "config", "cancelled", "read", "evidence", "accept", "quarantine"}
    BY DEF Inv, Staged, Batched
  <2>2. ASSUME NEW s \in Outputs
        PROVE  /\ writers[s].state \in {"none", "open", "closed", "failed"}
               /\ writers[s].state # "none" => writers[s].kinds \in [Columns -> ColumnKinds]
    BY DEF Inv, Written
  <2>3. ASSUME NEW s \in Outputs, NEW k \in DOMAIN writers[s].rows, NEW c \in Columns
        PROVE  CellTyped(writers[s].kinds[c], writers[s].rows[k][c])
    BY RowsWritten, ConvertedTyped
  <2> QED
    BY <2>1, <2>2, <2>3 DEF TypeOK
<1> QED
  BY <1>1, AlwaysInv, PTL

(***************************************************************************)
(* What the writers wrote                                                   *)
(***************************************************************************)
LEMMA RowsCounted ==
  ASSUME Inv, NEW s \in Outputs
  PROVE  Len(writers[s].rows) = Len(Delivered(s)) /\ Len(Delivered(s)) \in Nat
<1> DEFINE w == writers[s]
           sent == Delivered(s)
<1>1. sent \in Seq(DOMAIN input) /\ DOMAIN sent = 1..Len(sent) /\ Len(sent) \in Nat
  <2>1. sent \in Seq(DOMAIN input)
    BY DEF Inv, Routed, Delivered
  <2> QED
    BY <2>1
<1>2. CASE w.state = "none"
  BY <1>1, <1>2 DEF Inv, Written
<1>3. CASE w.state # "none"
  <2>1. w.rows = Appended(w.kinds, RowsOf(sent))
    BY <1>3 DEF Inv, Written
  <2>2. w.rows = [k \in 1..Len(sent) |-> RowOf(w.kinds, sent[k])]
    <3>1. Appended(w.kinds, RowsOf(sent)) = [k \in DOMAIN sent |-> RowOf(w.kinds, sent[k])]
      BY <1>1, RowsAppended
    <3> QED
      BY <1>1, <2>1, <3>1
  <2> DEFINE rows == w.rows
             Row(k) == RowOf(w.kinds, sent[k])
             n == Len(sent)
  <2>3. rows = [k \in 1..n |-> Row(k)] /\ n \in Nat
    BY <1>1, <2>2
  <2> HIDE DEF rows, Row, n
  <2>4. Len(rows) = n
    BY <2>3
  <2> QED
    BY <1>1, <2>4 DEF rows, n
<1> QED
  BY <1>2, <1>3

\* transport/arrow: nothing that was delivered is lost, made up or replaced by a zero:
\* for all rows of a producer, and for all rows that a host encodes.
THEOREM CellsAlwaysSurvive == ArrowSpec => []CellsSurvive
<1>1. Inv => CellsSurvive
  <2> SUFFICES ASSUME Inv, NEW s \in Outputs
               PROVE  /\ Len(writers[s].rows) = Len(Delivered(s))
                      /\ \A k \in DOMAIN writers[s].rows : \A c \in Columns :
                           LET x == Cell(Delivered(s)[k], c) IN
                           \/ writers[s].rows[k][c] = x
                           \/ /\ writers[s].kinds[c] = "string" /\ x.t # "string"
                              /\ writers[s].rows[k][c] = Printed(x)
    BY DEF CellsSurvive
  <2>1. ASSUME NEW k \in DOMAIN writers[s].rows, NEW c \in Columns
        PROVE  LET x == Cell(Delivered(s)[k], c) IN
               \/ writers[s].rows[k][c] = x
               \/ /\ writers[s].kinds[c] = "string" /\ x.t # "string"
                  /\ writers[s].rows[k][c] = Printed(x)
    <3> DEFINE x == Cell(Delivered(s)[k], c)
               kind == writers[s].kinds[c]
    <3>1. /\ writers[s].rows[k][c] = Converted(kind, x)
          /\ kind \in {Schema[c], "string"} /\ Schema[c] \in ColumnKinds /\ Fits(Schema[c], x)
      BY RowsWritten
    <3>2. /\ Converted(Schema[c], x) = x
          /\ x.t = "nil" \/ Schema[c] = "string" => Converted("string", x) = x
          /\ x.t # "nil" /\ Schema[c] # "string" => Converted("string", x) = Printed(x)
      BY <3>1, ConvertedKeeps
    <3>3. x.t = "string" => Schema[c] = "string"
      BY <3>1 DEF Fits, ValueKind
    <3> QED
      BY <3>1, <3>2, <3>3
  <2> QED
    BY <2>1, RowsCounted
<1> QED
  BY <1>1, AlwaysInv, PTL

\* However RunBatches ended, RunGate has closed what was opened when it returns, but for
\* the quarantined output after a failed Close of the accepted one, which it reports.
THEOREM WritersAlwaysClosed == ArrowSpec => []WritersClosed
<1>1. Inv => WritersClosed
  BY DEF Inv, Closing, WritersClosed, Outputs
<1> QED
  BY <1>1, AlwaysInv, PTL

(***************************************************************************)
(* Complete streams                                                        *)
(***************************************************************************)
LEMMA InitCounts == ArrowInit => Counts
<1> SUFFICES ASSUME ArrowInit PROVE Counts
  OBVIOUS
<1>1. Len(<<>>) = 0
  OBVIOUS
<1>2. summary.cleared = 0 /\ summary.quarantined = 0
  BY DEF ArrowInit, Init, ZeroSummary
<1>3. pc = "start" /\ Len(accepted) = 0 /\ Len(quarantined) = 0
  BY <1>1 DEF ArrowInit, Init
<1> QED
  BY <1>2, <1>3 DEF Counts, AcceptedCounted, QuarantinedCounted

LEMMA CountersKept ==
  ASSUME NEW s \in Summary, NEW r
  PROVE  /\ CountWarning(s, r).cleared = s.cleared /\ CountWarning(s, r).quarantined = s.quarantined
         /\ CountFinal(s, r).cleared = s.cleared /\ CountFinal(s, r).quarantined = s.quarantined
BY DEF Summary, CountWarning, CountFinal

LEMMA Lengths ==
  ASSUME Inv
  PROVE  /\ Len(accepted) \in Nat /\ Len(quarantined) \in Nat /\ Len(keep) \in Nat /\ Len(divert) \in Nat
         /\ Len(accepted \o keep) = Len(accepted) + Len(keep)
         /\ Len(quarantined \o divert) = Len(quarantined) + Len(divert)
         /\ \A n \in Nat : Len(Append(keep, n)) = Len(keep) + 1 /\ Len(Append(divert, n)) = Len(divert) + 1
         /\ Len(<<>>) = 0 /\ summary.cleared \in Nat /\ summary.quarantined \in Nat
<1>1. /\ keep \in Seq(DOMAIN input) /\ divert \in Seq(DOMAIN input)
      /\ accepted \in Seq(DOMAIN input) /\ quarantined \in Seq(DOMAIN input)
  BY DEF Inv, Routed
<1>2. summary.cleared \in Nat /\ summary.quarantined \in Nat
  BY DEF Inv, Batched, Summary
<1>3. \A n \in Nat : Len(Append(keep, n)) = Len(keep) + 1 /\ Len(Append(divert, n)) = Len(divert) + 1
  BY <1>1
<1>4. Len(accepted) \in Nat /\ Len(quarantined) \in Nat /\ Len(keep) \in Nat /\ Len(divert) \in Nat
  BY <1>1
<1>5. Len(accepted \o keep) = Len(accepted) + Len(keep)
  BY <1>1
<1>6. Len(quarantined \o divert) = Len(quarantined) + Len(divert)
  BY <1>1
<1> QED
  BY <1>2, <1>3, <1>4, <1>5, <1>6

\* A step that hands on nothing.
LEMMA CountsStand ==
  ASSUME Counts, UNCHANGED <<request, accepted, quarantined, keep, divert, pc, err>>,
         summary'.cleared = summary.cleared, summary'.quarantined = summary.quarantined
  PROVE  Counts'
BY DEF Counts, AcceptedCounted, QuarantinedCounted

LEMMA CountsQuiet ==
  ASSUME Inv, Counts, GateStep,
         \/ Reject \/ Begin \/ NextCancelled \/ NextFailed \/ Conclude \/ ReturnSummary
         \/ CheckRecord \/ \E b \in Feed : NextBatch(b)
  PROVE  Counts'
<1>1. /\ UNCHANGED <<request, accepted, quarantined, summary>>
      /\ \/ UNCHANGED <<keep, divert>>
         \/ keep' = <<>> /\ divert' = <<>> /\ pc = "next"
      /\ \/ pc' = "done" /\ err' \in {"config", "cancelled", "read"}
         \/ pc = "final" /\ pc' = "done"
         \/ pc = "start" /\ pc' = "next"
         \/ pc \in {"next", "halted"} /\ pc' = "final"
         \/ pc = "record" /\ pc' = "report" /\ keep' = keep /\ divert' = divert
         \/ pc = "next" /\ pc' \in {"accept", "record"} /\ keep' = <<>> /\ divert' = <<>>
  BY DEF Reject, Begin, NextCancelled, NextFailed, Conclude, ReturnSummary, CheckRecord, NextBatch,
         AfterRecord, Return, GoTo, slices, outputs
<1>2. /\ keep' = <<>> => Len(accepted) + Len(keep') = Len(accepted)
      /\ divert' = <<>> => Len(quarantined) + Len(divert') = Len(quarantined)
  BY Lengths
<1>3. AcceptedCounted'
  BY <1>1, <1>2 DEF Counts, AcceptedCounted
<1>4. QuarantinedCounted'
  BY <1>1, <1>2 DEF Counts, QuarantinedCounted
<1> QED
  BY <1>3, <1>4 DEF Counts

LEMMA CountsReport ==
  ASSUME Inv, Counts, GateStep, Report \/ ReportFinal
  PROVE  Counts'
<1>1. PICK i \in pending :
        /\ summary' = CountWarning(summary, rules[i]) \/ summary' = CountFinal(summary, rules[i])
        /\ \/ pc = "report" /\ PublishEvent(MakeEvent(request.contract, rules[i], Len(input)), "report")
           \/ pc = "final" /\ PublishEvent(MakeEvent(request.contract, rules[i], FinalLine(Len(input))), "final")
  BY DEF Report, ReportFinal
<1>2. UNCHANGED <<request, slices, accepted, quarantined>>
  BY DEF Report, ReportFinal
<1>3. (pc' = pc /\ err' = err) \/ (pc' = "done" /\ err' # "")
  BY <1>1 DEF PublishEvent, GoTo, Return
<1>4. summary'.cleared = summary.cleared /\ summary'.quarantined = summary.quarantined
  <2>1. summary \in Summary
    BY DEF Inv, Batched
  <2> QED
    BY <1>1, <2>1, CountersKept
<1> QED
  BY <1>2, <1>3, <1>4 DEF Counts, AcceptedCounted, QuarantinedCounted, slices

LEMMA CountsTally ==
  ASSUME Inv, Counts, GateStep, Tally
  PROVE  Counts'
<1> DEFINE outcome == Outcome(rules, flagged)
           halted == ShouldHalt(rules, flagged)
<1>1. /\ pc = "report" /\ pc' \in {"accept", "record"}
      /\ UNCHANGED <<request, accepted, quarantined>>
      /\ keep' = IF outcome = "cleared" THEN Append(keep, Len(input)) ELSE keep
      /\ divert' = IF outcome = "quarantined" THEN Append(divert, Len(input)) ELSE divert
      /\ summary' = Counting(summary, outcome, halted)
  BY DEF Tally, GoTo, AfterRecord, Counting, outputs
<1>2. outcome \in {"cleared", "quarantined", "breached"}
  BY DEF Outcome
<1> HIDE DEF outcome, halted
<1>3. /\ summary'.cleared = IF outcome = "cleared" THEN summary.cleared + 1 ELSE summary.cleared
      /\ summary'.quarantined =
           IF outcome = "quarantined" THEN summary.quarantined + 1 ELSE summary.quarantined
  <2>1. summary \in Summary
    BY DEF Inv, Batched
  <2> QED
    BY <1>1, <1>2, <2>1, RecordCounted
<1>4. Len(input) \in Nat
  <2>1. input \in Seq(LineType)
    BY DEF Inv, Sourced
  <2> QED
    BY <2>1
<1>5. /\ Len(keep') = IF outcome = "cleared" THEN Len(keep) + 1 ELSE Len(keep)
      /\ Len(divert') = IF outcome = "quarantined" THEN Len(divert) + 1 ELSE Len(divert)
  BY <1>1, <1>4, Lengths
<1>8. /\ Len(accepted) \in Nat /\ Len(quarantined) \in Nat /\ Len(keep) \in Nat /\ Len(divert) \in Nat
      /\ Len(accepted') = Len(accepted) /\ Len(quarantined') = Len(quarantined)
      /\ summary.cleared \in Nat /\ summary.quarantined \in Nat /\ request' = request
  BY <1>1, Lengths
<1>6. AcceptedCounted'
  <2>1. "accepted" \in request.sinks => Len(accepted) + Len(keep) = summary.cleared
    BY <1>1 DEF Counts, AcceptedCounted
  <2>2. "accepted" \in request.sinks => Len(accepted') + Len(keep') = summary'.cleared
    BY <1>3, <1>5, <1>8, <2>1
  <2> QED
    BY <1>1, <1>8, <2>2 DEF AcceptedCounted
<1>7. QuarantinedCounted'
  <2>1. "quarantined" \in request.sinks => Len(quarantined) + Len(divert) = summary.quarantined
    BY <1>1 DEF Counts, QuarantinedCounted
  <2>2. "quarantined" \in request.sinks => Len(quarantined') + Len(divert') = summary'.quarantined
    BY <1>3, <1>5, <1>8, <2>1
  <2> QED
    BY <1>1, <1>8, <2>2 DEF QuarantinedCounted
<1> QED
  BY <1>6, <1>7 DEF Counts

LEMMA CountsSink ==
  ASSUME Inv, Counts, GateStep, Accept \/ Quarantine
  PROVE  Counts'
<1>1. UNCHANGED <<request, summary, keep, divert>>
  BY DEF Accept, Quarantine, slices
<1>0. /\ Len(accepted) \in Nat /\ Len(quarantined) \in Nat /\ Len(keep) \in Nat /\ Len(divert) \in Nat
      /\ Len(accepted \o keep) = Len(accepted) + Len(keep)
      /\ Len(quarantined \o divert) = Len(quarantined) + Len(divert)
      /\ keep = <<>> => Len(keep) = 0
      /\ divert = <<>> => Len(divert) = 0
  BY Lengths
<1>2. CASE Accept
  <2>1. /\ pc = "accept" /\ quarantined' = quarantined
        /\ \/ pc' = "quarantine" /\ accepted' = accepted \o keep
           \/ pc' = "quarantine" /\ accepted' = accepted /\ (keep = <<>> \/ "accepted" \notin request.sinks)
           \/ pc' = "done" /\ err' = "accept"
    BY <1>2 DEF Accept, SendBatch, GoTo, Return
  <2>2. AcceptedCounted'
    <3>1. "accepted" \in request.sinks => Len(accepted) + Len(keep) = summary.cleared
      BY <2>1 DEF Counts, AcceptedCounted
    <3>2. "accepted" \in request.sinks /\ pc' = "quarantine" => Len(accepted') = summary.cleared
      BY <1>0, <2>1, <3>1
    <3> QED
      BY <1>1, <2>1, <3>2 DEF AcceptedCounted
  <2>3. QuarantinedCounted'
    BY <1>1, <2>1 DEF Counts, QuarantinedCounted
  <2> QED
    BY <2>2, <2>3 DEF Counts
<1>3. CASE Quarantine
  <2>1. /\ pc = "quarantine" /\ accepted' = accepted
        /\ \/ pc' \in {"halted", "next"} /\ quarantined' = quarantined \o divert
           \/ /\ pc' \in {"halted", "next"} /\ quarantined' = quarantined
              /\ divert = <<>> \/ "quarantined" \notin request.sinks
           \/ pc' = "done" /\ err' = "quarantine"
    BY <1>3 DEF Quarantine, SendBatch, GoTo, Return, AfterBatch
  <2>2. QuarantinedCounted'
    <3>1. "quarantined" \in request.sinks => Len(quarantined) + Len(divert) = summary.quarantined
      BY <2>1 DEF Counts, QuarantinedCounted
    <3>2. "quarantined" \in request.sinks /\ pc' # "done" => Len(quarantined') = summary.quarantined
      BY <1>0, <2>1, <3>1
    <3> QED
      BY <1>1, <2>1, <3>2 DEF QuarantinedCounted
  <2>3. AcceptedCounted'
    BY <1>1, <2>1 DEF Counts, AcceptedCounted
  <2> QED
    BY <2>2, <2>3 DEF Counts
<1> QED
  BY <1>2, <1>3

LEMMA NextCounts == Inv /\ Counts /\ [ArrowNext]_arrowVars => Counts'
<1> SUFFICES ASSUME Inv, Counts, [ArrowNext]_arrowVars PROVE Counts'
  OBVIOUS
<1>1. CASE GateStep
  BY <1>1, CountsQuiet, CountsReport, CountsTally, CountsSink DEF GateStep
<1>2. CASE ~GateStep
  <2>1. UNCHANGED <<request, accepted, quarantined, keep, divert, pc, err, summary>>
    BY <1>2 DEF ArrowNext, Encode, OpenFails, Open, CancelGate, Cancel, Close, CloseWriter, Finished,
                arrowVars, vars, slices, outputs
  <2> QED
    BY <2>1, CountsStand
<1> QED
  BY <1>1, <1>2

\* RunGate's summary counts the rows of its outputs whenever it returns no error.
THEOREM StreamsAlwaysComplete == ArrowSpec => []StreamsComplete
<1>1. Inv /\ Counts => StreamsComplete
  <2> SUFFICES ASSUME Inv, Counts, stage = "returned", result = ""
               PROVE  /\ \A s \in Outputs : writers[s].state \in {"none", "closed"}
                      /\ "accepted" \in request.sinks =>
                           Len(writers["accepted"].rows) = summary.cleared
                      /\ "quarantined" \in request.sinks =>
                           Len(writers["quarantined"].rows) = summary.quarantined
    BY DEF StreamsComplete
  <2>1. pc = "done" /\ err = ""
    BY DEF Inv, Staged
  <2>2. \A s \in Outputs : writers[s].state \in {"none", "closed"}
    BY DEF Inv, Closing, Outputs
  <2>3. /\ Len(writers["accepted"].rows) = Len(accepted)
        /\ Len(writers["quarantined"].rows) = Len(quarantined)
    BY RowsCounted DEF Outputs, Delivered
  <2> QED
    BY <2>1, <2>2, <2>3 DEF Counts, AcceptedCounted, QuarantinedCounted
<1>2. ArrowSpec => [](Inv /\ Counts)
  BY InitInv, InitCounts, NextInv, NextCounts, PTL DEF ArrowSpec
<1> QED
  BY <1>1, <1>2, PTL

(***************************************************************************)
(* What a host encodes                                                      *)
(***************************************************************************)
LEMMA InitOneBatch == ArrowInit => OneBatch
BY DEF ArrowInit, OneBatch

LEMMA EncodingStands == hosted' = hosted => Encoded(hosted)' = Encoded(hosted)
BY DEF Encoded, Appended, KindsOf

\* A step that reads and writes nothing.
LEMMA OneBatchStands ==
  ASSUME OneBatch, UNCHANGED <<hosted, input, batch, accepted, quarantined>>,
         \A s \in Outputs : /\ writers'[s].kinds = writers[s].kinds
                            /\ writers'[s].state = "none" <=> writers[s].state = "none",
         pc' \in {"record", "report", "accept"} => pc \in {"record", "report", "accept"},
         pc' = "quarantine" => pc \in {"record", "report", "accept", "quarantine"}
  PROVE  OneBatch'
<1> SUFFICES ASSUME hosted # <<>> PROVE OneBatch'
  BY DEF OneBatch
<1>1. Schema' = Schema /\ Encoded(hosted)' = Encoded(hosted)
  BY SchemaStands, EncodingStands
<1>2. HostsLines' /\ HostsBatch'
  BY <1>1 DEF OneBatch, HostsLines, HostsBatch
<1>3. Unopened'
  BY DEF OneBatch, Unopened, Outputs
<1>4. \A s \in Outputs : KindsKept(s)'
  BY <1>1 DEF OneBatch, KindsKept, Delivered, Cell
<1> QED
  BY <1>2, <1>3, <1>4 DEF OneBatch

LEMMA OneBatchQuiet ==
  ASSUME Inv, OneBatch, GateStep, UNCHANGED writers,
         \/ Reject \/ Begin \/ NextCancelled \/ NextFailed \/ Conclude \/ ReturnSummary
         \/ Report \/ Tally \/ ReportFinal
  PROVE  OneBatch'
<1>1. /\ UNCHANGED <<input, batch, accepted, quarantined>>
      /\ \/ pc' \in {"done", "next", "final"}
         \/ pc = "report" /\ pc' \in {"report", "accept", "record"}
  BY DEF Reject, Begin, NextCancelled, NextFailed, Conclude, ReturnSummary, Report, Tally, ReportFinal,
         PublishEvent, AfterRecord, Return, GoTo, outputs
<1>2. hosted' = hosted
  BY GateFrame
<1> QED
  BY <1>1, <1>2, OneBatchStands

LEMMA OneBatchRead ==
  ASSUME Inv, OneBatch, GateStep, UNCHANGED writers, NEW b \in Feed, NextBatch(b)
  PROVE  OneBatch'
<1> SUFFICES ASSUME hosted # <<>> PROVE OneBatch'
  BY GateFrame DEF OneBatch
<1>1. UNCHANGED hosted /\ result # "panic"
  BY GateFrame
<1>2. /\ batch' = b /\ UNCHANGED <<input, accepted, quarantined>>
  BY DEF NextBatch, outputs
<1>3. /\ input = <<>> /\ DOMAIN b = DOMAIN hosted /\ b \in Seq(Nat)
      /\ \A k \in DOMAIN b : Member[b[k]] = Encoded(hosted)[k]
  BY <1>1, Fed DEF Inv
<1>4. Encoded(hosted)' = Encoded(hosted)
  BY <1>1, EncodingStands
<1>5. Len(input') = 0 /\ \A k \in DOMAIN b : 0 + k = k
  BY <1>2, <1>3
<1>6. HostsBatch'
  BY <1>1, <1>2, <1>3, <1>4, <1>5 DEF HostsBatch
<1>7. HostsLines'
  BY <1>1, <1>2, <1>4 DEF OneBatch, HostsLines
<1>8. \A s \in Outputs : writers'[s].state = "none"
  BY <1>3 DEF OneBatch, Unopened, Outputs
<1> QED
  BY <1>6, <1>7, <1>8 DEF OneBatch, Unopened, KindsKept, Outputs

LEMMA OneBatchCheck ==
  ASSUME Inv, OneBatch, GateStep, UNCHANGED writers, CheckRecord
  PROVE  OneBatch'
<1> SUFFICES ASSUME hosted # <<>> PROVE OneBatch'
  BY GateFrame DEF OneBatch
<1> DEFINE line == [ok |-> TRUE, whole |-> TRUE, rec |-> Head(batch)]
<1>1. hosted' = hosted /\ Encoded(hosted)' = Encoded(hosted)
  BY GateFrame, EncodingStands
<1>2. pc = "record" /\ input' = Append(input, line) /\ batch' = Tail(batch)
  BY DEF CheckRecord
<1>3. batch \in Seq(Nat) /\ batch # <<>> /\ input \in Seq(LineType)
  BY <1>2 DEF Inv, Batched, Sourced
<1>4. /\ Head(batch) = batch[1] /\ 1 \in DOMAIN batch
      /\ \A k \in DOMAIN Tail(batch) : k \in Nat /\ k + 1 \in DOMAIN batch /\ Tail(batch)[k] = batch[k + 1]
  BY <1>3
<1>5. line.rec = batch[1] /\ Len(input) \in Nat
  BY <1>3, <1>4
<1> HIDE DEF line
<1>6. /\ Len(input') = Len(input) + 1
      /\ \A n \in DOMAIN input' : \/ n = Len(input) + 1 /\ input'[n] = line
                                  \/ n \in DOMAIN input /\ input'[n] = input[n]
  BY <1>2, <1>3
<1>7. HostsLines /\ HostsBatch
  BY DEF OneBatch
<1>8. HostsLines'
  <2>1. Len(input) + 1 \in DOMAIN hosted /\ Member[line.rec] = Encoded(hosted)[Len(input) + 1]
    BY <1>4, <1>5, <1>7 DEF HostsBatch
  <2> QED
    BY <1>1, <1>6, <1>7, <2>1 DEF HostsLines
<1>9. HostsBatch'
  <2> SUFFICES ASSUME NEW k \in DOMAIN Tail(batch)
               PROVE  /\ Len(input') + k \in DOMAIN hosted
                      /\ Member[Tail(batch)[k]] = Encoded(hosted)[Len(input') + k]
    BY <1>1, <1>2 DEF HostsBatch
  <2>1. k + 1 \in DOMAIN batch /\ Tail(batch)[k] = batch[k + 1] /\ Len(input') + k = Len(input) + (k + 1)
    BY <1>4, <1>5, <1>6
  <2> QED
    BY <1>7, <2>1 DEF HostsBatch
<1>10. \A s \in Outputs : writers'[s].state = "none"
  BY <1>2 DEF OneBatch, Unopened, Outputs
<1> QED
  BY <1>8, <1>9, <1>10 DEF OneBatch, Unopened, KindsKept, Outputs

\* A sink whose writer has not been opened writes all its rows in one call.
LEMMA WrittenOnce ==
  ASSUME Inv, OneBatch, hosted # <<>>, NEW s \in Outputs, NEW slice \in Seq(DOMAIN input), NEW log,
         WriteBatch(s, slice, log), UNCHANGED <<hosted, input, batch>>,
         \A t \in Outputs \ {s} : Delivered(t)' = Delivered(t),
         \/ /\ slice # <<>> /\ s \in request.sinks /\ err' = "" /\ Delivered(s)' = Delivered(s) \o slice
         \/ /\ slice # <<>> /\ s \in request.sinks /\ err' # "" /\ Delivered(s)' = Delivered(s)
         \/ /\ ~(slice # <<>> /\ s \in request.sinks) /\ Delivered(s)' = Delivered(s),
         writers[s].state = "none"
  PROVE  /\ HostsLines' /\ HostsBatch' /\ \A t \in Outputs : KindsKept(t)'
         /\ \A t \in Outputs \ {s} : writers'[t] = writers[t]
         /\ input = <<>> => writers'[s].state = "none"
<1> DEFINE kinds == KindsOf(RowsOf(slice))
<1>0. writers = [t \in Outputs |-> writers[t]] /\ Delivered(s) = <<>>
  BY DEF Inv, Written
<1>1. Schema' = Schema /\ Encoded(hosted)' = Encoded(hosted)
  BY SchemaStands, EncodingStands
<1>2. HostsLines' /\ HostsBatch'
  BY <1>1 DEF OneBatch, HostsLines, HostsBatch
<1>3. input = <<>> => slice = <<>>
  BY Nothing, NothingToTake
<1>4. /\ \A t \in Outputs \ {s} : writers'[t] = writers[t]
      /\ \/ writers'[s] = writers[s]
         \/ /\ writers'[s].kinds = kinds /\ slice # <<>>
            /\ err' = "" \/ Delivered(s)' = Delivered(s)
  <2>1. Opened(writers[s], slice) = [state |-> "open", kinds |-> kinds, rows |-> writers[s].rows]
    BY DEF Opened
  <2>2. Opened(writers[s], slice).kinds = kinds
    <3> DEFINE v == Opened(writers[s], slice)
               rows == writers[s].rows
    <3>1. v = [state |-> "open", kinds |-> kinds, rows |-> rows]
      BY <2>1
    <3> HIDE DEF v, kinds, rows
    <3>2. v.kinds = kinds
      BY <3>1
    <3> QED
      BY <3>2 DEF v, kinds
  <2>3. Wrote(writers[s], slice).kinds = kinds
    <3>1. Wrote(writers[s], slice).kinds = Opened(writers[s], slice).kinds
      BY DEF Wrote
    <3> QED
      BY <2>2, <3>1
  <2>4. CASE UNCHANGED writers
    BY <2>4
  <2>5. CASE slice # <<>> /\ err' # "" /\ writers' = [writers EXCEPT ![s] = Opened(@, slice)]
    <3>1. writers' = [writers EXCEPT ![s] = Opened(writers[s], slice)]
      BY <2>5
    <3>2. writers'[s] = Opened(writers[s], slice) /\ \A t \in Outputs \ {s} : writers'[t] = writers[t]
      BY <1>0, <3>1, WriterReplaced
    <3> QED
      BY <2>2, <2>5, <3>2
  <2>6. CASE slice # <<>> /\ err' = "" /\ writers' = [writers EXCEPT ![s] = Wrote(@, slice)]
    <3>1. writers' = [writers EXCEPT ![s] = Wrote(writers[s], slice)]
      BY <2>6
    <3>2. writers'[s] = Wrote(writers[s], slice) /\ \A t \in Outputs \ {s} : writers'[t] = writers[t]
      BY <1>0, <3>1, WriterReplaced
    <3> QED
      BY <2>3, <2>6, <3>2
  <2> QED
    BY <2>4, <2>5, <2>6 DEF WriteBatch
<1>5. \A t \in Outputs \ {s} : KindsKept(t)'
  <2> TAKE t \in Outputs \ {s}
  <2>1. writers'[t] = writers[t] /\ Delivered(t)' = Delivered(t) /\ KindsKept(t)
    BY <1>4 DEF OneBatch
  <2> QED
    BY <1>1, <2>1 DEF KindsKept, Cell
<1>6. KindsKept(s)'
  <2> SUFFICES ASSUME writers'[s].kinds = kinds, NEW k \in DOMAIN Delivered(s)', NEW c \in Columns,
                      Cell(Delivered(s)'[k], c).t # "nil"
               PROVE  kinds[c] = Schema[c]
    <3>1. CASE writers'[s].kinds = kinds
      BY <1>1, <3>1 DEF KindsKept, Cell
    <3>2. CASE writers'[s] = writers[s]
      BY <3>2 DEF KindsKept
    <3> QED
      BY <1>4, <3>1, <3>2
  <2>1. DOMAIN <<>> = {} /\ <<>> \o slice = slice
    BY Nothing, AfterNothing
  <2>2. Delivered(s)' = slice
    BY <1>0, <2>1
  <2> QED
    BY <2>2, KindsFromInput
<1> QED
  BY <1>2, <1>3, <1>4, <1>5, <1>6

LEMMA OneBatchAccept ==
  ASSUME Inv, OneBatch, GateStep, Accept, WriteBatch("accepted", keep, accepted)
  PROVE  OneBatch'
<1> SUFFICES ASSUME hosted # <<>> PROVE OneBatch'
  BY GateFrame DEF OneBatch
<1> DEFINE s == "accepted"
<1>1. UNCHANGED hosted /\ err = ""
  BY GateFrame
<1>2. /\ pc = "accept" /\ UNCHANGED <<batch, input, quarantined>> /\ pc' \in {"quarantine", "done"}
      /\ \/ keep # <<>> /\ s \in request.sinks /\ accepted' = accepted \o keep /\ err' = ""
         \/ keep # <<>> /\ s \in request.sinks /\ accepted' = accepted /\ err' # ""
         \/ ~(keep # <<>> /\ s \in request.sinks) /\ accepted' = accepted
  BY <1>1 DEF Accept, SendBatch, GoTo, Return
<1>3. s \in Outputs /\ keep \in Seq(DOMAIN input) /\ Delivered(s) = accepted /\ Delivered(s)' = accepted'
      /\ \A t \in Outputs \ {s} : Delivered(t)' = Delivered(t)
  BY <1>2 DEF Outputs, Delivered, Inv, Routed
<1>4. writers[s].state = "none" /\ writers["quarantined"].state = "none"
  BY <1>2 DEF OneBatch, Unopened
<1>5. /\ HostsLines' /\ HostsBatch' /\ \A t \in Outputs : KindsKept(t)'
      /\ \A t \in Outputs \ {s} : writers'[t] = writers[t]
      /\ input = <<>> => writers'[s].state = "none"
  BY <1>1, <1>2, <1>3, <1>4, WrittenOnce
<1>6. writers'["quarantined"] = writers["quarantined"]
  BY <1>5 DEF Outputs
<1>7. Unopened'
  BY <1>2, <1>4, <1>5, <1>6 DEF Unopened
<1> QED
  BY <1>5, <1>7 DEF OneBatch

LEMMA OneBatchQuarantine ==
  ASSUME Inv, OneBatch, GateStep, Quarantine, WriteBatch("quarantined", divert, quarantined)
  PROVE  OneBatch'
<1> SUFFICES ASSUME hosted # <<>> PROVE OneBatch'
  BY GateFrame DEF OneBatch
<1> DEFINE s == "quarantined"
<1>1. UNCHANGED hosted /\ err = ""
  BY GateFrame
<1>2. /\ pc = "quarantine" /\ UNCHANGED <<batch, input, accepted>> /\ pc' \in {"next", "halted", "done"}
      /\ \/ divert # <<>> /\ s \in request.sinks /\ quarantined' = quarantined \o divert /\ err' = ""
         \/ divert # <<>> /\ s \in request.sinks /\ quarantined' = quarantined /\ err' # ""
         \/ ~(divert # <<>> /\ s \in request.sinks) /\ quarantined' = quarantined
  BY <1>1 DEF Quarantine, SendBatch, GoTo, Return, AfterBatch
<1>3. s \in Outputs /\ divert \in Seq(DOMAIN input) /\ Delivered(s) = quarantined
      /\ Delivered(s)' = quarantined' /\ \A t \in Outputs \ {s} : Delivered(t)' = Delivered(t)
  BY <1>2 DEF Outputs, Delivered, Inv, Routed
<1>4. writers[s].state = "none" /\ (input = <<>> => writers["accepted"].state = "none")
  BY <1>2 DEF OneBatch, Unopened
<1>5. /\ HostsLines' /\ HostsBatch' /\ \A t \in Outputs : KindsKept(t)'
      /\ \A t \in Outputs \ {s} : writers'[t] = writers[t]
      /\ input = <<>> => writers'[s].state = "none"
  BY <1>1, <1>2, <1>3, <1>4, WrittenOnce
<1>6. writers'["accepted"] = writers["accepted"]
  BY <1>5 DEF Outputs
<1>7. Unopened'
  BY <1>2, <1>4, <1>5, <1>6 DEF Unopened
<1> QED
  BY <1>5, <1>7 DEF OneBatch

LEMMA OneBatchEncode ==
  ASSUME Inv, NEW n \in 1..MaxBatch, NEW rows \in [1..n -> Hosted], Encode(rows)
  PROVE  OneBatch'
<1>1. Untouched /\ UNCHANGED <<input, batch, writers>>
  BY DEF Inv, Staged, Encode, vars
<1>2. input' = <<>> /\ batch' = <<>> /\ \A s \in Outputs : writers'[s].state = "none"
  BY <1>1 DEF Untouched
<1> QED
  BY <1>2, Nothing DEF OneBatch, HostsLines, HostsBatch, Unopened, KindsKept, Outputs

LEMMA OneBatchClose ==
  ASSUME Inv, OneBatch, CloseWriter("accepted", "quarantined") \/ CloseWriter("quarantined", "returned")
  PROVE  OneBatch'
<1>1. PICK s \in Outputs : /\ UNCHANGED <<vars, hosted>>
                           /\ \/ UNCHANGED writers
                              \/ \E x \in {"closed", "failed"} :
                                   writers[s].state = "open" /\ writers' = [writers EXCEPT ![s].state = x]
  BY DEF CloseWriter, Outputs
<1>2. UNCHANGED <<input, batch, accepted, quarantined, pc>>
  BY <1>1 DEF vars
<1>3. \A t \in Outputs : /\ writers'[t].kinds = writers[t].kinds
                         /\ writers'[t].state = "none" <=> writers[t].state = "none"
  <2>1. CASE UNCHANGED writers
    BY <2>1
  <2>2. ASSUME NEW x \in {"closed", "failed"}, writers[s].state = "open",
               writers' = [writers EXCEPT ![s].state = x]
        PROVE  \A t \in Outputs : /\ writers'[t].kinds = writers[t].kinds
                                  /\ writers'[t].state = "none" <=> writers[t].state = "none"
    <3>1. /\ writers'[s] = [state |-> x, kinds |-> writers[s].kinds, rows |-> writers[s].rows]
          /\ \A t \in Outputs \ {s} : writers'[t] = writers[t]
      BY <2>2, StateReplaced DEF Inv
    <3> QED
      BY <2>2, <3>1
  <2> QED
    BY <1>1, <2>1, <2>2
<1> QED
  BY <1>1, <1>2, <1>3, OneBatchStands

LEMMA NextOneBatch == Inv /\ OneBatch /\ [ArrowNext]_arrowVars => OneBatch'
<1> SUFFICES ASSUME Inv, OneBatch, [ArrowNext]_arrowVars PROVE OneBatch'
  OBVIOUS
<1>1. CASE GateStep
  BY <1>1, OneBatchQuiet, OneBatchRead, OneBatchCheck, OneBatchAccept, OneBatchQuarantine DEF GateStep
<1>2. CASE \E n \in 1..MaxBatch : \E rows \in [1..n -> Hosted] : Encode(rows)
  BY <1>2, OneBatchEncode
<1>3. CASE OpenFails \/ Open \/ Close \/ CancelGate \/ Finished \/ UNCHANGED arrowVars
  <2>1. UNCHANGED <<hosted, input, batch, accepted, quarantined, pc, writers>>
    BY <1>3 DEF OpenFails, Open, Close, CancelGate, Cancel, Finished, arrowVars, vars, outputs
  <2> QED
    BY <2>1, OneBatchStands
<1>4. CASE CloseWriter("accepted", "quarantined") \/ CloseWriter("quarantined", "returned")
  BY <1>4, OneBatchClose
<1> QED
  BY <1>1, <1>2, <1>3, <1>4 DEF ArrowNext

\* In a uniform column Encode writes what it is given.
LEMMA UniformEncoded ==
  ASSUME Inv, hosted # <<>>, NEW c \in Columns, Uniform(hosted, c), NEW n \in DOMAIN hosted
  PROVE  Encoded(hosted)[n][c] = hosted[n][c]
<1> DEFINE x == hosted[n][c]
<1>1. /\ DOMAIN hosted \subseteq Nat
      /\ \A k \in DOMAIN hosted : hosted[k][c] \in ScalarsUpTo(2 * MaxInt64 + 1)
  BY HostedRows DEF Inv
<1>2. Schema = KindsOf(hosted) /\ Schema[c] \in ColumnKinds
  BY SchemaHolds DEF Schema, Inv
<1>3. Encoded(hosted)[n][c] = Converted(Schema[c], x)
  BY <1>2 DEF Encoded, Appended
<1>4. CASE x.t = "nil"
  BY <1>3, <1>4 DEF Converted
<1>5. CASE x.t # "nil"
  <2>1. PICK j \in DOMAIN hosted : hosted[j][c].t # "nil" /\ Schema[c] = ValueKind(hosted[j][c])
    BY <1>1, <1>2, <1>5, KindsOfRows
  <2>2. ValueKind(x) = Schema[c] /\ (x.t = "int" => x.v <= 2 * MaxInt64)
    BY <1>5, <2>1 DEF Uniform
  <2>3. x \in ScalarsUpTo(MaxInt64)
    BY <1>1, <2>2 DEF ScalarsUpTo
  <2> QED
    BY <1>2, <1>3, <2>2, <2>3, ConvertedKeeps DEF Fits
<1> QED
  BY <1>4, <1>5

\* transport/arrow: what a host encodes in uniform columns it decodes from the outputs,
\* identifiers past 2^53 included, whatever the rules did to its records.
THEOREM HostedAlwaysSurvive == ArrowSpec => []HostedSurvive
<1>1. Inv /\ OneBatch => HostedSurvive
  <2> SUFFICES ASSUME Inv, OneBatch, hosted # <<>>, \A c \in Columns : Uniform(hosted, c), NEW s \in Outputs,
                      NEW rows \in Decoded(writers[s]), NEW k \in DOMAIN rows
               PROVE  rows[k] = hosted[Delivered(s)[k]]
    BY DEF HostedSurvive
  <2> DEFINE w == writers[s]
             sent == Delivered(s)
             n == sent[k]
  <2>1. w.state # "none" /\ rows = w.rows
    BY DEF Decoded
  <2>2. w.rows = Appended(w.kinds, RowsOf(sent)) /\ sent \in Seq(DOMAIN input)
    BY <2>1 DEF Inv, Written, Routed, Delivered
  <2>3. w.rows = [j \in DOMAIN sent |-> RowOf(w.kinds, sent[j])]
    BY <2>2, RowsAppended
  <2>4. k \in DOMAIN sent /\ rows[k] = RowOf(w.kinds, n) /\ n \in DOMAIN input
    BY <2>1, <2>2, <2>3
  <2>5. n \in DOMAIN hosted /\ Member[input[n].rec] = Encoded(hosted)[n]
    BY <2>4 DEF OneBatch, HostsLines
  <2>6. ASSUME NEW c \in Columns
        PROVE  Converted(w.kinds[c], Cell(n, c)) = hosted[n][c]
    <3>1. Cell(n, c) = hosted[n][c]
      BY <2>5, UniformEncoded DEF Cell
    <3>2. Schema[c] \in ColumnKinds /\ Fits(Schema[c], Cell(n, c))
      BY <2>4, SchemaHolds DEF Inv, Sourced, FromInput, Cell
    <3>3. Cell(n, c).t # "nil" => w.kinds[c] = Schema[c]
      BY <2>1, <2>4 DEF OneBatch, KindsKept
    <3>4. CASE Cell(n, c).t = "nil"
      BY <3>1, <3>4 DEF Converted
    <3>5. CASE Cell(n, c).t # "nil"
      BY <3>1, <3>2, <3>3, <3>5, ConvertedKeeps
    <3> QED
      BY <3>4, <3>5
  <2>7. RowOf(w.kinds, n) = [c \in Columns |-> hosted[n][c]]
    BY <2>6 DEF RowOf
  <2>8. hosted[n] = [c \in Columns |-> hosted[n][c]]
    BY <2>5, HostedRows DEF Inv
  <2> QED
    BY <2>4, <2>7, <2>8
<1>2. ArrowSpec => [](Inv /\ OneBatch)
  BY InitInv, InitOneBatch, NextInv, NextOneBatch, PTL DEF ArrowSpec
<1> QED
  BY <1>1, <1>2, PTL
=============================================================================
