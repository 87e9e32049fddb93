------------------------------ MODULE ArrowGate ------------------------------
(***************************************************************************)
(* arrow.RunGate (transport/arrow): the batch gate between an Arrow IPC        *)
(* stream and two BatchWriters. The steps of RunBatches are those of           *)
(* BatchGate; this module adds what its sinks do here, the opening of the       *)
(* input and the closing of the writers.                                     *)
(*                                                                         *)
(* A batch of the input holds columns of one type each, and BatchReader gives  *)
(* every row all columns, null ones as nil: a record is an object whose        *)
(* fields are Columns. Only the kind of a column is left of its Arrow type.     *)
(* The input comes from any producer, or from a Go host by Encode; a host        *)
(* reads the outputs with Decode.                                            *)
(***************************************************************************)
EXTENDS BatchGate, FiniteSetsExt

CONSTANTS
  Columns,   \* the names in the input's schema
  Hosted,    \* the rows that a Go host may encode, each a function of its columns
  MaxInt64   \* the last int64; an integer past it is a uint64

ASSUME ColumnsAssumption == \A o \in Record : DOMAIN Member[o] = Columns
ASSUME SourceAssumption == \A q \in Requests : q.source
ASSUME MaxInt64Assumption == MaxInt64 \in Nat

Outputs == {"accepted", "quarantined"}

VARIABLES
  stage,    \* where RunGate is
  result,   \* the error RunGate returns, "" for nil
  writers,  \* per output: its state, the column kinds it fixed, the rows it wrote
  hosted    \* the rows that a host encoded as the input, <<>> for another producer

arrowVars == <<vars, stage, result, writers, hosted>>

(***************************************************************************)
(* Columns of values                                                        *)
(***************************************************************************)
Cell(line, column) == Member[input[line].rec][column]

\* Nulls and scalars, the integers up to a last one.
ScalarsUpTo(last) ==
  {x \in Values : /\ x.t \in {"nil", "bool", "string", "int", "float", "nan", "inf"}
                  /\ x.t = "int" => x.v <= 2 * last}

\* A host's integers may be uint64s.
ASSUME HostedAssumption == Hosted \subseteq [Columns -> ScalarsUpTo(2 * MaxInt64 + 1)]

ValueKind(x) ==
  CASE x.t = "bool"                   -> "bool"
    [] x.t = "int"                    -> "int"
    [] x.t \in {"float", "nan", "inf"} -> "float"
    [] OTHER                          -> "string"

ColumnKinds == {"bool", "int", "float", "string"}

\* valueAt: what a column of a kind gives, null or of that kind. A uint64 past the last
\* int64 is refused.
Fits(kind, x) ==
  /\ x \in ScalarsUpTo(MaxInt64)
  /\ x.t = "nil" \/ ValueKind(x) = kind

ASSUME RowsAssumption ==
  \E kinds \in [Columns -> ColumnKinds] :
    \A o \in Record, c \in Columns : Fits(kinds[c], Member[o][c])

\* Mutated: a column of nulls is a column of numbers.
KindOrInt(column) ==
  LET known == {k \in DOMAIN column : column[k].t # "nil"} IN
  IF known = {} THEN "int" ELSE ValueKind(column[Min(known)])

\* The kind of the first value that is not null, and text if there is none.
Kind(column) ==
  LET known == {k \in DOMAIN column : column[k].t # "nil"} IN
  IF known = {} THEN "string" ELSE ValueKind(column[Min(known)])

\* fmt.Sprint: the texts from 1000 on are those of values.
Printed(x) == V("string", 1000 + x.v)

\* Mutated: an integer is appended by way of float64.
ToInt64Rounded(v) == IF v > 2 * MaxInt64 THEN v - 4 * (MaxInt64 + 1) ELSE Rounded(v)

\* A uint64 past the last int64 wraps.
ToInt64(v) == IF v > 2 * MaxInt64 THEN v - 4 * (MaxInt64 + 1) ELSE v

\* appendValue: a value of another kind is printed in a text column, is 0 in a column of
\* numbers, and stops the program in a column of booleans.
Converted(kind, x) ==
  CASE x.t = "nil" -> x
    [] x.t = "int" /\ kind = "int" -> V("int", ToInt64(x.v))
    [] x.t \notin {"nil", "int"} /\ ValueKind(x) = kind -> x
    [] x.t # "nil" /\ ValueKind(x) # kind /\ kind = "string" -> Printed(x)
    [] x.t # "nil" /\ ValueKind(x) # kind /\ kind = "bool" -> V("panic", 0)
    [] OTHER -> V(kind, 0)

\* The kinds of some rows' columns, and the rows converted to them.
KindsOf(rows) == [c \in Columns |-> Kind([k \in DOMAIN rows |-> rows[k][c]])]

Appended(kinds, rows) == [k \in DOMAIN rows |-> [c \in Columns |-> Converted(kinds[c], rows[k][c])]]

\* Encode writes one batch.
Encoded(rows) == Appended(KindsOf(rows), rows)

\* A value that fits no boolean stops the program.
Panics(rows) == \E k \in DOMAIN rows, c \in Columns : Encoded(rows)[k][c].t = "panic"

\* Every row that Encode writes is an object.
ASSUME NamesAssumption ==
  /\ DOMAIN Member \subseteq Nat
  /\ \A n \in 1..MaxBatch : \A rows \in [1..n -> Hosted] :
       ~Panics(rows) => \A k \in 1..n : \E o \in DOMAIN Member : Member[o] = Encoded(rows)[k]

\* Decode: all rows of a stream, an error if it is empty.
Decoded(w) == IF w.state = "none" THEN {} ELSE {w.rows}

(***************************************************************************)
(* BatchWriter                                                             *)
(***************************************************************************)
RowsOf(slice) == [k \in DOMAIN slice |-> Member[input[slice[k]].rec]]

\* Mutated: every batch fixes the kinds.
OpenedAgain(w, slice) ==
  [state |-> "open", kinds |-> KindsOf(RowsOf(slice)), rows |-> w.rows]

\* The first batch opens the writer and fixes the kinds.
Opened(w, slice) ==
  IF w.state = "none"
    THEN [state |-> "open", kinds |-> KindsOf(RowsOf(slice)), rows |-> w.rows]
    ELSE w

Wrote(w, slice) ==
  LET open == Opened(w, slice) IN
  [state |-> open.state, kinds |-> open.kinds,
   rows |-> open.rows \o Appended(open.kinds, RowsOf(slice))]

(***************************************************************************)
(* RunGate                                                                 *)
(***************************************************************************)
ArrowInit ==
  /\ Init
  /\ stage = "open" /\ result = ""
  /\ writers = [s \in Outputs |-> [state |-> "none", kinds |-> <<>>, rows |-> <<>>]]
  /\ hosted = <<>>

\* A host encodes its rows as the input.
Encode(rows) ==
  /\ stage = "open" /\ hosted = <<>>
  /\ hosted' = rows
  /\ \/ ~Panics(rows) /\ UNCHANGED <<stage, result>>
     \/ Panics(rows) /\ stage' = "returned" /\ result' = "panic"
  /\ UNCHANGED <<vars, writers>>

\* What BatchReader.Next may give: the batches of any producer, or the one that
\* Encode wrote and then the end.
Feed ==
  IF hosted = <<>> THEN Batches
  ELSE IF input = <<>>
    THEN {[k \in DOMAIN hosted |-> CHOOSE o \in DOMAIN Member : Member[o] = Encoded(hosted)[k]]}
  ELSE {}

MayEnd == hosted = <<>> \/ input # <<>>

OpenFails ==
  /\ stage = "open"
  /\ stage' = "returned" /\ result' = "open"
  /\ UNCHANGED <<vars, writers, hosted>>

Open ==
  /\ stage = "open"
  /\ stage' = "gate"
  /\ UNCHANGED <<vars, result, writers, hosted>>

\* A sink of RunBatches that is a writer: called on a cancelled context it does
\* nothing, and if the IPC stream fails it is open all the same.
WriteBatch(s, slice, log) ==
  LET called == slice # <<>> /\ s \in request.sinks IN
  \/ ~called /\ UNCHANGED writers
  \/ called /\ cancelled /\ err' # "" /\ UNCHANGED writers
  \/ called /\ ~cancelled /\ err' # "" /\ writers' = [writers EXCEPT ![s] = Opened(@, slice)]
  \/ called /\ ~cancelled /\ err' = "" /\ writers' = [writers EXCEPT ![s] = Wrote(@, slice)]

\* RunBatches. Its source is open: NextBatch, NextFailed and Conclude are
\* BatchReader.Next.
GateStep ==
  /\ stage = "gate" /\ pc # "done"
  /\ \/ (Reject \/ Begin \/ NextCancelled \/ NextFailed) /\ UNCHANGED writers
     \/ MayEnd /\ Conclude /\ UNCHANGED writers
     \/ \E b \in Feed : NextBatch(b) /\ UNCHANGED writers
     \/ (CheckRecord \/ Report \/ Tally) /\ UNCHANGED writers
     \/ Accept /\ WriteBatch("accepted", keep, accepted)
     \/ Quarantine /\ WriteBatch("quarantined", divert, quarantined)
     \/ (ReportFinal \/ ReturnSummary) /\ UNCHANGED writers
  /\ UNCHANGED <<stage, result, hosted>>

CancelGate ==
  /\ stage = "gate" /\ Cancel
  /\ UNCHANGED <<stage, result, writers, hosted>>

\* Mutated: an error of the gate returns at once.
CloseUnlessFailed ==
  /\ stage = "gate" /\ pc = "done"
  /\ stage' = IF err = "" THEN "accepted" ELSE "returned"
  /\ result' = err
  /\ UNCHANGED <<vars, writers, hosted>>

\* The writers are closed whatever RunBatches returned.
Close ==
  /\ stage = "gate" /\ pc = "done"
  /\ stage' = "accepted"
  /\ result' = err
  /\ UNCHANGED <<vars, writers, hosted>>

\* Mutated: the error is forgotten.
CloseWriterQuiet(s, next) ==
  /\ stage = s
  /\ stage' = next
  /\ writers' = IF writers[s].state = "open"
                   THEN [writers EXCEPT ![s].state = "failed"] ELSE writers
  /\ UNCHANGED <<vars, result, hosted>>

\* closeWriters: a writer that was never opened is passed over, and the first
\* error leaves the rest unclosed. It is returned if RunBatches returned none.
CloseWriter(s, next) ==
  /\ stage = s
  /\ \/ writers[s].state # "open" /\ stage' = next /\ UNCHANGED <<result, writers>>
     \/ /\ writers[s].state = "open" /\ stage' = next
        /\ writers' = [writers EXCEPT ![s].state = "closed"]
        /\ UNCHANGED result
     \/ /\ writers[s].state = "open" /\ stage' = "returned"
        /\ writers' = [writers EXCEPT ![s].state = "failed"]
        /\ result' = IF result = "" THEN "close" ELSE result
  /\ UNCHANGED <<vars, hosted>>

Finished == stage = "returned" /\ UNCHANGED arrowVars

ArrowNext ==
  \/ \E n \in 1..MaxBatch : \E rows \in [1..n -> Hosted] : Encode(rows)
  \/ OpenFails \/ Open \/ GateStep \/ CancelGate \/ Close
  \/ CloseWriter("accepted", "quarantined") \/ CloseWriter("quarantined", "returned")
  \/ Finished

ArrowSpec == ArrowInit /\ [][ArrowNext]_arrowVars
=============================================================================
