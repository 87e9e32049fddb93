------------------------- MODULE ArrowGateProperties -------------------------
(***************************************************************************)
(* What arrow.RunGate must do.                                              *)
(***************************************************************************)
EXTENDS ArrowGate

\* The lines that RunBatches handed to the writer of an output.
Delivered(s) == IF s = "accepted" THEN accepted ELSE quarantined

\* A cell is null or of its column's kind; a printed value is text.
CellTyped(kind, x) == x.t = "nil" \/ ValueKind(x) = kind

\* Type correctness of RunGate's state: an Arrow stream has one schema, so every
\* row a writer wrote fits the kinds it fixed with its first batch.
TypeOK ==
  /\ stage \in {"open", "gate", "accepted", "quarantined", "returned"}
  /\ result \in {"", "panic", "open", "close", "config", "cancelled", "read", "evidence", "accept", "quarantine"}
  /\ \A s \in Outputs :
       LET w == writers[s] IN
       /\ w.state \in {"none", "open", "closed", "failed"}
       /\ w.state # "none" => w.kinds \in [Columns -> ColumnKinds]
       /\ \A k \in DOMAIN w.rows : \A c \in Columns : CellTyped(w.kinds[c], w.rows[k][c])

\* transport/arrow: "preserves integer identifiers exactly". Nothing that was
\* delivered is lost or made up: every row is there, in order, every null is null,
\* and every value is the value of its line or its text, never a 0 in its place.
CellsSurvive ==
  \A s \in Outputs :
    /\ Len(writers[s].rows) = Len(Delivered(s))
    /\ \A k \in DOMAIN writers[s].rows : \A c \in Columns :
         LET x == Cell(Delivered(s)[k], c) IN
         \/ writers[s].rows[k][c] = x
         \/ writers[s].kinds[c] = "string" /\ x.t # "string" /\ writers[s].rows[k][c] = Printed(x)

\* A column whose values are of one kind, its integers int64s.
Uniform(rows, c) ==
  \A j, k \in DOMAIN rows :
    LET x == rows[j][c]
        y == rows[k][c]
    IN  /\ x.t = "nil" \/ y.t = "nil" \/ ValueKind(x) = ValueKind(y)
        /\ x.t = "int" => x.v <= 2 * MaxInt64

\* transport/arrow/codec.go: Encode, RunGate and Decode, "preserving identifiers above
\* 2^53 exactly". What a host encodes in uniform columns it decodes from the outputs
\* as it was, each row from the output that the gate sent it to.
HostedSurvive ==
  hosted # <<>> /\ (\A c \in Columns : Uniform(hosted, c)) =>
    \A s \in Outputs : \A rows \in Decoded(writers[s]) : \A k \in DOMAIN rows :
      rows[k] = hosted[Delivered(s)[k]]

\* transport/arrow/gate.go: however RunBatches ended, RunGate closes the writers before
\* it returns. Only a Close of the accepted output that fails leaves the quarantined
\* output without its end, and then RunGate returns an error.
WritersClosed ==
  stage = "returned" /\ result \notin {"open", "panic"} =>
    /\ writers["accepted"].state # "open"
    /\ writers["quarantined"].state = "open" => writers["accepted"].state = "failed" /\ result # ""

\* A RunGate that returns no error leaves every output either empty or a complete
\* stream, with as many rows as the summary counts.
StreamsComplete ==
  stage = "returned" /\ result = "" =>
    /\ \A s \in Outputs : writers[s].state \in {"none", "closed"}
    /\ "accepted" \in request.sinks => Len(writers["accepted"].rows) = summary.cleared
    /\ "quarantined" \in request.sinks => Len(writers["quarantined"].rows) = summary.quarantined

\* transport/arrow/README.md: "It maps Arrow values into the same logical record
\* types used by the engine and preserves integer identifiers exactly". What the
\* outputs hold is what the input held.
ValuesKeepTheirType ==
  \A s \in Outputs : \A k \in DOMAIN writers[s].rows : \A c \in Columns :
    writers[s].rows[k][c] = Cell(Delivered(s)[k], c)
=============================================================================
