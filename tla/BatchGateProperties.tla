------------------------- MODULE BatchGateProperties -------------------------
(***************************************************************************)
(* What brokoli.RunBatches must do, and the abstract gate it implements.     *)
(***************************************************************************)
EXTENDS BatchGate

Elems(s) == {s[k] : k \in DOMAIN s}

\* Type correctness of RunBatches' state: what a batch still holds, its slices
\* and the outputs are sequences of records, line numbers and complete events; no
\* event is refused by Event.Validate.
TypeOK ==
  /\ request \in RequestType
  /\ pc \in {"start", "next", "record", "report", "accept", "quarantine", "halted", "final", "done"}
  /\ err \in {"", "config", "cancelled", "read", "evidence", "accept", "quarantine"}
  /\ cancelled \in BOOLEAN
  /\ batch \in Seq(Nat) /\ input \in Seq(LineType) /\ count \in Nat
  /\ flagged \subseteq DOMAIN rules /\ pending \subseteq flagged
  /\ summary \in [cleared : Nat, warnings : Nat, quarantined : Nat, breached : Nat, halted : BOOLEAN]
  /\ keep \in Seq(Nat) /\ divert \in Seq(Nat)
  /\ accepted \in Seq(Nat) /\ quarantined \in Seq(Nat) /\ evidence \in Seq(Event)

Promise == INSTANCE Gate WITH
  request <- [contract |-> request.contract, invalid |-> "fail", sinks |-> request.sinks],
  Requests <- {[contract |-> q.contract, invalid |-> "fail", sinks |-> q.sinks] : q \in Requests},
  Line <- {[ok |-> TRUE, whole |-> TRUE, rec |-> o] : o \in Record},
  accepted <- Elems(accepted),
  quarantined <- Elems(quarantined),
  evidence <- {<<e.line, e.rule>> : e \in Elems(evidence)},
  status <- IF pc # "done" THEN "running"
            ELSE IF err # "" THEN "failed"
            ELSE IF summary.halted THEN "halted" ELSE "completed"

\* RunBatches implements the same abstract gate as Run: how the source cuts the
\* stream into batches changes no verdict, no finding and no routing, and a halt
\* leaves the rest of its batch unread.
RefinesGate == Promise!Spec

\* No record reaches a sink before its own findings and those of every record
\* before it are published, and by the time a batch goes to the sinks the findings
\* of all its records are.
EvidenceFirst ==
  LET published == {<<e.line, e.rule>> : e \in Elems(evidence)} IN
  /\ \A n \in Elems(accepted) \cup Elems(quarantined) : Promise!EvidenceUpTo(n) \subseteq published
  /\ pc \in {"accept", "quarantine"} => Promise!EvidenceUpTo(Len(input)) \subseteq published

\* Between two batches the counters and the sinks tell the same story, the order
\* of the input included.
SummaryAgrees ==
  pc \in {"next", "halted"} =>
    /\ summary.cleared + summary.quarantined + summary.breached = Len(input)
    /\ "accepted" \in request.sinks => Len(accepted) = summary.cleared
    /\ "quarantined" \in request.sinks => Len(quarantined) = summary.quarantined
    /\ \A k, l \in DOMAIN accepted : k < l => accepted[k] < accepted[l]
    /\ \A k, l \in DOMAIN quarantined : k < l => quarantined[k] < quarantined[l]

\* Wherever RunBatches stops, by an error of a sink or of the source or by
\* cancellation, the records missing from the sinks are among the last batch's:
\* a failing accept takes the quarantined records of its own batch with it and
\* no others. Only the last record's findings may be missing.
AtMostOneBatchInFlight ==
  /\ \A n \in (Promise!Sent("accepted", "accept", Len(input)) \ Elems(accepted))
              \cup (Promise!Sent("quarantined", "quarantine", Len(input)) \ Elems(quarantined)) :
       Len(input) - n < MaxBatch
  /\ Promise!EvidenceUpTo(Len(input) - 1) \subseteq {<<e.line, e.rule>> : e \in Elems(evidence)}

\* RunBatches returns once the source ends, fails or is cancelled.
Termination == <>(pc = "done")
=============================================================================
