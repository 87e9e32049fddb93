------------------------------ MODULE BatchGate ------------------------------
(***************************************************************************)
(* brokoli.RunBatches (adapter/brokoli/batch.go): the same gate over a batch  *)
(* transport. Records arrive in batches of any size, every record of a batch  *)
(* is evaluated and reported at once, and only then do two sink calls carry    *)
(* the accepted and the quarantined records of the batch. A batch is never     *)
(* malformed: the source decodes it. input is the history of the records       *)
(* evaluated, so summary.Total is Len(input).                                *)
(***************************************************************************)
EXTENDS Reporting

CONSTANTS
  Requests,    \* the requests a host may make
  Record,      \* the records a source may deliver
  MaxBatch,    \* bound on the records of a batch
  MaxRecords   \* bound on the records of a source

Sinks == {"accepted", "quarantined", "evidence"}

RequestType == [contract : Contracts, source : BOOLEAN, sinks : SUBSET Sinks]

ASSUME RequestsAssumption == Requests \subseteq RequestType
ASSUME RecordAssumption == Record \subseteq Nat
ASSUME BoundsAssumption == MaxBatch \in Nat /\ MaxRecords \in Nat

VARIABLES
  request,      \* brokoli.BatchRequest
  pc, err,      \* where RunBatches is, and the error it returns
  cancelled,    \* ctx.Err() # nil
  batch,        \* the records of the current batch not evaluated yet
  input,        \* the records evaluated so far
  seen, count,  \* the StreamChecker
  flagged, pending,
  summary,
  keep, divert, \* the local slices accepted and quarantined, as line numbers
  accepted, quarantined, evidence   \* what the sinks got, in order

vars == <<request, pc, err, cancelled, batch, input, seen, count, flagged,
          pending, summary, keep, divert, accepted, quarantined, evidence>>

checker == <<seen, count>>
slices == <<keep, divert>>
outputs == <<accepted, quarantined, evidence>>

rules == request.contract.rules

Init ==
  /\ request \in Requests
  /\ pc = "start" /\ err = "" /\ cancelled = FALSE
  /\ batch = <<>> /\ input = <<>>
  /\ seen = <<>> /\ count = 0
  /\ flagged = {} /\ pending = {}
  /\ summary = ZeroSummary
  /\ keep = <<>> /\ divert = <<>>
  /\ accepted = <<>> /\ quarantined = <<>> /\ evidence = <<>>

Return(e) == pc' = "done" /\ err' = e

GoTo(where) == pc' = where /\ err' = err

Accepts(q) == Validate(q.contract) /\ q.source

Reject ==
  /\ pc = "start" /\ ~Accepts(request)
  /\ Return("config")
  /\ UNCHANGED <<request, cancelled, batch, input, checker, flagged, pending, summary, slices, outputs>>

Begin ==
  /\ pc = "start" /\ Accepts(request)
  /\ GoTo("next")
  /\ seen' = NoneSeen(rules)
  /\ UNCHANGED <<request, cancelled, batch, input, count, flagged, pending, summary, slices, outputs>>

(***************************************************************************)
(* The loop over batches: the context, then Source.Next                      *)
(***************************************************************************)
NextCancelled ==
  /\ pc = "next" /\ cancelled
  /\ Return("cancelled")
  /\ UNCHANGED <<request, cancelled, batch, input, checker, flagged, pending, summary, slices, outputs>>

\* Where a batch with these records left continues.
AfterRecord(rest, halt) == IF halt \/ rest = <<>> THEN "accept" ELSE "record"

\* Mutated: the slices of the last batch are kept.
NextBatchStaleSlices(b) ==
  /\ pc = "next" /\ ~cancelled /\ Len(input) + Len(b) <= MaxRecords
  /\ batch' = b
  /\ GoTo(AfterRecord(b, FALSE))
  /\ UNCHANGED <<request, cancelled, input, checker, flagged, pending, summary, slices, outputs>>

NextBatch(b) ==
  /\ pc = "next" /\ ~cancelled /\ Len(input) + Len(b) <= MaxRecords
  /\ batch' = b
  /\ keep' = <<>> /\ divert' = <<>>
  /\ GoTo(AfterRecord(b, FALSE))
  /\ UNCHANGED <<request, cancelled, input, checker, flagged, pending, summary, outputs>>

NextFailed ==
  /\ pc = "next" /\ ~cancelled
  /\ Return("read")
  /\ UNCHANGED <<request, cancelled, batch, input, checker, flagged, pending, summary, slices, outputs>>

\* io.EOF, and after a halt: what is left to report of the stream.
Conclude ==
  /\ \/ pc = "next" /\ ~cancelled
     \/ pc = "halted"
  /\ flagged' = IF summary.halted THEN {} ELSE FinalBreaches(rules, count)
  /\ pending' = flagged'
  /\ GoTo("final")
  /\ UNCHANGED <<request, cancelled, batch, input, checker, summary, slices, outputs>>

(***************************************************************************)
(* The loop over a batch's records                                          *)
(***************************************************************************)
CheckRecord ==
  /\ pc = "record"
  /\ LET o == Head(batch) IN
     /\ input' = Append(input, [ok |-> TRUE, whole |-> TRUE, rec |-> o])
     /\ flagged' = Violated(rules, seen, o)
     /\ seen' = Remember(rules, seen, o)
  /\ batch' = Tail(batch)
  /\ count' = count + 1
  /\ pending' = flagged'
  /\ GoTo("report")
  /\ UNCHANGED <<request, cancelled, summary, slices, outputs>>

\* publish, as in NdjsonGate.
PublishEvent(event, where) ==
  \/ /\ EventValid(event)
     /\ evidence' = IF "evidence" \in request.sinks THEN Append(evidence, event) ELSE evidence
     /\ GoTo(where)
  \/ /\ ~EventValid(event)
     /\ evidence' = evidence /\ Return("event")
  \/ /\ "evidence" \in request.sinks
     /\ evidence' = evidence /\ Return("evidence")

Report ==
  /\ pc = "report"
  /\ \E i \in pending :
       /\ IsFirst(rules, i, pending)
       /\ summary' = CountWarning(summary, rules[i])
       /\ pending' = pending \ {i}
       /\ PublishEvent(MakeEvent(request.contract, rules[i], Len(input)), "report")
  /\ UNCHANGED <<request, cancelled, batch, input, checker, flagged, slices, accepted, quarantined>>

\* Every event of the record is out.
\* Mutated: only the enforcement events are.
ReportedBreaches == \A i \in pending : rules[i].action = "warn"

Reported == pending = {}

\* Mutated: the records of a batch after a halt are evaluated too.
TallyPastHalt ==
  /\ pc = "report" /\ Reported
  /\ summary' = [CountRecord(summary, Outcome(rules, flagged)) EXCEPT
                   !.halted = @ \/ ShouldHalt(rules, flagged)]
  /\ keep' = IF Outcome(rules, flagged) = "cleared" THEN Append(keep, Len(input)) ELSE keep
  /\ divert' = IF Outcome(rules, flagged) = "quarantined" THEN Append(divert, Len(input)) ELSE divert
  /\ GoTo(AfterRecord(batch, FALSE))
  /\ UNCHANGED <<request, cancelled, batch, input, checker, flagged, pending, outputs>>

Tally ==
  /\ pc = "report" /\ Reported
  /\ LET outcome == Outcome(rules, flagged) IN
     /\ summary' = [CountRecord(summary, outcome) EXCEPT !.halted = ShouldHalt(rules, flagged)]
     /\ keep' = IF outcome = "cleared" THEN Append(keep, Len(input)) ELSE keep
     /\ divert' = IF outcome = "quarantined" THEN Append(divert, Len(input)) ELSE divert
  /\ GoTo(AfterRecord(batch, ShouldHalt(rules, flagged)))
  /\ UNCHANGED <<request, cancelled, batch, input, checker, flagged, pending, outputs>>

(***************************************************************************)
(* The sinks of a batch: nothing to send makes no call                       *)
(***************************************************************************)
SendBatch(sink, slice, log, log2, where, failure) ==
  LET called == slice # <<>> /\ sink \in request.sinks IN
  \/ called /\ log2 = log \o slice /\ GoTo(where)
  \/ called /\ log2 = log /\ Return(failure)
  \/ ~called /\ log2 = log /\ GoTo(where)

\* Mutated: a batch that halts is sent again.
AfterBatchAgain == IF summary.halted THEN "accept" ELSE "next"

AfterBatch == IF summary.halted THEN "halted" ELSE "next"

\* Mutated: a batch that accepts anything quarantines nothing.
AfterAccept == IF keep # <<>> THEN AfterBatch ELSE "quarantine"

AcceptOrQuarantine ==
  /\ pc = "accept"
  /\ SendBatch("accepted", keep, accepted, accepted', AfterAccept, "accept")
  /\ UNCHANGED <<request, cancelled, batch, input, checker, flagged, pending, summary, slices,
                 quarantined, evidence>>

Accept ==
  /\ pc = "accept"
  /\ SendBatch("accepted", keep, accepted, accepted', "quarantine", "accept")
  /\ UNCHANGED <<request, cancelled, batch, input, checker, flagged, pending, summary, slices,
                 quarantined, evidence>>

Quarantine ==
  /\ pc = "quarantine"
  /\ SendBatch("quarantined", divert, quarantined, quarantined', AfterBatch, "quarantine")
  /\ UNCHANGED <<request, cancelled, batch, input, checker, flagged, pending, summary, slices,
                 accepted, evidence>>

(***************************************************************************)
(* After the loop                                                          *)
(***************************************************************************)
ReportFinal ==
  /\ pc = "final"
  /\ \E i \in pending :
       /\ IsFirst(rules, i, pending)
       /\ summary' = CountFinal(summary, rules[i])
       /\ pending' = pending \ {i}
       /\ PublishEvent(MakeEvent(request.contract, rules[i], FinalLine(Len(input))), "final")
  /\ UNCHANGED <<request, cancelled, batch, input, checker, flagged, slices, accepted, quarantined>>

ReturnSummary ==
  /\ pc = "final" /\ pending = {}
  /\ Return("")
  /\ UNCHANGED <<request, cancelled, batch, input, checker, flagged, pending, summary, slices, outputs>>

Cancel ==
  /\ pc # "done" /\ ~cancelled
  /\ cancelled' = TRUE
  /\ UNCHANGED <<request, pc, err, batch, input, checker, flagged, pending, summary, slices, outputs>>

Returned == pc = "done" /\ UNCHANGED vars

Batches == UNION {[1..n -> Record] : n \in 0..MaxBatch}

\* The program's own steps; Source.Next is one of them.
Run ==
  \/ Reject \/ Begin \/ NextCancelled \/ NextFailed \/ Conclude
  \/ \E b \in Batches : NextBatch(b)
  \/ CheckRecord \/ Report \/ Tally \/ Accept \/ Quarantine
  \/ ReportFinal \/ ReturnSummary

Next == Run \/ Cancel \/ Returned

Spec == Init /\ [][Next]_vars

SourceEnds == pc = "next" /\ (NextCancelled \/ NextFailed \/ Conclude)

\* RunBatches takes its next step, and a source that is asked again and again
\* does not answer with empty batches for ever.
FairSpec == Spec /\ WF_vars(Run) /\ SF_vars(SourceEnds)
=============================================================================
