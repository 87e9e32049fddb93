----------------------------- MODULE NdjsonGate -----------------------------
(***************************************************************************)
(* brokoli.Run (adapter/brokoli/gate.go): one gate over an NDJSON reader.    *)
(*                                                                         *)
(* The steps are the points where something other than the gate acts: the    *)
(* reader that hands over a line, ends or fails; the context, cancelled at   *)
(* any moment; each call of a host sink, which may fail. Everything between   *)
(* two of them is one action. A line is [ok, whole, rec]: whether it parses   *)
(* to a JSON object, whether it is the line the producer wrote (bufio's      *)
(* scanner hands over the unterminated rest of its buffer when the reader     *)
(* fails), and the object. The line counter and summary.Total are            *)
(* Len(input).                                                              *)
(***************************************************************************)
EXTENDS Reporting

CONSTANTS
  Requests,  \* the requests a host may make
  Line,      \* the lines a reader may deliver
  MaxLines   \* bound on the length of the input

Sinks == {"accepted", "quarantined", "evidence"}

RequestType == [contract : Contracts, invalid : STRING, reader : BOOLEAN, sinks : SUBSET Sinks]

ASSUME RequestsAssumption == Requests \subseteq RequestType
ASSUME LineAssumption == Line \subseteq {l \in LineType : l.whole}
ASSUME MaxLinesAssumption == MaxLines \in Nat

VARIABLES
  request,      \* brokoli.Request: the contract, the policy, the reader, the sinks
  pc,           \* where Run is
  err,          \* the error Run returns, "" for nil
  cancelled,    \* ctx.Err() # nil
  input,        \* the lines scanned so far
  broken,       \* the scanner has met a read error
  seen, count,  \* the StreamChecker
  flagged,      \* the rules the current record (or the stream) breaches
  pending,      \* those of them whose events are not published yet
  summary,      \* brokoli.Summary
  accepted, quarantined, evidence   \* what the sinks got, in order

vars == <<request, pc, err, cancelled, input, broken, seen, count, flagged,
          pending, summary, accepted, quarantined, evidence>>

checker == <<seen, count>>
outputs == <<accepted, quarantined, evidence>>

rules == request.contract.rules

Init ==
  /\ request \in Requests
  /\ pc = "start" /\ err = "" /\ cancelled = FALSE
  /\ input = <<>> /\ broken = FALSE
  /\ seen = <<>> /\ count = 0
  /\ flagged = {} /\ pending = {}
  /\ summary = ZeroSummary
  /\ accepted = <<>> /\ quarantined = <<>> /\ evidence = <<>>

(***************************************************************************)
(* Steps shared by the actions                                             *)
(***************************************************************************)
Return(e) == pc' = "done" /\ err' = e

GoTo(where) == pc' = where /\ err' = err

\* A host sink: absent, it does nothing; present, it takes the item or fails.
Send(sink, log, item, log2, where, failure) ==
  \/ sink \notin request.sinks /\ log2 = log /\ GoTo(where)
  \/ sink \in request.sinks /\ log2 = Append(log, item) /\ GoTo(where)
  \/ sink \in request.sinks /\ log2 = log /\ Return(failure)

\* publish: an event that is not valid reaches no sink.
PublishEvent(event, where) ==
  IF EventValid(event)
    THEN Send("evidence", evidence, event, evidence', where, "evidence")
    ELSE evidence' = evidence /\ Return("event")

(***************************************************************************)
(* Before the loop                                                         *)
(***************************************************************************)
Accepts(q) ==
  /\ Validate(q.contract)
  /\ q.reader
  /\ q.invalid \in {"", "fail", "quarantine"}

Reject ==
  /\ pc = "start" /\ ~Accepts(request)
  /\ Return("config")
  /\ UNCHANGED <<request, cancelled, input, broken, checker, flagged, pending, summary, outputs>>

Begin ==
  /\ pc = "start" /\ Accepts(request)
  /\ GoTo("scan")
  /\ seen' = NoneSeen(rules)
  /\ UNCHANGED <<request, cancelled, input, broken, count, flagged, pending, summary, outputs>>

(***************************************************************************)
(* The loop: scanner.Scan() and the first half of the body                  *)
(***************************************************************************)
\* The scanner has given its last token once it has given a fragment.
MayScan == \A n \in DOMAIN input : input[n].whole

\* A reader may fail while complete lines are still buffered: the scanner
\* keeps the error and goes on giving lines.
Scanned(line) ==
  /\ pc = "scan" /\ MayScan /\ ~cancelled /\ Len(input) < MaxLines
  /\ input' = Append(input, line)
  /\ broken' \in {broken, TRUE}

\* A line was scanned, but the context is checked before it is counted.
ScanCancelled ==
  /\ pc = "scan" /\ MayScan /\ cancelled
  /\ Return("cancelled")
  /\ UNCHANGED <<request, cancelled, input, broken, checker, flagged, pending, summary, outputs>>

ScanRecord(line) ==
  /\ line.ok
  /\ Scanned(line)
  /\ count' = count + 1
  /\ flagged' = Violated(rules, seen, line.rec)
  /\ pending' = flagged'
  /\ seen' = Remember(rules, seen, line.rec)
  /\ GoTo("report")
  /\ UNCHANGED <<request, cancelled, summary, outputs>>

ScanMalformed(line) ==
  /\ ~line.ok
  /\ Scanned(line)
  /\ ~line.whole => broken'
  /\ IF request.invalid = "quarantine"
       THEN summary' = [summary EXCEPT !.quarantined = @ + 1] /\ GoTo("divert")
       ELSE summary' = summary /\ Return("parse")
  /\ UNCHANGED <<request, cancelled, checker, flagged, pending, outputs>>

ScanEnd ==
  /\ pc = "scan"
  /\ broken' \in {broken, TRUE}
  /\ GoTo("end")
  /\ UNCHANGED <<request, cancelled, input, checker, flagged, pending, summary, outputs>>

(***************************************************************************)
(* A malformed line under the quarantine policy: the sink, then the event    *)
(***************************************************************************)
Divert ==
  /\ pc = "divert"
  /\ Send("quarantined", quarantined, Len(input), quarantined', "diverted", "quarantine")
  /\ UNCHANGED <<request, cancelled, input, broken, checker, flagged, pending, summary, accepted, evidence>>

ReportDiverted ==
  /\ pc = "diverted"
  /\ PublishEvent(ParseEvent(request.contract, Len(input)), "scan")
  /\ UNCHANGED <<request, cancelled, input, broken, checker, flagged, pending, summary, accepted, quarantined>>

(***************************************************************************)
(* A record: its events in order, then the sink its outcome names            *)
(***************************************************************************)
Report ==
  /\ pc = "report"
  /\ \E i \in pending :
       /\ IsFirst(rules, i, pending)
       /\ summary' = CountWarning(summary, rules[i])
       /\ pending' = pending \ {i}
       /\ PublishEvent(MakeEvent(request.contract, rules[i], Len(input)), "report")
  /\ UNCHANGED <<request, cancelled, input, broken, checker, flagged, accepted, quarantined>>

\* Every event of the record is out.
\* Mutated: only the enforcement events are.
ReportedBreaches == \A i \in pending : rules[i].action = "warn"

Reported == pending = {}

\* Where the loop goes once the record is routed.
AfterRoute == IF ShouldHalt(rules, flagged) THEN "end" ELSE "scan"

\* summary.Halted is set after the sink took the record.
Route ==
  /\ pc = "report" /\ Reported
  /\ LET outcome == Outcome(rules, flagged) IN
     /\ CASE outcome = "cleared" ->
               /\ Send("accepted", accepted, Len(input), accepted', AfterRoute, "accept")
               /\ UNCHANGED quarantined
          [] outcome = "quarantined" ->
               /\ Send("quarantined", quarantined, Len(input), quarantined', AfterRoute, "quarantine")
               /\ UNCHANGED accepted
          [] OTHER -> GoTo(AfterRoute) /\ UNCHANGED <<accepted, quarantined>>
     /\ summary' = [CountRecord(summary, outcome) EXCEPT !.halted = (pc' = "end")]
  /\ UNCHANGED <<request, cancelled, input, broken, checker, flagged, pending, evidence>>

(***************************************************************************)
(* After the loop                                                          *)
(***************************************************************************)
\* Mutated: the loop is entered again after a read error.
ReadRetried ==
  /\ pc = "end" /\ broken
  /\ GoTo("scan")
  /\ UNCHANGED <<request, cancelled, input, broken, checker, flagged, pending, summary, outputs>>

ReadFailed ==
  /\ pc = "end" /\ broken
  /\ Return("read")
  /\ UNCHANGED <<request, cancelled, input, broken, checker, flagged, pending, summary, outputs>>

Finalize ==
  /\ pc = "end" /\ ~broken
  /\ flagged' = IF summary.halted THEN {} ELSE FinalBreaches(rules, count)
  /\ pending' = flagged'
  /\ GoTo("final")
  /\ UNCHANGED <<request, cancelled, input, broken, checker, summary, outputs>>

ReportFinal ==
  /\ pc = "final"
  /\ \E i \in pending :
       /\ IsFirst(rules, i, pending)
       /\ summary' = CountFinal(summary, rules[i])
       /\ pending' = pending \ {i}
       /\ PublishEvent(MakeEvent(request.contract, rules[i], FinalLine(Len(input))), "final")
  /\ UNCHANGED <<request, cancelled, input, broken, checker, flagged, accepted, quarantined>>

ReturnSummary ==
  /\ pc = "final" /\ pending = {}
  /\ Return("")
  /\ UNCHANGED <<request, cancelled, input, broken, checker, flagged, pending, summary, outputs>>

\* The host cancels the context, at any moment.
Cancel ==
  /\ pc # "done" /\ ~cancelled
  /\ cancelled' = TRUE
  /\ UNCHANGED <<request, pc, err, input, broken, checker, flagged, pending, summary, outputs>>

Returned == pc = "done" /\ UNCHANGED vars

Run ==
  \/ Reject \/ Begin
  \/ ScanCancelled \/ ScanEnd
  \/ \E line \in Line : ScanRecord(line)
  \/ \E line \in Line \cup {Fragment} : ScanMalformed(line)
  \/ Divert \/ ReportDiverted
  \/ Report \/ Route
  \/ ReadFailed \/ Finalize \/ ReportFinal \/ ReturnSummary

Next == Run \/ Cancel \/ Returned

Spec == Init /\ [][Next]_vars

\* The gate is sequential code: it takes its next step unless a reader or a
\* sink blocks for ever. Nobody has to cancel.
FairSpec == Spec /\ WF_vars(Run)
=============================================================================
