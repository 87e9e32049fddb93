------------------------ MODULE NdjsonGateProperties ------------------------
(***************************************************************************)
(* What brokoli.Run must do, and the abstract gate it implements.           *)
(***************************************************************************)
EXTENDS NdjsonGate

Elems(s) == {s[k] : k \in DOMAIN s}

(***************************************************************************)
(* Type correctness of brokoli.Run's state: the counters stay natural        *)
(* numbers, the outputs hold line numbers and complete events, and pending   *)
(* events belong to flagged rules.                                         *)
(***************************************************************************)
ControlType ==
  /\ request \in RequestType
  /\ pc \in {"start", "scan", "divert", "diverted", "report", "end", "final", "done"}
  /\ err \in {"", "config", "cancelled", "parse", "quarantine", "evidence", "event", "accept", "read"}
  /\ cancelled \in BOOLEAN
  /\ broken \in BOOLEAN

CheckerType ==
  /\ input \in Seq(LineType)
  /\ count \in Nat
  /\ flagged \subseteq DOMAIN rules
  /\ pending \subseteq flagged

SummaryType ==
  summary \in [cleared : Nat, warnings : Nat, quarantined : Nat, breached : Nat, halted : BOOLEAN]

OutputType ==
  /\ accepted \in Seq(Nat)
  /\ quarantined \in Seq(Nat)
  /\ evidence \in Seq(Event)

TypeOK == ControlType /\ CheckerType /\ SummaryType /\ OutputType

(***************************************************************************)
(* brokoli.Run implements the abstract gate.                                *)
(***************************************************************************)
Promise == INSTANCE Gate WITH
  Line <- Line \cup {Fragment},
  accepted <- Elems(accepted),
  quarantined <- Elems(quarantined),
  evidence <- {<<e.line, e.rule>> : e \in Elems(evidence)},
  status <- IF pc # "done" THEN "running"
            ELSE IF err # "" THEN "failed"
            ELSE IF summary.halted THEN "halted" ELSE "completed"

\* Every step of Run, sink failures, read errors and cancellation included, is a
\* step the abstract gate may take: verdicts depend on the lines alone, evidence
\* and routing follow them, a halt reads nothing more, the count rules are
\* reported on a complete stream only.
RefinesGate == Promise!Spec

(***************************************************************************)
(* What the accepted output is worth                                        *)
(***************************************************************************)
\* The record of an accepted line has a key under every unique rule that
\* enforces, and no two accepted lines share one, whatever else was read,
\* rejected or quarantined in between.
AcceptedUnique ==
  \A i \in DOMAIN rules :
    IsUnique(rules[i]) /\ rules[i].action # "warn" =>
      /\ \A k \in DOMAIN accepted : KeysOf(rules[i], input[accepted[k]].rec) # {}
      /\ \A k, l \in DOMAIN accepted :
           k # l => KeysOf(rules[i], input[accepted[k]].rec)
                      # KeysOf(rules[i], input[accepted[l]].rec)

(***************************************************************************)
(* Evidence                                                                *)
(***************************************************************************)
\* Rule i is reported before rule j on one line: the rules of the record before
\* the rules of the stream's end, and each in the order of Check.
ReportedBefore(i, j) ==
  IF IsCount(rules[i]) = IsCount(rules[j]) THEN Precedes(rules, i, j) ELSE IsCount(rules[j])

\* Event e may come before event f.
InOrder(e, f) ==
  \/ e.line < f.line
  \/ e.line = f.line /\ ~input[e.line].ok /\ e.rule = InputParse
  \/ e.line = f.line /\ \E i, j \in DOMAIN rules :
        rules[i].id = e.rule /\ rules[j].id = f.rule /\ ReportedBefore(i, j)

\* The evidence stream preserves input order, within a line it follows the order
\* of the checker, and no finding is published twice.
EvidenceInOrder ==
  \A k, l \in DOMAIN evidence : k < l => InOrder(evidence[k], evidence[l])

\* docs/contract-ir.md: "`actually-fine` normalizes a contract before execution ...
\* Rules are sorted by rule ID": two findings of a record that come from rules of
\* one kind are published in the order of the rules' ids.
EvidenceCanonical ==
  \A k, l \in DOMAIN evidence : k < l /\ evidence[k].line = evidence[l].line =>
    \A i, j \in DOMAIN rules :
      /\ rules[i].id = evidence[k].rule /\ rules[j].id = evidence[l].rule
      /\ rules[i].kind = "record" /\ rules[j].kind = "record"
      => rules[i].id <= rules[j].id

\* No record leaves the gate before its findings do: every event of a record is
\* published by the time a sink holds it, even if the next call fails. (A
\* malformed line is the other way round: Divert comes before ReportDiverted.)
EvidenceFirst ==
  \A n \in Elems(accepted) \cup Elems(quarantined) :
    input[n].ok => Promise!EvidenceAt(n) \subseteq {<<e.line, e.rule>> : e \in Elems(evidence)}

\* publish never meets an event that result.Event.Validate refuses: whatever
\* contract Validate admits, its violations make complete events, also when the
\* stream ends before its first line.
EventsValid == err # "event"

(***************************************************************************)
(* The summary                                                             *)
(***************************************************************************)
Events(status) == {k \in DOMAIN evidence : evidence[k].status = status}

\* Between two lines the summary accounts for every line read, exactly once, and
\* its counters are the lengths of what the wired sinks hold.
SummaryAgrees ==
  pc = "scan" \/ (pc = "done" /\ err = "" /\ summary.halted) =>
    /\ summary.cleared + summary.quarantined + summary.breached = Len(input)
    /\ "accepted" \in request.sinks => Len(accepted) = summary.cleared
    /\ "quarantined" \in request.sinks => Len(quarantined) = summary.quarantined
    /\ "evidence" \in request.sinks => Cardinality(Events("warning")) = summary.warnings

\* A run that returns no error exits with Breach exactly when it published an
\* enforcement finding, on a line or on the stream as a whole.
ExitCodeSound ==
  pc = "done" /\ err = "" /\ "evidence" \in request.sinks =>
    (ExitCode(summary) = Breach <=> Events("breach") # {})

(***************************************************************************)
(* Failure                                                                 *)
(***************************************************************************)
\* Wherever Run stops, by an error of a sink or of the reader or by
\* cancellation, only the line in progress may be missing from the outputs.
AtMostOneInFlight ==
  LET n == Len(input) - 1 IN
  /\ Promise!Sent("accepted", "accept", n) \subseteq Elems(accepted)
  /\ Promise!Sent("quarantined", "quarantine", n) \subseteq Elems(quarantined)
  /\ Promise!EvidenceUpTo(n) \subseteq {<<e.line, e.rule>> : e \in Elems(evidence)}

\* Run returns: no combination of absent sinks, failures and verdicts leaves the
\* loop without a way out.
Termination == <>(pc = "done")
=============================================================================
