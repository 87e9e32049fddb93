-------------------------- MODULE BatchGateProofs --------------------------
(***************************************************************************)
(* Theorems about brokoli.RunBatches for every contract, every source and     *)
(* every way the source cuts its records into batches: its state is well       *)
(* typed, counters and sinks agree between batches, every step is a step of     *)
(* the abstract gate, and evidence leads the records.                        *)
(***************************************************************************)
EXTENDS BatchGateProperties, EngineLemmas

(***************************************************************************)
(* Type correctness                                                        *)
(***************************************************************************)
LEMMA RulesType ==
  ASSUME TypeOK
  PROVE  /\ request.contract \in Contracts
         /\ rules \in Seq(Rules)
<1>1. request.contract \in Contracts
  BY DEF TypeOK, RequestType
<1> QED
  BY <1>1 DEF Contracts, rules

Admitted == pc \notin {"start", "done"} => Accepts(request)

\* Every record evaluated is one that the source delivered.
Records ==
  /\ \A k \in DOMAIN batch : batch[k] \in Record
  /\ \A n \in DOMAIN input : input[n].ok
  /\ pc = "start" => input = <<>>
  /\ pc = "record" => batch # <<>>
  /\ pc = "report" => Len(input) >= 1

Inv == TypeOK /\ Admitted /\ Records

\* While RunBatches is in progress its contract is an admitted one.
LEMMA AdmittedRun ==
  ASSUME Inv, pc \notin {"start", "done"}
  PROVE  /\ request.contract \in Contracts /\ Validate(request.contract)
         /\ Len(input) \in Nat /\ FinalLine(Len(input)) \in Nat \ {0}
         /\ pc = "report" => Len(input) \in Nat \ {0}
         /\ evidence \in Seq(Event)
         /\ pending \subseteq flagged /\ flagged \subseteq DOMAIN request.contract.rules
<1>1. Validate(request.contract)
  BY DEF Inv, Admitted, Accepts
<1>2. Len(input) \in Nat /\ evidence \in Seq(Event)
  <2>1. input \in Seq(LineType) /\ evidence \in Seq(Event)
    BY DEF Inv, TypeOK
  <2> QED
    BY <2>1
<1>3. FinalLine(Len(input)) \in Nat \ {0}
  BY <1>2 DEF FinalLine
<1>4. pc = "report" => Len(input) \in Nat \ {0}
  BY <1>2 DEF Inv, Records
<1>5. pending \subseteq flagged /\ flagged \subseteq DOMAIN request.contract.rules
  BY DEF Inv, TypeOK, rules
<1> QED
  BY <1>1, <1>2, <1>3, <1>4, <1>5, RulesType DEF Inv

LEMMA InitInv == Init => Inv
<1> SUFFICES ASSUME Init PROVE Inv
  OBVIOUS
<1>1. (\A S : <<>> \in Seq(S)) /\ DOMAIN <<>> = {}
  OBVIOUS
<1>2. TypeOK
  BY <1>1, RequestsAssumption DEF Init, TypeOK, ZeroSummary
<1> QED
  BY <1>1, <1>2 DEF Init, Inv, Admitted, Records

\* Actions that move control, take a batch or decide what is left to report.
LEMMA QuietStep ==
  ASSUME Inv,
         Reject \/ Begin \/ NextCancelled \/ NextFailed \/ Conclude \/ ReturnSummary
           \/ Cancel \/ UNCHANGED vars \/ \E b \in Batches : NextBatch(b)
  PROVE  Inv'
<1> USE DEF Inv
<1>1. UNCHANGED <<request, input, summary, accepted, quarantined, evidence>>
  BY DEF Reject, Begin, NextCancelled, NextFailed, Conclude, ReturnSummary, Cancel, vars,
         NextBatch, outputs
<1>2. /\ batch' \in Seq(Nat) /\ \A k \in DOMAIN batch' : batch'[k] \in Record
      /\ keep' \in Seq(Nat) /\ divert' \in Seq(Nat)
      /\ pc' = "record" => batch' # <<>>
  <2>1. CASE \E b \in Batches : NextBatch(b)
    <3>1. PICK b \in Batches : NextBatch(b)
      BY <2>1
    <3>2. b \in Seq(Nat) /\ \A k \in DOMAIN b : b[k] \in Record
      <4>1. PICK n \in Nat : b \in [1..n -> Record]
        BY DEF Batches
      <4>2. b \in [1..n -> Nat]
        BY <4>1, RecordAssumption
      <4> QED
        BY <4>1, <4>2
    <3>3. <<>> \in Seq(Nat)
      OBVIOUS
    <3> QED
      BY <3>1, <3>2, <3>3 DEF NextBatch, AfterRecord, GoTo
  <2>2. CASE Reject \/ Begin \/ NextCancelled \/ NextFailed \/ Conclude \/ ReturnSummary
               \/ Cancel \/ UNCHANGED vars
    BY <2>2 DEF Reject, Begin, NextCancelled, NextFailed, Conclude, ReturnSummary, Cancel, vars,
       slices, Return, GoTo, TypeOK, Records
  <2> QED
    BY <2>1, <2>2
<1>4. /\ pc' \in {"start", "next", "record", "report", "accept", "quarantine", "halted", "final", "done"}
      /\ err' \in {"", "config", "cancelled", "read", "evidence", "accept", "quarantine"}
      /\ cancelled' \in BOOLEAN
  BY DEF TypeOK, Reject, Begin, NextCancelled, NextFailed, Conclude, ReturnSummary, Cancel, vars,
         NextBatch, AfterRecord, Return, GoTo
<1>5. count' \in Nat /\ flagged' \subseteq DOMAIN rules' /\ pending' \subseteq flagged'
  BY DEF TypeOK, Reject, Begin, NextCancelled, NextFailed, Conclude, ReturnSummary, Cancel, vars,
         NextBatch, checker, rules, FinalBreaches
<1>6. TypeOK'
  BY <1>1, <1>2, <1>4, <1>5 DEF TypeOK
<1>7. Admitted'
  BY DEF Admitted, Reject, Begin, NextCancelled, NextFailed, Conclude, ReturnSummary, Cancel, vars,
         NextBatch, Return, GoTo
<1>8. (pc' = "start" => pc = "start") /\ (pc' = "report" => pc = "report")
  BY DEF Reject, Begin, NextCancelled, NextFailed, Conclude, ReturnSummary, Cancel, vars,
         NextBatch, AfterRecord, Return, GoTo
<1>9. Records'
  BY <1>1, <1>2, <1>8 DEF Records
<1> QED
  BY <1>6, <1>7, <1>9

LEMMA CheckStep ==
  ASSUME Inv, CheckRecord
  PROVE  Inv'
<1> USE DEF Inv
<1> DEFINE line == [ok |-> TRUE, whole |-> TRUE, rec |-> Head(batch)]
<1>1. /\ pc = "record" /\ pc' = "report" /\ input' = Append(input, line) /\ batch' = Tail(batch)
      /\ UNCHANGED <<request, err, cancelled, summary, slices, outputs>>
      /\ count' = count + 1 /\ pending' = flagged' /\ flagged' \subseteq DOMAIN rules
  BY DEF CheckRecord, GoTo, Violated
<1>2. batch \in Seq(Nat) /\ batch # <<>> /\ \A k \in DOMAIN batch : batch[k] \in Record
  BY <1>1 DEF TypeOK, Records
<1>3. /\ Head(batch) \in Nat /\ Tail(batch) \in Seq(Nat)
      /\ \A k \in DOMAIN Tail(batch) : k + 1 \in DOMAIN batch /\ Tail(batch)[k] = batch[k + 1]
  BY <1>2
<1>4. line \in LineType /\ line.ok
  BY <1>3 DEF LineType
<1> HIDE DEF line
<1>5. input \in Seq(LineType)
  BY DEF TypeOK
<1>6. /\ input' \in Seq(LineType) /\ Len(input') >= 1
      /\ \A n \in DOMAIN input' : input'[n] = line \/ (n \in DOMAIN input /\ input'[n] = input[n])
  BY <1>1, <1>4, <1>5
<1>7. TypeOK'
  <2>0. count \in Nat /\ rules' = rules
    BY <1>1 DEF TypeOK, rules
  <2>1. count' \in Nat /\ flagged' \subseteq DOMAIN rules' /\ batch' \in Seq(Nat)
    BY <1>1, <1>3, <2>0
  <2> QED
    BY <1>1, <1>6, <2>1 DEF TypeOK, slices, outputs
<1>8. Admitted' /\ Records'
  BY <1>1, <1>2, <1>3, <1>4, <1>6 DEF Admitted, Records
<1> QED
  BY <1>7, <1>8

\* A complete event reaches the sink, is not wanted, or is lost to a failure.
LEMMA Published ==
  ASSUME NEW event, EventValid(event), NEW where, PublishEvent(event, where)
  PROVE  \/ /\ pc' = where /\ err' = err
            /\ "evidence" \in request.sinks /\ evidence' = Append(evidence, event)
         \/ /\ pc' = where /\ err' = err
            /\ "evidence" \notin request.sinks /\ evidence' = evidence
         \/ pc' = "done" /\ err' = "evidence" /\ evidence' = evidence
BY DEF PublishEvent, GoTo, Return

LEMMA ReportStep ==
  ASSUME Inv, Report \/ ReportFinal
  PROVE  Inv'
<1> USE DEF Inv
<1>1. /\ pc \in {"report", "final"} /\ pc' \in {pc, "done"} /\ err' \in {err, "evidence"}
      /\ evidence' \in Seq(Event)
  <2>1. CASE Report
    <3>1. PICK i \in pending : PublishEvent(MakeEvent(request.contract, rules[i], Len(input)), "report")
      BY <2>1 DEF Report
    <3> DEFINE e == MakeEvent(request.contract, rules[i], Len(input))
    <3>2. pc = "report" /\ i \in DOMAIN request.contract.rules /\ Len(input) \in Nat \ {0}
          /\ request.contract \in Contracts /\ Validate(request.contract) /\ evidence \in Seq(Event)
      BY <2>1, AdmittedRun DEF Report
    <3>3. e \in Event /\ EventValid(e) /\ PublishEvent(e, "report")
      BY <3>1, <3>2, MakeEventValid DEF rules
    <3> HIDE DEF e
    <3>4. Append(evidence, e) \in Seq(Event)
      BY <3>2, <3>3
    <3> QED
      BY <3>2, <3>3, <3>4, Published
  <2>2. CASE ReportFinal
    <3>1. PICK i \in pending :
            PublishEvent(MakeEvent(request.contract, rules[i], FinalLine(Len(input))), "final")
      BY <2>2 DEF ReportFinal
    <3> DEFINE e == MakeEvent(request.contract, rules[i], FinalLine(Len(input)))
    <3>2. pc = "final" /\ i \in DOMAIN request.contract.rules /\ FinalLine(Len(input)) \in Nat \ {0}
          /\ request.contract \in Contracts /\ Validate(request.contract) /\ evidence \in Seq(Event)
      BY <2>2, AdmittedRun DEF ReportFinal
    <3>3. e \in Event /\ EventValid(e) /\ PublishEvent(e, "final")
      BY <3>1, <3>2, MakeEventValid DEF rules
    <3> HIDE DEF e
    <3>4. Append(evidence, e) \in Seq(Event)
      BY <3>2, <3>3
    <3> QED
      BY <3>2, <3>3, <3>4, Published
  <2> QED
    BY <2>1, <2>2
<1>2. /\ UNCHANGED <<request, cancelled, batch, input, checker, flagged, slices, accepted, quarantined>>
      /\ \E i \in pending : pending' = pending \ {i}
      /\ \E i : summary' = CountWarning(summary, rules[i]) \/ summary' = CountFinal(summary, rules[i])
  BY DEF Report, ReportFinal
<1>3. summary' \in [cleared : Nat, warnings : Nat, quarantined : Nat, breached : Nat, halted : BOOLEAN]
  <2>1. summary \in Summary
    BY DEF TypeOK, Summary
  <2> QED
    BY <1>2, <2>1, SummaryStays DEF Summary
<1>4. TypeOK'
  BY <1>1, <1>2, <1>3 DEF TypeOK, checker, slices, rules
<1>5. Admitted' /\ Records'
  BY <1>1, <1>2 DEF Admitted, Records
<1> QED
  BY <1>4, <1>5

LEMMA TallyStep ==
  ASSUME Inv, Tally
  PROVE  Inv'
<1> USE DEF Inv
<1> DEFINE outcome == Outcome(rules, flagged)
           halted == ShouldHalt(rules, flagged)
<1>1. /\ pc = "report" /\ UNCHANGED <<request, err, cancelled, batch, input, checker, flagged, pending, outputs>>
      /\ keep' \in {keep, Append(keep, Len(input))} /\ divert' \in {divert, Append(divert, Len(input))}
      /\ pc' \in {"accept", "record"} /\ (pc' = "record" => batch # <<>>)
  BY DEF Tally, GoTo, AfterRecord
<1>2. summary' = Counting(summary, outcome, halted) /\ outcome \in {"cleared", "quarantined", "breached"}
      /\ halted \in BOOLEAN
  BY DEF Tally, Counting, Outcome, ShouldHalt
<1>3. summary \in Summary
  BY DEF TypeOK, Summary
<1> HIDE DEF outcome, halted
<1>4. summary' \in [cleared : Nat, warnings : Nat, quarantined : Nat, breached : Nat, halted : BOOLEAN]
  BY <1>2, <1>3, SummaryStays DEF Summary
<1>5. keep' \in Seq(Nat) /\ divert' \in Seq(Nat)
  <2>0. input \in Seq(LineType)
    BY DEF TypeOK
  <2>1. Len(input) \in Nat
    BY <2>0
  <2>3. keep \in Seq(Nat) /\ divert \in Seq(Nat)
    BY DEF TypeOK
  <2>2. Append(keep, Len(input)) \in Seq(Nat) /\ Append(divert, Len(input)) \in Seq(Nat)
    BY <2>1, <2>3
  <2> QED
    BY <1>1, <2>2, <2>3
<1>6. TypeOK'
  BY <1>1, <1>4, <1>5 DEF TypeOK, checker, outputs, rules
<1>7. Admitted' /\ Records'
  BY <1>1 DEF Admitted, Records
<1> QED
  BY <1>6, <1>7

LEMMA SinkStep ==
  ASSUME Inv, Accept \/ Quarantine
  PROVE  Inv'
<1> USE DEF Inv
<1>1. /\ UNCHANGED <<request, cancelled, batch, input, checker, flagged, pending, summary, slices, evidence>>
      /\ accepted' \in {accepted, accepted \o keep}
      /\ quarantined' \in {quarantined, quarantined \o divert}
      /\ pc \in {"accept", "quarantine"} /\ pc' \in {"quarantine", "next", "halted", "done"}
      /\ err' \in {err, "accept", "quarantine"}
  BY DEF Accept, Quarantine, SendBatch, AfterBatch, GoTo, Return
<1>2. accepted' \in Seq(Nat) /\ quarantined' \in Seq(Nat)
  <2>1. accepted \in Seq(Nat) /\ keep \in Seq(Nat) /\ quarantined \in Seq(Nat) /\ divert \in Seq(Nat)
    BY DEF TypeOK
  <2>2. accepted \o keep \in Seq(Nat) /\ quarantined \o divert \in Seq(Nat)
    BY <2>1
  <2> QED
    BY <1>1, <2>1, <2>2
<1>3. TypeOK'
  BY <1>1, <1>2 DEF TypeOK, checker, slices, rules
<1>4. Admitted' /\ Records'
  BY <1>1 DEF Admitted, Records
<1> QED
  BY <1>3, <1>4

LEMMA NextInv == Inv /\ [Next]_vars => Inv'
<1> SUFFICES ASSUME Inv, [Next]_vars PROVE Inv'
  OBVIOUS
<1> QED
  BY QuietStep, CheckStep, ReportStep, TallyStep, SinkStep DEF Next, Run, Returned

\* brokoli.RunBatches keeps its state well typed, whatever contract, records,
\* batches and sinks the host supplies, and no event is refused by Event.Validate.
THEOREM TypeCorrect == Spec => []TypeOK
<1>1. Inv => TypeOK
  BY DEF Inv
<1> QED
  BY <1>1, InitInv, NextInv, PTL DEF Spec

(***************************************************************************)
(* Accounts                                                                *)
(*                                                                         *)
(* A record is counted once its report is complete; the slices of its batch   *)
(* hold it until the sinks are called, so that between two batches the        *)
(* counters and the sinks agree.                                            *)
(***************************************************************************)
\* The records whose outcome is counted.
Judged == IF pc = "report" THEN Len(input) - 1 ELSE Len(input)

Total == summary.cleared + summary.quarantined + summary.breached

Rising(s, m) ==
  /\ \A k \in DOMAIN s : s[k] <= m
  /\ \A k, l \in DOMAIN s : k < l => s[k] < s[l]

Counted == pc \notin {"final", "done"} => Total = Judged

AcceptedCounted ==
  /\ pc \in {"record", "report", "accept"} =>
       /\ Rising(accepted \o keep, Judged)
       /\ "accepted" \in request.sinks => Len(accepted) + Len(keep) = summary.cleared
  /\ pc \in {"start", "next", "quarantine", "halted"} =>
       /\ Rising(accepted, Len(input))
       /\ "accepted" \in request.sinks => Len(accepted) = summary.cleared

QuarantinedCounted ==
  /\ pc \in {"record", "report", "accept", "quarantine"} =>
       /\ Rising(quarantined \o divert, Judged)
       /\ "quarantined" \in request.sinks => Len(quarantined) + Len(divert) = summary.quarantined
  /\ pc \in {"start", "next", "halted"} =>
       /\ Rising(quarantined, Len(input))
       /\ "quarantined" \in request.sinks => Len(quarantined) = summary.quarantined

Accounts == Counted /\ AcceptedCounted /\ QuarantinedCounted

LEMMA Concatenations ==
  ASSUME NEW s \in Seq(Nat), NEW t \in Seq(Nat), NEW e \in Nat
  PROVE  /\ s \o t \in Seq(Nat) /\ Len(s \o t) = Len(s) + Len(t)
         /\ s \o <<>> = s /\ Len(<<>>) = 0
         /\ Append(t, e) \in Seq(Nat) /\ Len(Append(t, e)) = Len(t) + 1
         /\ s \o Append(t, e) = Append(s \o t, e)
OBVIOUS

LEMMA RisingPart ==
  ASSUME NEW s \in Seq(Nat), NEW t \in Seq(Nat), NEW m \in Int, Rising(s \o t, m)
  PROVE  Rising(s, m)
<1>1. \A k \in DOMAIN s : k \in DOMAIN (s \o t) /\ (s \o t)[k] = s[k]
  OBVIOUS
<1> QED
  BY <1>1 DEF Rising

LEMMA RisingAppend ==
  ASSUME NEW s \in Seq(Nat), NEW m \in Nat, Rising(s, m - 1)
  PROVE  Rising(Append(s, m), m) /\ Rising(s, m)
<1>1. /\ DOMAIN Append(s, m) = DOMAIN s \cup {Len(s) + 1}
      /\ \A k \in DOMAIN s : Append(s, m)[k] = s[k] /\ s[k] \in Nat /\ k \in Nat /\ k < Len(s) + 1
      /\ Append(s, m)[Len(s) + 1] = m /\ Len(s) \in Nat
  OBVIOUS
<1>2. \A k \in DOMAIN s : s[k] < m /\ s[k] <= m
  BY <1>1 DEF Rising
<1> QED
  BY <1>1, <1>2 DEF Rising

LEMMA InitAccounts == Init => Accounts
<1> SUFFICES ASSUME Init PROVE Accounts
  OBVIOUS
<1>1. DOMAIN <<>> = {} /\ Len(<<>>) = 0
  OBVIOUS
<1>2. pc = "start" /\ Judged = 0 /\ accepted = <<>> /\ quarantined = <<>> /\ Len(input) = 0
  BY <1>1 DEF Init, Judged
<1>3. summary.cleared = 0 /\ summary.quarantined = 0 /\ summary.breached = 0
  BY DEF Init, ZeroSummary
<1>4. Total = 0 /\ summary.cleared = 0 /\ summary.quarantined = 0
  BY <1>3 DEF Total
<1>5. Rising(<<>>, 0)
  BY <1>1 DEF Rising
<1> QED
  BY <1>1, <1>2, <1>3, <1>4, <1>5 DEF Accounts, Counted, AcceptedCounted, QuarantinedCounted

\* Steps that touch no counter, no sink and no record.
LEMMA AccountsQuiet ==
  ASSUME Inv, Accounts,
         Reject \/ Begin \/ NextCancelled \/ NextFailed \/ Conclude \/ ReturnSummary
           \/ Cancel \/ UNCHANGED vars
  PROVE  Accounts'
<1>1. UNCHANGED <<request, input, summary, slices, outputs>>
  BY DEF Reject, Begin, NextCancelled, NextFailed, Conclude, ReturnSummary, Cancel, vars,
         slices, outputs
<1>2. \/ pc' = pc
      \/ pc = "start" /\ pc' = "next"
      \/ pc' \in {"final", "done"}
  BY DEF Reject, Begin, NextCancelled, NextFailed, Conclude, ReturnSummary, Cancel, vars,
         Return, GoTo
<1>3. Judged' = Judged \/ pc' \in {"final", "done"}
  BY <1>1, <1>2 DEF Judged
<1> QED
  BY <1>1, <1>2, <1>3 DEF Accounts, Counted, AcceptedCounted, QuarantinedCounted, Total, slices,
     outputs

LEMMA AccountsNextBatch ==
  ASSUME Inv, Accounts, NEW b, NextBatch(b)
  PROVE  Accounts'
<1>1. /\ pc = "next" /\ pc' \in {"record", "accept"} /\ keep' = <<>> /\ divert' = <<>>
      /\ UNCHANGED <<request, input, summary, accepted, quarantined>>
  BY DEF NextBatch, AfterRecord, GoTo, outputs
<1>2. accepted \in Seq(Nat) /\ quarantined \in Seq(Nat)
  BY DEF Inv, TypeOK
<1>3. /\ accepted' \o keep' = accepted /\ quarantined' \o divert' = quarantined
      /\ Len(keep') = 0 /\ Len(divert') = 0
  BY <1>1, <1>2
<1>4. Len(accepted) \in Nat /\ Len(quarantined) \in Nat
  BY <1>2
<1>5. Judged' = Len(input) /\ Judged = Len(input)
  BY <1>1 DEF Judged
<1> QED
  BY <1>1, <1>3, <1>4, <1>5 DEF Accounts, Counted, AcceptedCounted, QuarantinedCounted, Total

LEMMA AccountsCheck ==
  ASSUME Inv, Accounts, CheckRecord
  PROVE  Accounts'
<1>1. /\ pc = "record" /\ pc' = "report" /\ \E line : input' = Append(input, line)
      /\ UNCHANGED <<request, summary, slices, outputs>>
  BY DEF CheckRecord, GoTo
<1>2. input \in Seq(LineType) /\ input' \in Seq(LineType)
  BY CheckStep DEF Inv, TypeOK
<1>3. Len(input) \in Nat
  BY <1>2
<1>4. Len(input') = Len(input) + 1
  BY <1>1, <1>2
<1>5. Judged' = Judged
  BY <1>1, <1>3, <1>4 DEF Judged
<1> QED
  BY <1>1, <1>5 DEF Accounts, Counted, AcceptedCounted, QuarantinedCounted, Total, slices, outputs

LEMMA AccountsReport ==
  ASSUME Inv, Accounts, Report \/ ReportFinal
  PROVE  Accounts'
<1>1. /\ UNCHANGED <<request, input, slices, accepted, quarantined>>
      /\ pc \in {"report", "final"} /\ pc' \in {pc, "done"}
  BY DEF Report, ReportFinal, PublishEvent, GoTo, Return
<1>2. UNCHANGED <<summary.cleared, summary.quarantined, summary.breached>> \/ pc = "final"
  BY DEF Report, CountWarning, ReportFinal, Inv, TypeOK
<1>3. Judged' = Judged \/ pc' = "done"
  BY <1>1 DEF Judged
<1> QED
  BY <1>1, <1>2, <1>3 DEF Accounts, Counted, AcceptedCounted, QuarantinedCounted, Total, slices

LEMMA AccountsTally ==
  ASSUME Inv, Accounts, Tally
  PROVE  Accounts'
<1> DEFINE outcome == Outcome(rules, flagged)
           halted == ShouldHalt(rules, flagged)
           N == Len(input)
<1>1. /\ pc = "report" /\ pc' \in {"accept", "record"}
      /\ UNCHANGED <<request, input, accepted, quarantined>>
      /\ keep' = IF outcome = "cleared" THEN Append(keep, N) ELSE keep
      /\ divert' = IF outcome = "quarantined" THEN Append(divert, N) ELSE divert
      /\ summary' = Counting(summary, outcome, halted)
  BY DEF Tally, GoTo, AfterRecord, Counting, outputs
<1>2. outcome \in {"cleared", "quarantined", "breached"}
  BY DEF Outcome
<1>3. summary \in Summary /\ accepted \in Seq(Nat) /\ quarantined \in Seq(Nat) /\ keep \in Seq(Nat)
      /\ divert \in Seq(Nat)
  BY DEF Inv, TypeOK, Summary
<1>4. N \in Nat
  BY <1>1, AdmittedRun
<1> HIDE DEF outcome, halted, N
<1>5. /\ summary'.cleared = IF outcome = "cleared" THEN summary.cleared + 1 ELSE summary.cleared
      /\ summary'.quarantined =
           IF outcome = "quarantined" THEN summary.quarantined + 1 ELSE summary.quarantined
      /\ summary'.breached = IF outcome = "breached" THEN summary.breached + 1 ELSE summary.breached
      /\ summary.cleared \in Nat /\ summary.quarantined \in Nat /\ summary.breached \in Nat
  BY <1>1, <1>2, <1>3, RecordCounted
<1>6. Judged = N - 1 /\ Judged' = N
  BY <1>1 DEF Judged, N
<1>7. Len(accepted) \in Nat /\ Len(quarantined) \in Nat /\ Len(keep) \in Nat /\ Len(divert) \in Nat
  BY <1>3
<1>8. Counted'
  <2>1. summary.cleared + summary.quarantined + summary.breached = N - 1
    BY <1>1, <1>6 DEF Accounts, Counted, Total
  <2>2. summary'.cleared + summary'.quarantined + summary'.breached = N
    BY <1>2, <1>4, <1>5, <2>1
  <2> QED
    BY <1>6, <2>2 DEF Counted, Total
<1>9. AcceptedCounted'
  <2>1. Rising(accepted \o keep, N - 1) /\ accepted \o keep \in Seq(Nat)
    BY <1>1, <1>3, <1>6 DEF Accounts, AcceptedCounted
  <2>2. Rising(Append(accepted \o keep, N), N) /\ Rising(accepted \o keep, N)
    BY <1>4, <2>1, RisingAppend
  <2>3. accepted \o Append(keep, N) = Append(accepted \o keep, N) /\ Len(Append(keep, N)) = Len(keep) + 1
    BY <1>3, <1>4, Concatenations
  <2>4. Rising(accepted' \o keep', N)
    BY <1>1, <2>2, <2>3
  <2>5. "accepted" \in request.sinks => Len(accepted) + Len(keep') = summary'.cleared
    BY <1>1, <1>5, <1>7, <2>3 DEF Accounts, AcceptedCounted
  <2> QED
    BY <1>1, <1>6, <2>4, <2>5 DEF AcceptedCounted
<1>10. QuarantinedCounted'
  <2>1. Rising(quarantined \o divert, N - 1) /\ quarantined \o divert \in Seq(Nat)
    BY <1>1, <1>3, <1>6 DEF Accounts, QuarantinedCounted
  <2>2. Rising(Append(quarantined \o divert, N), N) /\ Rising(quarantined \o divert, N)
    BY <1>4, <2>1, RisingAppend
  <2>3. quarantined \o Append(divert, N) = Append(quarantined \o divert, N)
        /\ Len(Append(divert, N)) = Len(divert) + 1
    BY <1>3, <1>4, Concatenations
  <2>4. Rising(quarantined' \o divert', N)
    BY <1>1, <2>2, <2>3
  <2>5. "quarantined" \in request.sinks => Len(quarantined) + Len(divert') = summary'.quarantined
    BY <1>1, <1>5, <1>7, <2>3 DEF Accounts, QuarantinedCounted
  <2> QED
    BY <1>1, <1>6, <2>4, <2>5 DEF QuarantinedCounted
<1> QED
  BY <1>8, <1>9, <1>10 DEF Accounts

LEMMA AccountsSink ==
  ASSUME Inv, Accounts, Accept \/ Quarantine
  PROVE  Accounts'
<1> SUFFICES ASSUME pc' # "done" PROVE Accounts'
  BY DEF Accounts, Counted, AcceptedCounted, QuarantinedCounted
<1>1. accepted \in Seq(Nat) /\ quarantined \in Seq(Nat) /\ keep \in Seq(Nat) /\ divert \in Seq(Nat)
  BY DEF Inv, TypeOK
<1>0. accepted \o <<>> = accepted /\ quarantined \o <<>> = quarantined
  BY <1>1
<1>2. /\ Len(accepted \o keep) = Len(accepted) + Len(keep)
      /\ Len(quarantined \o divert) = Len(quarantined) + Len(divert)
  BY <1>1
<1>3. UNCHANGED <<request, input, summary, slices>>
  BY DEF Accept, Quarantine
<1>4. pc \in {"accept", "quarantine"}
  BY DEF Accept, Quarantine
<1>5. Len(input) \in Nat
  BY <1>4, AdmittedRun
<1>6. CASE Accept
  <2>1. /\ pc = "accept" /\ pc' = "quarantine" /\ quarantined' = quarantined
        /\ accepted' = accepted \o keep \/ ("accepted" \notin request.sinks /\ accepted' = accepted)
    BY <1>0, <1>6 DEF Accept, SendBatch, GoTo, Return
  <2>2. Judged = Len(input) /\ Judged' = Len(input)
    BY <1>3, <2>1 DEF Judged
  <2>3. Rising(accepted', Len(input))
    <3>1. Rising(accepted \o keep, Len(input))
      BY <2>1, <2>2 DEF Accounts, AcceptedCounted
    <3>2. Rising(accepted, Len(input))
      BY <1>1, <1>5, <3>1, RisingPart
    <3> QED
      BY <2>1, <3>1, <3>2
  <2> QED
    BY <1>2, <1>3, <2>1, <2>2, <2>3
       DEF Accounts, Counted, AcceptedCounted, QuarantinedCounted, Total, slices
<1>7. CASE Quarantine
  <2>1. /\ pc = "quarantine" /\ pc' = AfterBatch /\ accepted' = accepted
        /\ quarantined' = quarantined \o divert
           \/ ("quarantined" \notin request.sinks /\ quarantined' = quarantined)
    BY <1>0, <1>7 DEF Quarantine, SendBatch, GoTo, Return
  <2>2. pc' \in {"next", "halted"}
    BY <2>1 DEF AfterBatch
  <2>3. Judged = Len(input) /\ Judged' = Len(input)
    BY <1>3, <2>1, <2>2 DEF Judged
  <2>4. Rising(quarantined', Len(input))
    <3>1. Rising(quarantined \o divert, Len(input))
      BY <2>1, <2>3 DEF Accounts, QuarantinedCounted
    <3>2. Rising(quarantined, Len(input))
      BY <1>1, <1>5, <3>1, RisingPart
    <3> QED
      BY <2>1, <3>1, <3>2
  <2> QED
    BY <1>2, <1>3, <2>1, <2>2, <2>3, <2>4
       DEF Accounts, Counted, AcceptedCounted, QuarantinedCounted, Total, slices
<1> QED
  BY <1>6, <1>7

LEMMA NextAccounts == Inv /\ Accounts /\ [Next]_vars => Accounts'
<1> SUFFICES ASSUME Inv, Accounts, [Next]_vars PROVE Accounts'
  OBVIOUS
<1> QED
  BY AccountsQuiet, AccountsNextBatch, AccountsCheck, AccountsReport, AccountsTally, AccountsSink
  DEF Next, Run, Returned

\* Between two batches the counters and the sinks tell the same story, the order
\* of the input included, for every contract and every cut of the stream.
THEOREM SummaryAlwaysAgrees == Spec => []SummaryAgrees
<1>1. Accounts => SummaryAgrees
  BY DEF Accounts, Counted, AcceptedCounted, QuarantinedCounted, SummaryAgrees, Total, Judged, Rising
<1> QED
  BY <1>1, InitInv, NextInv, InitAccounts, NextAccounts, PTL DEF Spec

(***************************************************************************)
(* Refinement of the abstract gate                                          *)
(*                                                                         *)
(* Gate states its verdicts with an engine of its own, which is this one.    *)
(***************************************************************************)
LEMMA SameLookup == \A o, path : Promise!Lookup(o, path) = Lookup(o, path)
BY DEF Promise!Lookup, Lookup, Promise!Child, Child, Promise!V, V, Promise!Root, Root

LEMMA SameCardinality == \A S : Promise!Cardinality(S) = Cardinality(S)
BY DEF Promise!Cardinality, Cardinality

LEMMA SameNumbers == \A x : Promise!Float64(x) = Float64(x)
<1>1. \A v : Promise!Spacing(v) = Spacing(v)
  BY DEF Promise!Spacing, Spacing, Promise!Spacings, Spacings, Promise!Magnitude, Magnitude
<1>2. \A v : Promise!Rounded(v) = Rounded(v)
  BY <1>1 DEF Promise!Rounded, Rounded
<1> QED
  BY <1>2 DEF Promise!Float64, Float64

LEMMA SameKeys ==
  /\ \A x, y : Promise!EqualJSON(x, y) = EqualJSON(x, y)
  /\ \A x : Promise!Key(x) = Key(x) /\ Promise!Marshals(x) = Marshals(x)
BY DEF Promise!EqualJSON, EqualJSON, Promise!Marshals, Marshals, Promise!Key, Key, Promise!V, V,
       Promise!Digits, Digits

LEMMA SameFails == \A p, x : Promise!Fails(p, x) = Fails(p, x)
<1> USE DEF Promise!Numeric, Numeric, Promise!Finite, Finite
<1>1. \A y, t : Promise!TypeMatches(y, t) = TypeMatches(y, t)
  BY SameNumbers DEF Promise!TypeMatches, TypeMatches, Promise!IsInteger, IsInteger
<1>2. \A y, q : Promise!BelowMin(y, q) = BelowMin(y, q) /\ Promise!AboveMax(y, q) = AboveMax(y, q)
  BY SameNumbers DEF Promise!BelowMin, BelowMin, Promise!AboveMax, AboveMax
<1> QED
  BY <1>1, <1>2, SameKeys DEF Promise!Fails, Fails, Promise!Missing, Missing, Promise!V, V

LEMMA SameEngine ==
  /\ \A r, o : Promise!RecordBreach(r, o) = RecordBreach(r, o)
  /\ \A r, o : Promise!KeysOf(r, o) = KeysOf(r, o)
  /\ \A r : Promise!IsUnique(r) = IsUnique(r)
  /\ \A rs, n : Promise!FinalBreaches(rs, n) = FinalBreaches(rs, n)
<1>1. \A r, o : Promise!RecordBreach(r, o) = RecordBreach(r, o)
  BY SameLookup, SameFails DEF Promise!RecordBreach, RecordBreach
<1>2. \A r : Promise!IsUnique(r) = IsUnique(r)
  BY DEF Promise!IsUnique, IsUnique
<1>3. \A r, o : Promise!KeysOf(r, o) = KeysOf(r, o)
  BY <1>2, SameLookup, SameKeys DEF Promise!KeysOf, KeysOf, Promise!Comparable, Comparable,
     Promise!Missing, Missing
<1>4. \A rs, n : Promise!FinalBreaches(rs, n) = FinalBreaches(rs, n)
  BY DEF Promise!FinalBreaches, FinalBreaches, Promise!CountBreach, CountBreach, Promise!IsCount, IsCount
<1> QED
  BY <1>1, <1>2, <1>3, <1>4

(***************************************************************************)
(* The invariant: a sink and the slice of its batch hold what the verdicts on  *)
(* the history of records say, and the evidence is out but for what is pending. *)
(***************************************************************************)
Pairs == {<<e.line, e.rule>> : e \in Elems(evidence)}

\* The findings of the rules in ks, all on one line.
Findings(line, ks) ==
  IF "evidence" \in request.sinks THEN {<<line, rules[k].id>> : k \in ks} ELSE {}

\* The keys that unique rule r takes from the records read.
KeysRead(r) == UNION {KeysOf(r, input[n].rec) : n \in DOMAIN input}

\* The checker knows the history and nothing else.
SeenExact ==
  pc \notin {"start", "done"} => \A i \in DOMAIN rules : seen[rules[i].id] = KeysRead(rules[i])

CountExact == count = Len(input)

NoStop(n) == \A m \in 1..n : ~Promise!Stops(m)

\* A sink holds what the verdicts on the records before the batch say, its slice
\* what those on the batch say, up to record m.
Batched(sink, verdict, log, slice, m) ==
  \E n \in 0..m :
    /\ Elems(log) = Promise!Sent(sink, verdict, n)
    /\ Elems(slice) = {k \in (n + 1)..m : Promise!Verdict(k) = verdict}

AcceptedHeld ==
  /\ pc \in {"record", "report", "accept"} =>
       Batched("accepted", "accept", accepted, keep, Judged)
  /\ pc \in {"start", "next", "quarantine", "halted", "final"} =>
       Elems(accepted) = Promise!Sent("accepted", "accept", Len(input))

QuarantinedHeld ==
  /\ pc \in {"record", "report", "accept", "quarantine"} =>
       Batched("quarantined", "quarantine", quarantined, divert, Judged)
  /\ pc \in {"start", "next", "halted", "final"} =>
       Elems(quarantined) = Promise!Sent("quarantined", "quarantine", Len(input))

\* The findings of the record in progress, or of the stream, are out but for
\* those pending.
EvidenceHeld ==
  /\ pc \notin {"report", "final", "done"} => Pairs = Promise!EvidenceUpTo(Len(input))
  /\ pc = "report" =>
       /\ flagged = Promise!FlaggedAt(Len(input))
       /\ Pairs = Promise!EvidenceUpTo(Len(input) - 1) \cup Findings(Len(input), flagged \ pending)
  /\ pc = "final" =>
       /\ flagged = IF summary.halted THEN {} ELSE FinalBreaches(rules, count)
       /\ Pairs = Promise!EvidenceUpTo(Len(input)) \cup Findings(FinalLine(Len(input)), flagged \ pending)

Stopping ==
  /\ pc \in {"start", "next", "record", "report"} => NoStop(Judged) /\ ~summary.halted
  /\ pc \in {"accept", "quarantine", "halted", "final"} =>
       (summary.halted <=> ~NoStop(Len(input)))
  /\ pc = "halted" => summary.halted

History == SeenExact /\ CountExact /\ AcceptedHeld /\ QuarantinedHeld /\ EvidenceHeld /\ Stopping

(***************************************************************************)
(* Verdicts on a prefix                                                     *)
(***************************************************************************)
\* They depend on the request and the lines read up to there.
LEMMA VerdictsStand ==
  ASSUME UNCHANGED <<request, input>>
  PROVE  /\ \A n : Promise!FlaggedAt(n)' = Promise!FlaggedAt(n)
         /\ \A n : Promise!Verdict(n)' = Promise!Verdict(n)
         /\ \A n : Promise!Stops(n)' = Promise!Stops(n)
         /\ \A n : Promise!EvidenceAt(n)' = Promise!EvidenceAt(n)
         /\ \A sink, v, n : Promise!Sent(sink, v, n)' = Promise!Sent(sink, v, n)
         /\ \A n : Promise!EvidenceUpTo(n)' = Promise!EvidenceUpTo(n)
<1>1. \A n : Promise!FlaggedAt(n)' = Promise!FlaggedAt(n)
  BY DEF Promise!FlaggedAt, Promise!Repeats, Promise!rules
<1>2. \A n : Promise!ActionsAt(n)' = Promise!ActionsAt(n)
  BY <1>1 DEF Promise!ActionsAt, Promise!rules
<1>3. \A n : Promise!Verdict(n)' = Promise!Verdict(n)
  BY <1>2 DEF Promise!Verdict
<1>4. \A n : Promise!Stops(n)' = Promise!Stops(n)
  BY <1>2, <1>3 DEF Promise!Stops
<1>5. \A n : Promise!EvidenceAt(n)' = Promise!EvidenceAt(n)
  BY <1>1, <1>3 DEF Promise!EvidenceAt, Promise!rules, Promise!InputParse
<1>6. \A sink, v, n : Promise!Sent(sink, v, n)' = Promise!Sent(sink, v, n)
  BY <1>3 DEF Promise!Sent
<1>7. \A n : Promise!EvidenceUpTo(n)' = Promise!EvidenceUpTo(n)
  BY <1>5 DEF Promise!EvidenceUpTo
<1> QED
  BY <1>1, <1>3, <1>4, <1>5, <1>6, <1>7

\* A further record changes none of the verdicts on the records before it.
LEMMA VerdictsOnPrefix ==
  ASSUME input \in Seq(LineType), NEW line \in LineType,
         input' = Append(input, line), request' = request,
         NEW N \in Nat, N = Len(input)
  PROVE  /\ \A n \in 1..N :
              /\ Promise!FlaggedAt(n)' = Promise!FlaggedAt(n)
              /\ Promise!Verdict(n)' = Promise!Verdict(n)
              /\ Promise!Stops(n)' = Promise!Stops(n)
         /\ \A sink, v : \A n \in 0..N : Promise!Sent(sink, v, n)' = Promise!Sent(sink, v, n)
         /\ Promise!EvidenceUpTo(N)' = Promise!EvidenceUpTo(N)
<1>0. \A n \in 1..N : input'[n] = input[n]
  OBVIOUS
<1>1. ASSUME NEW n \in 1..N PROVE Promise!FlaggedAt(n)' = Promise!FlaggedAt(n)
  <2>1. \A j \in 1..(n - 1) : j \in 1..N
    OBVIOUS
  <2>2. \A r : Promise!Repeats(r, n)' = Promise!Repeats(r, n)
    BY <1>0, <2>1 DEF Promise!Repeats
  <2> QED
    BY <1>0, <2>2 DEF Promise!FlaggedAt, Promise!rules
<1>2. \A n \in 1..N : Promise!ActionsAt(n)' = Promise!ActionsAt(n)
  BY <1>1 DEF Promise!ActionsAt, Promise!rules
<1>3. \A n \in 1..N : Promise!Verdict(n)' = Promise!Verdict(n)
  BY <1>0, <1>2 DEF Promise!Verdict
<1>4. \A n \in 1..N : Promise!Stops(n)' = Promise!Stops(n)
  BY <1>0, <1>2, <1>3 DEF Promise!Stops
<1>5. \A n \in 1..N : Promise!EvidenceAt(n)' = Promise!EvidenceAt(n)
  BY <1>0, <1>1, <1>3 DEF Promise!EvidenceAt, Promise!rules, Promise!InputParse
<1>6. ASSUME NEW sink, NEW v, NEW n \in 0..N
      PROVE  Promise!Sent(sink, v, n)' = Promise!Sent(sink, v, n)
  <2>1. \A k \in 1..n : k \in 1..N
    OBVIOUS
  <2> QED
    BY <1>3, <2>1 DEF Promise!Sent
<1>7. Promise!EvidenceUpTo(N)' = Promise!EvidenceUpTo(N)
  BY <1>5 DEF Promise!EvidenceUpTo
<1> QED
  BY <1>1, <1>3, <1>4, <1>6, <1>7

\* One record further.
LEMMA NextPrefix ==
  ASSUME NEW n \in Nat \ {0}
  PROVE  /\ Promise!EvidenceUpTo(n) = Promise!EvidenceUpTo(n - 1) \cup Promise!EvidenceAt(n)
         /\ NoStop(n) <=> NoStop(n - 1) /\ ~Promise!Stops(n)
<1>1. 1..n = (1..(n - 1)) \cup {n}
  OBVIOUS
<1>2. Promise!EvidenceUpTo(n) = Promise!EvidenceUpTo(n - 1) \cup Promise!EvidenceAt(n)
  BY <1>1 DEF Promise!EvidenceUpTo
<1>3. NoStop(n) <=> NoStop(n - 1) /\ ~Promise!Stops(n)
  BY <1>1 DEF NoStop
<1> QED
  BY <1>2, <1>3

\* The verdicts on fewer records ask for less.
LEMMA PrefixesGrow ==
  ASSUME NEW m \in Int, NEW n \in Int, m <= n
  PROVE  /\ \A sink, v : Promise!Sent(sink, v, m) \subseteq Promise!Sent(sink, v, n)
         /\ Promise!EvidenceUpTo(m) \subseteq Promise!EvidenceUpTo(n)
<1>1. 1..m \subseteq 1..n
  OBVIOUS
<1> QED
  BY <1>1 DEF Promise!Sent, Promise!EvidenceUpTo

LEMMA NothingYet ==
  /\ Promise!EvidenceUpTo(0) = {}
  /\ \A sink, v : Promise!Sent(sink, v, 0) = {}
  /\ NoStop(0)
BY DEF Promise!EvidenceUpTo, Promise!Sent, NoStop

\* What a record in progress is judged to be.
LEMMA RecordJudged ==
  ASSUME Inv, NEW n \in DOMAIN input, NEW hits, hits = Promise!FlaggedAt(n)
  PROVE  /\ Promise!Verdict(n) # "abort"
         /\ Promise!Verdict(n) = "accept" <=> Outcome(rules, hits) = "cleared"
         /\ Promise!Verdict(n) = "quarantine" <=> Outcome(rules, hits) = "quarantined"
         /\ Promise!Stops(n) <=> ShouldHalt(rules, hits)
         /\ Promise!EvidenceAt(n) = Findings(n, hits)
<1>1. input[n].ok
  BY DEF Inv, Records
<1>2. Promise!ActionsAt(n) = ActionsOf(rules, hits)
  BY DEF Promise!ActionsAt, ActionsOf, Promise!rules, rules
<1>3. /\ Promise!Verdict(n) # "abort"
      /\ Promise!Verdict(n) = "accept" <=> Outcome(rules, hits) = "cleared"
      /\ Promise!Verdict(n) = "quarantine" <=> Outcome(rules, hits) = "quarantined"
  BY <1>1, <1>2 DEF Promise!Verdict, Outcome, HasBreach, ShouldQuarantine
<1>4. Promise!Stops(n) <=> ShouldHalt(rules, hits)
  BY <1>1, <1>2, <1>3 DEF Promise!Stops, ShouldHalt
<1>5. Promise!EvidenceAt(n) = Findings(n, hits)
  BY <1>1, <1>3 DEF Promise!EvidenceAt, Findings, Promise!rules, rules
<1> QED
  BY <1>3, <1>4, <1>5

LEMMA FindingsGrow ==
  ASSUME NEW line, NEW i \in pending, pending \subseteq flagged
  PROVE  /\ Findings(line, flagged \ (pending \ {i})) =
              Findings(line, flagged \ pending)
                \cup (IF "evidence" \in request.sinks THEN {<<line, rules[i].id>>} ELSE {})
         /\ Findings(line, flagged \ (pending \ {i})) \subseteq Findings(line, flagged)
         /\ Findings(line, flagged \ pending) \subseteq Findings(line, flagged)
<1>1. flagged \ (pending \ {i}) = (flagged \ pending) \cup {i}
  OBVIOUS
<1>2. CASE "evidence" \in request.sinks
  BY <1>1, <1>2 DEF Findings
<1>3. CASE "evidence" \notin request.sinks
  BY <1>3 DEF Findings
<1> QED
  BY <1>2, <1>3

LEMMA ElemsAppend ==
  ASSUME NEW S, NEW s \in Seq(S), NEW e \in S
  PROVE  Elems(Append(s, e)) = Elems(s) \cup {e}
<1>1. /\ DOMAIN Append(s, e) = DOMAIN s \cup {Len(s) + 1}
      /\ \A k \in DOMAIN s : Append(s, e)[k] = s[k]
      /\ Append(s, e)[Len(s) + 1] = e
  OBVIOUS
<1> QED
  BY <1>1 DEF Elems

LEMMA ElemsConcat ==
  ASSUME NEW S, NEW s \in Seq(S), NEW t \in Seq(S)
  PROVE  Elems(s \o t) = Elems(s) \cup Elems(t)
<1>1. /\ DOMAIN (s \o t) = 1..(Len(s) + Len(t)) /\ DOMAIN s = 1..Len(s) /\ DOMAIN t = 1..Len(t)
      /\ Len(s) \in Nat /\ Len(t) \in Nat
  OBVIOUS
<1>2. \A k \in 1..Len(s) : (s \o t)[k] = s[k] /\ k \in 1..(Len(s) + Len(t))
  BY <1>1
<1>3. \A k \in 1..Len(t) : (s \o t)[Len(s) + k] = t[k] /\ Len(s) + k \in 1..(Len(s) + Len(t))
  BY <1>1
<1>4. \A k \in 1..(Len(s) + Len(t)) :
        \/ k \in 1..Len(s)
        \/ k - Len(s) \in 1..Len(t) /\ (s \o t)[k] = t[k - Len(s)]
  BY <1>1
<1>5. ASSUME NEW x \in Elems(s \o t) PROVE x \in Elems(s) \cup Elems(t)
  <2>1. PICK k \in 1..(Len(s) + Len(t)) : x = (s \o t)[k]
    BY <1>1, Zenon DEF Elems
  <2>2. CASE k \in 1..Len(s)
    BY <1>1, <1>2, <2>1, <2>2 DEF Elems
  <2>3. CASE k - Len(s) \in 1..Len(t) /\ (s \o t)[k] = t[k - Len(s)]
    BY <1>1, <2>1, <2>3 DEF Elems
  <2> QED
    BY <1>4, <2>2, <2>3
<1>6. ASSUME NEW x \in Elems(s) PROVE x \in Elems(s \o t)
  <2>1. PICK k \in 1..Len(s) : x = s[k]
    BY <1>1, Zenon DEF Elems
  <2> QED
    BY <1>1, <1>2, <2>1, Zenon DEF Elems
<1>7. ASSUME NEW x \in Elems(t) PROVE x \in Elems(s \o t)
  <2>1. PICK k \in 1..Len(t) : x = t[k]
    BY <1>1, Zenon DEF Elems
  <2> QED
    BY <1>1, <1>3, <2>1, Zenon DEF Elems
<1> QED
  BY <1>5, <1>6, <1>7

LEMMA ElemsNone == Elems(<<>>) = {}
<1>1. DOMAIN <<>> = {}
  OBVIOUS
<1> QED
  BY <1>1 DEF Elems

(***************************************************************************)
(* What Gate sees of a step                                                 *)
(***************************************************************************)
LEMMA Stutters ==
  ASSUME pc # "done", pc' # "done", UNCHANGED <<request, input, outputs>>
  PROVE  UNCHANGED Promise!vars
BY DEF Promise!vars, outputs, Elems

\* A log is a prefix of what the verdicts on the records read send to its sink.
Delivering(sink, verdict, log) ==
  \E n \in 0..Len(input) : Elems(log) = Promise!Sent(sink, verdict, n)

LEMMA Advances ==
  ASSUME pc # "done", pc' # "done" \/ err' # "", UNCHANGED <<request, input>>,
         Pairs \subseteq Pairs', Pairs' \subseteq Promise!EvidenceUpTo(Len(input)),
         Elems(accepted) \subseteq Elems(accepted'),
         Elems(quarantined) \subseteq Elems(quarantined'),
         \E n \in 0..Len(input) : Elems(accepted') = Promise!Sent("accepted", "accept", n),
         \E n \in 0..Len(input) : Elems(quarantined') = Promise!Sent("quarantined", "quarantine", n)
  PROVE  Promise!Next
<1>1. Promise!Advance
  BY DEF Promise!Advance, Pairs
<1> QED
  BY <1>1 DEF Promise!Next

\* Wherever RunBatches is, its sinks hold such prefixes.
LEMMA Prefixes ==
  ASSUME Inv, History, pc # "done"
  PROVE  /\ Delivering("accepted", "accept", accepted)
         /\ Delivering("quarantined", "quarantine", quarantined)
<1>1. Len(input) \in Nat /\ (pc = "report" => Len(input) >= 1)
  <2>1. input \in Seq(LineType)
    BY DEF Inv, TypeOK
  <2>2. Len(input) \in Nat
    BY <2>1
  <2> QED
    BY <2>2 DEF Inv, Records
<1>2. Len(input) \in 0..Len(input) /\ \A n \in 0..Judged : n \in 0..Len(input)
  BY <1>1 DEF Judged
<1>3. pc \in {"start", "next", "record", "report", "accept", "quarantine", "halted", "final"}
  BY DEF Inv, TypeOK
<1>4. Delivering("accepted", "accept", accepted)
  BY <1>2, <1>3 DEF Delivering, Batched, History, AcceptedHeld
<1>5. Delivering("quarantined", "quarantine", quarantined)
  BY <1>2, <1>3 DEF Delivering, Batched, History, QuarantinedHeld
<1> QED
  BY <1>4, <1>5

\* Steps that leave what has been read and said of it alone.
LEMMA HeldStands ==
  ASSUME UNCHANGED <<request, input, slices, outputs>>
  PROVE  /\ \A sink, v, n : Promise!Sent(sink, v, n)' = Promise!Sent(sink, v, n)
         /\ \A n : NoStop(n)' = NoStop(n)
         /\ \A m : Batched("accepted", "accept", accepted, keep, m)'
                     = Batched("accepted", "accept", accepted, keep, m)
         /\ \A m : Batched("quarantined", "quarantine", quarantined, divert, m)'
                     = Batched("quarantined", "quarantine", quarantined, divert, m)
         /\ Pairs' = Pairs /\ Elems(accepted)' = Elems(accepted)
         /\ Elems(quarantined)' = Elems(quarantined)
         /\ \A n : Promise!EvidenceUpTo(n)' = Promise!EvidenceUpTo(n)
         /\ \A n : Promise!FlaggedAt(n)' = Promise!FlaggedAt(n)
         /\ \A n, ks : Findings(n, ks)' = Findings(n, ks)
         /\ rules' = rules
<1>1. /\ Pairs' = Pairs /\ Elems(accepted)' = Elems(accepted)
      /\ Elems(quarantined)' = Elems(quarantined) /\ rules' = rules
      /\ Elems(keep)' = Elems(keep) /\ Elems(divert)' = Elems(divert)
  BY DEF Pairs, Elems, outputs, slices, rules
<1>2. \A n : NoStop(n)' = NoStop(n)
  BY VerdictsStand DEF NoStop
<1>3. \A m : Batched("accepted", "accept", accepted, keep, m)'
               = Batched("accepted", "accept", accepted, keep, m)
  BY <1>1, VerdictsStand DEF Batched
<1>4. \A m : Batched("quarantined", "quarantine", quarantined, divert, m)'
               = Batched("quarantined", "quarantine", quarantined, divert, m)
  BY <1>1, VerdictsStand DEF Batched
<1>5. \A n, ks : Findings(n, ks)' = Findings(n, ks)
  BY <1>1 DEF Findings
<1> QED
  BY <1>1, <1>2, <1>3, <1>4, <1>5, VerdictsStand

LEMMA CheckerUndisturbed ==
  ASSUME SeenExact, CountExact, UNCHANGED <<request, input, checker>>,
         pc \notin {"start", "done"} \/ pc' = "done"
  PROVE  SeenExact' /\ CountExact'
<1>1. rules' = rules /\ \A r : KeysRead(r)' = KeysRead(r)
  BY DEF rules, KeysRead
<1> QED
  BY <1>1 DEF SeenExact, CountExact, checker

(***************************************************************************)
(* Steps                                                                   *)
(***************************************************************************)
Implemented == History' /\ [Promise!Next]_Promise!vars

LEMMA InitHistory == Init => History /\ Promise!Init
<1> SUFFICES ASSUME Init PROVE History /\ Promise!Init
  OBVIOUS
<1>1. Len(<<>>) = 0
  OBVIOUS
<1>2. Len(input) = 0 /\ Elems(accepted) = {} /\ Elems(quarantined) = {} /\ Elems(evidence) = {}
  BY <1>1, ElemsNone DEF Init
<1>3. Pairs = {}
  BY <1>2 DEF Pairs
<1>4. SeenExact /\ CountExact
  BY <1>2 DEF Init, SeenExact, CountExact
<1>5. AcceptedHeld /\ QuarantinedHeld /\ EvidenceHeld
  BY <1>2, <1>3, NothingYet DEF Init, AcceptedHeld, QuarantinedHeld, EvidenceHeld
<1>6. Stopping
  BY <1>2, NothingYet DEF Init, Stopping, Judged, ZeroSummary
<1>7. Promise!Init
  BY <1>2 DEF Init, Promise!Init
<1> QED
  BY <1>4, <1>5, <1>6, <1>7 DEF History

\* A run that fails between batches leaves the outputs as they are.
LEMMA FailStep ==
  ASSUME Inv, History, Reject \/ NextCancelled \/ NextFailed
  PROVE  Implemented
<1>1. /\ pc \in {"start", "next"} /\ pc' = "done" /\ err' # ""
      /\ UNCHANGED <<request, input, checker, summary, slices, outputs>>
  BY DEF Reject, NextCancelled, NextFailed, Return
<1>2. History'
  <2>1. SeenExact' /\ CountExact'
    BY <1>1, CheckerUndisturbed DEF History
  <2> QED
    BY <1>1, <2>1 DEF History, AcceptedHeld, QuarantinedHeld, EvidenceHeld, Stopping
<1>3. Pairs = Promise!EvidenceUpTo(Len(input))
  BY <1>1 DEF History, EvidenceHeld
<1>4. /\ \E n \in 0..Len(input) : Elems(accepted) = Promise!Sent("accepted", "accept", n)
      /\ \E n \in 0..Len(input) : Elems(quarantined) = Promise!Sent("quarantined", "quarantine", n)
  BY <1>1, Prefixes DEF Delivering
<1>5. Pairs' = Pairs /\ Elems(accepted') = Elems(accepted) /\ Elems(quarantined') = Elems(quarantined)
  BY <1>1 DEF outputs, Pairs, Elems
<1>6. Promise!Next
  BY <1>1, <1>3, <1>4, <1>5, Advances
<1> QED
  BY <1>2, <1>6 DEF Implemented

LEMMA BeginStep ==
  ASSUME Inv, History, Begin
  PROVE  Implemented
<1>1. /\ pc = "start" /\ pc' = "next" /\ input = <<>> /\ rules' = rules
      /\ UNCHANGED <<request, input, count, summary, slices, outputs>>
  BY DEF Begin, GoTo, rules, Inv, Records
<1>2. SeenExact'
  <2>1. DOMAIN <<>> = {}
    OBVIOUS
  <2>2. \A r : KeysRead(r)' = {}
    BY <1>1, <2>1 DEF KeysRead
  <2>3. \A i \in DOMAIN rules : seen'[rules[i].id] = {}
    BY DEF Begin, NoneSeen, RuleIds
  <2> QED
    BY <1>1, <2>2, <2>3 DEF SeenExact
<1>3. CountExact'
  BY <1>1 DEF History, CountExact
<1>4. (AcceptedHeld /\ QuarantinedHeld)'
  BY <1>1, HeldStands DEF History, AcceptedHeld, QuarantinedHeld
<1>5. EvidenceHeld'
  BY <1>1, HeldStands DEF History, EvidenceHeld
<1>6. Stopping'
  BY <1>1, HeldStands DEF History, Stopping, Judged
<1>7. UNCHANGED Promise!vars
  BY <1>1, Stutters
<1> QED
  BY <1>2, <1>3, <1>4, <1>5, <1>6, <1>7 DEF Implemented, History

LEMMA IdleStep ==
  ASSUME Inv, History, Cancel \/ UNCHANGED vars
  PROVE  Implemented
<1>1. UNCHANGED <<request, pc, err, input, checker, flagged, pending, summary, slices, outputs>>
  BY DEF Cancel, vars, checker, outputs, slices
<1>2. SeenExact' /\ CountExact'
  BY <1>1 DEF History, SeenExact, CountExact, KeysRead, rules, checker
<1>3. Judged' = Judged
  BY <1>1 DEF Judged
<1>4. (AcceptedHeld /\ QuarantinedHeld)'
  BY <1>1, <1>3, HeldStands DEF History, AcceptedHeld, QuarantinedHeld
<1>5. EvidenceHeld'
  BY <1>1, HeldStands DEF History, EvidenceHeld, checker
<1>6. Stopping'
  BY <1>1, <1>3, HeldStands DEF History, Stopping
<1>7. UNCHANGED Promise!vars
  BY <1>1 DEF Promise!vars, outputs
<1> QED
  BY <1>2, <1>4, <1>5, <1>6, <1>7 DEF Implemented, History

LEMMA ConcludeStep ==
  ASSUME Inv, History, Conclude
  PROVE  Implemented
<1>1. /\ pc \in {"next", "halted"} /\ pc' = "final"
      /\ UNCHANGED <<request, input, checker, summary, slices, outputs>>
      /\ flagged' = (IF summary.halted THEN {} ELSE FinalBreaches(rules, count))
      /\ pending' = flagged'
  BY DEF Conclude, GoTo
<1>2. SeenExact' /\ CountExact'
  BY <1>1, CheckerUndisturbed DEF History
<1>3. (AcceptedHeld /\ QuarantinedHeld)'
  BY <1>1, HeldStands DEF History, AcceptedHeld, QuarantinedHeld
<1>4. EvidenceHeld'
  <2>1. \A n : Findings(n, flagged \ pending)' = {}
    BY <1>1 DEF Findings
  <2>2. Pairs = Promise!EvidenceUpTo(Len(input))
    BY <1>1 DEF History, EvidenceHeld
  <2>3. flagged' = (IF summary'.halted THEN {} ELSE FinalBreaches(rules', count'))
    BY <1>1, HeldStands DEF checker
  <2>4. /\ Pairs' = Pairs
        /\ Promise!EvidenceUpTo(Len(input))' = Promise!EvidenceUpTo(Len(input))
    BY <1>1, HeldStands
  <2> QED
    BY <1>1, <2>1, <2>2, <2>3, <2>4 DEF EvidenceHeld
<1>5. Stopping'
  BY <1>1, HeldStands DEF History, Stopping, Judged
<1>6. UNCHANGED Promise!vars
  BY <1>1, Stutters
<1> QED
  BY <1>2, <1>3, <1>4, <1>5, <1>6 DEF Implemented, History

LEMMA NextBatchStep ==
  ASSUME Inv, History, NEW b, NextBatch(b)
  PROVE  Implemented
<1>1. /\ pc = "next" /\ pc' \in {"record", "accept"} /\ keep' = <<>> /\ divert' = <<>>
      /\ UNCHANGED <<request, input, checker, summary, outputs>>
  BY DEF NextBatch, AfterRecord, GoTo
<1>2. SeenExact' /\ CountExact'
  BY <1>1, CheckerUndisturbed DEF History
<1> DEFINE N == Len(input)
<1>3. N \in Nat
  BY <1>1, AdmittedRun
<1>4. /\ N \in 0..N /\ (N + 1)..N = {} /\ Judged = N /\ Judged' = N
  BY <1>1, <1>3 DEF Judged
<1>5. /\ Elems(accepted)' = Promise!Sent("accepted", "accept", N)'
      /\ Elems(quarantined)' = Promise!Sent("quarantined", "quarantine", N)'
      /\ Elems(keep') = {} /\ Elems(divert') = {}
      /\ Pairs' = Promise!EvidenceUpTo(N)'
  <2>1. /\ Elems(accepted)' = Elems(accepted) /\ Elems(quarantined)' = Elems(quarantined)
        /\ Pairs' = Pairs
    BY <1>1 DEF Elems, Pairs, outputs
  <2>2. /\ Elems(accepted) = Promise!Sent("accepted", "accept", N)
        /\ Elems(quarantined) = Promise!Sent("quarantined", "quarantine", N)
        /\ Pairs = Promise!EvidenceUpTo(N)
    BY <1>1 DEF History, AcceptedHeld, QuarantinedHeld, EvidenceHeld
  <2> QED
    BY <1>1, <2>1, <2>2, VerdictsStand, ElemsNone
<1>6. NoStop(N)' /\ ~summary'.halted /\ Len(input)' = N
  BY <1>1, <1>4, VerdictsStand DEF History, Stopping, NoStop
<1> HIDE DEF N
<1>7. /\ Batched("accepted", "accept", accepted, keep, N)'
      /\ Batched("quarantined", "quarantine", quarantined, divert, N)'
  BY <1>1, <1>4, <1>5, <1>6 DEF Batched, N
<1>8. (AcceptedHeld /\ QuarantinedHeld)'
  BY <1>1, <1>4, <1>5, <1>6, <1>7 DEF AcceptedHeld, QuarantinedHeld, N
<1>9. EvidenceHeld'
  BY <1>1, <1>5 DEF EvidenceHeld, N
<1>10. Stopping'
  BY <1>1, <1>4, <1>6 DEF Stopping, N
<1>11. UNCHANGED Promise!vars
  BY <1>1, Stutters
<1> QED
  BY <1>2, <1>8, <1>9, <1>10, <1>11 DEF Implemented, History

(***************************************************************************)
(* A record                                                                *)
(***************************************************************************)
\* The checker keeps the keys of a unique rule under its own id.
LEMMA CheckerKeys ==
  ASSUME rules \in Seq(Rules), IdsUnique(rules)
  PROVE  \A i \in DOMAIN rules : \A o :
           /\ SeenBy(rules, seen, i, o) = seen[rules[i].id]
           /\ Remember(rules, seen, o)[rules[i].id] = seen[rules[i].id] \cup KeysOf(rules[i], o)
<1>1. ASSUME NEW i \in DOMAIN rules, NEW o
      PROVE  /\ SeenBy(rules, seen, i, o) = seen[rules[i].id]
             /\ Remember(rules, seen, o)[rules[i].id] = seen[rules[i].id] \cup KeysOf(rules[i], o)
  BY OwnKeys
<1> QED
  BY <1>1

\* What Check finds is the verdict on the record.
LEMMA CheckJudges ==
  ASSUME Inv, History, CheckRecord, NEW line \in LineType, input' = Append(input, line),
         line.rec = Head(batch), line.ok, NEW N \in Nat, N = Len(input)
  PROVE  /\ flagged' = Promise!FlaggedAt(N + 1)'
         /\ SeenExact'
<1>1. /\ input \in Seq(LineType) /\ request' = request /\ rules' = rules
      /\ rules \in Seq(Rules) /\ IdsUnique(rules)
      /\ pc = "record" /\ pc' = "report"
      /\ flagged' = Violated(rules, seen, line.rec) /\ seen' = Remember(rules, seen, line.rec)
  <2>1. pc = "record" /\ Inv
    BY DEF CheckRecord
  <2> QED
    BY <2>1, RulesType DEF Inv, TypeOK, Admitted, Accepts, Validate, CheckRecord, rules, GoTo
<1>2. /\ DOMAIN input = 1..N /\ DOMAIN input' = 1..(N + 1) /\ 1..((N + 1) - 1) = 1..N
      /\ input'[N + 1] = line /\ \A m \in 1..N : input'[m] = input[m]
      /\ 1..(N + 1) = (1..N) \cup {N + 1}
  BY <1>1
<1>3. \A m \in 1..N : input[m].ok
  BY <1>2 DEF Inv, Records
<1>4. ASSUME NEW i \in DOMAIN rules
      PROVE  /\ SeenBy(rules, seen, i, line.rec) = seen[rules[i].id]
             /\ Remember(rules, seen, line.rec)[rules[i].id]
                  = seen[rules[i].id] \cup KeysOf(rules[i], line.rec)
  BY <1>1, CheckerKeys
<1>5. ASSUME NEW i \in DOMAIN rules
      PROVE  UniqueBreach(rules, seen, i, line.rec) <=>
               /\ IsUnique(rules[i])
               /\ \/ KeysOf(rules[i], line.rec) = {}
                  \/ \E m \in 1..N : KeysOf(rules[i], input[m].rec) \cap KeysOf(rules[i], line.rec) # {}
  <2>1. SeenBy(rules, seen, i, line.rec) = seen[rules[i].id]
    BY <1>4
  <2>2. seen[rules[i].id] = UNION {KeysOf(rules[i], input[m].rec) : m \in 1..N}
    BY <1>1, <1>2 DEF History, SeenExact, KeysRead
  <2> QED
    BY <2>1, <2>2 DEF UniqueBreach
<1>6. Promise!FlaggedAt(N + 1)' =
        {i \in DOMAIN rules :
           \/ RecordBreach(rules[i], line.rec)
           \/ /\ IsUnique(rules[i])
              /\ \/ KeysOf(rules[i], line.rec) = {}
                 \/ \E m \in 1..N : KeysOf(rules[i], input[m].rec) \cap KeysOf(rules[i], line.rec) # {}}
  <2>1. Promise!FlaggedAt(N + 1)' =
          {i \in DOMAIN rules :
             \/ RecordBreach(rules[i], input'[N + 1].rec)
             \/ /\ IsUnique(rules[i])
                /\ \/ KeysOf(rules[i], input'[N + 1].rec) = {}
                   \/ \E m \in 1..((N + 1) - 1) :
                        /\ input'[m].ok
                        /\ KeysOf(rules[i], input'[m].rec) \cap KeysOf(rules[i], input'[N + 1].rec) # {}}
    BY <1>1, SameEngine DEF Promise!FlaggedAt, Promise!Repeats, Promise!rules, rules
  <2>2. \A r : (\E m \in 1..N : KeysOf(r, input[m].rec) \cap KeysOf(r, line.rec) # {}) <=>
          \E m \in 1..((N + 1) - 1) :
            input'[m].ok /\ KeysOf(r, input'[m].rec) \cap KeysOf(r, input'[N + 1].rec) # {}
    BY <1>2, <1>3
  <2> QED
    BY <1>2, <2>1, <2>2
<1>7. flagged' = Promise!FlaggedAt(N + 1)'
  BY <1>1, <1>5, <1>6 DEF Violated
<1>8. SeenExact'
  <2>1. ASSUME NEW r PROVE KeysRead(r)' = KeysRead(r) \cup KeysOf(r, line.rec)
    <3>1. KeysRead(r)' = UNION {KeysOf(r, input'[m].rec) : m \in (1..N) \cup {N + 1}}
      BY <1>2 DEF KeysRead
    <3>2. {KeysOf(r, input'[m].rec) : m \in (1..N) \cup {N + 1}}
            = {KeysOf(r, input[m].rec) : m \in 1..N} \cup {KeysOf(r, line.rec)}
      BY <1>2
    <3>3. KeysRead(r) = UNION {KeysOf(r, input[m].rec) : m \in 1..N}
      BY <1>2 DEF KeysRead
    <3> QED
      BY <3>1, <3>2, <3>3
  <2>2. ASSUME NEW i \in DOMAIN rules
        PROVE  seen'[rules[i].id] = KeysRead(rules[i]) \cup KeysOf(rules[i], line.rec)
    <3>1. Remember(rules, seen, line.rec)[rules[i].id]
            = seen[rules[i].id] \cup KeysOf(rules[i], line.rec)
      BY <1>4
    <3>2. seen[rules[i].id] = KeysRead(rules[i])
      BY <1>1 DEF History, SeenExact
    <3> QED
      BY <1>1, <3>1, <3>2
  <2> QED
    BY <1>1, <2>1, <2>2 DEF SeenExact
<1> QED
  BY <1>7, <1>8

LEMMA CheckRecordStep ==
  ASSUME Inv, History, CheckRecord
  PROVE  Implemented
<1> DEFINE line == [ok |-> TRUE, whole |-> TRUE, rec |-> Head(batch)]
<1>1. /\ pc = "record" /\ pc' = "report" /\ input' = Append(input, line)
      /\ UNCHANGED <<request, summary, slices, outputs>> /\ rules' = rules
      /\ count' = count + 1 /\ pending' = flagged'
  BY DEF CheckRecord, GoTo, rules
<1>2. batch \in Seq(Nat) /\ batch # <<>> /\ \A k \in DOMAIN batch : batch[k] \in Record
  BY <1>1 DEF Inv, TypeOK, Records
<1>3. Head(batch) \in Nat /\ Head(batch) = batch[1] /\ 1 \in DOMAIN batch
  BY <1>2
<1>4. /\ line \in LineType /\ line.ok /\ line.rec = Head(batch)
      /\ line \in {[ok |-> TRUE, whole |-> TRUE, rec |-> o] : o \in Record}
  BY <1>2, <1>3 DEF LineType
<1> HIDE DEF line
<1>5. PICK N \in Nat : N = Len(input)
  BY <1>1, AdmittedRun
<1>6. input \in Seq(LineType)
  BY DEF Inv, TypeOK
<1>7. /\ Len(input') = N + 1 /\ input'[N + 1] = line /\ DOMAIN input = 1..N
      /\ Judged = N /\ Judged' = N /\ (N + 1) - 1 = N /\ \A n \in 0..N : n \in 0..(N + 1)
      /\ N + 1 \in Nat
  BY <1>1, <1>4, <1>5, <1>6 DEF Judged
<1>8. flagged' = Promise!FlaggedAt(N + 1)' /\ SeenExact'
  BY <1>1, <1>4, <1>5, CheckJudges
<1>9. CountExact'
  BY <1>1, <1>5, <1>7 DEF History, CountExact
<1>10. /\ \A n \in 1..N : /\ Promise!Verdict(n)' = Promise!Verdict(n)
                          /\ Promise!Stops(n)' = Promise!Stops(n)
       /\ \A sink, v : \A n \in 0..N : Promise!Sent(sink, v, n)' = Promise!Sent(sink, v, n)
       /\ Promise!EvidenceUpTo(N)' = Promise!EvidenceUpTo(N)
  BY <1>1, <1>4, <1>5, <1>6, VerdictsOnPrefix
<1>11. /\ Elems(accepted)' = Elems(accepted) /\ Elems(quarantined)' = Elems(quarantined)
       /\ Elems(keep)' = Elems(keep) /\ Elems(divert)' = Elems(divert) /\ Pairs' = Pairs
  BY <1>1 DEF Elems, Pairs, outputs, slices
<1>12. NoStop(N) /\ ~summary.halted /\ NoStop(N)'
  <2>1. NoStop(N) /\ ~summary.halted
    BY <1>1, <1>7 DEF History, Stopping
  <2> QED
    BY <1>10, <2>1 DEF NoStop
<1>13. \A n \in 0..N : \A k : k \in (n + 1)..N => k \in 1..N
  BY <1>5
<1>14. AcceptedHeld'
  <2>1. Batched("accepted", "accept", accepted, keep, N)
    BY <1>1, <1>7 DEF History, AcceptedHeld
  <2>2. PICK n \in 0..N :
          /\ Elems(accepted) = Promise!Sent("accepted", "accept", n)
          /\ Elems(keep) = {k \in (n + 1)..N : Promise!Verdict(k) = "accept"}
    BY <2>1 DEF Batched
  <2>3. {k \in (n + 1)..N : Promise!Verdict(k)' = "accept"}
          = {k \in (n + 1)..N : Promise!Verdict(k) = "accept"}
    BY <1>10, <1>13
  <2>4. Batched("accepted", "accept", accepted, keep, N)'
    BY <1>10, <1>11, <2>2, <2>3 DEF Batched
  <2> QED
    BY <1>1, <1>7, <2>4 DEF AcceptedHeld
<1>15. QuarantinedHeld'
  <2>1. Batched("quarantined", "quarantine", quarantined, divert, N)
    BY <1>1, <1>7 DEF History, QuarantinedHeld
  <2>2. PICK n \in 0..N :
          /\ Elems(quarantined) = Promise!Sent("quarantined", "quarantine", n)
          /\ Elems(divert) = {k \in (n + 1)..N : Promise!Verdict(k) = "quarantine"}
    BY <2>1 DEF Batched
  <2>3. {k \in (n + 1)..N : Promise!Verdict(k)' = "quarantine"}
          = {k \in (n + 1)..N : Promise!Verdict(k) = "quarantine"}
    BY <1>10, <1>13
  <2>4. Batched("quarantined", "quarantine", quarantined, divert, N)'
    BY <1>10, <1>11, <2>2, <2>3 DEF Batched
  <2> QED
    BY <1>1, <1>7, <2>4 DEF QuarantinedHeld
<1>16. Pairs = Promise!EvidenceUpTo(N) /\ Pairs' = Promise!EvidenceUpTo(N)'
  BY <1>1, <1>5, <1>10, <1>11 DEF History, EvidenceHeld
<1>17. EvidenceHeld'
  <2>1. \A n : Findings(n, flagged \ pending)' = {}
    BY <1>1 DEF Findings
  <2> QED
    BY <1>1, <1>7, <1>8, <1>16, <2>1 DEF EvidenceHeld
<1>18. Stopping'
  BY <1>1, <1>7, <1>12 DEF Stopping
<1>19. Promise!Next
  <2>1. ~Promise!Stopped /\ Pairs = Promise!EvidenceUpTo(Len(input))
    BY <1>5, <1>7, <1>12, <1>16 DEF Promise!Stopped, NoStop
  <2>2. Promise!Verdict(Len(input))' # "abort"
    BY <1>4, <1>7 DEF Promise!Verdict
  <2>3. Promise!Take
    BY <1>1, <1>4, <1>11, <2>1, <2>2 DEF Promise!Take, Pairs
  <2> QED
    BY <2>3 DEF Promise!Next
<1> QED
  BY <1>8, <1>9, <1>14, <1>15, <1>17, <1>18, <1>19 DEF Implemented, History

\* An event that is published, that no sink wants, or that is lost to a failure.
LEMMA Publishes ==
  ASSUME evidence \in Seq(Event), NEW event \in Event, EventValid(event), NEW where, where # "done",
         PublishEvent(event, where)
  PROVE  \/ /\ pc' = where /\ "evidence" \in request.sinks
            /\ Pairs' = Pairs \cup {<<event.line, event.rule>>}
         \/ pc' = where /\ "evidence" \notin request.sinks /\ Pairs' = Pairs
         \/ pc' = "done" /\ err' # "" /\ Pairs' = Pairs
<1>1. Elems(Append(evidence, event)) = Elems(evidence) \cup {event}
  BY ElemsAppend
<1>2. evidence' = Append(evidence, event) => Pairs' = Pairs \cup {<<event.line, event.rule>>}
  BY <1>1 DEF Pairs
<1>3. evidence' = evidence => Pairs' = Pairs
  BY DEF Pairs, Elems
<1> QED
  BY <1>2, <1>3, Published

LEMMA ReportRecordStep ==
  ASSUME Inv, History, Report
  PROVE  Implemented
<1> DEFINE N == Len(input)
<1>1. PICK i \in pending :
        /\ pending' = pending \ {i} /\ summary' = CountWarning(summary, rules[i])
        /\ PublishEvent(MakeEvent(request.contract, rules[i], N), "report")
  BY DEF Report
<1>2. /\ pc = "report" /\ flagged' = flagged
      /\ UNCHANGED <<request, input, checker, slices, accepted, quarantined>>
      /\ summary'.halted = summary.halted /\ rules' = rules
  BY <1>1 DEF Report, CountWarning, Inv, TypeOK, rules
<1>3. /\ N \in Nat \ {0} /\ N - 1 \in 0..N /\ N \in DOMAIN input /\ evidence \in Seq(Event)
      /\ pending \subseteq flagged /\ flagged \subseteq DOMAIN rules
      /\ request.contract \in Contracts /\ Validate(request.contract)
  <2>1. N \in Nat \ {0} /\ input \in Seq(LineType)
    BY <1>2, AdmittedRun DEF Inv, TypeOK
  <2>2. N - 1 \in 0..N /\ N \in DOMAIN input
    BY <2>1
  <2> QED
    BY <1>2, <2>1, <2>2, AdmittedRun DEF rules
<1>4. /\ flagged = Promise!FlaggedAt(N) /\ NoStop(N - 1) /\ ~summary.halted /\ Judged = N - 1
      /\ Pairs = Promise!EvidenceUpTo(N - 1) \cup Findings(N, flagged \ pending)
  BY <1>2 DEF History, EvidenceHeld, Stopping, Judged
<1> DEFINE event == MakeEvent(request.contract, rules[i], N)
<1>5. event \in Event /\ EventValid(event) /\ event.line = N /\ event.rule = rules[i].id
  BY <1>3, MakeEventValid DEF MakeEvent, rules
<1>6. PublishEvent(event, "report")
  BY <1>1
<1> HIDE DEF event, N
<1>7. UNCHANGED <<Elems(accepted), Elems(quarantined)>>
  BY <1>2 DEF Elems
<1>8. \/ /\ pc' = "report"
         /\ Pairs' = Promise!EvidenceUpTo(N - 1) \cup Findings(N, flagged \ pending')
      \/ pc' = "done" /\ err' # "" /\ Pairs' = Pairs
  <2>1. Findings(N, flagged \ pending') =
          Findings(N, flagged \ pending)
            \cup (IF "evidence" \in request.sinks THEN {<<N, rules[i].id>>} ELSE {})
    BY <1>1, <1>3, FindingsGrow
  <2>2. \/ /\ pc' = "report" /\ "evidence" \in request.sinks
           /\ Pairs' = Pairs \cup {<<N, rules[i].id>>}
        \/ pc' = "report" /\ "evidence" \notin request.sinks /\ Pairs' = Pairs
        \/ pc' = "done" /\ err' # "" /\ Pairs' = Pairs
    BY <1>3, <1>5, <1>6, Publishes
  <2> QED
    BY <1>4, <2>1, <2>2
<1>9. Promise!Next
  <2>1. Promise!EvidenceUpTo(N) = Promise!EvidenceUpTo(N - 1) \cup Findings(N, flagged)
    BY <1>3, <1>4, NextPrefix, RecordJudged
  <2>2. /\ Findings(N, flagged \ pending) \subseteq Findings(N, flagged \ pending')
        /\ Findings(N, flagged \ pending') \subseteq Findings(N, flagged)
    BY <1>1, <1>3, FindingsGrow
  <2>3. Pairs \subseteq Pairs' /\ Pairs' \subseteq Promise!EvidenceUpTo(N)
    <3>1. Findings(N, flagged \ pending) \subseteq Findings(N, flagged)
      BY DEF Findings
    <3> QED
      BY <1>4, <1>8, <2>1, <2>2, <3>1
  <2>4. /\ \E n \in 0..N : Elems(accepted) = Promise!Sent("accepted", "accept", n)
        /\ \E n \in 0..N : Elems(quarantined) = Promise!Sent("quarantined", "quarantine", n)
    BY <1>2, Prefixes DEF Delivering, N
  <2> QED
    BY <1>2, <1>7, <1>8, <2>3, <2>4, Advances DEF N
<1>10. SeenExact' /\ CountExact'
  BY <1>2, <1>8, CheckerUndisturbed DEF History
<1>11. /\ \A sink, v, n : Promise!Sent(sink, v, n)' = Promise!Sent(sink, v, n)
       /\ \A n : Promise!Verdict(n)' = Promise!Verdict(n)
       /\ \A n : Promise!FlaggedAt(n)' = Promise!FlaggedAt(n)
       /\ \A n : Promise!EvidenceUpTo(n)' = Promise!EvidenceUpTo(n)
       /\ \A n : Promise!Stops(n)' = Promise!Stops(n)
  BY <1>2, VerdictsStand
<1>12. (AcceptedHeld /\ QuarantinedHeld)'
  <2>1. CASE pc' = "done"
    BY <2>1 DEF AcceptedHeld, QuarantinedHeld
  <2>2. CASE pc' = "report"
    <3>1. /\ Batched("accepted", "accept", accepted, keep, N - 1)
          /\ Batched("quarantined", "quarantine", quarantined, divert, N - 1)
      BY <1>2, <1>4 DEF History, AcceptedHeld, QuarantinedHeld
    <3>2. Elems(keep)' = Elems(keep) /\ Elems(divert)' = Elems(divert)
      BY <1>2 DEF slices, Elems
    <3>3. /\ Batched("accepted", "accept", accepted, keep, N - 1)'
          /\ Batched("quarantined", "quarantine", quarantined, divert, N - 1)'
      BY <1>2, <1>7, <1>11, <3>1, <3>2 DEF Batched, N
    <3>4. Judged' = (N - 1)'
      BY <1>2, <2>2 DEF Judged, N
    <3> QED
      BY <2>2, <3>3, <3>4 DEF AcceptedHeld, QuarantinedHeld
  <2> QED
    BY <1>8, <2>1, <2>2
<1>13. EvidenceHeld'
  <2>1. CASE pc' = "done"
    BY <2>1 DEF EvidenceHeld
  <2>2. CASE pc' = "report"
    <3>1. Findings(Len(input), flagged \ pending)' = Findings(N, flagged \ pending')
      BY <1>2 DEF Findings, N
    <3> QED
      BY <1>2, <1>4, <1>8, <1>11, <2>2, <3>1 DEF EvidenceHeld, N
  <2> QED
    BY <1>8, <2>1, <2>2
<1>14. Stopping'
  <2>1. NoStop(N - 1)' /\ ~summary'.halted /\ (pc' = "report" => Judged' = (N - 1)')
    BY <1>2, <1>4, <1>11 DEF NoStop, Judged, N
  <2> QED
    BY <1>8, <2>1 DEF Stopping
<1> QED
  BY <1>9, <1>10, <1>12, <1>13, <1>14 DEF Implemented, History

\* A record that is counted joins the slice that its verdict says.
LEMMA BatchGrows ==
  ASSUME UNCHANGED <<request, input>>, NEW sink, NEW v, NEW log, NEW slice, NEW slice2,
         NEW m \in Nat \ {0}, Batched(sink, v, log, slice, m - 1),
         Elems(slice2) = Elems(slice) \cup (IF Promise!Verdict(m) = v THEN {m} ELSE {})
  PROVE  Batched(sink, v, log, slice2, m)
<1>1. PICK n \in 0..(m - 1) :
        /\ Elems(log) = Promise!Sent(sink, v, n)
        /\ Elems(slice) = {k \in (n + 1)..(m - 1) : Promise!Verdict(k) = v}
  BY DEF Batched
<1>2. n \in 0..m /\ (n + 1)..m = ((n + 1)..(m - 1)) \cup {m}
  OBVIOUS
<1>3. Elems(slice2) = {k \in (n + 1)..m : Promise!Verdict(k) = v}
  BY <1>1, <1>2
<1> QED
  BY <1>1, <1>2, <1>3 DEF Batched

LEMMA TallyRecordStep ==
  ASSUME Inv, History, Tally
  PROVE  Implemented
<1> DEFINE N == Len(input)
           outcome == Outcome(rules, flagged)
           halted == ShouldHalt(rules, flagged)
<1>1. /\ pc = "report" /\ pc' \in {"accept", "record"} /\ pending = {}
      /\ (pc' = "record" => ~halted)
      /\ UNCHANGED <<request, input, checker, flagged, pending, outputs>>
      /\ keep' = IF outcome = "cleared" THEN Append(keep, N) ELSE keep
      /\ divert' = IF outcome = "quarantined" THEN Append(divert, N) ELSE divert
      /\ summary' = Counting(summary, outcome, halted)
  BY DEF Tally, GoTo, AfterRecord, Counting, Reported
<1>2. outcome \in {"cleared", "quarantined", "breached"}
  BY DEF Outcome
<1>3. /\ N \in Nat \ {0} /\ N \in DOMAIN input /\ keep \in Seq(Nat) /\ divert \in Seq(Nat)
      /\ summary \in Summary
  <2>1. N \in Nat \ {0} /\ input \in Seq(LineType)
    BY <1>1, AdmittedRun DEF Inv, TypeOK
  <2>2. N \in DOMAIN input
    BY <2>1
  <2> QED
    BY <2>1, <2>2 DEF Inv, TypeOK, Summary
<1>4. /\ flagged = Promise!FlaggedAt(N) /\ NoStop(N - 1) /\ Judged = N - 1
      /\ Pairs = Promise!EvidenceUpTo(N - 1) \cup Findings(N, flagged)
  <2>1. flagged \ pending = flagged
    BY <1>1
  <2> QED
    BY <1>1, <2>1 DEF History, EvidenceHeld, Stopping, Judged
<1>5. /\ Promise!Verdict(N) = "accept" <=> outcome = "cleared"
      /\ Promise!Verdict(N) = "quarantine" <=> outcome = "quarantined"
      /\ Promise!Stops(N) <=> halted
      /\ Promise!EvidenceAt(N) = Findings(N, flagged)
  BY <1>3, <1>4, RecordJudged
<1> HIDE DEF outcome, halted
<1>6. summary'.halted = halted
  BY <1>1, <1>2, <1>3, RecordCounted
<1> HIDE DEF N
<1>7. (NoStop(N) <=> ~halted) /\ Pairs = Promise!EvidenceUpTo(N)
  BY <1>3, <1>4, <1>5, NextPrefix
<1>8. Judged' = N /\ Len(input)' = N
  BY <1>1 DEF Judged, N
<1>9. /\ Elems(keep') = Elems(keep) \cup (IF Promise!Verdict(N) = "accept" THEN {N} ELSE {})
      /\ Elems(divert') = Elems(divert) \cup (IF Promise!Verdict(N) = "quarantine" THEN {N} ELSE {})
  <2>1. Elems(Append(keep, N)) = Elems(keep) \cup {N} /\ Elems(Append(divert, N)) = Elems(divert) \cup {N}
    BY <1>3, ElemsAppend
  <2> QED
    BY <1>1, <1>5, <2>1
<1>10. /\ Batched("accepted", "accept", accepted, keep', N)
       /\ Batched("quarantined", "quarantine", quarantined, divert', N)
  <2>1. /\ Batched("accepted", "accept", accepted, keep, N - 1)
        /\ Batched("quarantined", "quarantine", quarantined, divert, N - 1)
    BY <1>1, <1>4 DEF History, AcceptedHeld, QuarantinedHeld
  <2> QED
    BY <1>1, <1>3, <1>9, <2>1, BatchGrows
<1>11. (AcceptedHeld /\ QuarantinedHeld)'
  <2>1. /\ Elems(accepted)' = Elems(accepted) /\ Elems(quarantined)' = Elems(quarantined)
        /\ Elems(keep)' = Elems(keep') /\ Elems(divert)' = Elems(divert')
    BY <1>1 DEF outputs, Elems
  <2>2. /\ Batched("accepted", "accept", accepted, keep, N)'
        /\ Batched("quarantined", "quarantine", quarantined, divert, N)'
    BY <1>1, <1>8, <1>10, <2>1, VerdictsStand DEF Batched, N
  <2> QED
    BY <1>1, <1>8, <2>2 DEF AcceptedHeld, QuarantinedHeld, N
<1>12. EvidenceHeld'
  <2>1. Pairs' = Pairs /\ Promise!EvidenceUpTo(N)' = Promise!EvidenceUpTo(N)
    BY <1>1, VerdictsStand DEF Pairs, Elems, outputs, N
  <2> QED
    BY <1>1, <1>7, <1>8, <2>1 DEF EvidenceHeld, N
<1>13. Stopping'
  <2>1. NoStop(N)' <=> NoStop(N)
    BY <1>1, VerdictsStand DEF NoStop, N
  <2> QED
    BY <1>1, <1>6, <1>7, <1>8, <2>1 DEF Stopping, N
<1>14. SeenExact' /\ CountExact'
  BY <1>1, CheckerUndisturbed DEF History
<1>15. UNCHANGED Promise!vars
  BY <1>1, Stutters
<1> QED
  BY <1>11, <1>12, <1>13, <1>14, <1>15 DEF Implemented, History

(***************************************************************************)
(* The sinks of a batch                                                     *)
(***************************************************************************)
\* What a sink holds once it has its slice is what the verdicts up to m say.
LEMMA BatchCarried ==
  ASSUME NEW sink, NEW v, NEW log \in Seq(Nat), NEW slice \in Seq(Nat), NEW m \in Nat,
         Batched(sink, v, log, slice, m)
  PROVE  /\ sink \in request.sinks => Elems(log \o slice) = Promise!Sent(sink, v, m)
         /\ slice = <<>> \/ sink \notin request.sinks => Elems(log) = Promise!Sent(sink, v, m)
         /\ \E n \in 0..m : Elems(log) = Promise!Sent(sink, v, n)
<1>1. PICK n \in 0..m :
        /\ Elems(log) = Promise!Sent(sink, v, n)
        /\ Elems(slice) = {k \in (n + 1)..m : Promise!Verdict(k) = v}
  BY DEF Batched
<1>2. 1..m = (1..n) \cup ((n + 1)..m)
  OBVIOUS
<1>3. sink \in request.sinks =>
        Promise!Sent(sink, v, m) = Promise!Sent(sink, v, n) \cup Elems(slice)
  BY <1>1, <1>2 DEF Promise!Sent
<1>4. sink \notin request.sinks => Promise!Sent(sink, v, m) = {} /\ Promise!Sent(sink, v, n) = {}
  BY DEF Promise!Sent
<1>5. Elems(log \o slice) = Elems(log) \cup Elems(slice)
  BY ElemsConcat
<1>6. slice = <<>> => Elems(slice) = {}
  BY ElemsNone
<1> QED
  BY <1>1, <1>3, <1>4, <1>5, <1>6

LEMMA AcceptStep ==
  ASSUME Inv, History, Accept
  PROVE  Implemented
<1> DEFINE N == Len(input)
           Whole == Promise!Sent("accepted", "accept", N)
<1>1. /\ pc = "accept" /\ pc' \in {"quarantine", "done"} /\ (pc' = "done" => err' # "")
      /\ UNCHANGED <<request, input, checker, flagged, pending, summary, slices, quarantined, evidence>>
      /\ \/ accepted' = accepted \o keep /\ "accepted" \in request.sinks
         \/ accepted' = accepted /\ (keep = <<>> \/ "accepted" \notin request.sinks)
         \/ accepted' = accepted /\ pc' = "done"
  BY DEF Accept, SendBatch, GoTo, Return
<1>2. N \in Nat /\ N \in 0..N /\ accepted \in Seq(Nat) /\ keep \in Seq(Nat)
  <2>1. N \in Nat
    BY <1>1, AdmittedRun
  <2>2. N \in 0..N
    BY <2>1
  <2> HIDE DEF N
  <2> QED
    BY <2>1, <2>2 DEF Inv, TypeOK
<1>3. Judged = N /\ Judged' = N /\ Len(input)' = N
  BY <1>1 DEF Judged
<1>4. Batched("accepted", "accept", accepted, keep, N)
  BY <1>1, <1>3 DEF History, AcceptedHeld
<1>5. /\ "accepted" \in request.sinks => Elems(accepted \o keep) = Whole
      /\ keep = <<>> \/ "accepted" \notin request.sinks => Elems(accepted) = Whole
      /\ \E n \in 0..N : Elems(accepted) = Promise!Sent("accepted", "accept", n)
      /\ Elems(accepted \o keep) = Elems(accepted) \cup Elems(keep)
  <2> HIDE DEF N
  <2> QED
    BY <1>2, <1>4, BatchCarried, ElemsConcat
<1> HIDE DEF N
<1>6. UNCHANGED <<Elems(quarantined), Elems(divert), Pairs>>
  BY <1>1 DEF Elems, Pairs, slices
<1>7. Pairs = Promise!EvidenceUpTo(N) /\ (summary.halted <=> ~NoStop(N))
  BY <1>1 DEF History, EvidenceHeld, Stopping, N
<1>8. Promise!Next
  <2>1. /\ Elems(accepted) \subseteq Elems(accepted')
        /\ \E n \in 0..N : Elems(accepted') = Promise!Sent("accepted", "accept", n)
    BY <1>1, <1>2, <1>5
  <2>2. \E n \in 0..N : Elems(quarantined) = Promise!Sent("quarantined", "quarantine", n)
    BY <1>1, Prefixes DEF Delivering, N
  <2> HIDE DEF Whole
  <2>3. Elems(quarantined') = Elems(quarantined) /\ Pairs' = Pairs
    BY <1>6
  <2> QED
    BY <1>1, <1>7, <2>1, <2>2, <2>3, Advances DEF N
<1>9. SeenExact' /\ CountExact'
  BY <1>1, CheckerUndisturbed DEF History
<1>10. AcceptedHeld'
  <2>1. pc' = "quarantine" => Elems(accepted') = Whole
    BY <1>1, <1>5
  <2> QED
    BY <1>1, <2>1, <1>3, VerdictsStand DEF AcceptedHeld, N
<1>11. QuarantinedHeld'
  <2>1. Batched("quarantined", "quarantine", quarantined, divert, N)
    BY <1>1, <1>3 DEF History, QuarantinedHeld
  <2>2. /\ Elems(quarantined)' = Elems(quarantined) /\ Elems(divert)' = Elems(divert)
        /\ N' = N /\ UNCHANGED <<request, input>>
    BY <1>1, <1>6 DEF N
  <2>3. PICK n \in 0..N :
          /\ Elems(quarantined) = Promise!Sent("quarantined", "quarantine", n)
          /\ Elems(divert) = {k \in (n + 1)..N : Promise!Verdict(k) = "quarantine"}
    BY <2>1 DEF Batched
  <2>4. Promise!Sent("quarantined", "quarantine", n)' = Promise!Sent("quarantined", "quarantine", n)
    BY <2>2, VerdictsStand
  <2>5. {k \in (n + 1)..N : Promise!Verdict(k)' = "quarantine"}
          = {k \in (n + 1)..N : Promise!Verdict(k) = "quarantine"}
    BY <2>2, VerdictsStand
  <2>6. Batched("quarantined", "quarantine", quarantined, divert, N)'
    BY <2>2, <2>3, <2>4, <2>5 DEF Batched
  <2> QED
    BY <1>1, <1>3, <2>2, <2>6 DEF QuarantinedHeld, N
<1>12. (EvidenceHeld /\ Stopping)'
  <2>1. /\ Promise!EvidenceUpTo(N)' = Promise!EvidenceUpTo(N)
        /\ NoStop(N)' <=> NoStop(N)
    BY <1>1, VerdictsStand DEF NoStop, N
  <2> QED
    BY <1>1, <1>3, <1>6, <1>7, <2>1 DEF EvidenceHeld, Stopping, N
<1> QED
  BY <1>8, <1>9, <1>10, <1>11, <1>12 DEF Implemented, History

LEMMA QuarantineStep ==
  ASSUME Inv, History, Quarantine
  PROVE  Implemented
<1> DEFINE N == Len(input)
           Whole == Promise!Sent("quarantined", "quarantine", N)
<1>1. /\ pc = "quarantine" /\ pc' \in {AfterBatch, "done"} /\ (pc' = "done" => err' # "")
      /\ UNCHANGED <<request, input, checker, flagged, pending, summary, slices, accepted, evidence>>
      /\ \/ quarantined' = quarantined \o divert /\ "quarantined" \in request.sinks
         \/ quarantined' = quarantined /\ (divert = <<>> \/ "quarantined" \notin request.sinks)
         \/ quarantined' = quarantined /\ pc' = "done"
  <2>1. AfterBatch # "done"
    BY DEF AfterBatch
  <2> QED
    BY <2>1 DEF Quarantine, SendBatch, GoTo, Return
<1>2. N \in Nat /\ N \in 0..N /\ quarantined \in Seq(Nat) /\ divert \in Seq(Nat)
  <2>1. N \in Nat
    BY <1>1, AdmittedRun
  <2>2. N \in 0..N
    BY <2>1
  <2> HIDE DEF N
  <2> QED
    BY <2>1, <2>2 DEF Inv, TypeOK
<1>3. /\ pc' \in {"next", "halted", "done"}
      /\ (pc' = "next" => ~summary.halted) /\ (pc' = "halted" => summary.halted)
  BY <1>1 DEF AfterBatch
<1>4. Judged = N /\ Judged' = N /\ Len(input)' = N
  BY <1>1, <1>3 DEF Judged
<1>5. Batched("quarantined", "quarantine", quarantined, divert, N)
  BY <1>1, <1>4 DEF History, QuarantinedHeld
<1>6. /\ "quarantined" \in request.sinks => Elems(quarantined \o divert) = Whole
      /\ divert = <<>> \/ "quarantined" \notin request.sinks => Elems(quarantined) = Whole
      /\ \E n \in 0..N : Elems(quarantined) = Promise!Sent("quarantined", "quarantine", n)
      /\ Elems(quarantined \o divert) = Elems(quarantined) \cup Elems(divert)
  <2> HIDE DEF N
  <2> QED
    BY <1>2, <1>5, BatchCarried, ElemsConcat
<1> HIDE DEF N
<1>7. UNCHANGED <<Elems(accepted), Pairs>>
  BY <1>1 DEF Elems, Pairs
<1>8. /\ Pairs = Promise!EvidenceUpTo(N) /\ (summary.halted <=> ~NoStop(N))
      /\ Elems(accepted) = Promise!Sent("accepted", "accept", N)
  BY <1>1 DEF History, EvidenceHeld, Stopping, AcceptedHeld, N
<1>9. Promise!Next
  <2>1. /\ Elems(quarantined) \subseteq Elems(quarantined')
        /\ \E n \in 0..N : Elems(quarantined') = Promise!Sent("quarantined", "quarantine", n)
    BY <1>1, <1>2, <1>6
  <2>2. \E n \in 0..N : Elems(accepted') = Promise!Sent("accepted", "accept", n)
    BY <1>2, <1>7, <1>8
  <2>3. Elems(accepted') = Elems(accepted) /\ Pairs' = Pairs
    BY <1>7
  <2> HIDE DEF Whole
  <2> QED
    BY <1>1, <1>8, <2>1, <2>2, <2>3, Advances DEF N
<1>10. SeenExact' /\ CountExact'
  BY <1>1, CheckerUndisturbed DEF History
<1>11. (AcceptedHeld /\ QuarantinedHeld)'
  <2>1. pc' # "done" => Elems(quarantined') = Whole
    BY <1>1, <1>6
  <2>2. /\ Elems(accepted)' = Promise!Sent("accepted", "accept", N)'
        /\ pc' # "done" => Elems(quarantined)' = Promise!Sent("quarantined", "quarantine", N)'
    BY <1>1, <1>7, <1>8, <2>1, VerdictsStand DEF N
  <2> QED
    BY <1>1, <1>3, <2>2 DEF AcceptedHeld, QuarantinedHeld, N
<1>12. (EvidenceHeld /\ Stopping)'
  <2>1. /\ Promise!EvidenceUpTo(N)' = Promise!EvidenceUpTo(N)
        /\ NoStop(N)' <=> NoStop(N)
    BY <1>1, VerdictsStand DEF NoStop, N
  <2> QED
    BY <1>1, <1>3, <1>4, <1>7, <1>8, <2>1 DEF EvidenceHeld, Stopping, N
<1> QED
  BY <1>9, <1>10, <1>11, <1>12 DEF Implemented, History

(***************************************************************************)
(* The count rules                                                         *)
(***************************************************************************)
\* What is reported of the stream is what the number of its records says.
LEMMA CountsJudged ==
  ASSUME Inv, History, pc = "final", ~summary.halted, NEW N \in Nat, N = Len(input)
  PROVE  /\ Findings(FinalLine(N), flagged) = Promise!FinalEvidence
         /\ NoStop(N) /\ ~Promise!Stopped /\ Promise!Delivered
<1>1. input \in Seq(LineType) /\ \A n \in DOMAIN input : input[n].ok
  BY DEF Inv, TypeOK, Records
<1>2. DOMAIN input = 1..N
  BY <1>1
<1>3. {n \in 1..N : input[n].ok} = 1..N
  BY <1>1, <1>2
<1>4. Cardinality(1..N) = N
  <2>1. 1 \in Int /\ N \in Int /\ 1 <= N + 1
    OBVIOUS
  <2>2. Cardinality(1..N) = IF 1 > N THEN 0 ELSE N - 1 + 1
    BY <2>1, FS_Interval
  <2> QED
    BY <2>2
<1>5. flagged = FinalBreaches(rules, N)
  BY DEF History, EvidenceHeld, CountExact
<1>6. FinalLine(N) = IF N = 0 THEN 1 ELSE N
  BY DEF FinalLine
<1>7. Findings(FinalLine(N), flagged) = Promise!FinalEvidence
  BY <1>3, <1>4, <1>5, <1>6, SameEngine, SameCardinality
     DEF Findings, Promise!FinalEvidence, Promise!rules, rules
<1>8. NoStop(N) /\ Promise!Delivered
  BY DEF History, Stopping, AcceptedHeld, QuarantinedHeld, Promise!Delivered
<1> QED
  BY <1>2, <1>7, <1>8 DEF NoStop, Promise!Stopped

LEMMA ReportFinalStep ==
  ASSUME Inv, History, ReportFinal
  PROVE  Implemented
<1> DEFINE N == Len(input)
           L == FinalLine(N)
<1>1. PICK i \in pending :
        /\ pending' = pending \ {i} /\ summary' = CountFinal(summary, rules[i])
        /\ PublishEvent(MakeEvent(request.contract, rules[i], L), "final")
  BY DEF ReportFinal
<1>2. /\ pc = "final" /\ flagged' = flagged
      /\ UNCHANGED <<request, input, checker, slices, accepted, quarantined>>
      /\ summary'.halted = summary.halted /\ rules' = rules
  BY <1>1 DEF ReportFinal, CountFinal, Inv, TypeOK, rules
<1>3. /\ N \in Nat /\ L \in Nat \ {0} /\ evidence \in Seq(Event)
      /\ pending \subseteq flagged /\ flagged \subseteq DOMAIN rules
      /\ request.contract \in Contracts /\ Validate(request.contract)
  BY <1>2, AdmittedRun DEF rules
<1>4. /\ flagged = (IF summary.halted THEN {} ELSE FinalBreaches(rules, count))
      /\ Pairs = Promise!EvidenceUpTo(N) \cup Findings(L, flagged \ pending)
      /\ Elems(accepted) = Promise!Sent("accepted", "accept", N)
      /\ Elems(quarantined) = Promise!Sent("quarantined", "quarantine", N)
      /\ summary.halted <=> ~NoStop(N)
  BY <1>2 DEF History, EvidenceHeld, AcceptedHeld, QuarantinedHeld, Stopping
<1>5. ~summary.halted
  BY <1>1, <1>3, <1>4
<1>6. /\ Findings(L, flagged) = Promise!FinalEvidence
      /\ ~Promise!Stopped /\ Promise!Delivered
  BY <1>2, <1>3, <1>5, CountsJudged
<1> DEFINE event == MakeEvent(request.contract, rules[i], L)
<1>7. event \in Event /\ EventValid(event) /\ event.line = L /\ event.rule = rules[i].id
  BY <1>3, MakeEventValid DEF MakeEvent, rules
<1>8. PublishEvent(event, "final")
  BY <1>1
<1> HIDE DEF event, N, L
<1>9. UNCHANGED <<Elems(accepted), Elems(quarantined)>>
  BY <1>2 DEF Elems
<1>10. \/ /\ pc' = "final"
          /\ Pairs' = Promise!EvidenceUpTo(N) \cup Findings(L, flagged \ pending')
       \/ pc' = "done" /\ err' # "" /\ Pairs' = Pairs
  <2>1. Findings(L, flagged \ pending') =
          Findings(L, flagged \ pending)
            \cup (IF "evidence" \in request.sinks THEN {<<L, rules[i].id>>} ELSE {})
    BY <1>1, <1>3, FindingsGrow
  <2>2. \/ /\ pc' = "final" /\ "evidence" \in request.sinks
           /\ Pairs' = Pairs \cup {<<L, rules[i].id>>}
        \/ pc' = "final" /\ "evidence" \notin request.sinks /\ Pairs' = Pairs
        \/ pc' = "done" /\ err' # "" /\ Pairs' = Pairs
    BY <1>3, <1>7, <1>8, Publishes
  <2> QED
    BY <1>4, <2>1, <2>2
<1>11. Promise!Next
  <2>1. /\ Findings(L, flagged \ pending') \subseteq Findings(L, flagged)
        /\ Findings(L, flagged \ pending) \subseteq Findings(L, flagged \ pending')
        /\ Findings(L, flagged \ pending) \subseteq Findings(L, flagged)
    <3>1. flagged \ pending \subseteq flagged \ pending'
      BY <1>1
    <3> QED
      BY <1>1, <1>3, <3>1, FindingsGrow DEF Findings
  <2>2. /\ Promise!EvidenceUpTo(N) \subseteq Pairs /\ Pairs \subseteq Pairs'
        /\ Pairs' \subseteq Promise!EvidenceUpTo(N) \cup Promise!FinalEvidence
    BY <1>4, <1>6, <1>10, <2>1
  <2>3. Promise!Conclude
    BY <1>2, <1>6, <1>9, <1>10, <2>2 DEF Promise!Conclude, Pairs, N
  <2> QED
    BY <2>3 DEF Promise!Next
<1>12. SeenExact' /\ CountExact'
  BY <1>2, <1>10, CheckerUndisturbed DEF History
<1>13. /\ \A sink, v : Promise!Sent(sink, v, N)' = Promise!Sent(sink, v, N)
       /\ Promise!EvidenceUpTo(N)' = Promise!EvidenceUpTo(N)
       /\ NoStop(N)' <=> NoStop(N)
  BY <1>2, VerdictsStand DEF NoStop, N
<1>14. (AcceptedHeld /\ QuarantinedHeld /\ Stopping)'
  BY <1>2, <1>4, <1>9, <1>10, <1>13 DEF AcceptedHeld, QuarantinedHeld, Stopping, N
<1>15. EvidenceHeld'
  <2>1. flagged' = (IF summary'.halted THEN {} ELSE FinalBreaches(rules', count'))
    BY <1>2, <1>4 DEF checker
  <2>2. Findings(FinalLine(Len(input)), flagged \ pending)' = Findings(L, flagged \ pending')
    BY <1>2 DEF Findings, FinalLine, N, L
  <2> QED
    BY <1>2, <1>10, <1>13, <2>1, <2>2 DEF EvidenceHeld, N
<1> QED
  BY <1>11, <1>12, <1>14, <1>15 DEF Implemented, History

LEMMA ReturnStep ==
  ASSUME Inv, History, ReturnSummary
  PROVE  Implemented
<1>1. /\ pc = "final" /\ pc' = "done" /\ err' = "" /\ pending = {}
      /\ UNCHANGED <<request, input, checker, summary, slices, outputs>>
  BY DEF ReturnSummary, Return
<1>2. History'
  <2>1. SeenExact' /\ CountExact'
    BY <1>1, CheckerUndisturbed DEF History
  <2> QED
    BY <1>1, <2>1 DEF History, AcceptedHeld, QuarantinedHeld, EvidenceHeld, Stopping
<1>3. PICK N \in Nat : N = Len(input)
  BY <1>1, AdmittedRun
<1>4. UNCHANGED <<request, input, Elems(accepted), Elems(quarantined), Pairs>>
  BY <1>1 DEF outputs, Pairs, Elems
<1>5. /\ flagged = (IF summary.halted THEN {} ELSE FinalBreaches(rules, count))
      /\ Pairs = Promise!EvidenceUpTo(N) \cup Findings(FinalLine(N), flagged)
  <2>1. flagged \ pending = flagged
    BY <1>1
  <2> QED
    BY <1>1, <1>3, <2>1 DEF History, EvidenceHeld
<1>6. CASE summary.halted
  <2>1. Pairs = Promise!EvidenceUpTo(N)
    BY <1>5, <1>6 DEF Findings
  <2>2. Promise!Delivered /\ Promise!Stopped
    <3>1. input \in Seq(LineType)
      BY DEF Inv, TypeOK
    <3>2. DOMAIN input = 1..N
      BY <1>3, <3>1
    <3>3. ~NoStop(N) /\ Promise!Delivered
      BY <1>1, <1>3, <1>6 DEF History, Stopping, AcceptedHeld, QuarantinedHeld, Promise!Delivered
    <3> QED
      BY <3>2, <3>3 DEF Promise!Stopped, NoStop
  <2>3. Promise!Halt
    BY <1>1, <1>3, <1>4, <1>6, <2>1, <2>2 DEF Promise!Halt, Pairs
  <2> QED
    BY <1>2, <2>3 DEF Implemented, Promise!Next
<1>7. CASE ~summary.halted
  <2>1. /\ Findings(FinalLine(N), flagged) = Promise!FinalEvidence
        /\ ~Promise!Stopped /\ Promise!Delivered
    BY <1>1, <1>3, <1>7, CountsJudged
  <2>2. Promise!Complete
    BY <1>1, <1>3, <1>4, <1>5, <1>7, <2>1 DEF Promise!Complete, Pairs
  <2> QED
    BY <1>2, <2>2 DEF Implemented, Promise!Next
<1> QED
  BY <1>6, <1>7

LEMMA NextImplements == Inv /\ History /\ [Next]_vars => Implemented
<1> SUFFICES ASSUME Inv, History, [Next]_vars PROVE Implemented
  OBVIOUS
<1> QED
  BY FailStep, BeginStep, IdleStep, ConcludeStep, NextBatchStep, CheckRecordStep, ReportRecordStep,
     TallyRecordStep, AcceptStep, QuarantineStep, ReportFinalStep, ReturnStep
     DEF Next, Run, Returned

\* Every behaviour of brokoli.RunBatches, for every cut of the stream into batches
\* and every placement of a failing sink, a failing source and a cancellation, is
\* one that the abstract gate allows: the same gate as brokoli.Run implements.
THEOREM GateRefined == Spec => RefinesGate
<1>1. Init => Inv /\ History /\ Promise!Init
  BY InitInv, InitHistory
<1>2. Inv /\ History /\ [Next]_vars => Inv' /\ History' /\ [Promise!Next]_Promise!vars
  BY NextInv, NextImplements DEF Implemented
<1>3. Spec => Promise!Init /\ [][Promise!Next]_Promise!vars
  BY <1>1, <1>2, PTL DEF Spec
<1> QED
  BY <1>3 DEF RefinesGate, Promise!Spec

(***************************************************************************)
(* Evidence before records                                                  *)
(***************************************************************************)
LEMMA UnderWay ==
  ASSUME Inv, History, pc # "done"
  PROVE  EvidenceFirst
<1>1. PICK N \in Nat : N = Len(input)
  <2>1. input \in Seq(LineType)
    BY DEF Inv, TypeOK
  <2> QED
    BY <2>1
<1>2. pc = "report" => N \in Nat \ {0} /\ N - 1 \in Nat /\ N - 1 \in Int
  BY <1>1 DEF Inv, Records
<1>3. \E m \in Nat : /\ Promise!EvidenceUpTo(m) \subseteq Pairs
                     /\ \E n \in 0..m : Elems(accepted) = Promise!Sent("accepted", "accept", n)
                     /\ \E n \in 0..m : Elems(quarantined) = Promise!Sent("quarantined", "quarantine", n)
  <2>1. CASE pc = "report"
    <3>1. Promise!EvidenceUpTo(N - 1) \subseteq Pairs /\ Judged = N - 1
      BY <1>1, <2>1 DEF History, EvidenceHeld, Judged
    <3> QED
      BY <1>2, <2>1, <3>1 DEF History, AcceptedHeld, QuarantinedHeld, Batched
  <2>2. CASE pc # "report"
    <3>1. Promise!EvidenceUpTo(N) \subseteq Pairs
      BY <1>1, <2>2 DEF History, EvidenceHeld
    <3> QED
      BY <1>1, <3>1, Prefixes DEF Delivering
  <2> QED
    BY <2>1, <2>2
<1>4. ASSUME NEW n \in Elems(accepted) \cup Elems(quarantined)
      PROVE  Promise!EvidenceUpTo(n) \subseteq Pairs
  <2>1. PICK m \in Nat :
          /\ Promise!EvidenceUpTo(m) \subseteq Pairs
          /\ \E k \in 0..m : Elems(accepted) = Promise!Sent("accepted", "accept", k)
          /\ \E k \in 0..m : Elems(quarantined) = Promise!Sent("quarantined", "quarantine", k)
    BY <1>3
  <2>2. PICK k \in 0..m : n \in 1..k
    BY <2>1 DEF Promise!Sent
  <2>3. n \in Int /\ m \in Int /\ n <= m
    BY <2>2
  <2>4. Promise!EvidenceUpTo(n) \subseteq Promise!EvidenceUpTo(m)
    BY <2>3, PrefixesGrow
  <2> QED
    BY <2>1, <2>4
<1>5. pc \in {"accept", "quarantine"} => Promise!EvidenceUpTo(Len(input)) \subseteq Pairs
  BY DEF History, EvidenceHeld
<1> QED
  BY <1>4, <1>5 DEF EvidenceFirst, Pairs

\* Wherever RunBatches stops, nothing leaves it in that step.
LEMMA StopStep ==
  ASSUME pc' = "done", [Next]_vars
  PROVE  UNCHANGED <<request, input, outputs>>
<1>1. CASE Reject \/ Begin \/ NextCancelled \/ NextFailed \/ Conclude \/ ReturnSummary
             \/ Cancel \/ UNCHANGED vars \/ \E b \in Batches : NextBatch(b)
  BY <1>1 DEF Reject, Begin, NextCancelled, NextFailed, Conclude, ReturnSummary, Cancel, vars,
     outputs, NextBatch
<1>2. CASE CheckRecord \/ Tally
  BY <1>2 DEF CheckRecord, Tally, GoTo, AfterRecord
<1>3. CASE Report \/ ReportFinal
  BY <1>3 DEF Report, ReportFinal, PublishEvent, GoTo, Return, outputs
<1>4. CASE Accept \/ Quarantine
  <2>1. AfterBatch # "done"
    BY DEF AfterBatch
  <2> QED
    BY <1>4, <2>1 DEF Accept, Quarantine, SendBatch, GoTo, Return, outputs
<1> QED
  BY <1>1, <1>2, <1>3, <1>4 DEF Next, Run, Returned

Left == pc = "done" => EvidenceFirst

LEMMA NextLeft == Inv /\ History /\ Left /\ [Next]_vars => Left'
<1> SUFFICES ASSUME Inv, History, Left, [Next]_vars, pc' = "done" PROVE EvidenceFirst'
  BY DEF Left
<1>1. EvidenceFirst
  BY UnderWay DEF Left
<1>2. UNCHANGED <<request, input, outputs>>
  BY StopStep
<1>3. UNCHANGED <<Elems(accepted), Elems(quarantined), Pairs>>
  BY <1>2 DEF Elems, Pairs, outputs
<1> QED
  BY <1>1, <1>2, <1>3, VerdictsStand DEF EvidenceFirst, Pairs

\* For every contract, every source and every cut into batches: no sink holds a
\* record before the evidence sink holds the findings of all records up to it, also
\* after a failure.
THEOREM EvidenceLeadsRecords == Spec => []EvidenceFirst
<1>1. Init => Inv /\ History /\ Left
  BY InitInv, InitHistory DEF Init, Left
<1>2. Inv /\ History /\ Left /\ [Next]_vars => (Inv /\ History /\ Left)'
  BY NextInv, NextImplements, NextLeft DEF Implemented
<1>3. Inv /\ History /\ Left => EvidenceFirst
  BY UnderWay DEF Left
<1> QED
  BY <1>1, <1>2, <1>3, PTL DEF Spec

(***************************************************************************)
(* What a failure may lose                                                 *)
(***************************************************************************)
\* What the slices hold, and the record in progress, are of the batch at hand.
Recent ==
  /\ Len(batch) \in Nat /\ Len(batch) <= MaxBatch
  /\ pc = "report" => Len(batch) < MaxBatch
  /\ \A n \in Elems(keep) \cup Elems(divert) :
       n \in Int /\ (Len(input) - n) + Len(batch) < MaxBatch

LEMMA InitRecent == Init => Recent
<1> SUFFICES ASSUME Init PROVE Recent
  OBVIOUS
<1>1. Elems(keep) = {} /\ Elems(divert) = {}
  BY ElemsNone DEF Init
<1>2. Len(batch) = 0 /\ pc = "start"
  BY DEF Init
<1> QED
  BY <1>1, <1>2, BoundsAssumption DEF Recent

\* What moves neither the batch nor its slices.
LEMMA StillRecent ==
  ASSUME Recent, UNCHANGED <<batch, input, slices>>, pc' = "report" => pc = "report"
  PROVE  Recent'
<1>1. UNCHANGED <<Elems(keep), Elems(divert)>>
  BY DEF Elems, slices
<1> QED
  BY <1>1 DEF Recent

\* A record more in a slice.
LEMMA SliceGrows ==
  ASSUME Inv
  PROVE  /\ Elems(Append(keep, Len(input))) = Elems(keep) \cup {Len(input)}
         /\ Elems(Append(divert, Len(input))) = Elems(divert) \cup {Len(input)}
<1>1. keep \in Seq(Nat)
  BY DEF Inv, TypeOK
<1>2. divert \in Seq(Nat)
  BY DEF Inv, TypeOK
<1>3. Len(input) \in Nat
  <2>1. input \in Seq(LineType)
    BY DEF Inv, TypeOK
  <2> QED
    BY <2>1
<1>4. Elems(Append(keep, Len(input))) = Elems(keep) \cup {Len(input)}
  BY <1>1, <1>3, ElemsAppend
<1>5. Elems(Append(divert, Len(input))) = Elems(divert) \cup {Len(input)}
  BY <1>2, <1>3, ElemsAppend
<1> QED
  BY <1>4, <1>5

LEMMA NextRecent == Inv /\ Recent /\ [Next]_vars => Recent'
<1> SUFFICES ASSUME Inv, Recent, [Next]_vars PROVE Recent'
  OBVIOUS
<1>1. batch \in Seq(Nat)
  BY DEF Inv, TypeOK
<1>2. input \in Seq(LineType)
  BY DEF Inv, TypeOK
<1>3. Len(input) \in Nat
  BY <1>2
<1>4. CASE \E b \in Batches : NextBatch(b)
  <2>1. PICK b \in Batches : NextBatch(b)
    BY <1>4
  <2>2. Len(b) \in Nat /\ Len(b) <= MaxBatch
    BY BoundsAssumption DEF Batches
  <2>3. batch' = b /\ keep' = <<>> /\ divert' = <<>> /\ pc' # "report"
    BY <2>1 DEF NextBatch, GoTo, AfterRecord
  <2>4. Elems(keep)' = {} /\ Elems(divert)' = {}
    BY <2>3, ElemsNone
  <2> QED
    BY <2>2, <2>3, <2>4 DEF Recent
<1>5. CASE CheckRecord
  <2>1. batch # <<>>
    BY <1>5 DEF CheckRecord, Inv, Records
  <2>2. Len(batch') = Len(batch) - 1 /\ Len(batch) \in Nat \ {0}
    BY <1>1, <1>5, <2>1 DEF CheckRecord
  <2>3. Len(input') = Len(input) + 1
    BY <1>2, <1>5 DEF CheckRecord
  <2>4. UNCHANGED <<Elems(keep), Elems(divert)>>
    BY <1>5 DEF CheckRecord, slices, Elems
  <2>5. Len(batch') \in Nat /\ Len(batch') < MaxBatch /\ Len(batch') <= MaxBatch
    BY <2>2, BoundsAssumption DEF Recent
  <2>6. \A n \in Elems(keep) \cup Elems(divert) :
          n \in Int /\ (Len(input') - n) + Len(batch') < MaxBatch
    <3>1. \A n \in Int : (Len(input') - n) + Len(batch') = (Len(input) - n) + Len(batch)
      BY <1>3, <2>2, <2>3
    <3> QED
      BY <3>1 DEF Recent
  <2> QED
    BY <2>4, <2>5, <2>6 DEF Recent
<1>6. CASE Report
  BY <1>6, StillRecent DEF Report
<1>7. CASE ReportFinal
  <2>1. UNCHANGED <<batch, input, slices>> /\ pc' # "report"
    BY <1>7 DEF ReportFinal, PublishEvent, GoTo, Return
  <2> QED
    BY <2>1, StillRecent
<1>8. CASE Tally
  <2>1. UNCHANGED <<batch, input>> /\ pc' # "report" /\ pc = "report"
    BY <1>8 DEF Tally, GoTo, AfterRecord
  <2>2. keep' = keep \/ keep' = Append(keep, Len(input))
    BY <1>8 DEF Tally
  <2>3. divert' = divert \/ divert' = Append(divert, Len(input))
    BY <1>8 DEF Tally
  <2>4. Elems(keep)' \subseteq Elems(keep) \cup {Len(input)}
    <3>1. Elems(keep)' = Elems(keep')
      BY DEF Elems
    <3> QED
      BY <2>2, <3>1, SliceGrows
  <2>5. Elems(divert)' \subseteq Elems(divert) \cup {Len(input)}
    <3>1. Elems(divert)' = Elems(divert')
      BY DEF Elems
    <3> QED
      BY <2>3, <3>1, SliceGrows
  <2>6. (Len(input) - Len(input)) + Len(batch) < MaxBatch
    BY <1>3, <2>1, BoundsAssumption DEF Recent
  <2> QED
    BY <1>3, <2>1, <2>4, <2>5, <2>6 DEF Recent
<1>9. CASE Reject \/ Begin \/ NextCancelled \/ NextFailed \/ Conclude \/ ReturnSummary
  <2>1. UNCHANGED <<batch, input, slices>> /\ pc' # "report"
    BY <1>9 DEF Reject, Begin, NextCancelled, NextFailed, Conclude, ReturnSummary, GoTo, Return
  <2> QED
    BY <2>1, StillRecent
<1>10. CASE Accept \/ Quarantine
  <2>1. UNCHANGED <<batch, input, slices>> /\ pc' # "report"
    BY <1>10 DEF Accept, Quarantine, SendBatch, AfterBatch, GoTo, Return
  <2> QED
    BY <2>1, StillRecent
<1>11. CASE Cancel \/ UNCHANGED vars
  <2>1. UNCHANGED <<batch, input, slices, pc>>
    BY <1>11 DEF Cancel, vars, slices
  <2> QED
    BY <2>1, StillRecent
<1> QED
  BY <1>4, <1>5, <1>6, <1>7, <1>8, <1>9, <1>10, <1>11 DEF Next, Run, Returned

\* What the verdicts send to a sink and the sink lacks is in the slice, or is the
\* record in progress.
LEMMA InSlice ==
  ASSUME Inv, NEW sink, NEW verdict, NEW log, NEW slice,
         \/ Batched(sink, verdict, log, slice, Judged)
         \/ Elems(log) = Promise!Sent(sink, verdict, Len(input)),
         NEW k \in Promise!Sent(sink, verdict, Len(input)) \ Elems(log)
  PROVE  k \in Elems(slice) \/ (pc = "report" /\ k = Len(input))
<1>0. Len(input) \in Nat
  <2>1. input \in Seq(LineType)
    BY DEF Inv, TypeOK
  <2> QED
    BY <2>1
<1>1. k \in 1..Len(input) /\ Promise!Verdict(k) = verdict /\ sink \in request.sinks
  BY DEF Promise!Sent
<1>2. PICK n \in 0..Judged : /\ Elems(log) = Promise!Sent(sink, verdict, n)
                             /\ Elems(slice) = {m \in (n + 1)..Judged : Promise!Verdict(m) = verdict}
  BY DEF Batched
<1>3. Judged \in Int /\ n \in Nat
  BY <1>0, <1>2 DEF Judged
<1>4. ~(k <= n)
  BY <1>0, <1>1, <1>2, <1>3 DEF Promise!Sent
<1>5. CASE k <= Judged
  BY <1>1, <1>2, <1>3, <1>4, <1>5
<1>6. CASE ~(k <= Judged)
  BY <1>0, <1>1, <1>6 DEF Judged
<1> QED
  BY <1>5, <1>6

LEMMA LostTogether ==
  ASSUME Inv, History, Recent, pc # "done"
  PROVE  AtMostOneBatchInFlight
<1>0. pc \in {"start", "next", "record", "report", "accept", "quarantine", "halted", "final"}
  BY DEF Inv, TypeOK
<1>1. Len(input) \in Nat
  <2>1. input \in Seq(LineType)
    BY DEF Inv, TypeOK
  <2> QED
    BY <2>1
<1>2. pc = "report" => Len(input) - Len(input) < MaxBatch
  BY <1>1, BoundsAssumption DEF Recent
<1>3. \A n \in Elems(keep) \cup Elems(divert) : Len(input) - n < MaxBatch
  BY <1>1, BoundsAssumption DEF Recent
<1>4. \A n \in Promise!Sent("accepted", "accept", Len(input)) \ Elems(accepted) : Len(input) - n < MaxBatch
  <2>1. \/ Batched("accepted", "accept", accepted, keep, Judged)
        \/ Elems(accepted) = Promise!Sent("accepted", "accept", Len(input))
    BY <1>0 DEF History, AcceptedHeld
  <2> QED
    BY <1>2, <1>3, <2>1, InSlice
<1>5. \A n \in Promise!Sent("quarantined", "quarantine", Len(input)) \ Elems(quarantined) : Len(input) - n < MaxBatch
  <2>1. \/ Batched("quarantined", "quarantine", quarantined, divert, Judged)
        \/ Elems(quarantined) = Promise!Sent("quarantined", "quarantine", Len(input))
    BY <1>0 DEF History, QuarantinedHeld
  <2> QED
    BY <1>2, <1>3, <2>1, InSlice
<1>6. Promise!EvidenceUpTo(Len(input) - 1) \subseteq Pairs
  <2>1. Promise!EvidenceUpTo(Len(input) - 1) \subseteq Promise!EvidenceUpTo(Len(input))
    BY <1>1, PrefixesGrow
  <2>2. pc \in {"report", "final"} \/ pc \notin {"report", "final", "done"}
    OBVIOUS
  <2> QED
    BY <2>1, <2>2 DEF History, EvidenceHeld
<1> QED
  BY <1>4, <1>5, <1>6 DEF AtMostOneBatchInFlight, Pairs

Lost == pc = "done" => AtMostOneBatchInFlight

LEMMA NextLost == Inv /\ History /\ Recent /\ Lost /\ [Next]_vars => Lost'
<1> SUFFICES ASSUME Inv, History, Recent, Lost, [Next]_vars, pc' = "done" PROVE AtMostOneBatchInFlight'
  BY DEF Lost
<1>1. AtMostOneBatchInFlight
  BY LostTogether DEF Lost
<1>2. UNCHANGED <<request, input, outputs>>
  BY StopStep
<1>3. UNCHANGED <<Elems(accepted), Elems(quarantined), Pairs>>
  BY <1>2 DEF Elems, Pairs, outputs
<1> QED
  BY <1>1, <1>2, <1>3, VerdictsStand DEF AtMostOneBatchInFlight, Pairs, Promise!Sent

\* For every contract, every source and every cut into batches: what a failure or a
\* cancellation keeps from the sinks lies among the last MaxBatch records read, and
\* the findings of every record but the last are published.
THEOREM OneBatchInFlight == Spec => []AtMostOneBatchInFlight
<1>1. Init => Inv /\ History /\ Recent /\ Lost
  <2>1. Init => pc # "done"
    BY DEF Init
  <2> QED
    BY <2>1, InitInv, InitHistory, InitRecent DEF Lost
<1>2. Inv /\ History /\ Recent /\ Lost /\ [Next]_vars => (Inv /\ History /\ Recent /\ Lost)'
  BY NextInv, NextImplements, NextRecent, NextLost DEF Implemented
<1>3. Inv /\ History /\ Recent /\ Lost => AtMostOneBatchInFlight
  BY LostTogether DEF Lost
<1> QED
  BY <1>1, <1>2, <1>3, PTL DEF Spec
=============================================================================
