-------------------------- MODULE NdjsonGateProofs --------------------------
(***************************************************************************)
(* Theorems about brokoli.Run for every contract, every set of lines and     *)
(* every bound on the input.                                                *)
(***************************************************************************)
EXTENDS NdjsonGateProperties, EngineLemmas

(***************************************************************************)
(* Type correctness                                                        *)
(***************************************************************************)
LEMMA RulesType ==
  ASSUME TypeOK
  PROVE  /\ request.contract \in Contracts
         /\ rules \in Seq(Rules)
         /\ \A i \in DOMAIN rules : rules[i] \in Rules
<1>1. request.contract \in Contracts
  BY DEF TypeOK, ControlType, RequestType
<1>2. rules \in Seq(Rules)
  BY <1>1 DEF Contracts, rules
<1>3. \A i \in DOMAIN rules : rules[i] \in Rules
  BY <1>2
<1> QED
  BY <1>1, <1>2, <1>3

\* The contract is validated before the reader is touched, and lines are
\* numbered from 1.
Admitted == pc \notin {"start", "done"} => Accepts(request)

Numbered ==
  /\ pc = "start" => input = <<>>
  /\ pc \in {"divert", "diverted", "report"} => Len(input) >= 1

Inv == TypeOK /\ Admitted /\ Numbered

\* While Run is in progress its contract is an admitted one.
LEMMA AdmittedRun ==
  ASSUME Inv, pc \notin {"start", "done"}
  PROVE  /\ request.contract \in Contracts /\ Validate(request.contract)
         /\ Len(input) \in Nat /\ FinalLine(Len(input)) \in Nat \ {0}
         /\ pc \in {"divert", "diverted", "report"} => Len(input) \in Nat \ {0}
         /\ evidence \in Seq(Event)
         /\ pending \subseteq flagged /\ flagged \subseteq DOMAIN request.contract.rules
<1>1. Validate(request.contract)
  BY DEF Inv, Admitted, Accepts
<1>2. Len(input) \in Nat /\ evidence \in Seq(Event)
  BY DEF Inv, TypeOK, CheckerType, OutputType
<1>3. FinalLine(Len(input)) \in Nat \ {0}
  BY <1>2 DEF FinalLine
<1>4. pc \in {"divert", "diverted", "report"} => Len(input) \in Nat \ {0}
  BY <1>2 DEF Inv, Numbered
<1>5. pending \subseteq flagged /\ flagged \subseteq DOMAIN request.contract.rules
  BY DEF Inv, TypeOK, CheckerType, rules
<1> QED
  BY <1>1, <1>2, <1>3, <1>4, <1>5, RulesType DEF Inv

LEMMA FragmentType == Line \cup {Fragment} \subseteq LineType
<1>1. Fragment \in LineType
  BY DEF Fragment, LineType
<1> QED
  BY <1>1, LineAssumption

(***************************************************************************)
(* Initially                                                               *)
(***************************************************************************)
LEMMA InitInv == Init => Inv
<1> SUFFICES ASSUME Init PROVE Inv
  OBVIOUS
<1>1. ControlType
  BY RequestsAssumption DEF Init, ControlType
<1>0. \A S : <<>> \in Seq(S)
  OBVIOUS
<1>2. CheckerType
  BY <1>0 DEF Init, CheckerType
<1>3. SummaryType
  BY DEF Init, SummaryType, ZeroSummary
<1>4. OutputType
  BY <1>0 DEF Init, OutputType
<1> QED
  BY <1>1, <1>2, <1>3, <1>4 DEF Init, Inv, TypeOK, Admitted, Numbered

(***************************************************************************)
(* Steps                                                                   *)
(***************************************************************************)
\* Actions that only move control, the checker's flags or the reader.
LEMMA QuietStep ==
  ASSUME Inv,
         Reject \/ Begin \/ ScanCancelled \/ ScanEnd \/ ReadFailed \/ Finalize \/ ReturnSummary
           \/ Cancel \/ UNCHANGED vars
  PROVE  Inv'
<1> USE DEF Inv, TypeOK
<1>1. ControlType'
  BY DEF ControlType, Reject, Begin, ScanCancelled, ScanEnd, ReadFailed, Finalize, ReturnSummary,
         Cancel, vars, Return, GoTo
<1>2. CheckerType'
  BY DEF CheckerType, Reject, Begin, ScanCancelled, ScanEnd, ReadFailed, Finalize, ReturnSummary,
         Cancel, vars, checker, rules, FinalBreaches
<1>3. SummaryType'
  BY DEF SummaryType, Reject, Begin, ScanCancelled, ScanEnd, ReadFailed, Finalize, ReturnSummary,
         Cancel, vars
<1>4. OutputType'
  BY DEF OutputType, Reject, Begin, ScanCancelled, ScanEnd, ReadFailed, Finalize, ReturnSummary,
         Cancel, vars, outputs
<1>5. Admitted' /\ Numbered'
  BY DEF Admitted, Numbered, Reject, Begin, ScanCancelled, ScanEnd, ReadFailed, Finalize,
         ReturnSummary, Cancel, vars, Return, GoTo
<1> QED
  BY <1>1, <1>2, <1>3, <1>4, <1>5

LEMMA ScanStep ==
  ASSUME Inv, NEW line \in Line \cup {Fragment}, ScanRecord(line) \/ ScanMalformed(line)
  PROVE  Inv'
<1> USE DEF Inv, TypeOK
<1>0. line \in LineType /\ pc = "scan" /\ input' = Append(input, line)
  BY FragmentType DEF ScanRecord, ScanMalformed, Scanned
<1>1. ControlType'
  BY DEF ControlType, ScanRecord, ScanMalformed, Scanned, Return, GoTo
<1>2. CheckerType'
  BY <1>0 DEF CheckerType, ScanRecord, ScanMalformed, checker, rules, Violated
<1>3. SummaryType'
  BY DEF SummaryType, ScanRecord, ScanMalformed
<1>4. OutputType'
  BY DEF OutputType, ScanRecord, ScanMalformed, outputs
<1>5. Admitted'
  BY <1>0 DEF Admitted, ScanRecord, ScanMalformed
<1>6. Numbered'
  BY <1>0 DEF Numbered, CheckerType, ScanRecord, ScanMalformed, GoTo, Return
<1> QED
  BY <1>1, <1>2, <1>3, <1>4, <1>5, <1>6

LEMMA SinkStep ==
  ASSUME Inv, Divert \/ Route
  PROVE  Inv'
<1> USE DEF Inv, TypeOK
<1>0. Len(input) \in Nat
  BY DEF CheckerType
<1>1. ControlType'
  BY DEF ControlType, Divert, Route, AfterRoute, Send, Return, GoTo
<1>2. CheckerType'
  BY DEF CheckerType, Divert, Route, checker, rules
<1>3. SummaryType'
  <2>1. CASE Divert
    BY <2>1 DEF SummaryType, Divert
  <2>2. CASE Route
    <3> DEFINE outcome == Outcome(rules, flagged)
               halted == (pc' = "end")
    <3>1. summary' = [CountRecord(summary, outcome) EXCEPT !.halted = halted]
      BY <2>2 DEF Route
    <3>2. outcome \in {"cleared", "quarantined", "breached"} /\ halted \in BOOLEAN
      BY DEF Outcome
    <3> HIDE DEF outcome, halted
    <3>3. CountRecord(summary, outcome) \in
            [cleared : Nat, warnings : Nat, quarantined : Nat, breached : Nat, halted : BOOLEAN]
      BY <3>2 DEF SummaryType, CountRecord
    <3> QED
      BY <3>1, <3>2, <3>3 DEF SummaryType
  <2> QED
    BY <2>1, <2>2
<1>4. OutputType'
  <2>1. /\ accepted' \in {accepted, Append(accepted, Len(input))}
        /\ quarantined' \in {quarantined, Append(quarantined, Len(input))}
        /\ evidence' = evidence
    BY DEF Divert, Route, Send
  <2>2. /\ Append(accepted, Len(input)) \in Seq(Nat)
        /\ Append(quarantined, Len(input)) \in Seq(Nat)
    BY <1>0 DEF OutputType
  <2> QED
    BY <2>1, <2>2 DEF OutputType
<1>5. Admitted' /\ Numbered'
  BY DEF Admitted, Numbered, Divert, Route, AfterRoute, Send, Return, GoTo
<1> QED
  BY <1>1, <1>2, <1>3, <1>4, <1>5

\* A valid event reaches the sink or is lost to the sink's failure; validation
\* never refuses it.
LEMMA PublishStep ==
  ASSUME Inv, NEW event \in Event, EventValid(event), NEW where \in {"scan", "report", "final"},
         PublishEvent(event, where)
  PROVE  /\ pc' \in {where, "done"}
         /\ err' \in {err, "evidence"}
         /\ evidence' \in Seq(Event)
<1>1. evidence' \in {evidence, Append(evidence, event)}
  BY DEF PublishEvent, Send
<1>2. evidence \in Seq(Event) /\ Append(evidence, event) \in Seq(Event)
  BY DEF Inv, TypeOK, OutputType
<1>3. pc' \in {where, "done"} /\ err' \in {err, "evidence"}
  BY DEF PublishEvent, Send, GoTo, Return
<1> QED
  BY <1>1, <1>2, <1>3

LEMMA ReportStep ==
  ASSUME Inv, ReportDiverted \/ Report \/ ReportFinal
  PROVE  Inv' /\ err' \in {err, "evidence"}
<1> USE DEF Inv, TypeOK
<1>0. /\ Accepts(request) /\ request.contract \in Contracts /\ Validate(request.contract)
      /\ Len(input) \in Nat
  <2>1. pc \notin {"start", "done"}
    BY DEF ReportDiverted, Report, ReportFinal
  <2>2. Accepts(request) /\ Validate(request.contract)
    BY <2>1 DEF Admitted, Accepts
  <2>3. Len(input) \in Nat
    BY DEF CheckerType
  <2> QED
    BY <2>2, <2>3, RulesType
<1>1. /\ pc' \in {"scan", "report", "final", "done"} /\ err' \in {err, "evidence"}
      /\ evidence' \in Seq(Event)
      /\ pc' = "report" => pc = "report"
  <2>1. CASE ReportDiverted
    <3>1. Len(input) \in Nat \ {0}
      BY <1>0, <2>1 DEF ReportDiverted, Numbered
    <3> QED
      BY <1>0, <2>1, <3>1, ParseEventValid, PublishStep DEF ReportDiverted
  <2>2. CASE Report
    <3>1. Len(input) \in Nat \ {0}
      BY <1>0, <2>2 DEF Report, Numbered
    <3>2. PICK i \in pending : PublishEvent(MakeEvent(request.contract, rules[i], Len(input)), "report")
      BY <2>2 DEF Report
    <3>3. i \in DOMAIN request.contract.rules
      BY DEF CheckerType, rules
    <3> QED
      BY <1>0, <2>2, <3>1, <3>2, <3>3, MakeEventValid, PublishStep DEF Report, rules
  <2>3. CASE ReportFinal
    <3>1. FinalLine(Len(input)) \in Nat \ {0}
      BY <1>0 DEF FinalLine
    <3>2. PICK i \in pending :
            PublishEvent(MakeEvent(request.contract, rules[i], FinalLine(Len(input))), "final")
      BY <2>3 DEF ReportFinal
    <3>3. i \in DOMAIN request.contract.rules
      BY DEF CheckerType, rules
    <3> QED
      BY <1>0, <2>3, <3>1, <3>2, <3>3, MakeEventValid, PublishStep DEF ReportFinal, rules
  <2> QED
    BY <2>1, <2>2, <2>3
<1>2. ControlType'
  BY <1>1 DEF ControlType, ReportDiverted, Report, ReportFinal
<1>3. CheckerType'
  BY DEF CheckerType, ReportDiverted, Report, ReportFinal, checker, rules
<1>4. SummaryType'
  BY DEF SummaryType, ReportDiverted, Report, ReportFinal, CountWarning, CountFinal
<1>5. OutputType'
  BY <1>1 DEF OutputType, ReportDiverted, Report, ReportFinal
<1>6. Admitted' /\ Numbered'
  BY <1>0, <1>1 DEF Admitted, Numbered, ReportDiverted, Report, ReportFinal
<1> QED
  BY <1>1, <1>2, <1>3, <1>4, <1>5, <1>6

LEMMA NextInv == Inv /\ [Next]_vars => Inv'
<1> SUFFICES ASSUME Inv, [Next]_vars PROVE Inv'
  OBVIOUS
<1> QED
  BY QuietStep, ScanStep, SinkStep, ReportStep DEF Next, Run, Returned

\* brokoli.Run keeps its state well typed, whatever contract, lines, policy and
\* sinks the host supplies: the counters are natural numbers, the outputs hold
\* line numbers and complete events.
THEOREM TypeCorrect == Spec => []TypeOK
<1>1. Inv => TypeOK
  BY DEF Inv
<1> QED
  BY <1>1, InitInv, NextInv, PTL DEF Spec

\* No event of a contract that Validate admits is refused by Event.Validate: the
\* gate never fails because of its own evidence.
THEOREM EventsAlwaysValid == Spec => []EventsValid
<1>1. Init => EventsValid
  BY DEF Init, EventsValid
<1>2. Inv /\ EventsValid /\ [Next]_vars => EventsValid'
  <2> SUFFICES ASSUME Inv, EventsValid, [Next]_vars PROVE EventsValid'
    OBVIOUS
  <2>1. CASE ReportDiverted \/ Report \/ ReportFinal
    BY <2>1, ReportStep DEF EventsValid
  <2>2. CASE Reject \/ Begin \/ ScanCancelled \/ ScanEnd \/ ReadFailed \/ Finalize \/ ReturnSummary
               \/ Cancel \/ UNCHANGED vars
    BY <2>2 DEF EventsValid, Reject, Begin, ScanCancelled, ScanEnd, ReadFailed, Finalize,
                ReturnSummary, Cancel, vars, Return, GoTo
  <2>3. CASE \E line \in Line \cup {Fragment} : ScanRecord(line) \/ ScanMalformed(line)
    BY <2>3 DEF EventsValid, ScanRecord, ScanMalformed, Return, GoTo
  <2>4. CASE Divert \/ Route
    BY <2>4 DEF EventsValid, Divert, Route, Send, Return, GoTo
  <2> QED
    BY <2>1, <2>2, <2>3, <2>4 DEF Next, Run, Returned
<1> QED
  BY <1>1, <1>2, InitInv, NextInv, PTL DEF Spec

(***************************************************************************)
(* Uniqueness of the accepted output                                        *)
(*                                                                         *)
(* The inductive invariant ties the checker's seen sets to the history of    *)
(* lines: they cover the keys of every record read, accepted or not, so a     *)
(* record that Check does not flag is fresh with respect to all of them.      *)
(***************************************************************************)
Fresh(i, n) ==
  /\ KeysOf(rules[i], input[n].rec) # {}
  /\ \A m \in DOMAIN input : m < n /\ input[m].ok =>
       KeysOf(rules[i], input[m].rec) \cap KeysOf(rules[i], input[n].rec) = {}

Enforcing(i) == IsUnique(rules[i]) /\ rules[i].action # "warn"

SeenCovers ==
  \A i \in DOMAIN rules, n \in DOMAIN input :
    input[n].ok => KeysOf(rules[i], input[n].rec) \subseteq seen[rules[i].id]

RecordFresh ==
  pc = "report" =>
    /\ input[Len(input)].ok
    /\ \A i \in DOMAIN rules : IsUnique(rules[i]) => i \in flagged \/ Fresh(i, Len(input))

AcceptedFresh ==
  \A k \in DOMAIN accepted :
    /\ accepted[k] \in DOMAIN input
    /\ input[accepted[k]].ok
    /\ \A i \in DOMAIN rules : Enforcing(i) => Fresh(i, accepted[k])

AcceptedRising ==
  /\ \A k, l \in DOMAIN accepted : k < l => accepted[k] < accepted[l]
  /\ pc = "report" => \A k \in DOMAIN accepted : accepted[k] < Len(input)

UniqueInv == SeenCovers /\ RecordFresh /\ AcceptedFresh /\ AcceptedRising

LEMMA UniqueInvImplies == Inv /\ UniqueInv => AcceptedUnique
<1> SUFFICES ASSUME Inv, UniqueInv, NEW i \in DOMAIN rules, Enforcing(i)
             PROVE  /\ \A k \in DOMAIN accepted : KeysOf(rules[i], input[accepted[k]].rec) # {}
                    /\ \A k, l \in DOMAIN accepted : k # l =>
                         KeysOf(rules[i], input[accepted[k]].rec)
                           # KeysOf(rules[i], input[accepted[l]].rec)
  BY DEF AcceptedUnique, Enforcing
<1>1. \A k \in DOMAIN accepted : KeysOf(rules[i], input[accepted[k]].rec) # {}
  BY DEF UniqueInv, AcceptedFresh, Fresh
<1>2. ASSUME NEW k \in DOMAIN accepted, NEW l \in DOMAIN accepted, k < l
      PROVE  KeysOf(rules[i], input[accepted[k]].rec) # KeysOf(rules[i], input[accepted[l]].rec)
  <2>1. accepted[k] < accepted[l] /\ accepted[k] \in DOMAIN input /\ input[accepted[k]].ok
    BY <1>2 DEF UniqueInv, AcceptedRising, AcceptedFresh
  <2>2. KeysOf(rules[i], input[accepted[k]].rec) \cap KeysOf(rules[i], input[accepted[l]].rec) = {}
    BY <2>1 DEF UniqueInv, AcceptedFresh, Fresh
  <2> QED
    BY <1>1, <2>2
<1>3. \A k, l \in DOMAIN accepted : k # l => k < l \/ l < k
  <2>1. accepted \in Seq(Nat)
    BY DEF Inv, TypeOK, OutputType
  <2> QED
    BY <2>1
<1> QED
  BY <1>1, <1>2, <1>3

LEMMA InitUniqueInv == Init => UniqueInv
<1>1. DOMAIN <<>> = {}
  OBVIOUS
<1> QED
  BY <1>1 DEF Init, UniqueInv, SeenCovers, RecordFresh, AcceptedFresh, AcceptedRising

\* Steps that neither scan a line nor hand one to the accepted sink.
LEMMA UniqueUndisturbed ==
  ASSUME Inv, UniqueInv,
         UNCHANGED <<request, input, accepted>>,
         input = <<>> \/ seen' = seen,
         pc' = "report" => pc = "report" /\ flagged' = flagged
  PROVE  UniqueInv'
<1> USE DEF UniqueInv
<1>1. rules' = rules
  BY DEF rules
<1>2. SeenCovers'
  BY <1>1 DEF SeenCovers
<1>3. RecordFresh' /\ AcceptedFresh' /\ AcceptedRising'
  BY <1>1 DEF RecordFresh, AcceptedFresh, AcceptedRising, Fresh, Enforcing
<1> QED
  BY <1>2, <1>3

LEMMA UniqueScan ==
  ASSUME Inv, UniqueInv, NEW line \in Line \cup {Fragment}, ScanRecord(line) \/ ScanMalformed(line)
  PROVE  UniqueInv'
<1> USE DEF Inv, TypeOK
<1>1. /\ line \in LineType /\ input \in Seq(LineType) /\ input' = Append(input, line)
      /\ request' = request /\ rules' = rules /\ accepted' = accepted
  BY FragmentType DEF ScanRecord, ScanMalformed, Scanned, CheckerType, outputs, rules
<1>2. /\ Len(input) \in Nat /\ Len(input') = Len(input) + 1
      /\ \A m \in DOMAIN input : m \in DOMAIN input' /\ input'[m] = input[m] /\ m < Len(input')
      /\ \A m \in DOMAIN input' : m = Len(input') \/ m \in DOMAIN input
      /\ \A m \in DOMAIN input' : m < Len(input') => m \in DOMAIN input
      /\ input'[Len(input')] = line
  BY <1>1
<1>3. \A i \in DOMAIN rules, m \in DOMAIN input : Fresh(i, m) => Fresh(i, m)'
  BY <1>1, <1>2 DEF Fresh
<1>4. AcceptedFresh'
  BY <1>1, <1>2, <1>3 DEF UniqueInv, AcceptedFresh, Enforcing
<1>5. AcceptedRising'
  BY <1>1, <1>2 DEF UniqueInv, AcceptedRising, AcceptedFresh
<1>6. CASE ScanMalformed(line)
  <2>1. SeenCovers'
    <3>1. seen' = seen /\ ~line.ok
      BY <1>6 DEF ScanMalformed, checker
    <3> SUFFICES ASSUME NEW i \in DOMAIN rules, NEW m \in DOMAIN input', input'[m].ok
                 PROVE  KeysOf(rules[i], input'[m].rec) \subseteq seen'[rules[i].id]
      BY <1>1 DEF SeenCovers
    <3>2. m \in DOMAIN input
      BY <1>2, <3>1
    <3> QED
      BY <1>2, <3>1, <3>2 DEF UniqueInv, SeenCovers
  <2>2. RecordFresh'
    BY <1>6 DEF ScanMalformed, RecordFresh, GoTo, Return
  <2> QED
    BY <1>4, <1>5, <2>1, <2>2 DEF UniqueInv
<1>7. CASE ScanRecord(line)
  <2>1. ASSUME NEW i \in DOMAIN rules
        PROVE  /\ seen[rules[i].id] \subseteq seen'[rules[i].id]
               /\ KeysOf(rules[i], line.rec) \subseteq seen'[rules[i].id]
    BY <1>7 DEF ScanRecord, Remember, RuleIds
  <2>2. SeenCovers'
    <3> SUFFICES ASSUME NEW i \in DOMAIN rules, NEW m \in DOMAIN input', input'[m].ok
                 PROVE  KeysOf(rules[i], input'[m].rec) \subseteq seen'[rules[i].id]
      BY <1>1 DEF SeenCovers
    <3>1. CASE m = Len(input')
      BY <1>2, <2>1, <3>1
    <3>2. CASE m \in DOMAIN input
      BY <1>2, <2>1, <3>2 DEF UniqueInv, SeenCovers
    <3> QED
      BY <1>2, <3>1, <3>2
  <2>3. ASSUME NEW i \in DOMAIN rules, IsUnique(rules[i]), i \notin flagged'
        PROVE  /\ KeysOf(rules[i], line.rec) # {}
               /\ \A m \in DOMAIN input : input[m].ok =>
                    KeysOf(rules[i], input[m].rec) \cap KeysOf(rules[i], line.rec) = {}
    <3>1. /\ KeysOf(rules[i], line.rec) # {}
          /\ KeysOf(rules[i], line.rec) \cap seen[rules[i].id] = {}
      BY <1>7, <2>3 DEF ScanRecord, Violated, UniqueBreach, SeenBy
    <3>2. \A m \in DOMAIN input : input[m].ok =>
            KeysOf(rules[i], input[m].rec) \subseteq seen[rules[i].id]
      BY DEF UniqueInv, SeenCovers
    <3> QED
      BY <3>1, <3>2
  <2>4. ASSUME NEW i \in DOMAIN rules, IsUnique(rules[i]), i \notin flagged'
        PROVE  Fresh(i, Len(input))'
    BY <1>1, <1>2, <2>3, <2>4 DEF Fresh
  <2>5. line.ok
    BY <1>7 DEF ScanRecord
  <2>6. RecordFresh'
    BY <1>1, <1>2, <2>4, <2>5 DEF RecordFresh
  <2> QED
    BY <1>4, <1>5, <2>2, <2>6 DEF UniqueInv
<1> QED
  BY <1>6, <1>7

\* A record is accepted only if every rule it breaches warns, so it is fresh for
\* the rules that enforce; and it comes after the lines accepted before.
LEMMA UniqueRoute ==
  ASSUME Inv, UniqueInv, Route
  PROVE  UniqueInv'
<1> USE DEF Inv, TypeOK
<1> DEFINE n == Len(input)
<1>1. /\ pc = "report" /\ pc' # "report" /\ request' = request /\ rules' = rules
      /\ input' = input /\ seen' = seen /\ n \in Nat /\ n \in DOMAIN input
      /\ accepted \in Seq(Nat)
  <2>1. pc = "report" /\ request' = request /\ rules' = rules /\ input' = input /\ seen' = seen
    BY DEF Route, checker, rules
  <2>2. pc' # "report"
    BY DEF Route, AfterRoute, Send, GoTo, Return
  <2>3. n \in Nat /\ n >= 1 /\ DOMAIN input = 1..n
    BY <2>1 DEF Numbered, CheckerType
  <2> QED
    BY <2>1, <2>2, <2>3 DEF OutputType
<1> HIDE DEF n
<1>2. SeenCovers'
  BY <1>1 DEF UniqueInv, SeenCovers
<1>3. RecordFresh'
  BY <1>1 DEF RecordFresh
<1>4. CASE accepted' = accepted
  BY <1>1, <1>2, <1>3, <1>4 DEF UniqueInv, AcceptedFresh, AcceptedRising, Fresh, Enforcing
<1>5. CASE ~HasBreach(rules, flagged) /\ accepted' = Append(accepted, n)
  <2>1. \A i \in flagged : rules[i].action = "warn"
    BY <1>5 DEF HasBreach, ActionsOf
  <2>2. input[n].ok /\ \A i \in DOMAIN rules : Enforcing(i) => Fresh(i, n)
    BY <1>1, <2>1 DEF UniqueInv, RecordFresh, Enforcing, n
  <2>3. \A k \in DOMAIN accepted' :
          \/ k \in DOMAIN accepted /\ accepted'[k] = accepted[k]
          \/ k = Len(accepted) + 1 /\ accepted'[k] = n
    BY <1>1, <1>5
  <2>4. AcceptedFresh'
    <3>1. \A i \in DOMAIN rules, m \in DOMAIN input : Fresh(i, m) => Fresh(i, m)'
      BY <1>1 DEF Fresh
    <3>2. \A i \in DOMAIN rules : Enforcing(i)' <=> Enforcing(i)
      BY <1>1 DEF Enforcing
    <3> SUFFICES ASSUME NEW k \in DOMAIN accepted'
                 PROVE  /\ accepted'[k] \in DOMAIN input
                        /\ input[accepted'[k]].ok
                        /\ \A i \in DOMAIN rules : Enforcing(i) => Fresh(i, accepted'[k])
      BY <1>1, <3>1, <3>2 DEF AcceptedFresh
    <3> QED
      BY <1>1, <2>2, <2>3 DEF UniqueInv, AcceptedFresh
  <2>5. \A k \in DOMAIN accepted : accepted[k] < n /\ k < Len(accepted) + 1
    BY <1>1 DEF UniqueInv, AcceptedRising, n
  <2>6. AcceptedRising'
    <3> SUFFICES ASSUME NEW k \in DOMAIN accepted', NEW l \in DOMAIN accepted', k < l
                 PROVE  accepted'[k] < accepted'[l]
      BY <1>1 DEF AcceptedRising
    <3>1. k \in DOMAIN accepted /\ accepted'[k] = accepted[k]
      BY <1>1, <1>5, <2>3, <2>5
    <3> QED
      BY <2>3, <2>5, <3>1 DEF UniqueInv, AcceptedRising
  <2> QED
    BY <1>2, <1>3, <2>4, <2>6 DEF UniqueInv
<1> QED
  BY <1>4, <1>5 DEF Route, Outcome, Send, n

LEMMA NextUniqueInv == Inv /\ UniqueInv /\ [Next]_vars => UniqueInv'
<1> SUFFICES ASSUME Inv, UniqueInv, [Next]_vars PROVE UniqueInv'
  OBVIOUS
<1>0. CASE Begin
  BY <1>0, UniqueUndisturbed DEF Begin, Inv, Numbered, outputs, GoTo
<1>1. CASE Reject \/ ScanCancelled \/ ScanEnd \/ ReadFailed \/ Finalize \/ ReturnSummary
             \/ Cancel \/ UNCHANGED vars
  BY <1>1, UniqueUndisturbed DEF Reject, ScanCancelled, ScanEnd, ReadFailed, Finalize,
     ReturnSummary, Cancel, vars, checker, outputs, Return, GoTo
<1>2. CASE ReportDiverted \/ Report \/ ReportFinal \/ Divert
  BY <1>2, UniqueUndisturbed DEF ReportDiverted, Report, ReportFinal, Divert, checker,
     PublishEvent, Send, Return, GoTo
<1>3. CASE \E line \in Line \cup {Fragment} : ScanRecord(line) \/ ScanMalformed(line)
  BY <1>3, UniqueScan
<1>4. CASE Route
  BY <1>4, UniqueRoute
<1> QED
  BY <1>0, <1>1, <1>2, <1>3, <1>4 DEF Next, Run, Returned

\* For every contract and every input: two accepted records never share a key
\* under a unique rule that enforces, and each of them has one.
THEOREM AcceptedOutputUnique == Spec => []AcceptedUnique
<1>1. Inv /\ UniqueInv => AcceptedUnique
  BY UniqueInvImplies
<1> QED
  BY <1>1, InitInv, NextInv, InitUniqueInv, NextUniqueInv, PTL DEF Spec

(***************************************************************************)
(* The summary                                                             *)
(*                                                                         *)
(* The counters agree with the outputs at every point of Run, not only where   *)
(* SummaryAgrees looks: the line in progress is counted before its sink has    *)
(* it when it is malformed, after when it is a record. A failing sink leaves   *)
(* an event that is counted and not published.                               *)
(***************************************************************************)
Total == summary.cleared + summary.quarantined + summary.breached

Halting == summary.halted => pc \in {"end", "final", "done"}

\* No count rule is reported after a halt, so Total stays the number of lines.
HaltedQuietly ==
  pc \in {"final", "done"} /\ summary.halted /\ (pc = "done" => err = "") =>
    Total = Len(input) /\ pending = {}

Counted ==
  /\ pc \in {"start", "scan", "divert", "diverted", "end"} => Total = Len(input)
  /\ pc = "report" => Total = Len(input) - 1

Sound == pc # "done" \/ err = ""

Held ==
  Sound =>
    /\ "accepted" \in request.sinks => Len(accepted) = summary.cleared
    /\ "quarantined" \in request.sinks /\ pc # "divert" => Len(quarantined) = summary.quarantined
    /\ "quarantined" \in request.sinks /\ pc = "divert" => Len(quarantined) + 1 = summary.quarantined
    /\ "evidence" \in request.sinks => Cardinality(Events("warning")) = summary.warnings

Accounts == Halting /\ HaltedQuietly /\ Counted /\ Held

LEMMA Published ==
  ASSUME NEW event, EventValid(event), NEW where, PublishEvent(event, where)
  PROVE  \/ /\ pc' = where /\ err' = err
            /\ "evidence" \in request.sinks /\ evidence' = Append(evidence, event)
         \/ /\ pc' = where /\ err' = err
            /\ "evidence" \notin request.sinks /\ evidence' = evidence
         \/ pc' = "done" /\ err' = "evidence" /\ evidence' = evidence
BY DEF PublishEvent, Send, GoTo, Return

\* One more event is one more of its status.
LEMMA EventsAppend ==
  ASSUME evidence \in Seq(Event), NEW event \in Event, evidence' = Append(evidence, event),
         NEW status
  PROVE  Events(status)' =
           Events(status) \cup (IF event.status = status THEN {Len(evidence) + 1} ELSE {})
<1>1. /\ DOMAIN evidence' = DOMAIN evidence \cup {Len(evidence) + 1}
      /\ \A k \in DOMAIN evidence : evidence'[k] = evidence[k]
      /\ evidence'[Len(evidence) + 1] = event
  OBVIOUS
<1> QED
  BY <1>1 DEF Events

LEMMA EventsCounted ==
  ASSUME evidence \in Seq(Event), NEW event \in Event, evidence' = Append(evidence, event),
         NEW status
  PROVE  /\ Cardinality(Events(status)) \in Nat
         /\ event.status = status =>
              Cardinality(Events(status)') = Cardinality(Events(status)) + 1
         /\ event.status # status => Events(status)' = Events(status)
<1>0. Len(evidence) \in Nat /\ DOMAIN evidence = 1..Len(evidence)
  OBVIOUS
<1>1. IsFiniteSet(Events(status))
  <2>1. IsFiniteSet(1..Len(evidence))
    BY <1>0, FS_Interval
  <2>2. Events(status) \subseteq 1..Len(evidence)
    BY <1>0 DEF Events
  <2> QED
    BY <2>1, <2>2, FS_Subset
<1>2. Cardinality(Events(status)) \in Nat
  BY <1>1, FS_CardinalityType
<1>3. Len(evidence) + 1 \notin Events(status)
  <2>1. Len(evidence) + 1 \notin DOMAIN evidence
    BY <1>0
  <2> QED
    BY <2>1 DEF Events
<1>4. ASSUME event.status = status
      PROVE  Cardinality(Events(status)') = Cardinality(Events(status)) + 1
  <2>1. Events(status)' = Events(status) \cup {Len(evidence) + 1}
    BY <1>4, EventsAppend
  <2>2. Cardinality(Events(status) \cup {Len(evidence) + 1}) = Cardinality(Events(status)) + 1
    BY <1>1, <1>3, FS_AddElement
  <2> QED
    BY <2>1, <2>2, Zenon
<1>5. ASSUME event.status # status PROVE Events(status)' = Events(status)
  BY <1>5, EventsAppend
<1> QED
  BY <1>2, <1>4, <1>5

LEMMA InitAccounts == Init => Accounts
<1> SUFFICES ASSUME Init PROVE Accounts
  OBVIOUS
<1>0. Len(<<>>) = 0 /\ DOMAIN <<>> = {}
  OBVIOUS
<1>1. Len(input) = 0 /\ Len(accepted) = 0 /\ Len(quarantined) = 0 /\ Events("warning") = {}
  BY <1>0 DEF Init, Events
<1>2. Cardinality(Events("warning")) = 0
  BY <1>1, FS_EmptySet, Zenon
<1>3. /\ summary.cleared = 0 /\ summary.warnings = 0 /\ summary.quarantined = 0
      /\ summary.breached = 0 /\ summary.halted = FALSE
  BY DEF Init, ZeroSummary
<1>4. Total = 0
  BY <1>3 DEF Total
<1> QED
  BY <1>1, <1>2, <1>3, <1>4 DEF Init, Accounts, Halting, HaltedQuietly, Counted, Held

\* Steps that count nothing and send nothing.
LEMMA AccountsQuiet ==
  ASSUME Inv, Accounts,
         Reject \/ Begin \/ ScanCancelled \/ ScanEnd \/ ReadFailed \/ Finalize \/ ReturnSummary
           \/ Cancel \/ UNCHANGED vars
  PROVE  Accounts'
<1> USE DEF Reject, Begin, ScanCancelled, ScanEnd, ReadFailed, Finalize, ReturnSummary, Cancel,
            vars, checker, outputs, Return, GoTo
<1>1. summary' = summary /\ input' = input /\ request' = request /\ accepted' = accepted
      /\ quarantined' = quarantined /\ evidence' = evidence
  OBVIOUS
<1>2. Total' = Total /\ Events("warning")' = Events("warning")
  BY <1>1 DEF Total, Events
<1>3. Halting'
  BY DEF Accounts, Halting
<1>4. HaltedQuietly'
  BY <1>2 DEF Accounts, Halting, HaltedQuietly, Counted
<1>5. Counted'
  BY <1>2 DEF Accounts, Counted
<1>6. Held'
  BY <1>1, <1>2 DEF Accounts, Held, Sound
<1> QED
  BY <1>3, <1>4, <1>5, <1>6 DEF Accounts

LEMMA AccountsScan ==
  ASSUME Inv, Accounts, NEW line \in Line \cup {Fragment}, ScanRecord(line) \/ ScanMalformed(line)
  PROVE  Accounts'
<1>1. /\ pc = "scan" /\ Len(input') = Len(input) + 1 /\ Len(input) \in Nat
      /\ request' = request /\ UNCHANGED outputs
  <2>1. input \in Seq(LineType) /\ line \in LineType
    BY FragmentType DEF Inv, TypeOK, CheckerType
  <2>2. pc = "scan" /\ input' = Append(input, line) /\ request' = request /\ UNCHANGED outputs
    BY DEF ScanRecord, ScanMalformed, Scanned
  <2> QED
    BY <2>1, <2>2
<1>2. Events("warning")' = Events("warning")
  BY <1>1 DEF outputs, Events
<1>3. \/ pc' = "report" /\ summary' = summary
      \/ pc' = "divert" /\ summary' = [summary EXCEPT !.quarantined = @ + 1]
      \/ pc' = "done" /\ err' # "" /\ summary' = summary
  BY DEF ScanRecord, ScanMalformed, GoTo, Return
<1>4. /\ summary.cleared \in Nat /\ summary.quarantined \in Nat /\ summary.breached \in Nat
      /\ summary'.cleared = summary.cleared /\ summary'.breached = summary.breached
      /\ summary'.halted = summary.halted /\ summary'.warnings = summary.warnings
      /\ pc' = "report" => summary'.quarantined = summary.quarantined
      /\ pc' = "divert" => summary'.quarantined = summary.quarantined + 1
  BY <1>3 DEF Inv, TypeOK, SummaryType
<1>5. Halting' /\ HaltedQuietly'
  BY <1>1, <1>3, <1>4 DEF Accounts, Halting, HaltedQuietly
<1>6. Counted'
  <2>1. Total = Len(input)
    BY <1>1 DEF Accounts, Counted
  <2>2. CASE pc' = "report"
    BY <1>1, <1>4, <2>1, <2>2 DEF Counted, Total
  <2>3. CASE pc' = "divert"
    <3>1. summary'.quarantined = summary.quarantined + 1
      BY <1>4, <2>3
    <3>2. Total' = summary.cleared + (summary.quarantined + 1) + summary.breached
      BY <1>4, <3>1 DEF Total
    <3>3. Total' = Total + 1
      BY <1>4, <3>2 DEF Total
    <3>4. Total' = Len(input')
      BY <1>1, <2>1, <3>3
    <3> QED
      BY <2>3, <3>4 DEF Counted
  <2> QED
    BY <1>3, <2>2, <2>3 DEF Counted
<1>7. Held'
  BY <1>1, <1>2, <1>3, <1>4 DEF Accounts, Held, Sound, outputs
<1> QED
  BY <1>5, <1>6, <1>7 DEF Accounts

LEMMA AccountsDivert ==
  ASSUME Inv, Accounts, Divert
  PROVE  Accounts'
<1>1. /\ pc = "divert" /\ UNCHANGED <<request, input, summary, accepted, evidence>>
      /\ \/ pc' = "diverted" /\ "quarantined" \notin request.sinks
         \/ pc' = "diverted" /\ quarantined' = Append(quarantined, Len(input))
         \/ pc' = "done" /\ err' # ""
  BY DEF Divert, Send, GoTo, Return
<1>2. Total' = Total /\ Events("warning")' = Events("warning")
  BY <1>1 DEF Total, Events
<1>3. quarantined \in Seq(Nat) /\ summary.quarantined \in Nat
  BY DEF Inv, TypeOK, OutputType, SummaryType
<1>4. Len(Append(quarantined, Len(input))) = Len(quarantined) + 1 /\ Len(quarantined) \in Nat
  BY <1>3
<1>5. Halting' /\ HaltedQuietly' /\ Counted'
  BY <1>1, <1>2 DEF Accounts, Halting, HaltedQuietly, Counted
<1>6. Held'
  BY <1>1, <1>2, <1>3, <1>4 DEF Accounts, Held, Sound
<1> QED
  BY <1>5, <1>6 DEF Accounts

\* The event of a rule adds to warnings exactly when it is a warning.
LEMMA AccountsReport ==
  ASSUME Inv, Accounts, ReportDiverted \/ Report \/ ReportFinal
  PROVE  Accounts'
<1>0. /\ pc # "done" /\ UNCHANGED <<request, input, accepted, quarantined>>
      /\ request.contract \in Contracts /\ Validate(request.contract)
      /\ Len(input) \in Nat /\ evidence \in Seq(Event)
  <2>1. pc \notin {"start", "done"} /\ UNCHANGED <<request, input, accepted, quarantined>>
    BY DEF ReportDiverted, Report, ReportFinal
  <2> QED
    BY <2>1, AdmittedRun
<1>1. CASE ReportDiverted
  <2> DEFINE e == ParseEvent(request.contract, Len(input))
  <2>1. pc = "diverted" /\ summary' = summary /\ PublishEvent(e, "scan")
    BY <1>1 DEF ReportDiverted
  <2>2. e \in Event /\ EventValid(e)
    BY <1>0, <2>1, ParseEventValid DEF Inv, Numbered
  <2>3. e.status # "warning"
    BY DEF ParseEvent
  <2> HIDE DEF e
  <2>4. /\ pc' = "scan" \/ (pc' = "done" /\ err' # "")
        /\ Events("warning")' = Events("warning")
    <3>1. evidence' = evidence => Events("warning")' = Events("warning")
      BY DEF Events
    <3> QED
      BY <1>0, <2>1, <2>2, <2>3, <3>1, Published, EventsCounted
  <2>5. Total' = Total
    BY <2>1 DEF Total
  <2>6. Halting' /\ HaltedQuietly' /\ Counted'
    BY <1>0, <2>1, <2>4, <2>5 DEF Accounts, Halting, HaltedQuietly, Counted
  <2>7. Held'
    BY <1>0, <2>1, <2>4 DEF Accounts, Held, Sound
  <2> QED
    BY <2>6, <2>7 DEF Accounts
<1>2. CASE Report
  <2>1. PICK i \in pending :
          /\ summary' = CountWarning(summary, rules[i])
          /\ PublishEvent(MakeEvent(request.contract, rules[i], Len(input)), "report")
    BY <1>2 DEF Report
  <2> DEFINE e == MakeEvent(request.contract, rules[i], Len(input))
  <2>2. pc = "report" /\ e \in Event /\ EventValid(e)
    <3>1. i \in DOMAIN request.contract.rules
      BY DEF Inv, TypeOK, CheckerType, rules
    <3> QED
      BY <1>0, <1>2, <3>1, MakeEventValid DEF Report, Inv, Numbered, rules
  <2>3. /\ summary'.cleared = summary.cleared /\ summary'.quarantined = summary.quarantined
        /\ summary'.breached = summary.breached /\ summary'.halted = summary.halted
        /\ summary'.warnings = IF e.status = "warning" THEN summary.warnings + 1 ELSE summary.warnings
        /\ summary.warnings \in Nat
    BY <2>1 DEF CountWarning, MakeEvent, Inv, TypeOK, SummaryType
  <2>4. PublishEvent(e, "report")
    BY <2>1
  <2> HIDE DEF e
  <2>5. /\ pc' = "report" \/ (pc' = "done" /\ err' # "")
        /\ pc' = "report" /\ "evidence" \in request.sinks /\ e.status = "warning" =>
             Cardinality(Events("warning"))' = Cardinality(Events("warning")) + 1
        /\ pc' = "report" /\ "evidence" \in request.sinks /\ e.status # "warning" =>
             Events("warning")' = Events("warning")
    BY <1>0, <2>2, <2>4, Published, EventsCounted
  <2>6. Total' = Total
    BY <2>3 DEF Total
  <2>7. Halting' /\ HaltedQuietly' /\ Counted'
    BY <1>0, <2>2, <2>3, <2>5, <2>6 DEF Accounts, Halting, HaltedQuietly, Counted
  <2>8. Held'
    BY <1>0, <2>2, <2>3, <2>5 DEF Accounts, Held, Sound
  <2> QED
    BY <2>7, <2>8 DEF Accounts
<1>3. CASE ReportFinal
  <2>1. PICK i \in pending :
          /\ summary' = CountFinal(summary, rules[i])
          /\ PublishEvent(MakeEvent(request.contract, rules[i], FinalLine(Len(input))), "final")
    BY <1>3 DEF ReportFinal
  <2> DEFINE e == MakeEvent(request.contract, rules[i], FinalLine(Len(input)))
  <2>2. pc = "final" /\ e \in Event /\ EventValid(e)
    <3>1. i \in DOMAIN request.contract.rules
      BY DEF Inv, TypeOK, CheckerType, rules
    <3>2. FinalLine(Len(input)) \in Nat \ {0}
      BY <1>0 DEF FinalLine
    <3> QED
      BY <1>0, <1>3, <3>1, <3>2, MakeEventValid DEF ReportFinal, rules
  <2>3. /\ summary'.cleared = summary.cleared /\ summary'.quarantined = summary.quarantined
        /\ summary'.halted = summary.halted
        /\ summary'.warnings = IF e.status = "warning" THEN summary.warnings + 1 ELSE summary.warnings
        /\ summary.warnings \in Nat
    BY <2>1 DEF CountFinal, MakeEvent, Inv, TypeOK, SummaryType
  <2>4. PublishEvent(e, "final")
    BY <2>1
  <2> HIDE DEF e
  <2>5. /\ pc' = "final" \/ (pc' = "done" /\ err' # "")
        /\ pc' = "final" /\ "evidence" \in request.sinks /\ e.status = "warning" =>
             Cardinality(Events("warning"))' = Cardinality(Events("warning")) + 1
        /\ pc' = "final" /\ "evidence" \in request.sinks /\ e.status # "warning" =>
             Events("warning")' = Events("warning")
    BY <1>0, <2>2, <2>4, Published, EventsCounted
  <2>6. ~summary.halted
    BY <2>1, <2>2 DEF Accounts, HaltedQuietly
  <2>7. Halting' /\ HaltedQuietly' /\ Counted'
    BY <2>3, <2>5, <2>6 DEF Halting, HaltedQuietly, Counted
  <2>8. Held'
    BY <1>0, <2>2, <2>3, <2>5 DEF Accounts, Held, Sound
  <2> QED
    BY <2>7, <2>8 DEF Accounts
<1> QED
  BY <1>1, <1>2, <1>3

LEMMA AccountsRoute ==
  ASSUME Inv, Accounts, Route
  PROVE  Accounts'
<1> DEFINE outcome == Outcome(rules, flagged)
<1>1. /\ pc = "report" /\ UNCHANGED <<request, input, pending, evidence>>
      /\ summary' = [CountRecord(summary, outcome) EXCEPT !.halted = (pc' = "end")]
      /\ pending = {} /\ outcome \in {"cleared", "quarantined", "breached"}
  BY DEF Route, Outcome, Reported
<1>2. \/ pc' \in {"scan", "end"}
      \/ pc' = "done" /\ err' # ""
  BY DEF Route, AfterRoute, Send, GoTo, Return
<1>3. /\ outcome = "cleared" /\ "accepted" \in request.sinks /\ pc' # "done" =>
           accepted' = Append(accepted, Len(input))
      /\ outcome # "cleared" => accepted' = accepted
      /\ outcome = "quarantined" /\ "quarantined" \in request.sinks /\ pc' # "done" =>
           quarantined' = Append(quarantined, Len(input))
      /\ outcome # "quarantined" => quarantined' = quarantined
  BY <1>1 DEF Route, AfterRoute, Send, GoTo, Return
<1> HIDE DEF outcome
<1>4. /\ Len(input) \in Nat
      /\ Len(Append(accepted, Len(input))) = Len(accepted) + 1
      /\ Len(Append(quarantined, Len(input))) = Len(quarantined) + 1
  BY DEF Inv, TypeOK, CheckerType, OutputType
<1>5. /\ summary.cleared \in Nat /\ summary.quarantined \in Nat /\ summary.breached \in Nat
      /\ summary'.warnings = summary.warnings
      /\ summary'.halted = (pc' = "end")
      /\ summary'.cleared = IF outcome = "cleared" THEN summary.cleared + 1 ELSE summary.cleared
      /\ summary'.quarantined =
           IF outcome = "quarantined" THEN summary.quarantined + 1 ELSE summary.quarantined
      /\ summary'.breached = IF outcome = "breached" THEN summary.breached + 1 ELSE summary.breached
  <2> DEFINE halted == (pc' = "end")
  <2>1. summary \in Summary
    BY DEF Inv, TypeOK, SummaryType, Summary
  <2>2. summary' = Counting(summary, outcome, halted)
    BY <1>1 DEF Counting
  <2> HIDE DEF halted
  <2> SUFFICES /\ summary.cleared \in Nat /\ summary.quarantined \in Nat /\ summary.breached \in Nat
               /\ summary'.warnings = summary.warnings
               /\ summary'.halted = halted
               /\ summary'.cleared =
                    IF outcome = "cleared" THEN summary.cleared + 1 ELSE summary.cleared
               /\ summary'.quarantined =
                    IF outcome = "quarantined" THEN summary.quarantined + 1 ELSE summary.quarantined
               /\ summary'.breached =
                    IF outcome = "breached" THEN summary.breached + 1 ELSE summary.breached
    BY DEF halted
  <2>3. outcome \in {"cleared", "quarantined", "breached"}
    BY <1>1
  <2> QED
    BY <2>1, <2>2, <2>3, RecordCounted
<1>6. Total = Len(input) - 1
  BY <1>1 DEF Accounts, Counted
<1>7. Total' = Len(input)
  <2>1. Total' = Total + 1
    <3>1. \/ /\ summary'.cleared = summary.cleared + 1
             /\ summary'.quarantined = summary.quarantined
             /\ summary'.breached = summary.breached
          \/ /\ summary'.cleared = summary.cleared
             /\ summary'.quarantined = summary.quarantined + 1
             /\ summary'.breached = summary.breached
          \/ /\ summary'.cleared = summary.cleared
             /\ summary'.quarantined = summary.quarantined
             /\ summary'.breached = summary.breached + 1
      <4>1. outcome \in {"cleared", "quarantined", "breached"}
        BY <1>1
      <4> QED
        BY <1>5, <4>1, Zenon
    <3>2. /\ summary.cleared \in Nat /\ summary.quarantined \in Nat /\ summary.breached \in Nat
      BY <1>5
    <3> QED
      BY <3>1, <3>2 DEF Total
  <2> HIDE DEF Total
  <2> QED
    BY <1>4, <1>6, <2>1
<1>8. Halting' /\ HaltedQuietly' /\ Counted'
  BY <1>1, <1>2, <1>5, <1>7 DEF Halting, HaltedQuietly, Counted
<1>9. Events("warning")' = Events("warning")
  BY <1>1 DEF Events
<1>10. Held'
  BY <1>1, <1>2, <1>3, <1>4, <1>5, <1>9 DEF Accounts, Held, Sound
<1> QED
  BY <1>8, <1>10 DEF Accounts

LEMMA NextAccounts == Inv /\ Accounts /\ [Next]_vars => Accounts'
<1> SUFFICES ASSUME Inv, Accounts, [Next]_vars PROVE Accounts'
  OBVIOUS
<1> QED
  BY AccountsQuiet, AccountsScan, AccountsDivert, AccountsReport, AccountsRoute
  DEF Next, Run, Returned

\* Between two lines, and when Run returns after a halt, the summary accounts for
\* every line read exactly once and its counters are what the sinks hold, for
\* every contract, every policy and every combination of sinks.
THEOREM SummaryAlwaysAgrees == Spec => []SummaryAgrees
<1>1. Inv /\ Accounts => SummaryAgrees
  BY DEF Accounts, Counted, Total, HaltedQuietly, Held, Sound, SummaryAgrees
<1> QED
  BY <1>1, InitInv, NextInv, InitAccounts, NextAccounts, PTL DEF Spec

(***************************************************************************)
(* The exit code                                                           *)
(*                                                                         *)
(* The counters that ExitCode reads run behind the enforcement events while a  *)
(* record is reported and ahead of them while a malformed line is diverted.   *)
(***************************************************************************)
Breached == summary.quarantined > 0 \/ summary.breached > 0

Exits ==
  "evidence" \in request.sinks =>
    /\ pc \in {"start", "scan", "end", "final"} \/ (pc = "done" /\ err = "") =>
         (Breached <=> Events("breach") # {})
    /\ pc \in {"divert", "diverted"} => summary.quarantined > 0
    /\ pc = "report" =>
         (Events("breach") # {} <=> Breached \/ HasBreach(rules, flagged \ pending))

LEMMA BreachAppend ==
  ASSUME evidence \in Seq(Event), NEW event \in Event, evidence' = Append(evidence, event)
  PROVE  Events("breach")' # {} <=> Events("breach") # {} \/ event.status = "breach"
BY EventsAppend

LEMMA InitExits == Init => Exits
<1> SUFFICES ASSUME Init PROVE Exits
  OBVIOUS
<1>1. DOMAIN <<>> = {}
  OBVIOUS
<1>2. Events("breach") = {}
  BY <1>1 DEF Init, Events
<1>3. summary.quarantined = 0 /\ summary.breached = 0
  BY DEF Init, ZeroSummary
<1>4. ~Breached
  BY <1>3 DEF Breached
<1> QED
  BY <1>2, <1>4 DEF Init, Exits

LEMMA ExitsQuiet ==
  ASSUME Inv, Exits,
         Reject \/ Begin \/ ScanCancelled \/ ScanEnd \/ ReadFailed \/ Finalize \/ ReturnSummary
           \/ Cancel \/ UNCHANGED vars
  PROVE  Exits'
<1>1. /\ UNCHANGED <<request, summary, evidence>>
      /\ \/ UNCHANGED <<pc, err, flagged, pending>>
         \/ /\ pc \in {"start", "scan", "end", "final"}
            /\ pc' \in {"scan", "end", "final"} \/ pc' = "done"
  BY DEF Reject, Begin, ScanCancelled, ScanEnd, ReadFailed, Finalize, ReturnSummary, Cancel,
         vars, checker, outputs, Return, GoTo
<1>2. (Breached' <=> Breached) /\ Events("breach")' = Events("breach") /\ rules' = rules
  BY <1>1 DEF Breached, Events, rules
<1> QED
  BY <1>1, <1>2 DEF Exits

LEMMA ExitsScan ==
  ASSUME Inv, Exits, NEW line \in Line \cup {Fragment}, ScanRecord(line) \/ ScanMalformed(line)
  PROVE  Exits'
<1>1. /\ pc = "scan" /\ UNCHANGED <<request, evidence>>
      /\ \/ pc' = "report" /\ summary' = summary /\ pending' = flagged'
         \/ pc' = "divert" /\ summary' = [summary EXCEPT !.quarantined = @ + 1]
         \/ pc' = "done" /\ err' # ""
  BY DEF ScanRecord, ScanMalformed, Scanned, GoTo, Return, outputs
<1>2. Events("breach")' = Events("breach")
  BY <1>1 DEF Events
<1>3. CASE pc' = "report"
  <2>1. flagged' \ pending' = {} /\ (Breached' <=> Breached)
    BY <1>1, <1>3 DEF Breached
  <2>2. ~HasBreach(rules', flagged' \ pending')
    BY <2>1, NoHitsNoBreach
  <2> QED
    BY <1>1, <1>2, <1>3, <2>1, <2>2 DEF Exits
<1>4. CASE pc' = "divert"
  <2>1. summary.quarantined \in Nat /\ summary'.quarantined = summary.quarantined + 1
    BY <1>1, <1>4 DEF Inv, TypeOK, SummaryType
  <2>2. summary'.quarantined > 0
    BY <2>1
  <2> QED
    BY <1>4, <2>2 DEF Exits
<1> QED
  BY <1>1, <1>3, <1>4 DEF Exits

LEMMA ExitsDivert ==
  ASSUME Inv, Exits, Divert
  PROVE  Exits'
<1>1. /\ pc = "divert" /\ UNCHANGED <<request, summary, evidence>>
      /\ pc' = "diverted" \/ (pc' = "done" /\ err' # "")
  BY DEF Divert, Send, GoTo, Return
<1> QED
  BY <1>1 DEF Exits

LEMMA ExitsReport ==
  ASSUME Inv, Exits, ReportDiverted \/ Report \/ ReportFinal
  PROVE  Exits'
<1>0. /\ pc # "done" /\ request' = request /\ rules' = rules
      /\ request.contract \in Contracts /\ Validate(request.contract)
      /\ Len(input) \in Nat /\ evidence \in Seq(Event)
      /\ FinalLine(Len(input)) \in Nat \ {0}
      /\ \A i \in pending : i \in DOMAIN request.contract.rules
  <2>1. pc \notin {"start", "done"} /\ request' = request
    BY DEF ReportDiverted, Report, ReportFinal
  <2> QED
    BY <2>1, AdmittedRun DEF rules
<1>1. CASE ReportDiverted
  <2> DEFINE e == ParseEvent(request.contract, Len(input))
  <2>1. pc = "diverted" /\ summary' = summary /\ PublishEvent(e, "scan")
    BY <1>1 DEF ReportDiverted
  <2>2. e \in Event /\ EventValid(e)
    BY <1>0, <2>1, ParseEventValid DEF Inv, Numbered
  <2>3. e.status = "breach"
    BY DEF ParseEvent
  <2> HIDE DEF e
  <2>4. /\ pc' = "scan" \/ (pc' = "done" /\ err' # "")
        /\ pc' = "scan" /\ "evidence" \in request.sinks => Events("breach")' # {}
    BY <1>0, <2>1, <2>2, <2>3, Published, BreachAppend
  <2>5. "evidence" \in request.sinks => Breached'
    BY <2>1 DEF Exits, Breached
  <2> QED
    BY <1>0, <2>4, <2>5 DEF Exits
<1>2. CASE Report
  <2>1. PICK i \in pending :
          /\ summary' = CountWarning(summary, rules[i]) /\ pending' = pending \ {i}
          /\ PublishEvent(MakeEvent(request.contract, rules[i], Len(input)), "report")
    BY <1>2 DEF Report
  <2> DEFINE e == MakeEvent(request.contract, rules[i], Len(input))
  <2>2. pc = "report" /\ flagged' = flagged /\ e \in Event /\ EventValid(e)
    <3>1. Len(input) \in Nat \ {0}
      BY <1>0, <1>2 DEF Report, Inv, Numbered
    <3> QED
      BY <1>0, <1>2, <3>1, MakeEventValid DEF Report, rules
  <2>3. e.status = "breach" <=> rules[i].action # "warn"
    BY DEF MakeEvent
  <2>4. PublishEvent(e, "report")
    BY <2>1
  <2>5. Breached' <=> Breached
    BY <2>1 DEF CountWarning, Breached, Inv, TypeOK, SummaryType
  <2> HIDE DEF e
  <2>6. /\ pc' = "report" \/ (pc' = "done" /\ err' # "")
        /\ pc' = "report" /\ "evidence" \in request.sinks =>
             (Events("breach")' # {} <=> Events("breach") # {} \/ e.status = "breach")
    BY <1>0, <2>2, <2>4, Published, BreachAppend
  <2>7. flagged' \ pending' = (flagged \ pending) \cup {i}
    BY <2>1, <2>2 DEF Inv, TypeOK, CheckerType
  <2>8. HasBreach(rules', flagged' \ pending') <=>
          HasBreach(rules, flagged \ pending) \/ rules[i].action # "warn"
    <3>1. HasBreach(rules, (flagged \ pending) \cup {i}) <=>
            HasBreach(rules, flagged \ pending) \/ rules[i].action # "warn"
      BY OneMoreHit
    <3> QED
      BY <1>0, <2>7, <3>1
  <2> QED
    BY <1>0, <2>2, <2>3, <2>5, <2>6, <2>8 DEF Exits
<1>3. CASE ReportFinal
  <2>1. PICK i \in pending :
          /\ summary' = CountFinal(summary, rules[i])
          /\ PublishEvent(MakeEvent(request.contract, rules[i], FinalLine(Len(input))), "final")
    BY <1>3 DEF ReportFinal
  <2> DEFINE e == MakeEvent(request.contract, rules[i], FinalLine(Len(input)))
  <2>2. pc = "final" /\ e \in Event /\ EventValid(e)
    BY <1>0, <1>3, MakeEventValid DEF ReportFinal, rules
  <2>3. e.status = "breach" <=> rules[i].action # "warn"
    BY DEF MakeEvent
  <2>4. PublishEvent(e, "final")
    BY <2>1
  <2>5. Breached' <=> Breached \/ rules[i].action # "warn"
    <3>1. /\ summary'.quarantined = summary.quarantined /\ summary.breached \in Nat
          /\ summary'.breached = IF rules[i].action = "warn" THEN summary.breached
                                 ELSE summary.breached + 1
      BY <2>1 DEF CountFinal, Inv, TypeOK, SummaryType
    <3>2. CASE rules[i].action = "warn"
      BY <3>1, <3>2 DEF Breached
    <3>3. CASE rules[i].action # "warn"
      <4>1. summary'.breached > 0
        BY <3>1, <3>3
      <4> QED
        BY <3>3, <4>1 DEF Breached
    <3> QED
      BY <3>2, <3>3
  <2> HIDE DEF e
  <2>6. /\ pc' = "final" \/ (pc' = "done" /\ err' # "")
        /\ pc' = "final" /\ "evidence" \in request.sinks =>
             (Events("breach")' # {} <=> Events("breach") # {} \/ e.status = "breach")
    BY <1>0, <2>2, <2>4, Published, BreachAppend
  <2> QED
    BY <1>0, <2>2, <2>3, <2>5, <2>6 DEF Exits
<1> QED
  BY <1>1, <1>2, <1>3

\* The record joins the counter its enforcement events call for.
LEMMA ExitsRoute ==
  ASSUME Inv, Exits, Route
  PROVE  Exits'
<1> DEFINE outcome == Outcome(rules, flagged)
<1>1. /\ pc = "report" /\ UNCHANGED <<request, evidence>> /\ pending = {}
      /\ summary' = [CountRecord(summary, outcome) EXCEPT !.halted = (pc' = "end")]
      /\ outcome \in {"cleared", "quarantined", "breached"}
  BY DEF Route, Outcome, Reported
<1>2. pc' \in {"scan", "end"} \/ (pc' = "done" /\ err' # "")
  BY DEF Route, AfterRoute, Send, GoTo, Return
<1>3. Events("breach")' = Events("breach") /\ flagged \ pending = flagged
  BY <1>1 DEF Events
<1>4. outcome = "cleared" <=> ~HasBreach(rules, flagged)
  BY DEF Outcome
<1> HIDE DEF outcome
<1>5. Breached' <=> Breached \/ outcome # "cleared"
  <2>1. summary \in Summary
    BY DEF Inv, TypeOK, SummaryType, Summary
  <2>2. /\ summary'.quarantined =
             IF outcome = "quarantined" THEN summary.quarantined + 1 ELSE summary.quarantined
        /\ summary'.breached = IF outcome = "breached" THEN summary.breached + 1 ELSE summary.breached
    <3> DEFINE halted == (pc' = "end")
    <3>1. summary' = Counting(summary, outcome, halted)
      BY <1>1 DEF Counting
    <3> HIDE DEF halted
    <3>2. outcome \in {"cleared", "quarantined", "breached"}
      BY <1>1
    <3> QED
      BY <2>1, <3>1, <3>2, RecordCounted
  <2>5. summary.quarantined \in Nat /\ summary.breached \in Nat
    BY <2>1 DEF Summary
  <2>6. CASE outcome = "cleared"
    BY <2>2, <2>6 DEF Breached
  <2>7. CASE outcome = "quarantined"
    BY <2>2, <2>5, <2>7 DEF Breached
  <2>8. CASE outcome = "breached"
    BY <2>2, <2>5, <2>8 DEF Breached
  <2> QED
    BY <1>1, <2>6, <2>7, <2>8
<1> QED
  BY <1>1, <1>2, <1>3, <1>4, <1>5 DEF Exits

LEMMA NextExits == Inv /\ Exits /\ [Next]_vars => Exits'
<1> SUFFICES ASSUME Inv, Exits, [Next]_vars PROVE Exits'
  OBVIOUS
<1> QED
  BY ExitsQuiet, ExitsScan, ExitsDivert, ExitsReport, ExitsRoute DEF Next, Run, Returned

\* A run that returns no error exits with Breach exactly when it published an
\* enforcement finding, for every contract and every input.
THEOREM ExitCodeAlwaysSound == Spec => []ExitCodeSound
<1>1. Exits => ExitCodeSound
  <2>1. ExitCode(summary) = Breach <=> Breached
    BY DEF Breached, ExitCode, Breach, Cleared
  <2> QED
    BY <2>1 DEF Exits, ExitCodeSound
<1> QED
  BY <1>1, InitInv, NextInv, InitExits, NextExits, PTL DEF Spec

(***************************************************************************)
(* The order of the evidence                                               *)
(*                                                                         *)
(* Every event was made for a line read so far, by a rule of its kind; those   *)
(* of the line in progress come from rules that precede the pending ones.      *)
(***************************************************************************)
\* An event of the loop: of a malformed line, or of a rule that looks at records.
OfLine(e) ==
  \/ ~input[e.line].ok /\ e.rule = InputParse
  \/ input[e.line].ok /\ \E i \in DOMAIN rules : rules[i].id = e.rule /\ ~IsCount(rules[i])

OfRule(e, ks) == \E i \in ks : rules[i].id = e.rule

Queued == \A i \in flagged \ pending, j \in pending : Precedes(rules, i, j)

OrderedBetween ==
  pc \in {"start", "scan", "end"} => \A e \in Elems(evidence) : e.line <= Len(input) /\ OfLine(e)

OrderedDiverting ==
  pc \in {"divert", "diverted"} =>
    /\ ~input[Len(input)].ok
    /\ \A e \in Elems(evidence) : e.line < Len(input) /\ OfLine(e)

OrderedRecord ==
  pc = "report" =>
    /\ Queued /\ input[Len(input)].ok /\ \A i \in flagged : ~IsCount(rules[i])
    /\ \A e \in Elems(evidence) :
         OfLine(e) /\ (e.line < Len(input) \/ (e.line = Len(input) /\ OfRule(e, flagged \ pending)))

OrderedFinal ==
  pc = "final" =>
    /\ Queued /\ \A i \in flagged : IsCount(rules[i])
    /\ \A e \in Elems(evidence) :
         \/ e.line <= Len(input) /\ OfLine(e)
         \/ e.line = FinalLine(Len(input)) /\ OfRule(e, flagged \ pending)

Ordered ==
  EvidenceInOrder /\ OrderedBetween /\ OrderedDiverting /\ OrderedRecord /\ OrderedFinal

\* An event that may follow all the others is published last.
LEMMA InOrderAppend ==
  ASSUME EvidenceInOrder, evidence \in Seq(Event), NEW f \in Event,
         UNCHANGED <<request, input>>, evidence' \in {evidence, Append(evidence, f)},
         \A e \in Elems(evidence) : InOrder(e, f)
  PROVE  EvidenceInOrder'
<1>1. \A e, g : InOrder(e, g)' <=> InOrder(e, g)
  BY DEF InOrder, ReportedBefore, rules
<1>2. CASE evidence' = evidence
  BY <1>1, <1>2 DEF EvidenceInOrder
<1>3. CASE evidence' = Append(evidence, f)
  <2>1. /\ DOMAIN evidence' = 1..(Len(evidence) + 1) /\ Len(evidence) \in Nat
        /\ DOMAIN evidence = 1..Len(evidence)
        /\ \A k \in DOMAIN evidence : evidence'[k] = evidence[k]
        /\ evidence'[Len(evidence) + 1] = f
    BY <1>3
  <2> SUFFICES ASSUME NEW k \in DOMAIN evidence', NEW l \in DOMAIN evidence', k < l
               PROVE  InOrder(evidence'[k], evidence'[l])
    BY <1>1 DEF EvidenceInOrder
  <2>2. k \in DOMAIN evidence /\ evidence'[k] = evidence[k]
    BY <2>1
  <2>3. CASE l \in DOMAIN evidence
    BY <2>1, <2>2, <2>3 DEF EvidenceInOrder
  <2>4. CASE l = Len(evidence) + 1
    BY <2>1, <2>2, <2>4 DEF Elems
  <2> QED
    BY <2>1, <2>3, <2>4
<1> QED
  BY <1>2, <1>3

LEMMA PublishedElems ==
  ASSUME evidence \in Seq(Event), NEW f \in Event, evidence' \in {evidence, Append(evidence, f)}
  PROVE  \A e \in Elems(evidence)' : e \in Elems(evidence) \/ e = f
<1>1. \A k \in DOMAIN Append(evidence, f) :
        \/ k \in DOMAIN evidence /\ Append(evidence, f)[k] = evidence[k]
        \/ Append(evidence, f)[k] = f
  OBVIOUS
<1> QED
  BY <1>1 DEF Elems

LEMMA InitOrdered == Init => Ordered
<1> SUFFICES ASSUME Init PROVE Ordered
  OBVIOUS
<1>1. DOMAIN <<>> = {}
  OBVIOUS
<1>2. DOMAIN evidence = {} /\ Elems(evidence) = {}
  BY <1>1 DEF Init, Elems
<1> QED
  BY <1>2 DEF Init, Ordered, EvidenceInOrder, OrderedBetween, OrderedDiverting, OrderedRecord,
     OrderedFinal

\* What the order says of the past is not touched by a step that reads and
\* publishes nothing.
LEMMA OrderStands ==
  ASSUME UNCHANGED <<request, input>>
  PROVE  /\ rules' = rules
         /\ \A e, f : InOrder(e, f)' <=> InOrder(e, f)
         /\ \A e : OfLine(e)' <=> OfLine(e)
         /\ \A e, ks : OfRule(e, ks)' <=> OfRule(e, ks)
BY DEF InOrder, ReportedBefore, OfLine, OfRule, rules

LEMMA OrderedQuiet ==
  ASSUME Inv, Ordered,
         Reject \/ Begin \/ ScanCancelled \/ ScanEnd \/ ReadFailed \/ ReturnSummary
           \/ Cancel \/ UNCHANGED vars \/ Divert \/ Route
  PROVE  Ordered'
<1>1. /\ UNCHANGED <<request, input, evidence>>
      /\ \/ UNCHANGED <<pc, flagged, pending>>
         \/ pc' = "done"
         \/ pc \in {"start", "scan"} /\ pc' \in {"scan", "end"}
         \/ pc = "divert" /\ pc' = "diverted"
         \/ pc = "report" /\ pc' \in {"scan", "end"}
  BY DEF Reject, Begin, ScanCancelled, ScanEnd, ReadFailed, ReturnSummary, Cancel,
         vars, checker, outputs, Divert, Route, AfterRoute, Send, Return, GoTo
<1>2. /\ rules' = rules
      /\ \A e, f : InOrder(e, f)' <=> InOrder(e, f)
      /\ \A e : OfLine(e)' <=> OfLine(e)
      /\ \A e, ks : OfRule(e, ks)' <=> OfRule(e, ks)
  BY <1>1, OrderStands
<1>3. Elems(evidence)' = Elems(evidence) /\ EvidenceInOrder'
  BY <1>1, <1>2 DEF Elems, Ordered, EvidenceInOrder
<1>4. \A e \in Elems(evidence) : e.line \in Nat
  <2>1. \A k \in DOMAIN evidence : evidence[k] \in Event
    BY DEF Inv, TypeOK, OutputType
  <2> QED
    BY <2>1 DEF Elems, Event
<1>5. OrderedBetween'
  <2>1. pc \in {"start", "scan", "end", "report"} =>
          \A e \in Elems(evidence) : e.line <= Len(input) /\ OfLine(e)
    <3>1. Len(input) \in Nat
      BY DEF Inv, TypeOK, CheckerType
    <3> QED
      BY <1>4, <3>1 DEF Ordered, OrderedBetween, OrderedRecord
  <2> QED
    BY <1>1, <1>2, <1>3, <2>1 DEF OrderedBetween
<1>6. OrderedDiverting'
  BY <1>1, <1>2, <1>3 DEF Ordered, OrderedDiverting
<1>7. OrderedRecord' /\ OrderedFinal'
  <2>1. pc' \in {"report", "final"} => UNCHANGED <<pc, flagged, pending>>
    BY <1>1
  <2> QED
    BY <1>1, <1>2, <1>3, <2>1 DEF Ordered, OrderedRecord, OrderedFinal, Queued
<1> QED
  BY <1>3, <1>5, <1>6, <1>7 DEF Ordered

LEMMA OrderedScan ==
  ASSUME Inv, Ordered, NEW line \in Line \cup {Fragment}, ScanRecord(line) \/ ScanMalformed(line)
  PROVE  Ordered'
<1>1. /\ pc = "scan" /\ UNCHANGED <<request, evidence>> /\ rules' = rules
      /\ input' = Append(input, line) /\ input \in Seq(LineType) /\ line \in LineType
      /\ \/ pc' = "report" /\ pending' = flagged' /\ flagged' = Violated(rules, seen, line.rec) /\ line.ok
         \/ pc' = "divert" /\ ~line.ok
         \/ pc' = "done"
  BY FragmentType DEF ScanRecord, ScanMalformed, Scanned, GoTo, Return, outputs, Inv, TypeOK,
     CheckerType, rules
<1>2. /\ Len(input) \in Nat /\ Len(input') = Len(input) + 1
      /\ \A n \in 1..Len(input) : input'[n] = input[n]
      /\ input'[Len(input')] = line
  BY <1>1
<1>3. \A e \in Elems(evidence) : e.line \in 1..Len(input) /\ OfLine(e)
  <2>1. \A k \in DOMAIN evidence : evidence[k] \in Event
    BY DEF Inv, TypeOK, OutputType
  <2>2. \A e \in Elems(evidence) : e.line \in Nat \ {0}
    BY <2>1 DEF Elems, Event
  <2>3. \A e \in Elems(evidence) : e.line <= Len(input) /\ OfLine(e)
    BY <1>1 DEF Ordered, OrderedBetween
  <2> QED
    BY <1>2, <2>2, <2>3
<1>4. Elems(evidence)' = Elems(evidence)
  BY <1>1 DEF Elems
<1>5. \A e \in Elems(evidence) : OfLine(e)' /\ e.line < Len(input')
  BY <1>1, <1>2, <1>3 DEF OfLine
<1>6. EvidenceInOrder'
  <2>1. \A e \in Elems(evidence) : \A f : InOrder(e, f) => InOrder(e, f)'
    BY <1>1, <1>2, <1>3 DEF InOrder, ReportedBefore
  <2> QED
    BY <1>1, <2>1 DEF Ordered, EvidenceInOrder, Elems
<1>7. OrderedBetween' /\ OrderedFinal'
  BY <1>1 DEF OrderedBetween, OrderedFinal
<1>8. OrderedDiverting'
  BY <1>1, <1>2, <1>4, <1>5 DEF OrderedDiverting
<1>9. OrderedRecord'
  <2> SUFFICES ASSUME pc' = "report" PROVE OrderedRecord'
    BY DEF OrderedRecord
  <2>1. \A i \in flagged' : ~IsCount(rules[i])
    BY <1>1 DEF Violated, RecordBreach, UniqueBreach, IsUnique, IsCount
  <2>2. Queued'
    BY <1>1 DEF Queued
  <2> QED
    BY <1>1, <1>2, <1>4, <1>5, <2>1, <2>2 DEF OrderedRecord
<1> QED
  BY <1>6, <1>7, <1>8, <1>9 DEF Ordered

LEMMA OrderedFinalize ==
  ASSUME Inv, Ordered, Finalize
  PROVE  Ordered'
<1>1. /\ pc = "end" /\ pc' = "final" /\ UNCHANGED <<request, input, evidence>>
      /\ pending' = flagged' /\ flagged' \subseteq FinalBreaches(rules, count)
  BY DEF Finalize, GoTo, outputs
<1>2. /\ rules' = rules
      /\ \A e, f : InOrder(e, f)' <=> InOrder(e, f)
      /\ \A e : OfLine(e)' <=> OfLine(e)
  BY <1>1, OrderStands
<1>3. Elems(evidence)' = Elems(evidence) /\ EvidenceInOrder'
  BY <1>1, <1>2 DEF Elems, Ordered, EvidenceInOrder
<1>4. Queued' /\ \A i \in flagged' : IsCount(rules[i])
  BY <1>1 DEF Queued, FinalBreaches, CountBreach
<1>5. OrderedFinal'
  BY <1>1, <1>2, <1>3, <1>4 DEF Ordered, OrderedBetween, OrderedFinal
<1> QED
  BY <1>1, <1>3, <1>5 DEF Ordered, OrderedBetween, OrderedDiverting, OrderedRecord

LEMMA OrderedDiverted ==
  ASSUME Inv, Ordered, ReportDiverted
  PROVE  Ordered'
<1> DEFINE f == ParseEvent(request.contract, Len(input))
<1>1. /\ pc = "diverted" /\ UNCHANGED <<request, input>> /\ PublishEvent(f, "scan")
      /\ f.line = Len(input) /\ f.rule = InputParse
      /\ Len(input) \in Nat /\ evidence \in Seq(Event)
  BY DEF ReportDiverted, ParseEvent, Inv, TypeOK, CheckerType, OutputType
<1>2. f \in Event /\ EventValid(f)
  <2>1. /\ request.contract \in Contracts /\ Validate(request.contract)
        /\ Len(input) \in Nat \ {0}
    BY <1>1, AdmittedRun
  <2> QED
    BY <2>1, ParseEventValid
<1> HIDE DEF f
<1>3. pc' \in {"scan", "done"} /\ evidence' \in {evidence, Append(evidence, f)}
  BY <1>1, <1>2, Published
<1>4. \A e \in Elems(evidence) : e.line < Len(input) /\ OfLine(e) /\ ~input[Len(input)].ok
  BY <1>1 DEF Ordered, OrderedDiverting
<1>5. EvidenceInOrder'
  <2>1. \A e \in Elems(evidence) : InOrder(e, f)
    BY <1>1, <1>4 DEF InOrder
  <2> QED
    BY <1>1, <1>2, <1>3, <2>1, InOrderAppend DEF Ordered
<1>6. OfLine(f)
  BY <1>1 DEF OfLine, Ordered, OrderedDiverting
<1>7. \A e \in Elems(evidence)' : e.line <= Len(input) /\ OfLine(e)
  <2>1. \A e \in Elems(evidence)' : e \in Elems(evidence) \/ e = f
    BY <1>1, <1>2, <1>3, PublishedElems
  <2>2. \A e \in Elems(evidence) : e.line \in Nat
    <3>1. \A k \in DOMAIN evidence : evidence[k] \in Event
      BY <1>1
    <3> QED
      BY <3>1 DEF Elems, Event
  <2> QED
    BY <1>1, <1>4, <1>6, <2>1, <2>2
<1>8. OrderedBetween'
  BY <1>1, <1>7, OrderStands DEF OrderedBetween
<1> QED
  BY <1>3, <1>5, <1>8 DEF Ordered, OrderedDiverting, OrderedRecord, OrderedFinal

\* The first of the pending rules: those published precede it, and it precedes
\* the others.
LEMMA FirstPublished ==
  ASSUME pending \subseteq flagged, Queued, NEW i, IsFirst(rules, i, pending),
         request' = request, flagged' = flagged, pending' = pending \ {i}
  PROVE  /\ i \in flagged
         /\ \A j \in flagged \ pending : Precedes(rules, j, i)
         /\ flagged' \ pending' = (flagged \ pending) \cup {i}
         /\ Queued'
<1>1. i \in pending /\ i \in flagged /\ \A j \in pending \ {i} : Precedes(rules, i, j)
  BY DEF IsFirst
<1>2. \A j \in flagged \ pending : Precedes(rules, j, i)
  BY <1>1 DEF Queued
<1>3. flagged' \ pending' = (flagged \ pending) \cup {i}
  BY <1>1
<1>4. rules' = rules
  BY DEF rules
<1>5. Queued'
  <2> SUFFICES ASSUME NEW a \in flagged' \ pending', NEW b \in pending' PROVE Precedes(rules, a, b)
    BY <1>4 DEF Queued
  <2>1. CASE a = i
    BY <1>1, <2>1
  <2>2. CASE a \in flagged \ pending
    BY <2>2 DEF Queued
  <2> QED
    BY <1>3, <2>1, <2>2
<1> QED
  BY <1>1, <1>2, <1>3, <1>5

LEMMA OrderedReport ==
  ASSUME Inv, Ordered, Report
  PROVE  Ordered'
<1>1. /\ pc = "report" /\ UNCHANGED <<request, input, flagged>> /\ rules' = rules
      /\ Len(input) \in Nat \ {0} /\ evidence \in Seq(Event)
      /\ request.contract \in Contracts /\ Validate(request.contract)
      /\ pending \subseteq flagged /\ flagged \subseteq DOMAIN request.contract.rules
  <2>1. pc = "report" /\ UNCHANGED <<request, input, flagged>> /\ rules' = rules
    BY DEF Report, rules
  <2> QED
    BY <2>1, AdmittedRun
<1>2. PICK i \in pending :
        /\ IsFirst(rules, i, pending) /\ pending' = pending \ {i}
        /\ PublishEvent(MakeEvent(request.contract, rules[i], Len(input)), "report")
  BY DEF Report
<1> DEFINE f == MakeEvent(request.contract, rules[i], Len(input))
<1>3. f.line = Len(input) /\ f.rule = rules[i].id /\ PublishEvent(f, "report")
  BY <1>2 DEF MakeEvent
<1>4. f \in Event /\ EventValid(f)
  BY <1>1, MakeEventValid DEF rules
<1> HIDE DEF f
<1>5. pc' \in {"report", "done"} /\ evidence' \in {evidence, Append(evidence, f)}
  BY <1>3, <1>4, Published
<1>6. /\ Queued /\ input[Len(input)].ok /\ \A j \in flagged : ~IsCount(rules[j])
      /\ \A e \in Elems(evidence) :
           OfLine(e) /\ (e.line < Len(input) \/ (e.line = Len(input) /\ OfRule(e, flagged \ pending)))
  BY <1>1 DEF Ordered, OrderedRecord
<1>7. /\ i \in flagged /\ \A j \in flagged \ pending : Precedes(rules, j, i)
      /\ flagged' \ pending' = (flagged \ pending) \cup {i} /\ Queued'
  BY <1>1, <1>2, <1>6, FirstPublished
<1>8. \A e \in Elems(evidence) : InOrder(e, f)
  <2> SUFFICES ASSUME NEW e \in Elems(evidence), e.line = Len(input), OfRule(e, flagged \ pending)
               PROVE  InOrder(e, f)
    BY <1>3, <1>6 DEF InOrder
  <2>1. PICK j \in flagged \ pending : rules[j].id = e.rule
    BY DEF OfRule
  <2>2. ReportedBefore(j, i)
    BY <1>6, <1>7 DEF ReportedBefore, IsCount
  <2>3. i \in DOMAIN rules /\ j \in DOMAIN rules
    BY <1>1, <1>7 DEF rules
  <2> QED
    BY <1>3, <2>1, <2>2, <2>3 DEF InOrder
<1>9. EvidenceInOrder'
  BY <1>1, <1>4, <1>5, <1>8, InOrderAppend DEF Ordered
<1>10. \A e \in Elems(evidence)' :
         OfLine(e) /\ (e.line < Len(input) \/ (e.line = Len(input) /\ OfRule(e, flagged' \ pending')))
  <2>1. \A e \in Elems(evidence)' : e \in Elems(evidence) \/ e = f
    BY <1>1, <1>4, <1>5, PublishedElems
  <2>2. OfLine(f) /\ OfRule(f, flagged' \ pending')
    <3>1. i \in DOMAIN rules
      BY <1>1, <1>7 DEF rules
    <3> QED
      BY <1>3, <1>6, <1>7, <3>1 DEF OfLine, OfRule
  <2>3. \A e : OfRule(e, flagged \ pending) => OfRule(e, flagged' \ pending')
    BY <1>7 DEF OfRule
  <2> QED
    BY <1>3, <1>6, <2>1, <2>2, <2>3
<1>11. OrderedRecord'
  BY <1>1, <1>6, <1>7, <1>10, OrderStands DEF OrderedRecord
<1> QED
  BY <1>5, <1>9, <1>11 DEF Ordered, OrderedBetween, OrderedDiverting, OrderedFinal

LEMMA OrderedReportFinal ==
  ASSUME Inv, Ordered, ReportFinal
  PROVE  Ordered'
<1>1. /\ pc = "final" /\ UNCHANGED <<request, input, flagged>> /\ rules' = rules
      /\ Len(input) \in Nat /\ evidence \in Seq(Event) /\ FinalLine(Len(input)) \in Nat \ {0}
      /\ request.contract \in Contracts /\ Validate(request.contract)
      /\ pending \subseteq flagged /\ flagged \subseteq DOMAIN request.contract.rules
  <2>1. pc = "final" /\ UNCHANGED <<request, input, flagged>> /\ rules' = rules
    BY DEF ReportFinal, rules
  <2> QED
    BY <2>1, AdmittedRun
<1>2. PICK i \in pending :
        /\ IsFirst(rules, i, pending) /\ pending' = pending \ {i}
        /\ PublishEvent(MakeEvent(request.contract, rules[i], FinalLine(Len(input))), "final")
  BY DEF ReportFinal
<1> DEFINE f == MakeEvent(request.contract, rules[i], FinalLine(Len(input)))
<1>3. f.line = FinalLine(Len(input)) /\ f.rule = rules[i].id /\ PublishEvent(f, "final")
  BY <1>2 DEF MakeEvent
<1>4. f \in Event /\ EventValid(f)
  BY <1>1, MakeEventValid DEF rules
<1> HIDE DEF f
<1>5. pc' \in {"final", "done"} /\ evidence' \in {evidence, Append(evidence, f)}
  BY <1>3, <1>4, Published
<1>6. /\ Queued /\ \A j \in flagged : IsCount(rules[j])
      /\ \A e \in Elems(evidence) :
           \/ e.line <= Len(input) /\ OfLine(e)
           \/ e.line = FinalLine(Len(input)) /\ OfRule(e, flagged \ pending)
  BY <1>1 DEF Ordered, OrderedFinal
<1>7. /\ i \in flagged /\ \A j \in flagged \ pending : Precedes(rules, j, i)
      /\ flagged' \ pending' = (flagged \ pending) \cup {i} /\ Queued'
  BY <1>1, <1>2, <1>6, FirstPublished
<1>8. i \in DOMAIN rules /\ \A j \in flagged : j \in DOMAIN rules
  BY <1>1, <1>7 DEF rules
<1>9. \A e \in Elems(evidence) : InOrder(e, f)
  <2> SUFFICES ASSUME NEW e \in Elems(evidence) PROVE InOrder(e, f)
    OBVIOUS
  <2>1. CASE e.line <= Len(input) /\ OfLine(e)
    <3>1. e.line < FinalLine(Len(input)) \/ e.line = FinalLine(Len(input))
      <4>1. \A k \in DOMAIN evidence : evidence[k] \in Event
        BY <1>1
      <4>2. e.line \in Nat \ {0}
        BY <4>1 DEF Elems, Event
      <4> QED
        BY <1>1, <2>1, <4>2 DEF FinalLine
    <3>2. CASE e.line = FinalLine(Len(input)) /\ ~input[e.line].ok /\ e.rule = InputParse
      BY <1>3, <3>2 DEF InOrder
    <3>3. CASE /\ e.line = FinalLine(Len(input))
               /\ \E j \in DOMAIN rules : rules[j].id = e.rule /\ ~IsCount(rules[j])
      <4>1. PICK j \in DOMAIN rules : rules[j].id = e.rule /\ ~IsCount(rules[j])
        BY <3>3
      <4>2. ReportedBefore(j, i)
        BY <1>6, <1>7, <4>1 DEF ReportedBefore
      <4> QED
        BY <1>3, <1>8, <3>3, <4>1, <4>2 DEF InOrder
    <3> QED
      BY <1>3, <2>1, <3>1, <3>2, <3>3 DEF OfLine, InOrder
  <2>2. CASE e.line = FinalLine(Len(input)) /\ OfRule(e, flagged \ pending)
    <3>1. PICK j \in flagged \ pending : rules[j].id = e.rule
      BY <2>2 DEF OfRule
    <3>2. ReportedBefore(j, i)
      BY <1>6, <1>7 DEF ReportedBefore
    <3> QED
      BY <1>3, <1>8, <2>2, <3>1, <3>2 DEF InOrder
  <2> QED
    BY <1>6, <2>1, <2>2
<1>10. EvidenceInOrder'
  BY <1>1, <1>4, <1>5, <1>9, InOrderAppend DEF Ordered
<1>11. \A e \in Elems(evidence)' :
         \/ e.line <= Len(input) /\ OfLine(e)
         \/ e.line = FinalLine(Len(input)) /\ OfRule(e, flagged' \ pending')
  <2>1. \A e \in Elems(evidence)' : e \in Elems(evidence) \/ e = f
    BY <1>1, <1>4, <1>5, PublishedElems
  <2>2. OfRule(f, flagged' \ pending')
    BY <1>3, <1>7 DEF OfRule
  <2>3. \A e : OfRule(e, flagged \ pending) => OfRule(e, flagged' \ pending')
    BY <1>7 DEF OfRule
  <2> QED
    BY <1>3, <1>6, <2>1, <2>2, <2>3
<1>12. OrderedFinal'
  BY <1>1, <1>6, <1>7, <1>11, OrderStands DEF OrderedFinal
<1> QED
  BY <1>5, <1>10, <1>12 DEF Ordered, OrderedBetween, OrderedDiverting, OrderedRecord

LEMMA NextOrdered == Inv /\ Ordered /\ [Next]_vars => Ordered'
<1> SUFFICES ASSUME Inv, Ordered, [Next]_vars PROVE Ordered'
  OBVIOUS
<1> QED
  BY OrderedQuiet, OrderedScan, OrderedFinalize, OrderedDiverted, OrderedReport, OrderedReportFinal
  DEF Next, Run, Returned

\* The evidence stream preserves input order, within a line it follows the order
\* of the checker, and no finding is published twice, for every contract, every
\* input and every point where Run may fail.
THEOREM EvidenceAlwaysInOrder == Spec => []EvidenceInOrder
<1>1. Ordered => EvidenceInOrder
  BY DEF Ordered
<1> QED
  BY <1>1, InitInv, NextInv, InitOrdered, NextOrdered, PTL DEF Spec

(***************************************************************************)
(* brokoli.Run implements the abstract gate: every step of NdjsonGate is a    *)
(* step of Gate or leaves what Gate sees alone.                             *)
(***************************************************************************)

(***************************************************************************)
(* Gate states its verdicts with an engine of its own, which is this one.    *)
(***************************************************************************)
LEMMA SameLookup == \A o, path : Promise!Lookup(o, path) = Lookup(o, path)
BY DEF Promise!Lookup, Lookup, Promise!Child, Child, Promise!V, V, Promise!Root, Root

LEMMA SameCardinality == \A S : Promise!Cardinality(S) = Cardinality(S)
BY DEF Promise!Cardinality, Cardinality

LEMMA SameNumbers == \A x : Promise!Float64(x) = Float64(x)
<1>1. \A v : Promise!Spacing(v) = Spacing(v)
  BY DEF Promise!Spacing, Spacing, Promise!Spacings, Spacings, Promise!Magnitude, Magnitude
<1>2. \A v : Promise!Rounded(v) = Rounded(v)
  BY <1>1 DEF Promise!Rounded, Rounded
<1> QED
  BY <1>2 DEF Promise!Float64, Float64

LEMMA SameKeys ==
  /\ \A x, y : Promise!EqualJSON(x, y) = EqualJSON(x, y)
  /\ \A x : Promise!Key(x) = Key(x) /\ Promise!Marshals(x) = Marshals(x)
BY DEF Promise!EqualJSON, EqualJSON, Promise!Marshals, Marshals, Promise!Key, Key, Promise!V, V,
       Promise!Digits, Digits

LEMMA SameFails == \A p, x : Promise!Fails(p, x) = Fails(p, x)
<1> USE DEF Promise!Numeric, Numeric, Promise!Finite, Finite
<1>1. \A y, t : Promise!TypeMatches(y, t) = TypeMatches(y, t)
  BY SameNumbers DEF Promise!TypeMatches, TypeMatches, Promise!IsInteger, IsInteger
<1>2. \A y, q : Promise!BelowMin(y, q) = BelowMin(y, q) /\ Promise!AboveMax(y, q) = AboveMax(y, q)
  BY SameNumbers DEF Promise!BelowMin, BelowMin, Promise!AboveMax, AboveMax
<1> QED
  BY <1>1, <1>2, SameKeys DEF Promise!Fails, Fails, Promise!Missing, Missing, Promise!V, V

LEMMA SameEngine ==
  /\ \A r, o : Promise!RecordBreach(r, o) = RecordBreach(r, o)
  /\ \A r, o : Promise!KeysOf(r, o) = KeysOf(r, o)
  /\ \A r : Promise!IsUnique(r) = IsUnique(r)
  /\ \A rs, n : Promise!FinalBreaches(rs, n) = FinalBreaches(rs, n)
<1>1. \A r, o : Promise!RecordBreach(r, o) = RecordBreach(r, o)
  BY SameLookup, SameFails DEF Promise!RecordBreach, RecordBreach
<1>2. \A r : Promise!IsUnique(r) = IsUnique(r)
  BY DEF Promise!IsUnique, IsUnique
<1>3. \A r, o : Promise!KeysOf(r, o) = KeysOf(r, o)
  BY <1>2, SameLookup, SameKeys DEF Promise!KeysOf, KeysOf, Promise!Comparable, Comparable,
     Promise!Missing, Missing
<1>4. \A rs, n : Promise!FinalBreaches(rs, n) = FinalBreaches(rs, n)
  BY DEF Promise!FinalBreaches, FinalBreaches, Promise!CountBreach, CountBreach, Promise!IsCount, IsCount
<1> QED
  BY <1>1, <1>2, <1>3, <1>4

(***************************************************************************)
(* The invariant: at every point of Run, what the sinks hold is what the      *)
(* verdicts on the history of lines say, up to the line in progress.         *)
(***************************************************************************)
Pairs == {<<e.line, e.rule>> : e \in Elems(evidence)}

Parsed == {n \in 1..Len(input) : input[n].ok}

\* The findings of the rules in ks, all on one line.
Findings(line, ks) ==
  IF "evidence" \in request.sinks THEN {<<line, rules[k].id>> : k \in ks} ELSE {}

\* The keys that unique rule r takes from the lines read.
KeysRead(r) == UNION {KeysOf(r, input[n].rec) : n \in Parsed}

\* The checker knows the history and nothing else.
SeenExact ==
  pc \notin {"start", "done"} => \A i \in DOMAIN rules : seen[rules[i].id] = KeysRead(rules[i])

CountExact == count = Cardinality(Parsed)

\* The outputs hold what the verdicts on the first n lines say.
Routed(n) ==
  /\ Elems(accepted) = Promise!Sent("accepted", "accept", n)
  /\ Elems(quarantined) = Promise!Sent("quarantined", "quarantine", n)

NoStop(n) == \A m \in 1..n : ~Promise!Stops(m)

\* Before a line is read, and before the first, everything is out.
Waiting ==
  pc \in {"start", "scan"} =>
    Routed(Len(input)) /\ Pairs = Promise!EvidenceUpTo(Len(input)) /\ NoStop(Len(input))

Diverting ==
  pc \in {"divert", "diverted"} =>
    /\ ~input[Len(input)].ok /\ request.invalid = "quarantine"
    /\ Routed(IF pc = "divert" THEN Len(input) - 1 ELSE Len(input))
    /\ Pairs = Promise!EvidenceUpTo(Len(input) - 1)
    /\ NoStop(Len(input) - 1)

\* The line in progress: its findings are out but for those pending.
InProgress ==
  pc = "report" =>
    /\ input[Len(input)].ok /\ flagged = Promise!FlaggedAt(Len(input))
    /\ Routed(Len(input) - 1)
    /\ Pairs = Promise!EvidenceUpTo(Len(input) - 1) \cup Findings(Len(input), flagged \ pending)
    /\ NoStop(Len(input) - 1)

Ending ==
  pc \in {"end", "final"} =>
    /\ Routed(Len(input))
    /\ summary.halted <=> ~NoStop(Len(input))
    /\ pc = "end" => Pairs = Promise!EvidenceUpTo(Len(input))

Concluding ==
  pc = "final" =>
    /\ flagged = IF summary.halted THEN {} ELSE FinalBreaches(rules, count)
    /\ Pairs = Promise!EvidenceUpTo(Len(input)) \cup Findings(FinalLine(Len(input)), flagged \ pending)

History ==
  /\ SeenExact /\ CountExact
  /\ Waiting /\ Diverting /\ InProgress /\ Ending /\ Concluding /\ Halting

(***************************************************************************)
(* Verdicts on a prefix                                                     *)
(***************************************************************************)
\* They depend on the request and the lines read up to there.
LEMMA VerdictsStand ==
  ASSUME UNCHANGED <<request, input>>
  PROVE  /\ \A n : Promise!FlaggedAt(n)' = Promise!FlaggedAt(n)
         /\ \A n : Promise!Verdict(n)' = Promise!Verdict(n)
         /\ \A n : Promise!Stops(n)' = Promise!Stops(n)
         /\ \A n : Promise!EvidenceAt(n)' = Promise!EvidenceAt(n)
         /\ \A sink, v, n : Promise!Sent(sink, v, n)' = Promise!Sent(sink, v, n)
         /\ \A n : Promise!EvidenceUpTo(n)' = Promise!EvidenceUpTo(n)
<1>1. \A n : Promise!FlaggedAt(n)' = Promise!FlaggedAt(n)
  BY DEF Promise!FlaggedAt, Promise!Repeats, Promise!rules
<1>2. \A n : Promise!ActionsAt(n)' = Promise!ActionsAt(n)
  BY <1>1 DEF Promise!ActionsAt, Promise!rules
<1>3. \A n : Promise!Verdict(n)' = Promise!Verdict(n)
  BY <1>2 DEF Promise!Verdict
<1>4. \A n : Promise!Stops(n)' = Promise!Stops(n)
  BY <1>2, <1>3 DEF Promise!Stops
<1>5. \A n : Promise!EvidenceAt(n)' = Promise!EvidenceAt(n)
  BY <1>1, <1>3 DEF Promise!EvidenceAt, Promise!rules, Promise!InputParse
<1>6. \A sink, v, n : Promise!Sent(sink, v, n)' = Promise!Sent(sink, v, n)
  BY <1>3 DEF Promise!Sent
<1>7. \A n : Promise!EvidenceUpTo(n)' = Promise!EvidenceUpTo(n)
  BY <1>5 DEF Promise!EvidenceUpTo
<1> QED
  BY <1>1, <1>3, <1>4, <1>5, <1>6, <1>7

\* A further line changes none of the verdicts on the lines before it.
LEMMA VerdictsOnPrefix ==
  ASSUME input \in Seq(LineType), NEW line \in LineType,
         input' = Append(input, line), request' = request,
         NEW N \in Nat, N <= Len(input)
  PROVE  /\ \A n \in 1..N :
              /\ Promise!FlaggedAt(n)' = Promise!FlaggedAt(n)
              /\ Promise!Stops(n)' = Promise!Stops(n)
              /\ Promise!EvidenceAt(n)' = Promise!EvidenceAt(n)
         /\ \A sink, v : Promise!Sent(sink, v, N)' = Promise!Sent(sink, v, N)
         /\ Promise!EvidenceUpTo(N)' = Promise!EvidenceUpTo(N)
<1>0. \A n \in 1..N : input'[n] = input[n]
  OBVIOUS
<1>1. ASSUME NEW n \in 1..N PROVE Promise!FlaggedAt(n)' = Promise!FlaggedAt(n)
  <2>1. \A j \in 1..(n - 1) : j \in 1..N
    OBVIOUS
  <2>2. \A r : Promise!Repeats(r, n)' = Promise!Repeats(r, n)
    BY <1>0, <2>1 DEF Promise!Repeats
  <2> QED
    BY <1>0, <2>2 DEF Promise!FlaggedAt, Promise!rules
<1>2. \A n \in 1..N : Promise!ActionsAt(n)' = Promise!ActionsAt(n)
  BY <1>1 DEF Promise!ActionsAt, Promise!rules
<1>3. \A n \in 1..N : Promise!Verdict(n)' = Promise!Verdict(n)
  BY <1>0, <1>2 DEF Promise!Verdict
<1>4. \A n \in 1..N : Promise!Stops(n)' = Promise!Stops(n)
  BY <1>0, <1>2, <1>3 DEF Promise!Stops
<1>5. \A n \in 1..N : Promise!EvidenceAt(n)' = Promise!EvidenceAt(n)
  BY <1>0, <1>1, <1>3 DEF Promise!EvidenceAt, Promise!rules, Promise!InputParse
<1>6. \A sink, v : Promise!Sent(sink, v, N)' = Promise!Sent(sink, v, N)
  BY <1>3 DEF Promise!Sent
<1>7. Promise!EvidenceUpTo(N)' = Promise!EvidenceUpTo(N)
  BY <1>5 DEF Promise!EvidenceUpTo
<1> QED
  BY <1>1, <1>4, <1>5, <1>6, <1>7

\* One line further.
LEMMA NextPrefix ==
  ASSUME NEW n \in Nat \ {0}
  PROVE  /\ Promise!EvidenceUpTo(n) = Promise!EvidenceUpTo(n - 1) \cup Promise!EvidenceAt(n)
         /\ \A sink, v : Promise!Sent(sink, v, n) =
              Promise!Sent(sink, v, n - 1)
                \cup (IF sink \in request.sinks /\ Promise!Verdict(n) = v THEN {n} ELSE {})
         /\ NoStop(n) <=> NoStop(n - 1) /\ ~Promise!Stops(n)
<1>1. 1..n = (1..(n - 1)) \cup {n}
  OBVIOUS
<1>2. Promise!EvidenceUpTo(n) = Promise!EvidenceUpTo(n - 1) \cup Promise!EvidenceAt(n)
  BY <1>1 DEF Promise!EvidenceUpTo
<1>3. ASSUME NEW sink, NEW v
      PROVE  Promise!Sent(sink, v, n) =
               Promise!Sent(sink, v, n - 1)
                 \cup (IF sink \in request.sinks /\ Promise!Verdict(n) = v THEN {n} ELSE {})
  BY <1>1 DEF Promise!Sent
<1>4. NoStop(n) <=> NoStop(n - 1) /\ ~Promise!Stops(n)
  BY <1>1 DEF NoStop
<1> QED
  BY <1>2, <1>3, <1>4

LEMMA NothingYet ==
  /\ Promise!EvidenceUpTo(0) = {}
  /\ \A sink, v : Promise!Sent(sink, v, 0) = {}
  /\ NoStop(0)
BY DEF Promise!EvidenceUpTo, Promise!Sent, NoStop

LEMMA ElemsAppend ==
  ASSUME NEW S, NEW s \in Seq(S), NEW e \in S
  PROVE  Elems(Append(s, e)) = Elems(s) \cup {e}
<1>1. /\ DOMAIN Append(s, e) = DOMAIN s \cup {Len(s) + 1}
      /\ \A k \in DOMAIN s : Append(s, e)[k] = s[k]
      /\ Append(s, e)[Len(s) + 1] = e
  OBVIOUS
<1> QED
  BY <1>1 DEF Elems

(***************************************************************************)
(* What Gate sees of a step                                                 *)
(***************************************************************************)
\* The gate moves, and a host sees nothing of it.
LEMMA Stutters ==
  ASSUME pc # "done", pc' # "done", UNCHANGED <<request, input, outputs>>
  PROVE  UNCHANGED Promise!vars
BY DEF Promise!vars, outputs, Elems

LEMMA Advances ==
  ASSUME pc # "done", pc' # "done" \/ err' # "", UNCHANGED <<request, input>>,
         input \in Seq(LineType),
         Pairs \subseteq Pairs', Pairs' \subseteq Promise!EvidenceUpTo(Len(input)),
         Elems(accepted) \subseteq Elems(accepted'),
         Elems(quarantined) \subseteq Elems(quarantined'),
         NEW n \in 0..Len(input), Elems(accepted') = Promise!Sent("accepted", "accept", n),
         NEW m \in 0..Len(input), Elems(quarantined') = Promise!Sent("quarantined", "quarantine", m)
  PROVE  Promise!Next
<1>1. Promise!Advance
  BY DEF Promise!Advance, Pairs
<1> QED
  BY <1>1 DEF Promise!Next

\* An event that is published, that no sink wants, or that is lost to a failure.
LEMMA Publishes ==
  ASSUME evidence \in Seq(Event), NEW event \in Event, NEW where, where # "done",
         PublishEvent(event, where)
  PROVE  \/ /\ pc' = where /\ "evidence" \in request.sinks
            /\ Pairs' = Pairs \cup {<<event.line, event.rule>>}
         \/ pc' = where /\ "evidence" \notin request.sinks /\ evidence' = evidence
         \/ pc' = "done" /\ err' # "" /\ evidence' = evidence
<1>1. CASE evidence' = Append(evidence, event)
  <2>1. Elems(evidence') = Elems(evidence) \cup {event}
    BY <1>1, ElemsAppend
  <2>2. Pairs' = Pairs \cup {<<event.line, event.rule>>}
    BY <2>1 DEF Pairs
  <2> QED
    BY <2>2 DEF PublishEvent, Send, GoTo, Return
<1> QED
  BY <1>1 DEF PublishEvent, Send, GoTo, Return

\* Steps that leave the checker and what it has read alone.
LEMMA CheckerUndisturbed ==
  ASSUME SeenExact, CountExact, UNCHANGED <<request, input, checker>>,
         pc \notin {"start", "done"} \/ pc' = "done"
  PROVE  SeenExact' /\ CountExact'
<1>1. rules' = rules /\ Parsed' = Parsed /\ \A r : KeysRead(r)' = KeysRead(r)
  BY DEF rules, Parsed, KeysRead
<1> QED
  BY <1>1 DEF SeenExact, CountExact, checker

(***************************************************************************)
(* Initially                                                               *)
(***************************************************************************)
LEMMA InitHistory == Init => History /\ Promise!Init
<1> SUFFICES ASSUME Init PROVE History /\ Promise!Init
  OBVIOUS
<1>0. Elems(<<>>) = {}
  <2>1. DOMAIN <<>> = {}
    OBVIOUS
  <2> QED
    BY <2>1 DEF Elems
<1>1. Len(input) = 0 /\ Elems(accepted) = {} /\ Elems(quarantined) = {} /\ Elems(evidence) = {}
  BY <1>0 DEF Init
<1>2. Parsed = {} /\ Pairs = {}
  BY <1>1 DEF Parsed, Pairs
<1>3. Cardinality(Parsed) = 0
  BY <1>2, FS_EmptySet, Zenon
<1>4. SeenExact /\ CountExact
  BY <1>3 DEF Init, SeenExact, CountExact
<1>5. Waiting
  BY <1>1, <1>2, NothingYet DEF Waiting, Routed
<1>6. Diverting /\ InProgress /\ Ending /\ Concluding /\ Halting
  BY DEF Init, Diverting, InProgress, Ending, Concluding, Halting, ZeroSummary
<1>7. Promise!Init
  BY <1>1 DEF Init, Promise!Init
<1> QED
  BY <1>4, <1>5, <1>6, <1>7 DEF History

(***************************************************************************)
(* Steps                                                                   *)
(***************************************************************************)
Implemented == History' /\ [Promise!Next]_Promise!vars

\* A run that fails after its last line leaves the outputs as they are.
LEMMA FailStep ==
  ASSUME Inv, History, Reject \/ ScanCancelled \/ ReadFailed
  PROVE  Implemented
<1>1. /\ pc \in {"start", "scan", "end"} /\ pc' = "done" /\ err' # ""
      /\ UNCHANGED <<request, input, checker, summary, outputs>>
  BY DEF Reject, ScanCancelled, ReadFailed, Return
<1>2. History'
  <2>1. SeenExact' /\ CountExact'
    BY <1>1, CheckerUndisturbed DEF History
  <2> QED
    BY <1>1, <2>1 DEF History, Waiting, Diverting, InProgress, Ending, Concluding, Halting
<1>3. /\ Routed(Len(input)) /\ Pairs = Promise!EvidenceUpTo(Len(input))
  BY <1>1 DEF History, Waiting, Ending
<1>4. Pairs' = Pairs /\ Elems(accepted') = Elems(accepted) /\ Elems(quarantined') = Elems(quarantined)
  BY <1>1 DEF outputs, Pairs, Elems
<1>5. Len(input) \in 0..Len(input) /\ input \in Seq(LineType)
  BY DEF Inv, TypeOK, CheckerType
<1>6. Promise!Next
  BY <1>1, <1>3, <1>4, <1>5, Advances DEF Routed
<1> QED
  BY <1>2, <1>6 DEF Implemented

LEMMA BeginStep ==
  ASSUME Inv, History, Begin
  PROVE  Implemented
<1>1. /\ pc = "start" /\ pc' = "scan" /\ input = <<>> /\ rules' = rules
      /\ UNCHANGED <<request, input, count, summary, outputs>>
  BY DEF Begin, GoTo, rules, Inv, Numbered
<1>2. SeenExact'
  <2>1. \A r : KeysRead(r)' = {}
    BY <1>1 DEF Parsed, KeysRead
  <2>2. \A i \in DOMAIN rules : seen'[rules[i].id] = {}
    BY DEF Begin, NoneSeen, RuleIds
  <2> QED
    BY <1>1, <2>1, <2>2 DEF SeenExact
<1>3. CountExact'
  BY <1>1 DEF History, CountExact, Parsed
<1>4. Waiting'
  <2>1. Routed(Len(input))' /\ NoStop(Len(input))' /\ Pairs' = Pairs
        /\ Promise!EvidenceUpTo(Len(input))' = Promise!EvidenceUpTo(Len(input))
    BY <1>1, VerdictsStand DEF History, Waiting, Routed, NoStop, Pairs, Elems, outputs
  <2> QED
    BY <1>1, <2>1 DEF History, Waiting
<1>5. (Diverting /\ InProgress /\ Ending /\ Concluding /\ Halting)'
  BY <1>1 DEF Diverting, InProgress, Ending, Concluding, History, Halting
<1>6. UNCHANGED Promise!vars
  BY <1>1, Stutters
<1> QED
  BY <1>2, <1>3, <1>4, <1>5, <1>6 DEF Implemented, History

\* What the outputs and the verdicts say of n lines is not disturbed.
LEMMA RoutedStands ==
  ASSUME UNCHANGED <<request, input, outputs>>
  PROVE  /\ \A n : Routed(n)' = Routed(n)
         /\ \A n : NoStop(n)' = NoStop(n)
         /\ Pairs' = Pairs
         /\ \A n : Promise!EvidenceUpTo(n)' = Promise!EvidenceUpTo(n)
         /\ \A n : Promise!FlaggedAt(n)' = Promise!FlaggedAt(n)
         /\ \A n, ks : Findings(n, ks)' = Findings(n, ks)
         /\ rules' = rules
BY VerdictsStand DEF Routed, NoStop, Pairs, Elems, outputs, Findings, rules

LEMMA ScanEndStep ==
  ASSUME Inv, History, ScanEnd
  PROVE  Implemented
<1>1. /\ pc = "scan" /\ pc' = "end" /\ UNCHANGED <<request, input, checker, summary, outputs>>
  BY DEF ScanEnd, GoTo
<1>2. SeenExact' /\ CountExact'
  BY <1>1, CheckerUndisturbed DEF History
<1>3. Ending'
  BY <1>1, RoutedStands DEF History, Waiting, Halting, Ending
<1>4. (Waiting /\ Diverting /\ InProgress /\ Concluding /\ Halting)'
  BY <1>1 DEF Waiting, Diverting, InProgress, Concluding, History, Halting
<1>5. UNCHANGED Promise!vars
  BY <1>1, Stutters
<1> QED
  BY <1>2, <1>3, <1>4, <1>5 DEF Implemented, History

LEMMA FinalizeStep ==
  ASSUME Inv, History, Finalize
  PROVE  Implemented
<1>1. /\ pc = "end" /\ pc' = "final" /\ UNCHANGED <<request, input, checker, summary, outputs>>
      /\ flagged' = (IF summary.halted THEN {} ELSE FinalBreaches(rules, count))
      /\ pending' = flagged'
  BY DEF Finalize, GoTo
<1>2. SeenExact' /\ CountExact'
  BY <1>1, CheckerUndisturbed DEF History
<1>3. Ending'
  BY <1>1, RoutedStands DEF History, Ending
<1>4. Concluding'
  <2>1. Findings(FinalLine(Len(input)), flagged' \ pending') = {}
    BY <1>1 DEF Findings
  <2>2. Pairs = Promise!EvidenceUpTo(Len(input))
    BY <1>1 DEF History, Ending
  <2>3. Findings(FinalLine(Len(input)), flagged \ pending)'
          = Findings(FinalLine(Len(input)), flagged' \ pending')
    BY <1>1 DEF Findings, FinalLine, rules
  <2>4. flagged' = (IF summary'.halted THEN {} ELSE FinalBreaches(rules', count'))
    BY <1>1, RoutedStands DEF checker
  <2>5. /\ Pairs' = Pairs
        /\ Promise!EvidenceUpTo(Len(input))' = Promise!EvidenceUpTo(Len(input))
    BY <1>1, RoutedStands
  <2> QED
    BY <2>1, <2>2, <2>3, <2>4, <2>5 DEF Concluding
<1>5. (Waiting /\ Diverting /\ InProgress /\ Halting)'
  BY <1>1 DEF Waiting, Diverting, InProgress, History, Halting
<1>6. UNCHANGED Promise!vars
  BY <1>1, Stutters
<1> QED
  BY <1>2, <1>3, <1>4, <1>5, <1>6 DEF Implemented, History

LEMMA IdleStep ==
  ASSUME Inv, History, Cancel \/ UNCHANGED vars
  PROVE  Implemented
<1>1. UNCHANGED <<request, pc, err, input, checker, flagged, pending, summary, outputs>>
  BY DEF Cancel, vars, checker, outputs
<1>2. SeenExact' /\ CountExact'
  BY <1>1 DEF History, SeenExact, CountExact, KeysRead, Parsed, rules, checker
<1>3. (Waiting /\ Diverting /\ InProgress /\ Ending /\ Concluding /\ Halting)'
  BY <1>1, RoutedStands DEF History, Waiting, Diverting, InProgress, Ending, Concluding, Halting, checker
<1>4. UNCHANGED Promise!vars
  BY <1>1 DEF Promise!vars, outputs
<1> QED
  BY <1>2, <1>3, <1>4 DEF Implemented, History

LEMMA ReturnStep ==
  ASSUME Inv, History, ReturnSummary
  PROVE  Implemented
<1>1. /\ pc = "final" /\ pc' = "done" /\ err' = "" /\ pending = {}
      /\ UNCHANGED <<request, input, checker, summary, outputs>>
  BY DEF ReturnSummary, Return
<1>2. History'
  <2>1. SeenExact' /\ CountExact'
    BY <1>1, CheckerUndisturbed DEF History
  <2> QED
    BY <1>1, <2>1 DEF History, Waiting, Diverting, InProgress, Ending, Concluding, Halting
<1>3. Routed(Len(input)) /\ (summary.halted <=> ~NoStop(Len(input)))
  BY <1>1 DEF History, Ending
<1>4. UNCHANGED <<request, input, Elems(accepted), Elems(quarantined), Pairs>>
  BY <1>1 DEF outputs, Pairs, Elems
<1>5. /\ Promise!Delivered /\ (Promise!Stopped <=> summary.halted)
  <2>1. DOMAIN input = 1..Len(input)
    BY DEF Inv, TypeOK, CheckerType
  <2> QED
    BY <1>3, <2>1 DEF Promise!Delivered, Promise!Stopped, Routed, NoStop
<1>6. CASE summary.halted
  <2>1. Pairs = Promise!EvidenceUpTo(Len(input))
    <3>1. flagged = {} /\ Findings(FinalLine(Len(input)), flagged \ pending) = {}
      BY <1>1, <1>6 DEF History, Concluding, Findings
    <3> QED
      BY <1>1, <3>1 DEF History, Concluding
  <2>2. Promise!Halt
    BY <1>1, <1>4, <1>5, <1>6, <2>1 DEF Promise!Halt, Pairs
  <2> QED
    BY <1>2, <2>2 DEF Implemented, Promise!Next
<1>7. CASE ~summary.halted
  <2>1. Pairs = Promise!EvidenceUpTo(Len(input)) \cup Promise!FinalEvidence
    <3>1. flagged \ pending = FinalBreaches(rules, Cardinality(Parsed))
      BY <1>1, <1>7 DEF History, Concluding, CountExact
    <3>2. FinalLine(Len(input)) = IF Len(input) = 0 THEN 1 ELSE Len(input)
      <4>1. Len(input) \in Nat
        BY DEF Inv, TypeOK, CheckerType
      <4> QED
        BY <4>1 DEF FinalLine
    <3>3. Findings(FinalLine(Len(input)), flagged \ pending) = Promise!FinalEvidence
      BY <3>1, <3>2, SameEngine, SameCardinality
         DEF Findings, Promise!FinalEvidence, Promise!rules, rules, Parsed
    <3> QED
      BY <1>1, <3>3 DEF History, Concluding
  <2>2. Promise!Complete
    BY <1>1, <1>4, <1>5, <1>7, <2>1 DEF Promise!Complete, Pairs
  <2> QED
    BY <1>2, <2>2 DEF Implemented, Promise!Next
<1> QED
  BY <1>6, <1>7

(***************************************************************************)
(* Reading a line                                                          *)
(***************************************************************************)
LEMMA ParsedGrows ==
  ASSUME input \in Seq(LineType), NEW line \in LineType, input' = Append(input, line)
  PROVE  /\ Parsed' = Parsed \cup (IF line.ok THEN {Len(input) + 1} ELSE {})
         /\ \A r : KeysRead(r)' = KeysRead(r) \cup (IF line.ok THEN KeysOf(r, line.rec) ELSE {})
         /\ Cardinality(Parsed') = Cardinality(Parsed) + (IF line.ok THEN 1 ELSE 0)
<1>1. /\ Len(input) \in Nat /\ Len(input') = Len(input) + 1
      /\ \A n \in 1..Len(input) : input'[n] = input[n]
      /\ input'[Len(input) + 1] = line
      /\ 1..(Len(input) + 1) = (1..Len(input)) \cup {Len(input) + 1}
  OBVIOUS
<1>2. Parsed' = Parsed \cup (IF line.ok THEN {Len(input) + 1} ELSE {})
  BY <1>1 DEF Parsed
<1>3. IsFiniteSet(Parsed) /\ Len(input) + 1 \notin Parsed
  <2>1. IsFiniteSet(1..Len(input))
    <3>1. 1 \in Int /\ Len(input) \in Int
      BY <1>1
    <3> QED
      BY <3>1, FS_Interval
  <2>2. Parsed \subseteq 1..Len(input)
    BY DEF Parsed
  <2>3. IsFiniteSet(Parsed)
    BY <2>1, <2>2, FS_Subset
  <2> QED
    BY <1>1, <2>3 DEF Parsed
<1>4. Cardinality(Parsed) \in Nat
  BY <1>3, FS_CardinalityType
<1>5. Cardinality(Parsed \cup {Len(input) + 1}) = Cardinality(Parsed) + 1
  BY <1>3, FS_AddElement
<1>6. Cardinality(Parsed') = Cardinality(Parsed) + (IF line.ok THEN 1 ELSE 0)
  <2>1. CASE line.ok
    BY <1>2, <1>5, <2>1
  <2>2. CASE ~line.ok
    <3>1. Parsed' = Parsed
      BY <1>2, <2>2
    <3> QED
      BY <1>4, <2>2, <3>1
  <2> QED
    BY <2>1, <2>2
<1>7. ASSUME NEW r
      PROVE  KeysRead(r)' = KeysRead(r) \cup (IF line.ok THEN KeysOf(r, line.rec) ELSE {})
  <2>1. \A n \in Parsed : input'[n] = input[n]
    BY <1>1 DEF Parsed
  <2>2. KeysRead(r)' = UNION {KeysOf(r, input'[n].rec) : n \in Parsed'}
    BY DEF KeysRead
  <2>3. CASE line.ok
    <3>1. {KeysOf(r, input'[n].rec) : n \in Parsed'}
            = {KeysOf(r, input[n].rec) : n \in Parsed} \cup {KeysOf(r, line.rec)}
      <4>1. PICK k : Parsed' = Parsed \cup {k} /\ input'[k] = line
        BY <1>1, <1>2, <2>3
      <4> QED
        BY <2>1, <4>1
    <3> QED
      BY <2>2, <2>3, <3>1 DEF KeysRead
  <2>4. CASE ~line.ok
    <3>1. {KeysOf(r, input'[n].rec) : n \in Parsed'} = {KeysOf(r, input[n].rec) : n \in Parsed}
      BY <1>2, <2>1, <2>4
    <3> QED
      BY <2>2, <2>4, <3>1 DEF KeysRead
  <2> QED
    BY <2>3, <2>4
<1> QED
  BY <1>2, <1>6, <1>7

\* What Check finds is the verdict on the line.
LEMMA CheckJudges ==
  ASSUME Inv, History, NEW line \in Line \cup {Fragment}, ScanRecord(line),
         NEW n \in Nat, n = Len(input) + 1
  PROVE  flagged' = Promise!FlaggedAt(n)'
<1>1. /\ line \in LineType /\ input \in Seq(LineType) /\ input' = Append(input, line)
      /\ request' = request /\ rules \in Seq(Rules) /\ IdsUnique(rules)
  <2>1. pc = "scan"
    BY DEF ScanRecord, Scanned
  <2> QED
    BY <2>1, FragmentType, RulesType
       DEF Inv, TypeOK, CheckerType, Admitted, Accepts, Validate, ScanRecord, Scanned, rules
<1>2. /\ input'[n] = line /\ \A m \in 1..(n - 1) : input'[m] = input[m]
      /\ 1..(n - 1) = 1..Len(input)
  BY <1>1
<1>3. \A r : (\E m \in Parsed : KeysOf(r, input[m].rec) \cap KeysOf(r, line.rec) # {}) <=>
        \E m \in 1..(n - 1) :
          input'[m].ok /\ KeysOf(r, input'[m].rec) \cap KeysOf(r, input'[n].rec) # {}
  BY <1>2 DEF Parsed
<1>4. ASSUME NEW i \in DOMAIN rules
      PROVE  UniqueBreach(rules, seen, i, line.rec) <=>
               /\ IsUnique(rules[i])
               /\ \/ KeysOf(rules[i], line.rec) = {}
                  \/ \E m \in Parsed : KeysOf(rules[i], input[m].rec) \cap KeysOf(rules[i], line.rec) # {}
  <2>1. SeenBy(rules, seen, i, line.rec) = seen[rules[i].id]
    BY <1>1, OwnKeys
  <2>2. seen[rules[i].id] = UNION {KeysOf(rules[i], input[m].rec) : m \in Parsed}
    BY DEF ScanRecord, Scanned, History, SeenExact, KeysRead
  <2> QED
    BY <2>1, <2>2 DEF UniqueBreach
<1>5. Promise!FlaggedAt(n)' =
        {i \in DOMAIN rules :
           \/ RecordBreach(rules[i], line.rec)
           \/ /\ IsUnique(rules[i])
              /\ \/ KeysOf(rules[i], line.rec) = {}
                 \/ \E m \in Parsed : KeysOf(rules[i], input[m].rec) \cap KeysOf(rules[i], line.rec) # {}}
  <2>1. Promise!FlaggedAt(n)' =
          {i \in DOMAIN rules :
             \/ RecordBreach(rules[i], input'[n].rec)
             \/ /\ IsUnique(rules[i])
                /\ \/ KeysOf(rules[i], input'[n].rec) = {}
                   \/ \E m \in 1..(n - 1) :
                        /\ input'[m].ok
                        /\ KeysOf(rules[i], input'[m].rec) \cap KeysOf(rules[i], input'[n].rec) # {}}
    BY <1>1, SameEngine DEF Promise!FlaggedAt, Promise!Repeats, Promise!rules, rules
  <2> QED
    BY <1>2, <1>3, <2>1
<1> QED
  BY <1>4, <1>5 DEF ScanRecord, Violated

\* The next line is taken when everything before it is out.
LEMMA LineTaken ==
  ASSUME Inv, History, NEW line \in Line \cup {Fragment}, ScanRecord(line) \/ ScanMalformed(line),
         NEW N \in Nat, N = Len(input)
  PROVE  /\ Len(input') = N + 1 /\ input'[N + 1] = line /\ line \in LineType
         /\ input' = Append(input, line) /\ request' = request /\ rules' = rules
         /\ Routed(N)' /\ NoStop(N)' /\ Pairs' = Promise!EvidenceUpTo(N)'
         /\ (pc' = "done" => err' # "") /\ (pc' = "done" <=> Promise!Verdict(N + 1)' = "abort")
              => Promise!Next
<1>1. /\ pc = "scan" /\ line \in LineType /\ input \in Seq(LineType) /\ input' = Append(input, line)
      /\ request' = request /\ UNCHANGED outputs /\ rules' = rules
  BY FragmentType DEF ScanRecord, ScanMalformed, Scanned, Inv, TypeOK, CheckerType, outputs, rules
<1>2. Len(input') = N + 1 /\ input'[N + 1] = line /\ DOMAIN input = 1..N
  BY <1>1
<1>3. Routed(N) /\ NoStop(N) /\ Pairs = Promise!EvidenceUpTo(N)
  BY <1>1 DEF History, Waiting
<1>4. UNCHANGED <<Elems(accepted), Elems(quarantined), Pairs>>
  BY <1>1 DEF outputs, Elems, Pairs
<1>5. /\ \A m \in 1..N : Promise!Stops(m)' = Promise!Stops(m)
      /\ \A sink, v : Promise!Sent(sink, v, N)' = Promise!Sent(sink, v, N)
      /\ Promise!EvidenceUpTo(N)' = Promise!EvidenceUpTo(N)
  BY <1>1, VerdictsOnPrefix
<1>6. Routed(N)' /\ NoStop(N)' /\ Pairs' = Promise!EvidenceUpTo(N)'
  BY <1>3, <1>4, <1>5 DEF Routed, NoStop
<1>7. ASSUME pc' = "done" => err' # "", pc' = "done" <=> Promise!Verdict(N + 1)' = "abort"
      PROVE  Promise!Next
  <2>1. ~Promise!Stopped /\ Pairs = Promise!EvidenceUpTo(Len(input))
    BY <1>2, <1>3 DEF Promise!Stopped, NoStop
  <2>2. Promise!Verdict(Len(input))' = Promise!Verdict(N + 1)'
    BY <1>2
  <2>3. Promise!Take
    BY <1>1, <1>4, <1>7, <2>1, <2>2 DEF Promise!Take, Pairs
  <2> QED
    BY <2>3 DEF Promise!Next
<1> QED
  BY <1>1, <1>2, <1>6, <1>7

LEMMA RecordStep ==
  ASSUME Inv, History, NEW line \in Line \cup {Fragment}, ScanRecord(line),
         NEW N \in Nat, N = Len(input)
  PROVE  Implemented
<1>1. N + 1 \in Nat /\ (N + 1) - 1 = N /\ input \in Seq(LineType)
  BY DEF Inv, TypeOK, CheckerType
<1>2. /\ pc = "scan" /\ pc' = "report" /\ line.ok /\ UNCHANGED <<summary, outputs>>
      /\ pending' = flagged' /\ count' = count + 1
  BY DEF ScanRecord, Scanned, GoTo
<1>3. /\ Len(input') = N + 1 /\ input'[N + 1] = line /\ line \in LineType
      /\ input' = Append(input, line) /\ request' = request /\ rules' = rules
      /\ Routed(N)' /\ NoStop(N)' /\ Pairs' = Promise!EvidenceUpTo(N)'
  BY <1>1, LineTaken
<1>4. Promise!Next
  <2>1. Promise!Verdict(N + 1)' # "abort"
    BY <1>2, <1>3 DEF Promise!Verdict
  <2> QED
    BY <1>1, <1>2, <2>1, LineTaken
<1>5. SeenExact'
  <2>1. \A r : KeysRead(r)' = KeysRead(r) \cup KeysOf(r, line.rec)
    BY <1>1, <1>2, <1>3, ParsedGrows
  <2>2. rules \in Seq(Rules) /\ IdsUnique(rules)
    BY <1>2, RulesType DEF Inv, Admitted, Accepts, Validate, rules
  <2>3. ASSUME NEW i \in DOMAIN rules
        PROVE  seen'[rules[i].id] = KeysRead(rules[i]) \cup KeysOf(rules[i], line.rec)
    <3>1. seen'[rules[i].id] = seen[rules[i].id] \cup KeysOf(rules[i], line.rec)
      BY <2>2, OwnKeys DEF ScanRecord
    <3> QED
      BY <1>2, <3>1 DEF History, SeenExact
  <2> QED
    BY <1>3, <2>1, <2>3 DEF SeenExact
<1>6. CountExact'
  <2>1. Cardinality(Parsed') = Cardinality(Parsed) + 1
    BY <1>1, <1>2, <1>3, ParsedGrows
  <2> QED
    BY <1>2, <2>1 DEF History, CountExact
<1>7. InProgress'
  <2>1. flagged' = Promise!FlaggedAt(N + 1)'
    BY <1>1, CheckJudges
  <2>2. \A m : Findings(m, flagged \ pending)' = {}
    BY <1>2 DEF Findings
  <2> QED
    BY <1>1, <1>2, <1>3, <2>1, <2>2 DEF InProgress
<1>8. (Waiting /\ Diverting /\ Ending /\ Concluding /\ Halting)'
  BY <1>2 DEF Waiting, Diverting, Ending, Concluding, History, Halting
<1> QED
  BY <1>4, <1>5, <1>6, <1>7, <1>8 DEF Implemented, History

LEMMA MalformedStep ==
  ASSUME Inv, History, NEW line \in Line \cup {Fragment}, ScanMalformed(line),
         NEW N \in Nat, N = Len(input)
  PROVE  Implemented
<1>1. N + 1 \in Nat /\ (N + 1) - 1 = N /\ input \in Seq(LineType)
  BY DEF Inv, TypeOK, CheckerType
<1>2. /\ pc = "scan" /\ ~line.ok /\ UNCHANGED <<checker, outputs>>
      /\ pc' = (IF request.invalid = "quarantine" THEN "divert" ELSE "done")
      /\ pc' = "done" => err' # ""
      /\ summary'.halted = summary.halted
  BY DEF ScanMalformed, Scanned, GoTo, Return, Inv, TypeOK, SummaryType
<1>3. /\ Len(input') = N + 1 /\ input'[N + 1] = line /\ line \in LineType
      /\ input' = Append(input, line) /\ request' = request /\ rules' = rules
      /\ Routed(N)' /\ NoStop(N)' /\ Pairs' = Promise!EvidenceUpTo(N)'
  BY <1>1, LineTaken
<1>4. Promise!Next
  <2>1. pc' = "done" <=> Promise!Verdict(N + 1)' = "abort"
    BY <1>2, <1>3 DEF Promise!Verdict
  <2> QED
    BY <1>1, <1>2, <2>1, LineTaken
<1>5. SeenExact' /\ CountExact'
  <2>1. Cardinality(Parsed') = Cardinality(Parsed) /\ \A r : KeysRead(r)' = KeysRead(r)
    <3>1. /\ Parsed' = Parsed \cup {}
          /\ \A r : KeysRead(r)' = KeysRead(r) \cup {}
      BY <1>1, <1>2, <1>3, ParsedGrows
    <3>2. Parsed' = Parsed
      BY <3>1
    <3> QED
      BY <3>1, <3>2
  <2> QED
    BY <1>2, <1>3, <2>1 DEF History, SeenExact, CountExact, checker
<1>6. Diverting'
  BY <1>1, <1>2, <1>3 DEF Diverting
<1>7. (Waiting /\ InProgress /\ Ending /\ Concluding /\ Halting)'
  BY <1>2 DEF Waiting, InProgress, Ending, Concluding, History, Halting
<1> QED
  BY <1>4, <1>5, <1>6, <1>7 DEF Implemented, History

(***************************************************************************)
(* A malformed line                                                        *)
(***************************************************************************)
LEMMA LineInProgress ==
  ASSUME Inv, pc \in {"divert", "diverted", "report"}
  PROVE  /\ Len(input) \in Nat \ {0} /\ Len(input) \in 0..Len(input)
         /\ Len(input) - 1 \in 0..Len(input)
         /\ input \in Seq(LineType) /\ request \in RequestType
         /\ accepted \in Seq(Nat) /\ quarantined \in Seq(Nat) /\ evidence \in Seq(Event)
<1>1. Len(input) \in Nat /\ Len(input) >= 1
  BY DEF Inv, TypeOK, CheckerType, Numbered
<1>2. Len(input) \in Nat \ {0} /\ Len(input) \in 0..Len(input) /\ Len(input) - 1 \in 0..Len(input)
  BY <1>1
<1> QED
  BY <1>2 DEF Inv, TypeOK, CheckerType, OutputType, ControlType

LEMMA MalformedVerdict ==
  ASSUME Inv, History, pc \in {"divert", "diverted"}, NEW N \in Nat \ {0}, N = Len(input)
  PROVE  /\ Promise!Verdict(N) = "quarantine" /\ ~Promise!Stops(N)
         /\ Promise!EvidenceAt(N) = IF "evidence" \in request.sinks THEN {<<N, InputParse>>} ELSE {}
<1>1. ~input[N].ok /\ request.invalid = "quarantine"
  BY DEF History, Diverting
<1>2. Promise!Verdict(N) = "quarantine"
  BY <1>1 DEF Promise!Verdict
<1> QED
  BY <1>1, <1>2 DEF Promise!Stops, Promise!EvidenceAt, Promise!InputParse, InputParse

LEMMA DivertStep ==
  ASSUME Inv, History, Divert
  PROVE  Implemented
<1> DEFINE N == Len(input)
<1>1. /\ pc = "divert" /\ UNCHANGED <<request, input, checker, summary, accepted, evidence>>
      /\ pc' \in {"diverted", "done"}
      /\ pc' = "done" => err' # ""
  BY DEF Divert, Send, GoTo, Return, outputs
<1>2. /\ N \in Nat \ {0} /\ N \in 0..N /\ N - 1 \in 0..N
      /\ input \in Seq(LineType) /\ quarantined \in Seq(Nat)
  BY <1>1, LineInProgress
<1>3. Promise!Verdict(N) = "quarantine"
  BY <1>1, <1>2, MalformedVerdict
<1>4. Routed(N - 1) /\ Pairs = Promise!EvidenceUpTo(N - 1) /\ NoStop(N - 1) /\ ~input[N].ok
      /\ request.invalid = "quarantine"
  BY <1>1 DEF History, Diverting
<1>5. /\ Promise!EvidenceUpTo(N - 1) \subseteq Promise!EvidenceUpTo(N)
      /\ Promise!Sent("accepted", "accept", N) = Promise!Sent("accepted", "accept", N - 1)
      /\ Promise!Sent("quarantined", "quarantine", N) =
           Promise!Sent("quarantined", "quarantine", N - 1)
             \cup (IF "quarantined" \in request.sinks THEN {N} ELSE {})
  <2> HIDE DEF N
  <2>1. Promise!EvidenceUpTo(N - 1) \subseteq Promise!EvidenceUpTo(N)
    BY <1>2, NextPrefix
  <2>2. \A sink, v : Promise!Sent(sink, v, N) =
          Promise!Sent(sink, v, N - 1)
            \cup (IF sink \in request.sinks /\ "quarantine" = v THEN {N} ELSE {})
    BY <1>2, <1>3, NextPrefix
  <2> QED
    BY <2>1, <2>2
<1>6. UNCHANGED <<Elems(accepted), Pairs>>
  BY <1>1 DEF Elems, Pairs
<1>7. \/ /\ pc' = "done" /\ Elems(quarantined') = Elems(quarantined)
      \/ /\ pc' = "diverted"
         /\ Elems(quarantined') = Elems(quarantined)
              \cup (IF "quarantined" \in request.sinks THEN {N} ELSE {})
  <2>1. Elems(Append(quarantined, N)) = Elems(quarantined) \cup {N}
    BY <1>2, ElemsAppend
  <2> HIDE DEF N
  <2> QED
    BY <2>1 DEF Divert, Send, GoTo, Return, N
<1> HIDE DEF N
<1>8. Promise!Next
  <2>1. Elems(quarantined') \in {Promise!Sent("quarantined", "quarantine", N - 1),
                                Promise!Sent("quarantined", "quarantine", N)}
        /\ Elems(quarantined) \subseteq Elems(quarantined')
    BY <1>4, <1>5, <1>7 DEF Routed
  <2> QED
    BY <1>1, <1>2, <1>4, <1>5, <1>6, <2>1, Advances DEF Routed, N
<1>9. SeenExact' /\ CountExact'
  BY <1>1, CheckerUndisturbed DEF History
<1>10. Diverting'
  <2>1. ASSUME pc' = "diverted"
        PROVE  /\ Elems(accepted') = Promise!Sent("accepted", "accept", N)
               /\ Elems(quarantined') = Promise!Sent("quarantined", "quarantine", N)
    BY <1>4, <1>5, <1>6, <1>7, <2>1 DEF Routed
  <2>2. ASSUME pc' = "diverted" PROVE Routed(Len(input))'
    BY <1>1, <2>1, <2>2, VerdictsStand DEF Routed, N
  <2>3. Pairs' = Promise!EvidenceUpTo(Len(input) - 1)' /\ NoStop(Len(input) - 1)'
    BY <1>1, <1>4, <1>6, VerdictsStand DEF NoStop, N
  <2> QED
    BY <1>1, <1>4, <2>2, <2>3 DEF Diverting, N
<1>11. (Waiting /\ InProgress /\ Ending /\ Concluding /\ Halting)'
  BY <1>1 DEF Waiting, InProgress, Ending, Concluding, History, Halting
<1> QED
  BY <1>8, <1>9, <1>10, <1>11 DEF Implemented, History

LEMMA ReportDivertedStep ==
  ASSUME Inv, History, ReportDiverted
  PROVE  Implemented
<1> DEFINE N == Len(input)
           event == ParseEvent(request.contract, N)
<1>1. /\ pc = "diverted" /\ UNCHANGED <<request, input, checker, summary, accepted, quarantined>>
      /\ PublishEvent(event, "scan")
  BY DEF ReportDiverted
<1>2. /\ N \in Nat \ {0} /\ N \in 0..N /\ input \in Seq(LineType) /\ evidence \in Seq(Event)
  BY <1>1, LineInProgress
<1>3. ~Promise!Stops(N)
      /\ Promise!EvidenceAt(N) = IF "evidence" \in request.sinks THEN {<<N, InputParse>>} ELSE {}
  BY <1>1, <1>2, MalformedVerdict
<1>4. Routed(N) /\ Pairs = Promise!EvidenceUpTo(N - 1) /\ NoStop(N - 1)
  BY <1>1 DEF History, Diverting
<1>5. /\ Promise!EvidenceUpTo(N) = Promise!EvidenceUpTo(N - 1) \cup Promise!EvidenceAt(N)
      /\ NoStop(N)
  BY <1>2, <1>3, <1>4, NextPrefix
<1>6. UNCHANGED <<Elems(accepted), Elems(quarantined)>>
  BY <1>1 DEF Elems
<1>7. /\ event \in Event /\ event.line = N /\ event.rule = InputParse
  <2>1. request.contract \in Contracts /\ Validate(request.contract)
    BY <1>1, RulesType DEF Inv, Admitted, Accepts
  <2> QED
    BY <1>2, <2>1, ParseEventValid DEF ParseEvent
<1> HIDE DEF event, N
<1>8. \/ pc' = "scan" /\ Pairs' = Promise!EvidenceUpTo(N)
      \/ pc' = "done" /\ err' # "" /\ Pairs' = Pairs
  <2>1. evidence' = evidence => Pairs' = Pairs
    BY DEF Pairs, Elems
  <2> QED
    BY <1>1, <1>2, <1>3, <1>4, <1>5, <1>7, <2>1, Publishes
<1>9. Promise!Next
  BY <1>1, <1>2, <1>4, <1>5, <1>6, <1>8, Advances DEF Routed, N
<1>10. SeenExact' /\ CountExact'
  BY <1>1, CheckerUndisturbed DEF History
<1>11. Waiting'
  <2>1. ASSUME pc' = "scan" PROVE Pairs' = Promise!EvidenceUpTo(Len(input))'
    BY <1>1, <1>8, <2>1, VerdictsStand DEF N
  <2>2. Routed(Len(input))' /\ NoStop(Len(input))'
    BY <1>1, <1>4, <1>5, <1>6, VerdictsStand DEF Routed, NoStop, N
  <2> QED
    BY <1>8, <2>1, <2>2 DEF Waiting
<1>12. (Diverting /\ InProgress /\ Ending /\ Concluding /\ Halting)'
  BY <1>1, <1>8 DEF Diverting, InProgress, Ending, Concluding, History, Halting
<1> QED
  BY <1>9, <1>10, <1>11, <1>12 DEF Implemented, History

(***************************************************************************)
(* A record                                                                *)
(***************************************************************************)
\* The verdict on the line is what the code decides from the flags.
LEMMA RecordVerdict ==
  ASSUME Inv, History, pc = "report", NEW N \in Nat \ {0}, N = Len(input)
  PROVE  /\ Promise!EvidenceAt(N) = Findings(N, flagged)
         /\ Promise!Stops(N) <=> ShouldHalt(rules, flagged)
         /\ Promise!Verdict(N) = "accept" <=> Outcome(rules, flagged) = "cleared"
         /\ Promise!Verdict(N) = "quarantine" <=> Outcome(rules, flagged) = "quarantined"
<1>1. input[N].ok /\ flagged = Promise!FlaggedAt(N)
  BY DEF History, InProgress
<1>2. Promise!ActionsAt(N) = ActionsOf(rules, flagged)
  BY <1>1 DEF Promise!ActionsAt, ActionsOf, Promise!rules, rules
<1>3. Promise!Verdict(N) =
        IF ActionsOf(rules, flagged) \subseteq {"warn"} THEN "accept"
        ELSE IF "quarantine" \in ActionsOf(rules, flagged) THEN "quarantine" ELSE "drop"
  BY <1>1, <1>2 DEF Promise!Verdict
<1>4. HasBreach(rules, flagged) <=> ~(ActionsOf(rules, flagged) \subseteq {"warn"})
  BY DEF HasBreach
<1>5. /\ Promise!Verdict(N) = "accept" <=> Outcome(rules, flagged) = "cleared"
      /\ Promise!Verdict(N) = "quarantine" <=> Outcome(rules, flagged) = "quarantined"
  BY <1>3, <1>4 DEF Outcome, ShouldQuarantine
<1>6. Promise!Verdict(N) # "abort"
  BY <1>3
<1>7. Promise!Stops(N) <=> ShouldHalt(rules, flagged)
  BY <1>1, <1>2, <1>6 DEF Promise!Stops, ShouldHalt
<1>8. Promise!EvidenceAt(N) = Findings(N, flagged)
  BY <1>1, <1>6 DEF Promise!EvidenceAt, Findings, Promise!rules, rules
<1> QED
  BY <1>5, <1>7, <1>8

\* One more of the findings on a line.
LEMMA FindingsGrow ==
  ASSUME NEW line, NEW i \in pending, pending \subseteq flagged
  PROVE  /\ Findings(line, flagged \ (pending \ {i})) =
              Findings(line, flagged \ pending)
                \cup (IF "evidence" \in request.sinks THEN {<<line, rules[i].id>>} ELSE {})
         /\ Findings(line, flagged \ (pending \ {i})) \subseteq Findings(line, flagged)
         /\ Findings(line, flagged \ pending) \subseteq Findings(line, flagged)
<1>1. flagged \ (pending \ {i}) = (flagged \ pending) \cup {i}
  OBVIOUS
<1>2. CASE "evidence" \in request.sinks
  BY <1>1, <1>2 DEF Findings
<1>3. CASE "evidence" \notin request.sinks
  BY <1>3 DEF Findings
<1> QED
  BY <1>2, <1>3

LEMMA ReportRecordStep ==
  ASSUME Inv, History, Report
  PROVE  Implemented
<1> DEFINE N == Len(input)
<1>1. PICK i \in pending :
        /\ pending' = pending \ {i} /\ summary' = CountWarning(summary, rules[i])
        /\ PublishEvent(MakeEvent(request.contract, rules[i], N), "report")
  BY DEF Report
<1>2. /\ pc = "report" /\ flagged' = flagged
      /\ UNCHANGED <<request, input, checker, accepted, quarantined>>
      /\ summary'.halted = summary.halted
  BY <1>1 DEF Report, CountWarning, Inv, TypeOK, SummaryType
<1>3. /\ N \in Nat \ {0} /\ N - 1 \in 0..N /\ input \in Seq(LineType) /\ evidence \in Seq(Event)
      /\ pending \subseteq flagged /\ flagged \subseteq DOMAIN rules
  BY <1>2, LineInProgress DEF Inv, TypeOK, CheckerType
<1>4. /\ input[N].ok /\ flagged = Promise!FlaggedAt(N) /\ Routed(N - 1) /\ NoStop(N - 1)
      /\ Pairs = Promise!EvidenceUpTo(N - 1) \cup Findings(N, flagged \ pending)
  BY <1>2 DEF History, InProgress
<1> DEFINE event == MakeEvent(request.contract, rules[i], N)
<1>5. event \in Event /\ event.line = N /\ event.rule = rules[i].id
  <2>1. request.contract \in Contracts /\ Validate(request.contract) /\ i \in DOMAIN request.contract.rules
    BY <1>2, <1>3, RulesType DEF Inv, Admitted, Accepts, rules
  <2> QED
    BY <1>3, <2>1, MakeEventValid DEF MakeEvent, rules
<1>6. PublishEvent(event, "report")
  BY <1>1
<1> HIDE DEF event, N
<1>7. UNCHANGED <<Elems(accepted), Elems(quarantined)>>
  BY <1>2 DEF Elems
<1>8. \/ /\ pc' = "report"
         /\ Pairs' = Promise!EvidenceUpTo(N - 1) \cup Findings(N, flagged \ pending')
      \/ pc' = "done" /\ err' # "" /\ Pairs' = Pairs
  <2>1. evidence' = evidence => Pairs' = Pairs
    BY DEF Pairs, Elems
  <2>2. Findings(N, flagged \ pending') =
          Findings(N, flagged \ pending)
            \cup (IF "evidence" \in request.sinks THEN {<<N, rules[i].id>>} ELSE {})
    BY <1>1, <1>3, FindingsGrow
  <2>3. \/ /\ pc' = "report" /\ "evidence" \in request.sinks
           /\ Pairs' = Pairs \cup {<<N, rules[i].id>>}
        \/ pc' = "report" /\ "evidence" \notin request.sinks /\ Pairs' = Pairs
        \/ pc' = "done" /\ err' # "" /\ Pairs' = Pairs
    BY <1>3, <1>5, <1>6, <2>1, Publishes
  <2> QED
    BY <1>4, <2>2, <2>3
<1>9. Promise!Next
  <2>1. Promise!EvidenceUpTo(N) = Promise!EvidenceUpTo(N - 1) \cup Findings(N, flagged)
    BY <1>2, <1>3, NextPrefix, RecordVerdict DEF N
  <2>2. /\ Findings(N, flagged \ pending) \subseteq Findings(N, flagged \ pending')
        /\ Findings(N, flagged \ pending') \subseteq Findings(N, flagged)
    BY <1>1, <1>3, FindingsGrow
  <2>3. Pairs \subseteq Pairs' /\ Pairs' \subseteq Promise!EvidenceUpTo(N)
    BY <1>4, <1>8, <2>1, <2>2
  <2> QED
    BY <1>2, <1>3, <1>4, <1>7, <1>8, <2>3, Advances DEF Routed, N
<1>10. SeenExact' /\ CountExact'
  BY <1>2, CheckerUndisturbed, <1>8 DEF History
<1>11. InProgress'
  <2>1. Routed(Len(input) - 1)' /\ NoStop(Len(input) - 1)'
        /\ flagged' = Promise!FlaggedAt(Len(input))' /\ input'[Len(input')].ok
    BY <1>2, <1>4, <1>7, VerdictsStand DEF Routed, NoStop, N
  <2>2. ASSUME pc' = "report"
        PROVE  Pairs' = Promise!EvidenceUpTo(Len(input) - 1)' \cup Findings(Len(input), flagged \ pending)'
    <3>1. Promise!EvidenceUpTo(Len(input) - 1)' = Promise!EvidenceUpTo(N - 1)
      BY <1>2, VerdictsStand DEF N
    <3>2. Findings(Len(input), flagged \ pending)' = Findings(N, flagged \ pending')
      BY <1>2 DEF Findings, rules, N
    <3> QED
      BY <1>8, <2>2, <3>1, <3>2
  <2> QED
    BY <2>1, <2>2 DEF InProgress
<1>12. (Waiting /\ Diverting /\ Ending /\ Concluding /\ Halting)'
  BY <1>2, <1>8 DEF Waiting, Diverting, Ending, Concluding, History, Halting
<1> QED
  BY <1>9, <1>10, <1>11, <1>12 DEF Implemented, History

LEMMA RouteStep ==
  ASSUME Inv, History, Route
  PROVE  Implemented
<1> DEFINE N == Len(input)
<1>1. /\ pc = "report" /\ pending = {}
      /\ UNCHANGED <<request, input, checker, evidence>>
      /\ pc' \in {AfterRoute, "done"}
      /\ pc' = "done" => err' # ""
  <2>1. AfterRoute # "done"
    BY DEF AfterRoute
  <2> QED
    BY <2>1 DEF Route, Reported, Send, GoTo, Return
<1>2. summary'.halted = (pc' = "end")
  <2> DEFINE halted == (pc' = "end")
  <2>1. summary' = [CountRecord(summary, Outcome(rules, flagged)) EXCEPT !.halted = halted]
    BY DEF Route
  <2>2. "halted" \in DOMAIN CountRecord(summary, Outcome(rules, flagged))
    BY DEF CountRecord, Inv, TypeOK, SummaryType
  <2> HIDE DEF halted
  <2>3. summary'.halted = halted
    BY <2>1, <2>2
  <2> QED
    BY <2>3 DEF halted
<1>3. /\ N \in Nat \ {0} /\ N \in 0..N /\ N - 1 \in 0..N /\ input \in Seq(LineType)
      /\ accepted \in Seq(Nat) /\ quarantined \in Seq(Nat)
  BY <1>1, LineInProgress
<1>4. Routed(N - 1) /\ NoStop(N - 1)
      /\ Pairs = Promise!EvidenceUpTo(N - 1) \cup Findings(N, flagged)
  <2>1. flagged \ pending = flagged
    BY <1>1
  <2> QED
    BY <1>1, <2>1 DEF History, InProgress
<1>5. /\ Promise!EvidenceAt(N) = Findings(N, flagged)
      /\ Promise!Stops(N) <=> ShouldHalt(rules, flagged)
      /\ Promise!Verdict(N) = "accept" <=> Outcome(rules, flagged) = "cleared"
      /\ Promise!Verdict(N) = "quarantine" <=> Outcome(rules, flagged) = "quarantined"
  BY <1>1, <1>3, RecordVerdict
<1> HIDE DEF N
<1>6. /\ Pairs = Promise!EvidenceUpTo(N)
      /\ NoStop(N) <=> ~ShouldHalt(rules, flagged)
      /\ Promise!Sent("accepted", "accept", N) =
           Promise!Sent("accepted", "accept", N - 1)
             \cup (IF "accepted" \in request.sinks /\ Outcome(rules, flagged) = "cleared" THEN {N} ELSE {})
      /\ Promise!Sent("quarantined", "quarantine", N) =
           Promise!Sent("quarantined", "quarantine", N - 1)
             \cup (IF "quarantined" \in request.sinks /\ Outcome(rules, flagged) = "quarantined"
                     THEN {N} ELSE {})
  <2>1. Pairs = Promise!EvidenceUpTo(N) /\ (NoStop(N) <=> ~ShouldHalt(rules, flagged))
    BY <1>3, <1>4, <1>5, NextPrefix
  <2>2. \A sink, v : Promise!Sent(sink, v, N) =
          Promise!Sent(sink, v, N - 1)
            \cup (IF sink \in request.sinks /\ Promise!Verdict(N) = v THEN {N} ELSE {})
    BY <1>3, NextPrefix
  <2> QED
    BY <1>5, <2>1, <2>2
\* The record reaches the sink that its outcome names, or the run fails.
<1>7. \/ /\ Elems(accepted') = Promise!Sent("accepted", "accept", N)
         /\ Elems(quarantined') = Promise!Sent("quarantined", "quarantine", N)
      \/ /\ pc' = "done" /\ Elems(accepted') = Elems(accepted)
         /\ Elems(quarantined') = Elems(quarantined)
  <2>1. /\ Elems(Append(accepted, N)) = Elems(accepted) \cup {N}
        /\ Elems(Append(quarantined, N)) = Elems(quarantined) \cup {N}
    <3>1. Elems(Append(accepted, N)) = Elems(accepted) \cup {N}
      BY <1>3, ElemsAppend
    <3>2. Elems(Append(quarantined, N)) = Elems(quarantined) \cup {N}
      BY <1>3, ElemsAppend
    <3> QED
      BY <3>1, <3>2
  <2>2. Outcome(rules, flagged) \in {"cleared", "quarantined", "breached"}
    BY DEF Outcome
  <2>3. CASE Outcome(rules, flagged) = "cleared"
    <3>1. /\ quarantined' = quarantined
          /\ \/ accepted' = accepted /\ "accepted" \notin request.sinks
             \/ accepted' = Append(accepted, N) /\ "accepted" \in request.sinks
             \/ accepted' = accepted /\ pc' = "done"
      BY <2>3 DEF Route, Send, Return, N
    <3> QED
      BY <1>4, <1>6, <2>1, <2>3, <3>1 DEF Routed
  <2>4. CASE Outcome(rules, flagged) = "quarantined"
    <3>1. /\ accepted' = accepted
          /\ \/ quarantined' = quarantined /\ "quarantined" \notin request.sinks
             \/ quarantined' = Append(quarantined, N) /\ "quarantined" \in request.sinks
             \/ quarantined' = quarantined /\ pc' = "done"
      BY <2>4 DEF Route, Send, Return, N
    <3> QED
      BY <1>4, <1>6, <2>1, <2>4, <3>1 DEF Routed
  <2>5. CASE Outcome(rules, flagged) = "breached"
    <3>1. accepted' = accepted /\ quarantined' = quarantined
      BY <2>5 DEF Route
    <3> QED
      BY <1>4, <1>6, <2>5, <3>1 DEF Routed
  <2> QED
    BY <2>2, <2>3, <2>4, <2>5
<1>8. Pairs' = Pairs
  BY <1>1 DEF Pairs, Elems
<1>9. Promise!Next
  <2>1. /\ Elems(accepted') \in {Promise!Sent("accepted", "accept", N - 1),
                                Promise!Sent("accepted", "accept", N)}
        /\ Elems(quarantined') \in {Promise!Sent("quarantined", "quarantine", N - 1),
                                   Promise!Sent("quarantined", "quarantine", N)}
        /\ Elems(accepted) \subseteq Elems(accepted')
        /\ Elems(quarantined) \subseteq Elems(quarantined')
    BY <1>4, <1>6, <1>7 DEF Routed
  <2>2. \E n, m \in 0..N : /\ Elems(accepted') = Promise!Sent("accepted", "accept", n)
                           /\ Elems(quarantined') = Promise!Sent("quarantined", "quarantine", m)
    BY <1>3, <2>1
  <2> QED
    BY <1>1, <1>3, <1>6, <1>8, <2>1, <2>2, Advances DEF N
<1>10. SeenExact' /\ CountExact'
  <2>1. AfterRoute # "start"
    BY DEF AfterRoute
  <2> QED
    BY <1>1, <2>1, CheckerUndisturbed DEF History
<1>11. pc' # "done" => Routed(Len(input))' /\ Pairs' = Promise!EvidenceUpTo(Len(input))'
  BY <1>1, <1>6, <1>7, <1>8, VerdictsStand DEF Routed, N
<1>12. NoStop(Len(input))' <=> ~ShouldHalt(rules, flagged)
  BY <1>1, <1>6, VerdictsStand DEF NoStop, N
<1>13. pc' = "scan" => ~ShouldHalt(rules, flagged)
  BY <1>1 DEF AfterRoute
<1>14. pc' = "end" => ShouldHalt(rules, flagged)
  BY <1>1 DEF AfterRoute
<1>15. pc' \in {"scan", "end", "done"}
  BY <1>1 DEF AfterRoute
<1>16. (Waiting /\ Diverting /\ InProgress /\ Ending /\ Concluding /\ Halting)'
  BY <1>2, <1>11, <1>12, <1>13, <1>14, <1>15
     DEF Waiting, Diverting, InProgress, Ending, Concluding, Halting
<1> QED
  BY <1>9, <1>10, <1>16 DEF Implemented, History

(***************************************************************************)
(* The count rules                                                         *)
(***************************************************************************)
LEMMA ReportFinalStep ==
  ASSUME Inv, History, ReportFinal
  PROVE  Implemented
<1> DEFINE N == Len(input)
           L == FinalLine(N)
<1>1. PICK i \in pending :
        /\ pending' = pending \ {i} /\ summary' = CountFinal(summary, rules[i])
        /\ PublishEvent(MakeEvent(request.contract, rules[i], L), "final")
  BY DEF ReportFinal
<1>2. /\ pc = "final" /\ flagged' = flagged
      /\ UNCHANGED <<request, input, checker, accepted, quarantined>>
      /\ summary'.halted = summary.halted
  BY <1>1 DEF ReportFinal, CountFinal, Inv, TypeOK, SummaryType
<1>3. /\ N \in Nat /\ L \in Nat \ {0} /\ input \in Seq(LineType) /\ evidence \in Seq(Event)
      /\ pending \subseteq flagged /\ flagged \subseteq DOMAIN rules
  <2>1. N \in Nat
    BY DEF Inv, TypeOK, CheckerType
  <2> QED
    BY <2>1 DEF Inv, TypeOK, CheckerType, OutputType, FinalLine
<1>4. /\ Routed(N) /\ (summary.halted <=> ~NoStop(N))
      /\ flagged = IF summary.halted THEN {} ELSE FinalBreaches(rules, count)
      /\ Pairs = Promise!EvidenceUpTo(N) \cup Findings(L, flagged \ pending)
  BY <1>2 DEF History, Ending, Concluding
<1>5. NoStop(N) /\ flagged = FinalBreaches(rules, count)
  BY <1>1, <1>3, <1>4
<1> DEFINE event == MakeEvent(request.contract, rules[i], L)
<1>6. event \in Event /\ event.line = L /\ event.rule = rules[i].id
  <2>1. request.contract \in Contracts /\ Validate(request.contract) /\ i \in DOMAIN request.contract.rules
    BY <1>2, <1>3, RulesType DEF Inv, Admitted, Accepts, rules
  <2> QED
    BY <1>3, <2>1, MakeEventValid DEF MakeEvent, rules
<1>7. PublishEvent(event, "final")
  BY <1>1
<1> HIDE DEF event
<1>8. Findings(L, flagged) = Promise!FinalEvidence
  <2>1. L = IF N = 0 THEN 1 ELSE N
    BY <1>3 DEF FinalLine
  <2>2. flagged = FinalBreaches(rules, Cardinality(Parsed))
    BY <1>5 DEF History, CountExact
  <2> QED
    BY <2>1, <2>2, SameEngine, SameCardinality
       DEF Findings, Promise!FinalEvidence, Promise!rules, rules, Parsed
<1> HIDE DEF N, L
<1>9. UNCHANGED <<Elems(accepted), Elems(quarantined)>>
  BY <1>2 DEF Elems
<1>10. \/ /\ pc' = "final"
          /\ Pairs' = Promise!EvidenceUpTo(N) \cup Findings(L, flagged \ pending')
       \/ pc' = "done" /\ err' # "" /\ Pairs' = Pairs
  <2>1. evidence' = evidence => Pairs' = Pairs
    BY DEF Pairs, Elems
  <2>2. Findings(L, flagged \ pending') =
          Findings(L, flagged \ pending)
            \cup (IF "evidence" \in request.sinks THEN {<<L, rules[i].id>>} ELSE {})
    BY <1>1, <1>3, FindingsGrow
  <2>3. \/ /\ pc' = "final" /\ "evidence" \in request.sinks
           /\ Pairs' = Pairs \cup {<<L, rules[i].id>>}
        \/ pc' = "final" /\ "evidence" \notin request.sinks /\ Pairs' = Pairs
        \/ pc' = "done" /\ err' # "" /\ Pairs' = Pairs
    BY <1>3, <1>6, <1>7, <2>1, Publishes
  <2> QED
    BY <1>4, <2>2, <2>3
<1>11. Promise!Next
  <2>1. /\ Findings(L, flagged \ pending) \subseteq Findings(L, flagged \ pending')
        /\ Findings(L, flagged \ pending') \subseteq Findings(L, flagged)
    BY <1>1, <1>3, FindingsGrow
  <2>2. /\ Promise!EvidenceUpTo(N) \subseteq Pairs /\ Pairs \subseteq Pairs'
        /\ Pairs' \subseteq Promise!EvidenceUpTo(N) \cup Promise!FinalEvidence
    BY <1>4, <1>8, <1>10, <2>1
  <2>3. ~Promise!Stopped /\ Promise!Delivered
    <3>1. DOMAIN input = 1..N
      BY <1>3 DEF N
    <3> QED
      BY <1>4, <1>5, <3>1 DEF Promise!Stopped, Promise!Delivered, NoStop, Routed, N
  <2>4. Promise!Conclude
    BY <1>2, <1>9, <1>10, <2>2, <2>3 DEF Promise!Conclude, Pairs, N
  <2> QED
    BY <2>4 DEF Promise!Next
<1>12. SeenExact' /\ CountExact'
  BY <1>2, <1>10, CheckerUndisturbed DEF History
<1>13. Ending'
  <2>1. Routed(Len(input))' /\ (NoStop(Len(input))' <=> NoStop(N))
    BY <1>2, <1>4, <1>9, VerdictsStand DEF Routed, NoStop, N
  <2> QED
    BY <1>2, <1>4, <1>10, <2>1 DEF Ending
<1>14. Concluding'
  <2>1. flagged' = (IF summary'.halted THEN {} ELSE FinalBreaches(rules', count'))
    BY <1>2, <1>4 DEF checker, rules
  <2>2. Promise!EvidenceUpTo(Len(input))' = Promise!EvidenceUpTo(N)
    BY <1>2, VerdictsStand DEF N
  <2>3. Findings(FinalLine(Len(input)), flagged \ pending)' = Findings(L, flagged \ pending')
    BY <1>2 DEF Findings, FinalLine, rules, N, L
  <2> QED
    BY <1>10, <2>1, <2>2, <2>3 DEF Concluding
<1>15. (Waiting /\ Diverting /\ InProgress /\ Halting)'
  BY <1>2, <1>10 DEF Waiting, Diverting, InProgress, History, Halting
<1> QED
  BY <1>11, <1>12, <1>13, <1>14, <1>15 DEF Implemented, History

LEMMA NextImplements == Inv /\ History /\ [Next]_vars => Implemented
<1> SUFFICES ASSUME Inv, History, [Next]_vars PROVE Implemented
  OBVIOUS
<1>1. ASSUME NEW line \in Line \cup {Fragment}, ScanRecord(line) \/ ScanMalformed(line)
      PROVE  Implemented
  <2>1. PICK N \in Nat : N = Len(input)
    BY DEF Inv, TypeOK, CheckerType
  <2> QED
    BY <1>1, <2>1, RecordStep, MalformedStep
<1> QED
  BY <1>1, FailStep, BeginStep, ScanEndStep, FinalizeStep, IdleStep, ReturnStep, DivertStep,
     ReportDivertedStep, ReportRecordStep, RouteStep, ReportFinalStep
     DEF Next, Run, Returned

\* Every behaviour of brokoli.Run, with every placement of a failing sink, a failing
\* reader and a cancellation, is one that the abstract gate allows.
THEOREM GateRefined == Spec => RefinesGate
<1>1. Init => Inv /\ History /\ Promise!Init
  BY InitInv, InitHistory
<1>2. Inv /\ History /\ [Next]_vars => Inv' /\ History' /\ [Promise!Next]_Promise!vars
  BY NextInv, NextImplements DEF Implemented
<1>3. Spec => Promise!Init /\ [][Promise!Next]_Promise!vars
  BY <1>1, <1>2, PTL DEF Spec
<1> QED
  BY <1>3 DEF RefinesGate, Promise!Spec

(***************************************************************************)
(* Evidence before records, and one line in flight                           *)
(***************************************************************************)
\* The verdicts on fewer lines ask for less.
LEMMA PrefixesGrow ==
  ASSUME NEW m \in Int, NEW n \in Int, m <= n
  PROVE  /\ \A sink, v : Promise!Sent(sink, v, m) \subseteq Promise!Sent(sink, v, n)
         /\ Promise!EvidenceUpTo(m) \subseteq Promise!EvidenceUpTo(n)
<1>1. 1..m \subseteq 1..n
  OBVIOUS
<1> QED
  BY <1>1 DEF Promise!Sent, Promise!EvidenceUpTo

\* While Run is under way, both follow from the invariant.
LEMMA UnderWay ==
  ASSUME Inv, History, pc # "done"
  PROVE  AtMostOneInFlight /\ EvidenceFirst
<1> DEFINE N == Len(input)
<1>1. N \in Nat /\ N - 1 \in Int /\ N - 1 <= N
  BY DEF Inv, TypeOK, CheckerType
<1>2. \/ Routed(N) /\ Promise!EvidenceUpTo(N) \subseteq Pairs
      \/ Routed(N) /\ Promise!EvidenceUpTo(N - 1) \subseteq Pairs /\ ~input[N].ok
      \/ Routed(N - 1) /\ Promise!EvidenceUpTo(N - 1) \subseteq Pairs
  <2>1. CASE pc \in {"start", "scan", "end", "final"}
    BY <2>1 DEF History, Waiting, Ending, Concluding
  <2>2. CASE pc \in {"divert", "diverted"}
    BY <2>2 DEF History, Diverting
  <2>3. CASE pc = "report"
    BY <2>3 DEF History, InProgress
  <2> QED
    BY <2>1, <2>2, <2>3 DEF Inv, TypeOK, ControlType
<1> HIDE DEF N
<1>3. /\ \A sink, v : Promise!Sent(sink, v, N - 1) \subseteq Promise!Sent(sink, v, N)
      /\ Promise!EvidenceUpTo(N - 1) \subseteq Promise!EvidenceUpTo(N)
  BY <1>1, PrefixesGrow
<1>4. /\ Promise!Sent("accepted", "accept", N - 1) \subseteq Elems(accepted)
      /\ Promise!Sent("quarantined", "quarantine", N - 1) \subseteq Elems(quarantined)
      /\ Promise!EvidenceUpTo(N - 1) \subseteq Pairs
  BY <1>2, <1>3 DEF Routed
<1>5. AtMostOneInFlight
  BY <1>4 DEF AtMostOneInFlight, Pairs, N
<1>6. ASSUME NEW n \in Elems(accepted) \cup Elems(quarantined), input[n].ok
      PROVE  Promise!EvidenceAt(n) \subseteq Pairs
  <2>1. \/ n \in 1..N /\ Promise!EvidenceUpTo(N) \subseteq Pairs
        \/ n \in 1..(N - 1) /\ Promise!EvidenceUpTo(N - 1) \subseteq Pairs
    <3>1. n \in 1..N /\ n # N => n \in 1..(N - 1)
      BY <1>1
    <3> QED
      BY <1>2, <1>6, <3>1 DEF Routed, Promise!Sent
  <2> QED
    BY <2>1 DEF Promise!EvidenceUpTo
<1> QED
  BY <1>5, <1>6 DEF EvidenceFirst, Pairs

\* Wherever Run stops, nothing leaves it in that step.
LEMMA StopStep ==
  ASSUME pc # "done", pc' = "done", [Next]_vars
  PROVE  /\ UNCHANGED <<request, outputs>>
         /\ input' = input \/ \E line \in Line \cup {Fragment} : ScanMalformed(line)
<1>1. CASE Reject \/ Begin \/ ScanCancelled \/ ScanEnd \/ ReadFailed \/ Finalize \/ ReturnSummary
             \/ Cancel \/ UNCHANGED vars
  BY <1>1 DEF Reject, Begin, ScanCancelled, ScanEnd, ReadFailed, Finalize, ReturnSummary,
     Cancel, vars, outputs
<1>2. CASE \E line \in Line : ScanRecord(line)
  BY <1>2 DEF ScanRecord, GoTo
<1>3. CASE \E line \in Line \cup {Fragment} : ScanMalformed(line)
  BY <1>3 DEF ScanMalformed
<1>4. CASE ReportDiverted \/ Report \/ ReportFinal
  BY <1>4 DEF ReportDiverted, Report, ReportFinal, PublishEvent, Send, GoTo, Return, outputs
<1>5. CASE Divert
  BY <1>5 DEF Divert, Send, GoTo, Return, outputs
<1>6. CASE Route
  <2>1. AfterRoute # "done"
    BY DEF AfterRoute
  <2> QED
    BY <1>6, <2>1 DEF Route, Send, GoTo, Return, outputs
<1> QED
  BY <1>1, <1>2, <1>3, <1>4, <1>5, <1>6 DEF Next, Run, Returned

Left == pc = "done" => AtMostOneInFlight /\ EvidenceFirst

LEMMA NextLeft == Inv /\ History /\ Left /\ [Next]_vars => Left'
<1> SUFFICES ASSUME Inv, History, Left, [Next]_vars, pc' = "done"
             PROVE  AtMostOneInFlight' /\ EvidenceFirst'
  BY DEF Left
<1>1. AtMostOneInFlight /\ EvidenceFirst
  BY UnderWay DEF Left
<1>2. CASE UNCHANGED <<request, input, outputs>>
  <2>1. UNCHANGED <<Elems(accepted), Elems(quarantined), Pairs>>
    BY <1>2 DEF Elems, Pairs, outputs
  <2>2. AtMostOneInFlight'
    BY <1>1, <1>2, <2>1, VerdictsStand DEF AtMostOneInFlight, Pairs
  <2>3. EvidenceFirst'
    BY <1>1, <1>2, <2>1, VerdictsStand DEF EvidenceFirst, Pairs
  <2> QED
    BY <2>2, <2>3
<1>3. ASSUME NEW line \in Line \cup {Fragment}, ScanMalformed(line), UNCHANGED <<request, outputs>>
      PROVE  AtMostOneInFlight' /\ EvidenceFirst'
  <2>1. PICK N \in Nat : N = Len(input)
    BY DEF Inv, TypeOK, CheckerType
  <2>2. /\ Len(input') - 1 = N /\ Routed(N)' /\ Pairs' = Promise!EvidenceUpTo(N)'
        /\ input' = Append(input, line) /\ request' = request
    <3>1. /\ Len(input') = N + 1 /\ Routed(N)' /\ Pairs' = Promise!EvidenceUpTo(N)'
          /\ input' = Append(input, line) /\ request' = request
      BY <1>3, <2>1, LineTaken
    <3> QED
      BY <2>1, <3>1
  <2>3. AtMostOneInFlight'
    BY <2>2 DEF AtMostOneInFlight, Routed, Pairs
  <2>4. EvidenceFirst'
    BY <2>2 DEF EvidenceFirst, Routed, Pairs, Promise!Sent, Promise!EvidenceUpTo
  <2> QED
    BY <2>3, <2>4
<1>4. pc = "done" => UNCHANGED <<request, input, outputs>>
  BY DEF Next, Run, Returned, vars, outputs, Reject, Begin, ScanCancelled, ScanEnd, ScanRecord,
     ScanMalformed, Scanned, Divert, ReportDiverted, Report, Route, ReadFailed, Finalize,
     ReportFinal, ReturnSummary, Cancel
<1> QED
  BY <1>2, <1>3, <1>4, StopStep

LEMMA InvariantHolds == Spec => [](Inv /\ History /\ Left)
<1>1. Init => Inv /\ History /\ Left
  BY InitInv, InitHistory DEF Init, Left
<1>2. Inv /\ History /\ Left /\ [Next]_vars => (Inv /\ History /\ Left)'
  BY NextInv, NextImplements, NextLeft DEF Implemented
<1> QED
  BY <1>1, <1>2, PTL DEF Spec

\* For every contract and every input: no sink holds a record before the evidence
\* sink holds its findings, also after a failure.
THEOREM EvidenceLeadsRecords == Spec => []EvidenceFirst
<1>1. Inv /\ History /\ Left => EvidenceFirst
  BY UnderWay DEF Left
<1> QED
  BY <1>1, InvariantHolds, PTL

\* Wherever a run stops, whatever stops it, only the last line read may be missing
\* from what the sinks hold.
THEOREM OneLineInFlight == Spec => []AtMostOneInFlight
<1>1. Inv /\ History /\ Left => AtMostOneInFlight
  BY UnderWay DEF Left
<1> QED
  BY <1>1, InvariantHolds, PTL
=============================================================================
