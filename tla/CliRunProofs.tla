----------------------------- MODULE CliRunProofs -----------------------------
(***************************************************************************)
(* Proofs of CliRunProperties.                                             *)
(*                                                                         *)
(* The steps of the specification are sorted into few kinds, each of which   *)
(* says what an arbitrary step of it moves (Quits, Continues, StopsReading,   *)
(* Takes, and the writes, all of which come to Wrote). The invariant Inv is   *)
(* then kept kind by kind, and with it what is said of the streams; Ordered    *)
(* is the strengthening that keeps the evidence sorted. The refinement of     *)
(* Gate and the exit codes are in CliRunRefinement.                          *)
(***************************************************************************)
EXTENDS CliRunProperties, EngineLemmas

(***************************************************************************)
(* The invariant: what TypeOK leaves open                                   *)
(***************************************************************************)
\* From OpenInput on the contract is a normalized one that Validate admits.
Loaded ==
  /\ pc = "start" => contract = invocation.contract
  /\ pc \notin {"start", "done"} =>
       Validate(invocation.contract) /\ contract = Normalize(invocation.contract)

\* Nothing is read before the outputs are made, and lines are numbered from 1.
Numbered ==
  /\ pc \in {"start", "create"} => input = <<>> /\ flagged = {}
  /\ pc = "start" => created = {}
  /\ pc \in {"divert", "report"} => Len(input) >= 1

\* A run in progress has no exit code yet, and no write of it has failed.
Unfinished ==
  /\ pc # "done" => exit = Cleared /\ torn = {}
  /\ exit = InvalidContract => input = <<>> /\ created = {}

\* A stream that is not wired stays empty; both event streams hold the same.
Abreast ==
  /\ DOMAIN out = Streams
  /\ \A s \in Streams \ Wired : out[s] = <<>>
  /\ pc # "done" /\ {"results", "stdout"} \subseteq Wired => out["results"] = out["stdout"]

Inv == TypeOK /\ Loaded /\ Numbered /\ Unfinished /\ Abreast

\* The contract of a run that has passed OpenInput.
LEMMA ContractInUse ==
  ASSUME Inv, pc \notin {"start", "done"}
  PROVE  /\ contract \in Contracts /\ Validate(contract) /\ rules \in Seq(Rules)
         /\ \A i \in DOMAIN rules : rules[i] \in Rules /\ RuleValid(rules[i])
         /\ IdsUnique(rules) /\ Ascending(rules)
         /\ contract = Normalize(invocation.contract)
<1>1. invocation.contract \in Contracts
  BY DEF Inv, TypeOK, ControlType, InvocationType
<1>2. contract = Normalize(invocation.contract) /\ Validate(invocation.contract)
  BY DEF Inv, Loaded
<1>3. contract \in Contracts /\ Validate(contract) /\ Ascending(rules)
  BY <1>1, <1>2, NormalizeKeepsValid DEF Ascending, rules
<1>4. rules \in Seq(Rules)
  BY <1>3 DEF Contracts, rules
<1>5. \A i \in DOMAIN rules : rules[i] \in Rules
  BY <1>4
<1>6. IdsUnique(rules) /\ \A i \in DOMAIN rules : RuleValid(rules[i])
  BY <1>3 DEF Validate, rules
<1> QED
  BY <1>2, <1>3, <1>4, <1>5, <1>6

LEMMA FragmentType == Line \cup {Fragment} \subseteq LineType
<1>1. Fragment \in LineType
  BY DEF Fragment, LineType
<1> QED
  BY <1>1, LineAssumption

\* Once run has returned, nothing moves.
LEMMA DoneStays ==
  ASSUME pc = "done", [Next]_vars
  PROVE  UNCHANGED vars
BY DEF Next, Main, Answer, Returned, RejectArguments, OpenInput, CreateOutput, Begin, ScanBuffered,
   ScanEnd, StartRead, ReadClosed, Divert, Report, Route, ScanFailed, Finalize, ReportFinal,
   ReturnStatus, ReadLine, ReadEnd, ReadError, Interrupt, CloseInput

(***************************************************************************)
(* Steps that write nothing and read no line                                *)
(***************************************************************************)
\* The loop is left without a line: at the end, at an error, at an interrupt.
StopsReading ==
  /\ pc \in {"scan", "read"} /\ GoTo("end")
  /\ UNCHANGED <<world, contract, input, checker, flagged, pending, counters, streams>>
  /\ broken' \in BOOLEAN /\ interrupted' \in BOOLEAN

\* Run fails before it has an exit status of its own.
Quits ==
  /\ pc \in {"start", "create", "end"} /\ pc' = "done" /\ contract' = contract
  /\ exit' \in {InvalidContract, RuntimeFailure, Interrupted}
  /\ exit' = InvalidContract => input = <<>> /\ created = {}
  /\ UNCHANGED <<invocation, closed, broken, interrupted, input, checker, flagged, pending, counters, streams>>
  /\ signal' \in {signal, pc}

LEMMA FailureMoves ==
  ASSUME Inv, RejectArguments \/ OpenInput \/ ScanFailed \/ Interrupt \/ (\E f \in Files : CreateOutput(f)),
         pc' = "done"
  PROVE  Quits
<1>0. pc = "start" => input = <<>> /\ created = {}
  BY DEF Inv, Numbered
<1>1. CASE RejectArguments
  BY <1>0, <1>1 DEF RejectArguments, Quits, Exit, world, progress, streams, checker
<1>2. CASE OpenInput
  BY <1>0, <1>2 DEF OpenInput, Quits, Exit, GoTo, world, progress, streams, checker, RuntimeFailure,
     InvalidContract
<1>3. CASE ScanFailed
  BY <1>0, <1>3 DEF ScanFailed, Quits, Exit, world, progress, streams, checker, RuntimeFailure, InvalidContract
<1>4. CASE Interrupt
  <2>1. pc \in {"start", "create"} /\ exit' = Interrupted
    BY <1>4 DEF Interrupt, Exit, GoTo
  <2>2. exit' # InvalidContract
    BY <2>1 DEF Interrupted, InvalidContract
  <2>3. /\ UNCHANGED <<invocation, contract, closed, broken, interrupted, input, checker, flagged>>
        /\ UNCHANGED <<pending, counters, streams>> /\ signal' = pc
    BY <1>4 DEF Interrupt, progress, streams, checker
  <2> QED
    BY <1>0, <2>1, <2>2, <2>3 DEF Quits
<1>5. CASE \E f \in Files : CreateOutput(f)
  BY <1>0, <1>5 DEF CreateOutput, Quits, Exit, GoTo, world, progress, streams, checker, RuntimeFailure,
     InvalidContract
<1> QED
  BY <1>1, <1>2, <1>3, <1>4, <1>5

\* The steps that go on, apart from those of the loop's body.
Continues ==
  /\ UNCHANGED <<invocation, input, count, flagged, pending, interrupted, counters, out, torn, exit>>
  /\ signal' \in {signal, pc} /\ closed' \in BOOLEAN /\ UNCHANGED broken
  /\ \/ pc' = pc /\ UNCHANGED <<contract, seen>> /\ created' = created
     \/ /\ pc = "start" /\ pc' = "create" /\ created' = created
        /\ Validate(contract) /\ contract' = Normalize(contract)
     \/ /\ pc = "create" /\ pc' = "create" /\ UNCHANGED <<contract, seen>>
        /\ \E f \in invocation.outputs : created' = created \cup {f}
     \/ /\ pc = "create" /\ pc' = "scan" /\ UNCHANGED contract /\ created' = created
        /\ seen' = NoneSeen(rules)
     \/ /\ pc = "scan" /\ pc' = "read" /\ UNCHANGED <<contract, seen>> /\ created' = created

LEMMA ContinueMoves ==
  ASSUME Inv, \/ OpenInput \/ Interrupt \/ (\E f \in Files : CreateOutput(f))
              \/ Begin \/ StartRead \/ CloseInput \/ UNCHANGED vars,
         pc # "done" => pc' # "done"
  PROVE  Continues
<1>0. closed \in BOOLEAN
  BY DEF Inv, TypeOK, ControlType
<1>1. CASE OpenInput
  <2>1. pc = "start" /\ pc' = "create" /\ exit' = exit /\ contract' = Normalize(contract) /\ Validate(contract)
    BY <1>1 DEF OpenInput, GoTo, Exit, Admits, Decoded
  <2> QED
    BY <1>0, <1>1, <2>1 DEF OpenInput, Continues, world, progress, streams
<1>2. CASE Interrupt
  <2>1. pc' = pc /\ exit' = exit
    BY <1>2 DEF Interrupt, GoTo, Exit
  <2> QED
    BY <1>0, <1>2, <2>1 DEF Interrupt, Continues, progress, streams
<1>3. CASE \E f \in Files : CreateOutput(f)
  <2>1. PICK f \in invocation.outputs : created' = created \cup {f}
    BY <1>3 DEF CreateOutput, Exit
  <2> QED
    BY <1>0, <1>3, <2>1 DEF CreateOutput, Continues, GoTo, Exit, world, progress
<1>4. CASE Begin
  BY <1>0, <1>4 DEF Begin, Continues, GoTo, world, streams
<1>5. CASE StartRead
  BY <1>0, <1>5 DEF StartRead, Continues, GoTo, world, progress, streams
<1>6. CASE CloseInput
  BY <1>0, <1>6 DEF CloseInput, Continues, progress, streams
<1>7. CASE UNCHANGED vars
  BY <1>0, <1>7 DEF vars, Continues
<1> QED
  BY <1>1, <1>2, <1>3, <1>4, <1>5, <1>6, <1>7

(***************************************************************************)
(* Steps that read                                                          *)
(***************************************************************************)
\* The body of the loop takes a line.
Takes(line) ==
  /\ pc \in {"scan", "read"} /\ line \in Line \cup {Fragment} /\ input' = Append(input, line)
  /\ UNCHANGED <<world, contract, streams, interrupted>> /\ broken' \in BOOLEAN
  /\ \/ /\ line.ok
        /\ count' = count + 1
        /\ flagged' = Violated(rules, seen, line.rec)
        /\ pending' = flagged'
        /\ seen' = Remember(rules, seen, line.rec)
        /\ GoTo("report")
        /\ UNCHANGED counters
     \/ /\ ~line.ok /\ invocation.invalid = "quarantine"
        /\ counters' = CountRecord(counters, "quarantined")
        /\ GoTo("divert")
        /\ UNCHANGED <<seen, count, flagged, pending>>
     \/ /\ ~line.ok /\ invocation.invalid # "quarantine"
        /\ Exit(RuntimeFailure)
        /\ UNCHANGED <<seen, count, flagged, pending, counters>>

LEMMA BodyMoves ==
  ASSUME Inv, pc \in {"scan", "read"}, UNCHANGED <<world, contract, streams>>, broken' \in BOOLEAN,
         NEW line \in Line \cup {Fragment}, Body(line)
  PROVE  StopsReading \/ Takes(line)
<1>1. CASE signal # ""
  BY <1>1 DEF Body, StopsReading, checker
<1>2. CASE signal = ""
  <2>1. line.ok \in BOOLEAN
    BY FragmentType DEF LineType
  <2> QED
    BY <1>2, <2>1 DEF Body, Takes, checker
<1> QED
  BY <1>1, <1>2

LEMMA ReadMoves ==
  ASSUME Inv, ScanEnd \/ ReadEnd \/ ReadClosed \/ ReadError
                \/ (\E line \in Line : ScanBuffered(line) \/ ReadLine(line))
  PROVE  StopsReading \/ \E line \in Line \cup {Fragment} : Takes(line)
<1>0. broken \in BOOLEAN /\ interrupted \in BOOLEAN
  BY DEF Inv, TypeOK, ControlType
<1>1. CASE ScanEnd \/ ReadEnd
  BY <1>0, <1>1 DEF ScanEnd, ReadEnd, StopsReading, progress, checker
<1>2. CASE ReadClosed \/ ReadError
  <2>1. pc \in {"scan", "read"} /\ ReadFailure
    BY <1>2 DEF ReadClosed, ReadError
  <2>2. CASE Body(Fragment)
    BY <2>1, <2>2, BodyMoves DEF ReadFailure
  <2>3. CASE GoTo("end") /\ UNCHANGED <<input, checker, flagged, pending, interrupted, counters>>
    BY <1>0, <2>1, <2>3 DEF ReadFailure, StopsReading
  <2> QED
    BY <2>1, <2>2, <2>3 DEF ReadFailure
<1>3. CASE \E line \in Line : ScanBuffered(line) \/ ReadLine(line)
  <2>1. PICK line \in Line : ScanBuffered(line) \/ ReadLine(line)
    BY <1>3
  <2>2. /\ pc \in {"scan", "read"} /\ UNCHANGED <<world, contract, streams>> /\ broken' \in BOOLEAN
        /\ Body(line)
    BY <1>0, <2>1 DEF ScanBuffered, ReadLine
  <2> QED
    BY <2>2, BodyMoves
<1> QED
  BY <1>1, <1>2, <1>3

(***************************************************************************)
(* Steps that write                                                         *)
(***************************************************************************)
\* What a write comes to: the streams that got their item, in the order of the
\* code, and those of them whose last line is cut short.
Wrote(items, where, done, cut) ==
  /\ done \subseteq DOMAIN items /\ cut \subseteq done
  /\ out' = Written(items, done) /\ torn' = cut
  /\ \A s, t \in DOMAIN items : Before(s, t) /\ t \in done => s \in done
  /\ \/ done = DOMAIN items /\ cut = {} /\ pc' = where /\ exit' = exit
     \/ pc' = "done" /\ exit' \in {RuntimeFailure, Killed} /\ (cut = {} \/ \E f \in done : cut = {f})

LEMMA WriteOutcome ==
  ASSUME torn = {}, NEW items, NEW where, WriteAll(items, where)
  PROVE  \E done, cut : Wrote(items, where, done, cut)
<1>1. CASE out' = Written(items, DOMAIN items) /\ torn' = torn /\ GoTo(where)
  <2>1. Wrote(items, where, DOMAIN items, {})
    BY <1>1 DEF Wrote, GoTo
  <2> QED
    BY <2>1
<1>2. ASSUME NEW failed \in DOMAIN items, WriteFails(items, failed), Ends(failed)
      PROVE  \E done, cut : Wrote(items, where, done, cut)
  <2> DEFINE before == {s \in DOMAIN items : Before(s, failed)}
  <2>1. pc' = "done" /\ exit' \in {RuntimeFailure, Killed}
    BY <1>2 DEF Ends, Exit
  <2>2. \A s, t, u : Before(s, t) /\ Before(t, u) => Before(s, u)
    BY DEF Before
  <2>3. /\ \A s, t \in DOMAIN items : Before(s, t) /\ t \in before => s \in before
        /\ \A s, t \in DOMAIN items : Before(s, t) /\ t \in before \cup {failed} => s \in before \cup {failed}
    BY <2>2
  <2>4. CASE out' = Written(items, before) /\ torn' = torn
    <3>1. before \subseteq DOMAIN items
      OBVIOUS
    <3> HIDE DEF before
    <3>2. Wrote(items, where, before, {})
      BY <2>1, <2>3, <2>4, <3>1 DEF Wrote
    <3> QED
      BY <3>2
  <2>5. CASE out' = Written(items, before \cup {failed}) /\ torn' = torn \cup {failed}
    <3>1. before \cup {failed} \subseteq DOMAIN items
      OBVIOUS
    <3> HIDE DEF before
    <3>2. Wrote(items, where, before \cup {failed}, {failed})
      BY <2>1, <2>3, <2>5, <3>1 DEF Wrote
    <3> QED
      BY <3>2
  <2> QED
    BY <1>2, <2>4, <2>5 DEF WriteFails
<1> QED
  BY <1>1, <1>2 DEF WriteAll

\* What each stream holds after it, and the whole lines of it.
LEMMA StreamWritten ==
  ASSUME torn = {}, DOMAIN out = Streams, NEW items, NEW where, NEW done, NEW cut,
         Wrote(items, where, done, cut), NEW s \in Streams, NEW S, out[s] \in Seq(S),
         s \in DOMAIN items => items[s] \in S
  PROVE  /\ out'[s] = IF s \in done THEN Append(out[s], items[s]) ELSE out[s]
         /\ out'[s] \in Seq(S)
         /\ Intact(s) = out[s]
         /\ Intact(s)' = IF s \in done /\ s \notin cut THEN Append(out[s], items[s]) ELSE out[s]
<1>1. out'[s] = IF s \in done THEN Append(out[s], items[s]) ELSE out[s]
  BY DEF Wrote, Written
<1>2. s \in done => items[s] \in S
  BY DEF Wrote
<1>3. out'[s] \in Seq(S)
  BY <1>1, <1>2
<1>4. Intact(s) = out[s]
  BY DEF Intact
<1>5. CASE s \in cut
  <2>1. s \in done /\ out'[s] = Append(out[s], items[s])
    BY <1>1, <1>5 DEF Wrote
  <2>2. \A x : SubSeq(Append(out[s], x), 1, Len(Append(out[s], x)) - 1) = out[s]
    <3>1. ASSUME NEW x
          PROVE  SubSeq(Append(out[s], x), 1, Len(Append(out[s], x)) - 1) = out[s]
      <4>1. out[s] \in Seq(S \cup {x}) /\ x \in S \cup {x}
        OBVIOUS
      <4> QED
        BY <4>1
    <3> QED
      BY <3>1
  <2>3. Intact(s)' = SubSeq(out'[s], 1, Len(out'[s]) - 1)
    BY <1>5 DEF Intact, Wrote
  <2> QED
    BY <1>1, <1>3, <1>4, <1>5, <2>1, <2>2, <2>3
<1>6. CASE s \notin cut
  <2>1. Intact(s)' = out'[s]
    BY <1>6 DEF Intact, Wrote
  <2> QED
    BY <1>1, <1>3, <1>4, <1>6, <2>1
<1> QED
  BY <1>5, <1>6

EventItems(event) == [s \in {"results", "stdout"} \cap Wired |-> event]

DivertItems(event) ==
  [s \in {"quarantine", "results", "stdout"} \cap Wired |-> IF s = "quarantine" THEN Len(input) ELSE event]

RouteItems == [s \in Destination(Outcome(rules, flagged)) \cap Wired |-> Len(input)]

LEMMA EventWritten ==
  ASSUME NEW event, EventValid(event), NEW where, WriteEvent(event, where)
  PROVE  WriteAll(EventItems(event), where)
<1>1. CASE {"results", "stdout"} \cap Wired = {}
  BY <1>1 DEF WriteEvent, EventItems
<1>2. CASE {"results", "stdout"} \cap Wired # {}
  BY <1>2 DEF WriteEvent, EventItems
<1> QED
  BY <1>1, <1>2

\* Validation refuses none of run's own events, so that each of its four writing
\* steps comes to a write.
LEMMA DivertMoves ==
  ASSUME Inv, Divert
  PROVE  LET event == ParseEvent(contract, Len(input)) IN
         /\ pc = "divert" /\ UNCHANGED <<world, contract, progress, created>>
         /\ event \in Event /\ event.line = Len(input) /\ event.rule = InputParse
         /\ \E done, cut : Wrote(DivertItems(event), "scan", done, cut)
<1>1. /\ pc = "divert" /\ UNCHANGED <<world, contract, progress, created>>
      /\ WriteAll(DivertItems(ParseEvent(contract, Len(input))), "scan")
  BY DEF Divert, DivertItems
<1>2. contract \in Contracts /\ Validate(contract)
  BY <1>1, ContractInUse
<1>3. Len(input) \in Nat \ {0}
  <2>1. Len(input) \in Nat
    BY DEF Inv, TypeOK, CheckerType
  <2> QED
    BY <1>1, <2>1 DEF Inv, Numbered
<1>4. torn = {}
  BY <1>1 DEF Inv, Unfinished
<1>5. ParseEvent(contract, Len(input)) \in Event
  BY <1>2, <1>3, ParseEventValid
<1>6. \E done, cut : Wrote(DivertItems(ParseEvent(contract, Len(input))), "scan", done, cut)
  BY <1>1, <1>4, WriteOutcome
<1> QED
  BY <1>1, <1>5, <1>6 DEF ParseEvent

LEMMA ReportMoves ==
  ASSUME Inv, Report
  PROVE  /\ pc = "report" /\ UNCHANGED <<world, contract, input, broken, checker, flagged, interrupted, created>>
         /\ \E i \in pending :
              LET event == MakeEvent(contract, rules[i], Len(input)) IN
              /\ IsFirst(rules, i, pending) /\ i \in DOMAIN rules
              /\ counters' = CountWarning(counters, rules[i])
              /\ pending' = pending \ {i}
              /\ event \in Event /\ event.line = Len(input) /\ event.rule = rules[i].id
              /\ \E done, cut : Wrote(EventItems(event), "report", done, cut)
<1>1. /\ pc = "report"
      /\ UNCHANGED <<world, contract, input, broken, checker, flagged, interrupted, created>>
  BY DEF Report
<1>2. PICK i \in pending :
        /\ IsFirst(rules, i, pending)
        /\ counters' = CountWarning(counters, rules[i])
        /\ pending' = pending \ {i}
        /\ WriteEvent(MakeEvent(contract, rules[i], Len(input)), "report")
  BY DEF Report
<1>3. contract \in Contracts /\ Validate(contract)
  BY <1>1, ContractInUse
<1>4. Len(input) \in Nat \ {0}
  <2>1. Len(input) \in Nat
    BY DEF Inv, TypeOK, CheckerType
  <2> QED
    BY <1>1, <2>1 DEF Inv, Numbered
<1>5. torn = {}
  BY <1>1 DEF Inv, Unfinished
<1>6. i \in DOMAIN rules
  BY DEF Inv, TypeOK, CheckerType
<1> DEFINE event == MakeEvent(contract, rules[i], Len(input))
<1>7. event \in Event /\ EventValid(event)
  BY <1>3, <1>4, <1>6, MakeEventValid DEF rules
<1>8. event.line = Len(input) /\ event.rule = rules[i].id /\ WriteEvent(event, "report")
  BY <1>2 DEF MakeEvent
<1> HIDE DEF event
<1>9. \E done, cut : Wrote(EventItems(event), "report", done, cut)
  BY <1>5, <1>7, <1>8, EventWritten, WriteOutcome
<1> QED
  BY <1>1, <1>2, <1>6, <1>7, <1>8, <1>9 DEF event

LEMMA ReportFinalMoves ==
  ASSUME Inv, ReportFinal
  PROVE  /\ pc = "final" /\ UNCHANGED <<world, contract, input, broken, checker, flagged, interrupted, created>>
         /\ \E i \in pending :
              LET event == MakeEvent(contract, rules[i], FinalLine(Len(input))) IN
              /\ IsFirst(rules, i, pending) /\ i \in DOMAIN rules
              /\ counters' = CountFinal(counters, rules[i])
              /\ pending' = pending \ {i}
              /\ event \in Event /\ event.line = FinalLine(Len(input)) /\ event.rule = rules[i].id
              /\ \E done, cut : Wrote(EventItems(event), "final", done, cut)
<1>1. /\ pc = "final"
      /\ UNCHANGED <<world, contract, input, broken, checker, flagged, interrupted, created>>
  BY DEF ReportFinal
<1>2. PICK i \in pending :
        /\ IsFirst(rules, i, pending)
        /\ counters' = CountFinal(counters, rules[i])
        /\ pending' = pending \ {i}
        /\ WriteEvent(MakeEvent(contract, rules[i], FinalLine(Len(input))), "final")
  BY DEF ReportFinal
<1>3. contract \in Contracts /\ Validate(contract)
  BY <1>1, ContractInUse
<1>4. FinalLine(Len(input)) \in Nat \ {0}
  <2>1. Len(input) \in Nat
    BY DEF Inv, TypeOK, CheckerType
  <2> QED
    BY <2>1 DEF FinalLine
<1>5. torn = {}
  BY <1>1 DEF Inv, Unfinished
<1>6. i \in DOMAIN rules
  BY DEF Inv, TypeOK, CheckerType
<1> DEFINE event == MakeEvent(contract, rules[i], FinalLine(Len(input)))
<1>7. event \in Event /\ EventValid(event)
  BY <1>3, <1>4, <1>6, MakeEventValid DEF rules
<1>8. event.line = FinalLine(Len(input)) /\ event.rule = rules[i].id /\ WriteEvent(event, "final")
  BY <1>2 DEF MakeEvent
<1> HIDE DEF event
<1>9. \E done, cut : Wrote(EventItems(event), "final", done, cut)
  BY <1>5, <1>7, <1>8, EventWritten, WriteOutcome
<1> QED
  BY <1>1, <1>2, <1>6, <1>7, <1>8, <1>9 DEF event

LEMMA RouteMoves ==
  ASSUME Inv, Route
  PROVE  /\ pc = "report" /\ pending = {}
         /\ UNCHANGED <<world, contract, input, broken, checker, flagged, pending, interrupted, created>>
         /\ AfterRoute \in {"scan", "end"}
         /\ counters' = Counting(counters, Outcome(rules, flagged), ShouldHalt(rules, flagged) /\ pc' # "done")
         /\ Outcome(rules, flagged) \in {"cleared", "quarantined", "breached"}
         /\ ShouldHalt(rules, flagged) \in BOOLEAN
         /\ \E done, cut : Wrote(RouteItems, AfterRoute, done, cut)
<1>1. /\ pc = "report" /\ pending = {}
      /\ UNCHANGED <<world, contract, input, broken, checker, flagged, pending, interrupted, created>>
      /\ WriteAll(RouteItems, AfterRoute)
  BY DEF Route, RouteItems
<1>2. counters' = Counting(counters, Outcome(rules, flagged), ShouldHalt(rules, flagged) /\ pc' # "done")
  BY DEF Route, Counting
<1>3. torn = {}
  BY <1>1 DEF Inv, Unfinished
<1>4. \E done, cut : Wrote(RouteItems, AfterRoute, done, cut)
  BY <1>1, <1>3, WriteOutcome
<1>5. AfterRoute \in {"scan", "end"} /\ Outcome(rules, flagged) \in {"cleared", "quarantined", "breached"}
  BY DEF AfterRoute, Outcome
<1>6. ShouldHalt(rules, flagged) \in BOOLEAN
  BY DEF ShouldHalt
<1> QED
  BY <1>1, <1>2, <1>4, <1>5, <1>6

(***************************************************************************)
(* What a write keeps                                                       *)
(***************************************************************************)
Item(s) == IF s \in {"valid", "quarantine"} THEN Nat ELSE Event

\* The items of one step: for streams that are wired, of their kind, and the same
\* event for both event streams.
Writable(items) ==
  /\ DOMAIN items \subseteq Wired
  /\ \A s \in DOMAIN items : items[s] \in Item(s)
  /\ \A s, t \in {"results", "stdout"} \cap Wired :
       /\ s \in DOMAIN items <=> t \in DOMAIN items
       /\ s \in DOMAIN items => items[s] = items[t]

LEMMA StreamTypes ==
  ASSUME Inv
  PROVE  /\ \A s \in Streams : out[s] \in Seq(Item(s))
         /\ Wired \subseteq Streams /\ DOMAIN out = Streams
<1>1. \A s \in Streams : out[s] \in Seq(Item(s))
  BY DEF Inv, TypeOK, StreamsType, Streams, Files, Item
<1>2. Wired \subseteq Streams
  BY DEF Inv, TypeOK, ControlType, InvocationType, Wired, Streams
<1> QED
  BY <1>1, <1>2 DEF Inv, Abreast

LEMMA WriteKeeps ==
  ASSUME Inv, pc # "done", NEW items, Writable(items), NEW where, where # "done",
         NEW done, NEW cut, Wrote(items, where, done, cut), UNCHANGED <<invocation, created>>
  PROVE  /\ StreamsType' /\ Unfinished' /\ Abreast'
         /\ pc' \in {where, "done"} /\ exit' \in {Cleared, RuntimeFailure, Killed}
         /\ StreamsAgree' /\ TornOutputsFail'
<1>1. exit = Cleared /\ torn = {} /\ DOMAIN out = Streams
  BY DEF Inv, Unfinished, Abreast
<1>2. /\ pc' \in {where, "done"} /\ exit' \in {Cleared, RuntimeFailure, Killed}
      /\ exit' # InvalidContract
      /\ pc' # "done" => exit' = Cleared /\ torn' = {} /\ done = DOMAIN items
      /\ torn' # {} => pc' = "done" /\ exit' \in {RuntimeFailure, Killed}
      /\ done \subseteq DOMAIN items /\ torn' = cut /\ cut \subseteq done
      /\ done # DOMAIN items => pc' = "done" /\ exit' \in {RuntimeFailure, Killed}
  BY <1>1 DEF Wrote, Cleared, RuntimeFailure, Killed, InvalidContract
<1>3. DOMAIN items \subseteq Streams /\ Wired' = Wired
  BY StreamTypes DEF Writable, Wired
<1>4. \A s \in Streams : /\ out'[s] = IF s \in done THEN Append(out[s], items[s]) ELSE out[s]
                         /\ out'[s] \in Seq(Item(s))
  <2>1. ASSUME NEW s \in Streams
        PROVE  /\ out'[s] = IF s \in done THEN Append(out[s], items[s]) ELSE out[s]
               /\ out'[s] \in Seq(Item(s))
    <3>1. out[s] \in Seq(Item(s)) /\ (s \in DOMAIN items => items[s] \in Item(s))
      BY StreamTypes DEF Writable
    <3> QED
      BY <1>1, <3>1, StreamWritten
  <2> QED
    BY <2>1
<1>5. StreamsType'
  <2>1. {"valid", "quarantine", "results", "stdout"} = Streams
    BY DEF Streams, Files
  <2>2. created' \subseteq invocation'.outputs /\ torn' \subseteq Streams
    BY <1>2, <1>3 DEF Inv, TypeOK, StreamsType
  <2> QED
    BY <1>4, <2>1, <2>2 DEF StreamsType, Item
<1>6. Unfinished'
  BY <1>2 DEF Unfinished
<1>7. ASSUME {"results", "stdout"} \subseteq Wired
      PROVE  /\ out["results"] = out["stdout"]
             /\ \/ "results" \notin DOMAIN items /\ "stdout" \notin DOMAIN items
                \/ /\ "results" \in DOMAIN items /\ "stdout" \in DOMAIN items
                   /\ items["results"] = items["stdout"]
             /\ "stdout" \in done => "results" \in done
  <2>1. out["results"] = out["stdout"]
    BY <1>7 DEF Inv, Abreast
  <2>2. \/ "results" \notin DOMAIN items /\ "stdout" \notin DOMAIN items
        \/ /\ "results" \in DOMAIN items /\ "stdout" \in DOMAIN items
           /\ items["results"] = items["stdout"]
    BY <1>7 DEF Writable
  <2>3. "stdout" \in done => "results" \in done
    BY <1>2, <2>2 DEF Wrote, Before
  <2> QED
    BY <2>1, <2>2, <2>3
<1>8. "results" \in Streams /\ "stdout" \in Streams
  BY DEF Streams, Files
<1>9. Abreast'
  <2>1. DOMAIN out' = Streams
    BY DEF Wrote, Written
  <2>2. \A s \in Streams \ Wired : out'[s] = <<>>
    BY <1>2, <1>4 DEF Inv, Abreast, Writable
  <2>3. pc' # "done" /\ {"results", "stdout"} \subseteq Wired => out'["results"] = out'["stdout"]
    BY <1>2, <1>4, <1>7, <1>8
  <2> QED
    BY <1>3, <2>1, <2>2, <2>3 DEF Abreast
<1>10. StreamsAgree'
  <2> SUFFICES ASSUME {"results", "stdout"} \subseteq Wired
               PROVE  LET r == out'["results"]
                          s == out'["stdout"]
                      IN  /\ Len(s) <= Len(r) /\ s = SubSeq(r, 1, Len(s))
                          /\ \/ Len(r) = Len(s)
                             \/ pc' = "done" /\ exit' \in {RuntimeFailure, Killed} /\ Len(r) = Len(s) + 1
    BY <1>3 DEF StreamsAgree
  <2>1. out["results"] = out["stdout"] /\ out["stdout"] \in Seq(Event) /\ out'["stdout"] \in Seq(Event)
    BY <1>4, <1>7, <1>8, StreamTypes DEF Item
  <2>2. CASE out'["results"] = out'["stdout"]
    BY <2>1, <2>2
  <2>3. CASE out'["results"] # out'["stdout"]
    <3>1. "results" \in done /\ "stdout" \notin done /\ "results" \in DOMAIN items /\ "stdout" \in DOMAIN items
      BY <1>2, <1>4, <1>7, <1>8, <2>3
    <3>2. out'["results"] = Append(out["stdout"], items["results"]) /\ out'["stdout"] = out["stdout"]
      BY <1>4, <1>7, <1>8, <3>1
    <3>3. pc' = "done" /\ exit' \in {RuntimeFailure, Killed}
      BY <1>2, <3>1
    <3>4. items["results"] \in Event
      BY <3>1 DEF Writable, Item
    <3> QED
      BY <2>1, <3>2, <3>3, <3>4
  <2> QED
    BY <2>2, <2>3
<1>11. TornOutputsFail'
  <2> SUFFICES ASSUME cut # {}
               PROVE  /\ pc' = "done" /\ exit' \in {RuntimeFailure, Killed}
                      /\ \E s \in Streams : cut = {s} /\ out'[s] # <<>>
    BY <1>2 DEF TornOutputsFail
  <2>1. PICK s \in done : cut = {s}
    BY DEF Wrote
  <2>2. s \in Streams /\ out'[s] = Append(out[s], items[s]) /\ out[s] \in Seq(Item(s)) /\ items[s] \in Item(s)
    BY <1>2, <1>3, <1>4, StreamTypes DEF Writable
  <2>3. out'[s] # <<>>
    BY <2>2
  <2> QED
    BY <1>2, <2>1, <2>2, <2>3
<1> QED
  BY <1>2, <1>5, <1>6, <1>9, <1>10, <1>11

\* The three kinds of items.
LEMMA ItemsWritable ==
  ASSUME Inv, Len(input) \in Nat, NEW event \in Event
  PROVE  Writable(EventItems(event)) /\ Writable(DivertItems(event)) /\ Writable(RouteItems)
<1>1. Writable(EventItems(event))
  BY DEF Writable, EventItems, Item
<1>2. Writable(DivertItems(event))
  BY DEF Writable, DivertItems, Item
<1>3. Destination(Outcome(rules, flagged)) \subseteq {"valid", "quarantine"}
  BY DEF Destination
<1>4. Writable(RouteItems)
  BY <1>3 DEF Writable, RouteItems, Item
<1> QED
  BY <1>1, <1>2, <1>4

(***************************************************************************)
(* Type correctness, and the streams                                        *)
(***************************************************************************)
LEMMA InitInv == Init => Inv /\ StreamsAgree /\ TornOutputsFail
<1> SUFFICES ASSUME Init PROVE Inv /\ StreamsAgree /\ TornOutputsFail
  OBVIOUS
<1>0. \A S : <<>> \in Seq(S)
  OBVIOUS
<1>1. ControlType
  <2>1. invocation \in InvocationType /\ invocation.contract \in Contracts
    BY InvocationsAssumption DEF Init, InvocationType
  <2> QED
    BY <2>1 DEF Init, ControlType
<1>2. CheckerType
  BY <1>0 DEF Init, CheckerType
<1>3. CountersType
  BY DEF Init, CountersType, ZeroSummary
<1>4. DOMAIN out = Streams /\ \A s \in Streams : out[s] = <<>>
  BY DEF Init
<1>5. StreamsType
  <2>1. {"valid", "quarantine", "results", "stdout"} = Streams
    BY DEF Streams, Files
  <2> QED
    BY <1>0, <1>4, <2>1 DEF Init, StreamsType
<1>6. Loaded /\ Numbered /\ Unfinished
  BY DEF Init, Loaded, Numbered, Unfinished, Cleared, InvalidContract
<1>7. "results" \in Streams /\ "stdout" \in Streams
  BY DEF Streams, Files
<1>8. Abreast
  BY <1>4, <1>7 DEF Abreast
<1>9. StreamsAgree
  <2>1. out["results"] = <<>> /\ out["stdout"] = <<>>
    BY <1>4, <1>7
  <2> QED
    BY <2>1 DEF StreamsAgree
<1>10. TornOutputsFail
  BY DEF Init, TornOutputsFail
<1> QED
  BY <1>1, <1>2, <1>3, <1>5, <1>6, <1>8, <1>9, <1>10 DEF Inv, TypeOK

\* A step that writes nothing leaves the two event streams alike.
LEMMA StreamsStand ==
  ASSUME Inv, pc # "done", UNCHANGED <<invocation, out, torn>>
  PROVE  /\ StreamsAgree' /\ TornOutputsFail' /\ Abreast'
         /\ (created' \subseteq invocation.outputs => StreamsType')
         /\ torn' = {}
<1>1. torn' = {} /\ Wired' = Wired
  BY DEF Inv, Unfinished, Wired
<1>2. Abreast'
  BY <1>1 DEF Inv, Abreast
<1>3. TornOutputsFail'
  BY <1>1 DEF TornOutputsFail
<1>4. StreamsAgree'
  <2>1. {"results", "stdout"} \subseteq Wired => out["results"] = out["stdout"]
    BY DEF Inv, Abreast
  <2>2. out["results"] \in Seq(Event)
    BY DEF Inv, TypeOK, StreamsType
  <2> QED
    BY <1>1, <2>1, <2>2 DEF StreamsAgree
<1>5. created' \subseteq invocation.outputs => StreamsType'
  BY DEF Inv, TypeOK, StreamsType
<1> QED
  BY <1>1, <1>2, <1>3, <1>4, <1>5

Kept == Inv' /\ StreamsAgree' /\ TornOutputsFail'

LEMMA QuitStep == ASSUME Inv, Quits PROVE Kept
<1>1. /\ pc # "done" /\ pc' = "done" /\ contract' = contract
      /\ exit' \in {InvalidContract, RuntimeFailure, Interrupted}
      /\ exit' = InvalidContract => input = <<>> /\ created = {}
      /\ UNCHANGED <<invocation, closed, broken, interrupted, input, seen, count, flagged, pending,
                     counters, created, out, torn>>
      /\ signal' \in {signal, pc}
  BY DEF Quits, checker, streams
<1>2. /\ StreamsAgree' /\ TornOutputsFail' /\ Abreast' /\ StreamsType'
  BY <1>1, StreamsStand DEF Inv, TypeOK, StreamsType
<1>3. ControlType'
  <2>1. invocation \in InvocationType /\ contract \in Contracts
    BY DEF Inv, TypeOK, ControlType
  <2>2. closed \in BOOLEAN /\ broken \in BOOLEAN /\ interrupted \in BOOLEAN
    BY DEF Inv, TypeOK, ControlType
  <2>3. pc' \in {"start", "create", "scan", "read", "divert", "report", "end", "final", "done"}
    BY <1>1
  <2>4. signal' \in {"", "start", "create", "scan", "read", "divert", "report", "end", "final"}
    BY <1>1 DEF Inv, TypeOK, ControlType
  <2> QED
    BY <1>1, <2>1, <2>2, <2>3, <2>4 DEF ControlType
<1>4. CheckerType'
  <2>1. rules' = rules
    BY <1>1 DEF rules
  <2> QED
    BY <1>1, <2>1 DEF Inv, TypeOK, CheckerType
<1>5. CountersType'
  BY <1>1 DEF Inv, TypeOK, CountersType
<1>6. Loaded' /\ Numbered' /\ Unfinished'
  BY <1>1 DEF Loaded, Numbered, Unfinished
<1> QED
  BY <1>2, <1>3, <1>4, <1>5, <1>6 DEF Kept, Inv, TypeOK

LEMMA ContinueStep == ASSUME Inv, pc # "done", Continues PROVE Kept
<1>1. /\ UNCHANGED <<invocation, input, count, flagged, pending, interrupted, counters, out, torn, exit, broken>>
      /\ signal' \in {signal, pc} /\ closed' \in BOOLEAN
  BY DEF Continues
<1>2. pc' # "done" /\ pc' \in {pc, "create", "scan", "read"}
  BY DEF Continues
<1>3. created' \subseteq invocation.outputs
  BY DEF Continues, Inv, TypeOK, StreamsType
<1>4. StreamsAgree' /\ TornOutputsFail' /\ Abreast' /\ StreamsType' /\ torn' = {}
  BY <1>1, <1>3, StreamsStand
<1>5. \/ contract' = contract
      \/ /\ pc = "start" /\ pc' = "create" /\ contract = invocation.contract
         /\ Validate(invocation.contract) /\ contract' = Normalize(invocation.contract)
  BY DEF Continues, Inv, Loaded
<1>6. contract' \in Contracts
  BY <1>5, NormalizeKeepsValid DEF Inv, TypeOK, ControlType
<1>7. ControlType'
  <2>1. invocation \in InvocationType /\ exit = Cleared
    BY DEF Inv, TypeOK, ControlType, Unfinished
  <2>2. broken \in BOOLEAN /\ interrupted \in BOOLEAN
    BY DEF Inv, TypeOK, ControlType
  <2>3. pc' \in {"start", "create", "scan", "read", "divert", "report", "end", "final", "done"}
    BY <1>2 DEF Inv, TypeOK, ControlType
  <2>4. signal' \in {"", "start", "create", "scan", "read", "divert", "report", "end", "final"}
    BY <1>1 DEF Inv, TypeOK, ControlType
  <2> QED
    BY <1>1, <1>6, <2>1, <2>2, <2>3, <2>4 DEF ControlType
<1>8. CheckerType'
  <2>1. contract' = contract \/ flagged = {}
    BY <1>5 DEF Inv, Numbered
  <2> QED
    BY <1>1, <2>1 DEF Inv, TypeOK, CheckerType, rules
<1>9. CountersType'
  BY <1>1 DEF Inv, TypeOK, CountersType
<1>10. Loaded'
  <2>1. pc' = "start" => pc = "start" /\ contract' = contract
    BY DEF Continues
  <2>2. pc # "start" => contract' = contract
    BY <1>5
  <2>3. pc = "start" /\ pc' # "start" =>
          Validate(invocation.contract) /\ contract' = Normalize(invocation.contract)
    <3>1. pc = "start" /\ pc' # "start" => pc' = "create"
      BY DEF Continues
    <3>2. pc = "start" /\ pc' # "start" => Validate(contract) /\ contract' = Normalize(contract)
      BY DEF Continues
    <3> QED
      BY <3>2 DEF Inv, Loaded
  <2> QED
    BY <1>1, <2>1, <2>2, <2>3 DEF Inv, Loaded
<1>11. Numbered'
  <2>1. /\ pc' = "start" => pc = "start" /\ created' = created
        /\ pc' = "create" => pc \in {"start", "create"}
        /\ pc' \in {"divert", "report"} => pc' = pc
    BY DEF Continues
  <2> QED
    BY <1>1, <2>1 DEF Inv, Numbered
<1>12. Unfinished'
  BY <1>1, <1>2, <1>4 DEF Inv, Unfinished, Cleared, InvalidContract
<1> QED
  BY <1>4, <1>7, <1>8, <1>9, <1>10, <1>11, <1>12 DEF Kept, Inv, TypeOK

\* Steps that go on in the loop, or past it.
LEMMA LoopStep ==
  ASSUME Inv, pc \notin {"start", "create", "done"}, pc' \notin {"start", "create", "done"}, exit' = exit,
         pc' \in {"scan", "read", "divert", "report", "end", "final"},
         UNCHANGED <<world, contract>>, broken' \in BOOLEAN, interrupted' \in BOOLEAN, created' = created
  PROVE  ControlType' /\ Loaded' /\ (torn' = {} => Unfinished')
<1>1. invocation \in InvocationType /\ contract \in Contracts /\ exit = Cleared
      /\ closed \in BOOLEAN
      /\ signal \in {"", "start", "create", "scan", "read", "divert", "report", "end", "final"}
  BY DEF Inv, TypeOK, ControlType, Unfinished
<1>2. ControlType'
  BY <1>1 DEF ControlType, world
<1>3. Loaded'
  BY DEF Inv, Loaded, world
<1>4. Cleared # InvalidContract
  BY DEF Cleared, InvalidContract
<1>5. torn' = {} => Unfinished'
  BY <1>1, <1>4 DEF Unfinished
<1> QED
  BY <1>2, <1>3, <1>5

\* Run ends with the given exit code.
LEMMA EndStep ==
  ASSUME Inv, pc # "done", pc' = "done", exit' \in {Cleared, Breach, RuntimeFailure, Killed},
         UNCHANGED <<world, contract>>, broken' \in BOOLEAN, interrupted' \in BOOLEAN
  PROVE  ControlType' /\ Loaded' /\ Numbered' /\ Unfinished'
<1>1. invocation \in InvocationType /\ contract \in Contracts
      /\ closed \in BOOLEAN
      /\ signal \in {"", "start", "create", "scan", "read", "divert", "report", "end", "final"}
  BY DEF Inv, TypeOK, ControlType
<1>2. ControlType'
  BY <1>1 DEF ControlType, world
<1> QED
  BY <1>2 DEF Loaded, Numbered, Unfinished, Cleared, Breach, RuntimeFailure, Killed, InvalidContract

LEMMA StopStep == ASSUME Inv, StopsReading PROVE Kept
<1>1. /\ pc \in {"scan", "read"} /\ pc' = "end" /\ exit' = exit
      /\ UNCHANGED <<world, contract, invocation, input, count, flagged, pending, counters, created, out, torn>>
      /\ broken' \in BOOLEAN /\ interrupted' \in BOOLEAN
  BY DEF StopsReading, GoTo, checker, streams, world
<1>2. StreamsAgree' /\ TornOutputsFail' /\ Abreast' /\ StreamsType' /\ torn' = {}
  BY <1>1, StreamsStand DEF Inv, TypeOK, StreamsType
<1>3. ControlType' /\ Loaded' /\ Unfinished'
  BY <1>1, <1>2, LoopStep
<1>4. CheckerType' /\ CountersType' /\ Numbered'
  BY <1>1 DEF Inv, TypeOK, CheckerType, CountersType, Numbered, rules
<1> QED
  BY <1>2, <1>3, <1>4 DEF Kept, Inv, TypeOK

LEMMA TakeStep == ASSUME Inv, NEW line, Takes(line) PROVE Kept
<1>1. /\ pc \in {"scan", "read"} /\ pc' \in {"report", "divert", "done"}
      /\ UNCHANGED <<world, contract, invocation, interrupted, created, out, torn>>
      /\ broken' \in BOOLEAN /\ input' = Append(input, line) /\ line \in LineType
      /\ pc' # "done" => exit' = exit
      /\ pc' = "done" => exit' = RuntimeFailure
  BY FragmentType DEF Takes, GoTo, Exit, streams, world
<1>2. StreamsAgree' /\ TornOutputsFail' /\ Abreast' /\ StreamsType' /\ torn' = {}
  BY <1>1, StreamsStand DEF Inv, TypeOK, StreamsType
<1>3. interrupted' \in BOOLEAN
  BY <1>1 DEF Inv, TypeOK, ControlType
<1>4. input \in Seq(LineType) /\ input' \in Seq(LineType) /\ Len(input') = Len(input) + 1 /\ Len(input) \in Nat
  BY <1>1 DEF Inv, TypeOK, CheckerType
<1>5. CheckerType'
  <2>1. rules' = rules
    BY <1>1 DEF rules
  <2>2. \/ count' = count + 1 /\ flagged' = Violated(rules, seen, line.rec) /\ pending' = flagged'
        \/ UNCHANGED <<count, flagged, pending>>
    BY DEF Takes
  <2>3. Violated(rules, seen, line.rec) \subseteq DOMAIN rules
    BY DEF Violated
  <2> QED
    BY <1>4, <2>1, <2>2, <2>3 DEF Inv, TypeOK, CheckerType
<1>6. CountersType'
  <2>1. counters' = counters \/ counters' = CountRecord(counters, "quarantined")
    BY DEF Takes
  <2> QED
    BY <2>1 DEF Inv, TypeOK, CountersType, CountRecord
<1>7. CASE pc' = "done"
  <2>1. ControlType' /\ Loaded' /\ Numbered' /\ Unfinished'
    BY <1>1, <1>3, <1>7, EndStep
  <2> QED
    BY <1>2, <1>5, <1>6, <2>1 DEF Kept, Inv, TypeOK
<1>8. CASE pc' # "done"
  <2>1. ControlType' /\ Loaded' /\ Unfinished'
    BY <1>1, <1>2, <1>3, <1>8, LoopStep
  <2>2. Numbered'
    BY <1>1, <1>4, <1>8 DEF Numbered
  <2> QED
    BY <1>2, <1>5, <1>6, <2>1, <2>2 DEF Kept, Inv, TypeOK
<1> QED
  BY <1>7, <1>8

\* The four steps that write.
LEMMA WriteStep ==
  ASSUME Inv, pc \in {"divert", "report", "final"}, NEW where \in {"scan", "report", "end", "final"},
         where = "report" => pc = "report",
         NEW items, Writable(items), NEW done, NEW cut, Wrote(items, where, done, cut),
         UNCHANGED <<world, contract, input, broken, checker, flagged, interrupted, created>>,
         pending' \subseteq pending, CountersType'
  PROVE  Kept
<1>1. /\ StreamsType' /\ Unfinished' /\ Abreast' /\ StreamsAgree' /\ TornOutputsFail'
      /\ pc' \in {where, "done"} /\ exit' \in {Cleared, RuntimeFailure, Killed}
  BY WriteKeeps DEF world
<1>2. pc' # "done" => exit' = exit
  BY DEF Wrote
<1>3. broken' \in BOOLEAN /\ interrupted' \in BOOLEAN
  BY DEF Inv, TypeOK, ControlType
<1>4. CheckerType'
  BY DEF Inv, TypeOK, CheckerType, checker, rules
<1>5. ControlType' /\ Loaded' /\ Numbered'
  <2>1. CASE pc' = "done"
    BY <1>1, <1>3, <2>1, EndStep
  <2>2. CASE pc' # "done"
    <3>1. ControlType' /\ Loaded'
      BY <1>1, <1>2, <1>3, <2>2, LoopStep
    <3>2. Numbered'
      BY <1>1, <2>2 DEF Inv, Numbered
    <3> QED
      BY <3>1, <3>2
  <2> QED
    BY <2>1, <2>2
<1> QED
  BY <1>1, <1>4, <1>5 DEF Kept, Inv, TypeOK

LEMMA DivertStep == ASSUME Inv, Divert PROVE Kept
<1> DEFINE event == ParseEvent(contract, Len(input))
<1>1. /\ pc = "divert" /\ UNCHANGED <<world, contract, progress, created>> /\ event \in Event
  BY DivertMoves
<1>2. PICK done, cut : Wrote(DivertItems(event), "scan", done, cut)
  BY DivertMoves
<1> HIDE DEF event
<1>3. Writable(DivertItems(event))
  <2>1. Len(input) \in Nat
    BY DEF Inv, TypeOK, CheckerType
  <2> QED
    BY <1>1, <2>1, ItemsWritable
<1>4. /\ UNCHANGED <<world, contract, input, broken, checker, flagged, interrupted, created>>
      /\ pending' \subseteq pending /\ counters' = counters
  BY <1>1 DEF progress, checker
<1>5. CountersType'
  BY <1>4 DEF Inv, TypeOK, CountersType
<1> QED
  BY <1>1, <1>2, <1>3, <1>4, <1>5, WriteStep

LEMMA ReportStep == ASSUME Inv, Report \/ ReportFinal PROVE Kept
<1>1. \E i \in pending, event \in Event, where \in {"report", "final"} :
        /\ pc = where /\ pending' = pending \ {i}
        /\ counters' \in {CountWarning(counters, rules[i]), CountFinal(counters, rules[i])}
        /\ \E done, cut : Wrote(EventItems(event), where, done, cut)
  <2>1. CASE Report
    BY <2>1, ReportMoves
  <2>2. CASE ReportFinal
    BY <2>2, ReportFinalMoves
  <2> QED
    BY <2>1, <2>2
<1>2. UNCHANGED <<world, contract, input, broken, checker, flagged, interrupted, created>>
  BY ReportMoves, ReportFinalMoves
<1>3. PICK i, event, where, done, cut :
        /\ i \in pending /\ event \in Event /\ where \in {"report", "final"}
        /\ pc = where /\ pending' = pending \ {i}
        /\ counters' \in {CountWarning(counters, rules[i]), CountFinal(counters, rules[i])}
        /\ Wrote(EventItems(event), where, done, cut)
  BY <1>1
<1>4. Writable(EventItems(event))
  <2>1. Len(input) \in Nat
    BY DEF Inv, TypeOK, CheckerType
  <2> QED
    BY <1>3, <2>1, ItemsWritable
<1>5. CountersType'
  <2>1. counters \in Summary
    BY DEF Inv, TypeOK, CountersType, Summary
  <2> QED
    BY <1>3, <2>1, SummaryStays DEF CountersType, Summary
<1> QED
  BY <1>2, <1>3, <1>4, <1>5, WriteStep

LEMMA RouteStep == ASSUME Inv, Route PROVE Kept
<1>1. /\ pc = "report"
      /\ UNCHANGED <<world, contract, input, broken, checker, flagged, pending, interrupted, created>>
      /\ AfterRoute \in {"scan", "end"}
      /\ counters' = Counting(counters, Outcome(rules, flagged), ShouldHalt(rules, flagged) /\ pc' # "done")
      /\ Outcome(rules, flagged) \in {"cleared", "quarantined", "breached"}
  BY RouteMoves
<1>2. PICK done, cut : Wrote(RouteItems, AfterRoute, done, cut)
  BY RouteMoves
<1>3. Writable(RouteItems)
  <2>1. Len(input) \in Nat
    BY DEF Inv, TypeOK, CheckerType
  <2>2. Destination(Outcome(rules, flagged)) \subseteq {"valid", "quarantine"}
    BY DEF Destination
  <2> QED
    BY <2>1, <2>2 DEF Writable, RouteItems, Item
<1>4. CountersType'
  <2>1. counters \in Summary
    BY DEF Inv, TypeOK, CountersType, Summary
  <2> DEFINE halted == ShouldHalt(rules, flagged) /\ pc' # "done"
  <2>2. halted \in BOOLEAN
    OBVIOUS
  <2>3. counters' = Counting(counters, Outcome(rules, flagged), halted)
    BY <1>1
  <2> HIDE DEF halted
  <2>4. counters' \in Summary
    BY <1>1, <2>1, <2>2, <2>3, SummaryStays
  <2> QED
    BY <2>4 DEF CountersType, Summary
<1>5. /\ UNCHANGED <<world, contract, input, broken, checker, flagged, interrupted, created>>
      /\ pending' \subseteq pending
  BY <1>1
<1> QED
  BY <1>1, <1>2, <1>3, <1>4, <1>5, WriteStep

LEMMA FinalizeStep == ASSUME Inv, Finalize PROVE Kept
<1>1. /\ pc = "end" /\ pc' = "final" /\ exit' = exit
      /\ UNCHANGED <<world, contract, invocation, input, count, counters, broken, interrupted, created, out, torn>>
      /\ flagged' \subseteq FinalBreaches(rules, count) /\ pending' = flagged'
  BY DEF Finalize, GoTo, checker, streams, world
<1>2. StreamsAgree' /\ TornOutputsFail' /\ Abreast' /\ StreamsType' /\ torn' = {}
  BY <1>1, StreamsStand DEF Inv, TypeOK, StreamsType
<1>3. broken' \in BOOLEAN /\ interrupted' \in BOOLEAN
  BY <1>1 DEF Inv, TypeOK, ControlType
<1>4. ControlType' /\ Loaded' /\ Unfinished'
  BY <1>1, <1>2, <1>3, LoopStep
<1>5. CheckerType' /\ CountersType' /\ Numbered'
  BY <1>1 DEF Inv, TypeOK, CheckerType, CountersType, Numbered, rules, FinalBreaches
<1> QED
  BY <1>2, <1>4, <1>5 DEF Kept, Inv, TypeOK

LEMMA ReturnStep == ASSUME Inv, ReturnStatus PROVE Kept
<1>1. /\ pc = "final" /\ pc' = "done" /\ exit' \in {Cleared, Breach, RuntimeFailure, Killed}
      /\ UNCHANGED <<world, contract, invocation, progress, input, count, flagged, pending, counters,
                     broken, interrupted, created, out, torn>>
  BY DEF ReturnStatus, Exit, ExitStatus, ExitCode, progress, streams, world
<1>2. StreamsAgree' /\ TornOutputsFail' /\ Abreast' /\ StreamsType' /\ torn' = {}
  BY <1>1, StreamsStand DEF Inv, TypeOK, StreamsType
<1>3. broken' \in BOOLEAN /\ interrupted' \in BOOLEAN
  BY <1>1 DEF Inv, TypeOK, ControlType
<1>4. ControlType' /\ Loaded' /\ Numbered' /\ Unfinished'
  BY <1>1, <1>3, EndStep
<1>5. CheckerType' /\ CountersType'
  BY <1>1 DEF Inv, TypeOK, CheckerType, CountersType, rules
<1> QED
  BY <1>2, <1>4, <1>5 DEF Kept, Inv, TypeOK

\* The steps, by what they do.
LEMMA Steps ==
  ASSUME Inv, [Next]_vars
  PROVE  \/ pc = "done" /\ UNCHANGED vars
         \/ Quits
         \/ pc # "done" /\ Continues
         \/ StopsReading
         \/ \E line \in Line \cup {Fragment} : Takes(line)
         \/ Divert \/ Report \/ Route \/ Finalize \/ ReportFinal \/ ReturnStatus
<1>1. CASE pc = "done"
  BY <1>1, DoneStays
<1>2. CASE pc # "done"
  <2>1. CASE RejectArguments \/ ScanFailed
    <3>1. pc' = "done"
      BY <2>1 DEF RejectArguments, ScanFailed, Exit
    <3> QED
      BY <2>1, <3>1, FailureMoves
  <2>2. CASE OpenInput \/ Interrupt \/ (\E f \in Files : CreateOutput(f))
    BY <1>2, <2>2, FailureMoves, ContinueMoves
  <2>3. CASE Begin \/ StartRead \/ CloseInput \/ UNCHANGED vars
    <3>1. pc' # "done"
      BY <1>2, <2>3 DEF Begin, StartRead, CloseInput, GoTo, vars
    <3> QED
      BY <1>2, <2>3, <3>1, ContinueMoves
  <2>4. CASE ScanEnd \/ ReadEnd \/ ReadClosed \/ ReadError
                \/ (\E line \in Line : ScanBuffered(line) \/ ReadLine(line))
    BY <2>4, ReadMoves
  <2> QED
    BY <1>2, <2>1, <2>2, <2>3, <2>4 DEF Next, Main, Answer, Returned
<1> QED
  BY <1>1, <1>2

LEMMA NextInv == Inv /\ StreamsAgree /\ TornOutputsFail /\ [Next]_vars => Kept
<1> SUFFICES ASSUME Inv, StreamsAgree, TornOutputsFail, [Next]_vars PROVE Kept
  OBVIOUS
<1>1. CASE UNCHANGED vars
  <2>1. rules' = rules /\ Wired' = Wired
    BY <1>1 DEF vars, rules, Wired
  <2>2. ControlType' /\ CheckerType' /\ CountersType' /\ StreamsType'
    <3>1. ControlType' /\ CheckerType'
      BY <1>1, <2>1 DEF vars, Inv, TypeOK, ControlType, CheckerType
    <3>2. CountersType' /\ StreamsType'
      BY <1>1 DEF vars, Inv, TypeOK, CountersType, StreamsType
    <3> QED
      BY <3>1, <3>2
  <2>3. Loaded' /\ Numbered' /\ Unfinished'
    BY <1>1 DEF vars, Inv, Loaded, Numbered, Unfinished
  <2>5. Abreast'
    BY <1>1, <2>1 DEF vars, Inv, Abreast
  <2>4. StreamsAgree' /\ TornOutputsFail'
    BY <1>1, <2>1 DEF vars, StreamsAgree, TornOutputsFail
  <2> QED
    BY <2>2, <2>3, <2>4, <2>5 DEF Kept, Inv, TypeOK
<1> QED
  BY <1>1, Steps, QuitStep, ContinueStep, StopStep, TakeStep, DivertStep, ReportStep, RouteStep,
     FinalizeStep, ReturnStep

LEMMA SafeStreams == Spec => [](Inv /\ StreamsAgree /\ TornOutputsFail)
<1> QED
  BY InitInv, NextInv, PTL DEF Spec, Kept

\* `run` keeps its state well typed for every command line and every input: exit codes
\* are the protocol's, the counters natural numbers, the streams' items complete.
THEOREM TypeCorrect == Spec => []TypeOK
<1>1. Inv => TypeOK
  BY DEF Inv
<1> QED
  BY <1>1, SafeStreams, PTL

\* Wherever a write fails: the results file and standard output hold the same events,
\* but for the last one of the results file.
THEOREM StreamsAlwaysAgree == Spec => []StreamsAgree
BY SafeStreams, PTL

\* Wherever a write fails: only the last line written is cut short, and the exit code
\* tells.
THEOREM TornOutputsAlwaysFail == Spec => []TornOutputsFail
BY SafeStreams, PTL

(***************************************************************************)
(* The order of the evidence                                               *)
(***************************************************************************)
Results == Elems(out["results"])

\* An event of the loop: of a malformed line, or of a rule that looks at records.
OfLine(e) ==
  \/ ~input[e.line].ok
  \/ input[e.line].ok /\ \E i \in DOMAIN rules : rules[i].id = e.rule /\ ~IsCount(rules[i])

OfRule(e, ks) == \E i \in ks : rules[i].id = e.rule

\* The rules reported so far precede those pending.
Queued == \A i \in flagged \ pending, j \in pending : Precedes(rules, i, j)

OrderedBetween ==
  pc \in {"start", "create", "scan", "read", "end"} => \A e \in Results : e.line <= Len(input) /\ OfLine(e)

OrderedDiverting ==
  pc = "divert" =>
    /\ ~input[Len(input)].ok
    /\ \A e \in Results : e.line < Len(input) /\ OfLine(e)

OrderedRecord ==
  pc = "report" =>
    /\ Queued /\ input[Len(input)].ok /\ \A i \in flagged : ~IsCount(rules[i])
    /\ \A e \in Results :
         OfLine(e) /\ (e.line < Len(input) \/ (e.line = Len(input) /\ OfRule(e, flagged \ pending)))

OrderedFinal ==
  pc = "final" =>
    /\ Queued /\ \A i \in flagged : IsCount(rules[i])
    /\ \A e \in Results :
         \/ e.line <= Len(input) /\ OfLine(e)
         \/ e.line = FinalLine(Len(input)) /\ OfRule(e, flagged \ pending)

\* Every event was made for a line read so far, by a rule of its kind; those of the
\* line in progress come from rules that precede the pending ones.
Ordered == EvidenceSorted /\ OrderedBetween /\ OrderedDiverting /\ OrderedRecord /\ OrderedFinal

\* What the order says of the past is not touched by a step that reads nothing.
LEMMA OrderStands ==
  ASSUME UNCHANGED <<contract, input>>
  PROVE  /\ rules' = rules
         /\ \A e, f : InOrder(e, f)' <=> InOrder(e, f)
         /\ \A e : OfLine(e)' <=> OfLine(e)
         /\ \A e, ks : OfRule(e, ks)' <=> OfRule(e, ks)
BY DEF InOrder, OfLine, OfRule, rules

LEMMA ResultsNumbered ==
  ASSUME Inv
  PROVE  /\ out["results"] \in Seq(Event) /\ Len(input) \in Nat
         /\ \A e \in Results : e.line \in Nat \ {0}
<1>1. out["results"] \in Seq(Event)
  BY DEF Inv, TypeOK, StreamsType
<1>2. input \in Seq(LineType)
  BY DEF Inv, TypeOK, CheckerType
<1>3. \A k \in DOMAIN out["results"] : out["results"][k] \in Event
  BY <1>1
<1> QED
  BY <1>1, <1>2, <1>3 DEF Results, Elems, Event

\* An event that may follow all the others is written last.
LEMMA InOrderAppend ==
  ASSUME EvidenceSorted, out["results"] \in Seq(Event), NEW f \in Event,
         UNCHANGED <<contract, input>>,
         out'["results"] = out["results"] \/ out'["results"] = Append(out["results"], f),
         \A e \in Results : InOrder(e, f)
  PROVE  EvidenceSorted' /\ \A e \in Results' : e \in Results \/ e = f
<1>1. \A e, g : InOrder(e, g)' <=> InOrder(e, g)
  BY OrderStands
<1>2. CASE out'["results"] = out["results"]
  BY <1>1, <1>2 DEF EvidenceSorted, Results, Elems
<1>3. CASE out'["results"] = Append(out["results"], f)
  <2> DEFINE es == out["results"]
  <2>1. PICK n \in Nat : n = Len(es)
    OBVIOUS
  <2>2. /\ DOMAIN out'["results"] = 1..(n + 1) /\ DOMAIN es = 1..n
        /\ \A k \in 1..n : out'["results"][k] = es[k]
        /\ out'["results"][n + 1] = f
    BY <1>3, <2>1
  <2>3. \A k \in 1..n : es[k] \in Results
    BY <2>2 DEF Results, Elems
  <2>4. \A k, l \in 1..n : k < l => InOrder(es[k], es[l])
    BY <2>2 DEF EvidenceSorted
  <2> HIDE DEF es
  <2>5. ASSUME NEW k \in 1..(n + 1), NEW l \in 1..(n + 1), k < l
        PROVE  InOrder(out'["results"][k], out'["results"][l])
    <3>1. k \in 1..n /\ out'["results"][k] = es[k]
      BY <2>2, <2>5
    <3>2. CASE l \in 1..n
      BY <2>2, <2>4, <2>5, <3>1, <3>2
    <3>3. CASE l = n + 1
      BY <2>2, <2>3, <3>1, <3>3
    <3> QED
      BY <3>2, <3>3
  <2>6. EvidenceSorted'
    BY <1>1, <2>2, <2>5 DEF EvidenceSorted
  <2>7. \A e \in Results' : e \in Results \/ e = f
    <3>1. \A k \in 1..(n + 1) : out'["results"][k] \in Results \/ out'["results"][k] = f
      BY <2>2, <2>3
    <3> QED
      BY <2>2, <3>1 DEF Results, Elems
  <2> QED
    BY <2>6, <2>7
<1> QED
  BY <1>2, <1>3

LEMMA InitOrdered == Init => Ordered
<1> SUFFICES ASSUME Init PROVE Ordered
  OBVIOUS
<1>1. DOMAIN <<>> = {}
  OBVIOUS
<1>2. out["results"] = <<>> /\ pc = "start"
  BY DEF Init, Streams, Files
<1>3. Results = {}
  BY <1>1, <1>2 DEF Results, Elems
<1> QED
  BY <1>1, <1>2, <1>3 DEF Ordered, EvidenceSorted, OrderedBetween, OrderedDiverting, OrderedRecord,
     OrderedFinal

\* Steps that write nothing, read nothing, and use the contract they found.
LEMMA OrderedQuiet ==
  ASSUME Inv, Ordered, UNCHANGED <<contract, input>>, out'["results"] = out["results"],
         \/ UNCHANGED <<pc, flagged, pending>>
         \/ pc' = "done"
         \/ /\ pc \in {"start", "create", "scan", "read", "report"}
            /\ pc' \in {"create", "scan", "read", "end"}
  PROVE  Ordered'
<1>1. /\ rules' = rules
      /\ \A e, f : InOrder(e, f)' <=> InOrder(e, f)
      /\ \A e : OfLine(e)' <=> OfLine(e)
      /\ \A e, ks : OfRule(e, ks)' <=> OfRule(e, ks)
  BY OrderStands
<1>2. Results' = Results /\ EvidenceSorted'
  BY <1>1 DEF Results, Elems, Ordered, EvidenceSorted
<1>3. OrderedBetween'
  <2>1. pc \in {"start", "create", "scan", "read", "end", "report"} =>
          \A e \in Results : e.line <= Len(input) /\ OfLine(e)
    BY ResultsNumbered DEF Ordered, OrderedBetween, OrderedRecord
  <2>2. CASE pc' \in {"start", "create", "scan", "read", "end"}
    <3>1. pc \in {"start", "create", "scan", "read", "end", "report"}
      BY <2>2
    <3> QED
      BY <1>1, <1>2, <2>1, <3>1 DEF OrderedBetween
  <2> QED
    BY <2>2 DEF OrderedBetween
<1>4. OrderedDiverting'
  BY <1>1, <1>2 DEF Ordered, OrderedDiverting
<1>5. OrderedRecord' /\ OrderedFinal'
  <2>1. CASE pc' \in {"report", "final"}
    <3>1. UNCHANGED <<pc, flagged, pending>>
      BY <2>1
    <3> QED
      BY <1>1, <1>2, <3>1 DEF Ordered, OrderedRecord, OrderedFinal, Queued
  <2> QED
    BY <2>1 DEF OrderedRecord, OrderedFinal
<1> QED
  BY <1>2, <1>3, <1>4, <1>5 DEF Ordered

LEMMA ResultsWritten ==
  ASSUME Inv, pc # "done", NEW items, NEW f \in Event, "results" \in DOMAIN items => items["results"] = f,
         NEW where, NEW done, NEW cut, Wrote(items, where, done, cut)
  PROVE  /\ out'["results"] = out["results"] \/ out'["results"] = Append(out["results"], f)
         /\ pc' \in {where, "done"}
<1>1. torn = {} /\ DOMAIN out = Streams /\ "results" \in Streams /\ out["results"] \in Seq(Event)
  BY DEF Inv, Unfinished, Abreast, Streams, Files, TypeOK, StreamsType
<1>2. out'["results"] = IF "results" \in done THEN Append(out["results"], items["results"]) ELSE out["results"]
  BY <1>1, StreamWritten
<1>3. done \subseteq DOMAIN items /\ pc' \in {where, "done"}
  BY DEF Wrote
<1> QED
  BY <1>2, <1>3

LEMMA OpenedOrdered ==
  ASSUME Inv, Ordered, pc # "done", Continues
  PROVE  Ordered'
<1>1. /\ UNCHANGED <<input, flagged, pending, out>>
      /\ \/ pc' = pc /\ contract' = contract
         \/ pc \in {"create", "scan"} /\ pc' \in {"create", "scan", "read"} /\ contract' = contract
         \/ pc = "start" /\ pc' = "create"
  BY DEF Continues
<1>2. CASE contract' = contract
  BY <1>1, <1>2, OrderedQuiet
<1>3. CASE pc = "start" /\ pc' = "create"
  <2>1. Len(input) = 0
    BY <1>3 DEF Inv, Numbered
  <2>2. \A e \in Results : e.line <= 0 /\ e.line \in Nat \ {0}
    BY <1>3, <2>1, ResultsNumbered DEF Ordered, OrderedBetween
  <2>3. Results = {}
    BY <2>2
  <2>4. Results' = {} /\ DOMAIN out'["results"] = {}
    BY <1>1, <2>3 DEF Results, Elems
  <2> QED
    BY <1>3, <2>4 DEF Ordered, EvidenceSorted, OrderedBetween, OrderedDiverting, OrderedRecord, OrderedFinal
<1> QED
  BY <1>1, <1>2, <1>3

LEMMA TakeOrdered ==
  ASSUME Inv, Ordered, NEW line \in Line \cup {Fragment}, Takes(line)
  PROVE  Ordered'
<1>1. /\ pc \in {"scan", "read"} /\ UNCHANGED <<contract, out>> /\ rules' = rules
      /\ input' = Append(input, line) /\ input \in Seq(LineType) /\ line \in LineType
      /\ \/ pc' = "report" /\ pending' = flagged' /\ flagged' = Violated(rules, seen, line.rec) /\ line.ok
         \/ pc' = "divert" /\ ~line.ok
         \/ pc' = "done"
  BY FragmentType DEF Takes, GoTo, Exit, streams, Inv, TypeOK, CheckerType, rules
<1>2. PICK n \in Nat : n = Len(input)
  BY <1>1
<1>3. /\ Len(input') = n + 1 /\ DOMAIN input = 1..n /\ DOMAIN input' = 1..(n + 1)
      /\ \A m \in 1..n : input'[m] = input[m]
      /\ input'[n + 1] = line
  BY <1>1, <1>2
<1>4. \A e \in Results : e.line \in 1..n /\ OfLine(e)
  BY <1>1, <1>2, ResultsNumbered DEF Ordered, OrderedBetween
<1>5. Results' = Results
  BY <1>1 DEF Results
<1>6. \A e \in Results : OfLine(e)' /\ e.line < n + 1
  BY <1>1, <1>3, <1>4 DEF OfLine
<1>7. EvidenceSorted'
  <2>1. \A e \in Results : \A f : InOrder(e, f) => InOrder(e, f)'
    BY <1>1, <1>3, <1>4 DEF InOrder
  <2>2. \A k \in DOMAIN out["results"] : out["results"][k] \in Results
    BY DEF Results, Elems
  <2> QED
    BY <1>1, <2>1, <2>2 DEF Ordered, EvidenceSorted
<1>8. OrderedBetween' /\ OrderedFinal'
  BY <1>1 DEF OrderedBetween, OrderedFinal
<1>9. OrderedDiverting'
  BY <1>1, <1>3, <1>5, <1>6 DEF OrderedDiverting
<1>10. OrderedRecord'
  <2> SUFFICES ASSUME pc' = "report" PROVE OrderedRecord'
    BY DEF OrderedRecord
  <2>1. \A i \in flagged' : ~IsCount(rules[i])
    BY <1>1 DEF Violated, RecordBreach, UniqueBreach, IsUnique, IsCount
  <2>2. Queued'
    BY <1>1 DEF Queued
  <2> QED
    BY <1>1, <1>3, <1>5, <1>6, <2>1, <2>2 DEF OrderedRecord
<1> QED
  BY <1>7, <1>8, <1>9, <1>10 DEF Ordered

LEMMA FinalizeOrdered ==
  ASSUME Inv, Ordered, Finalize
  PROVE  Ordered'
<1>1. /\ pc = "end" /\ pc' = "final" /\ UNCHANGED <<contract, input, out>>
      /\ pending' = flagged' /\ flagged' \subseteq FinalBreaches(rules, count)
  BY DEF Finalize, GoTo, streams
<1>2. /\ rules' = rules
      /\ \A e, f : InOrder(e, f)' <=> InOrder(e, f)
      /\ \A e : OfLine(e)' <=> OfLine(e)
  BY <1>1, OrderStands
<1>3. Results' = Results /\ EvidenceSorted'
  BY <1>1, <1>2 DEF Results, Ordered, EvidenceSorted
<1>4. Queued' /\ \A i \in flagged' : IsCount(rules[i])
  BY <1>1 DEF Queued, FinalBreaches, CountBreach
<1>5. OrderedFinal'
  BY <1>1, <1>2, <1>3, <1>4 DEF Ordered, OrderedBetween, OrderedFinal
<1> QED
  BY <1>1, <1>3, <1>5 DEF Ordered, OrderedBetween, OrderedDiverting, OrderedRecord

LEMMA DivertOrdered ==
  ASSUME Inv, Ordered, Divert
  PROVE  Ordered'
<1> DEFINE f == ParseEvent(contract, Len(input))
<1>1. /\ pc = "divert" /\ UNCHANGED <<contract, input>>
      /\ f \in Event /\ f.line = Len(input)
      /\ \E done, cut : Wrote(DivertItems(f), "scan", done, cut)
  BY DivertMoves DEF progress
<1> HIDE DEF f
<1>2. PICK done, cut : Wrote(DivertItems(f), "scan", done, cut)
  BY <1>1
<1>3. "results" \in DOMAIN DivertItems(f) => DivertItems(f)["results"] = f
  BY DEF DivertItems
<1>4. /\ out'["results"] = out["results"] \/ out'["results"] = Append(out["results"], f)
      /\ pc' \in {"scan", "done"}
  BY <1>1, <1>2, <1>3, ResultsWritten
<1>5. PICK n \in Nat : n = Len(input)
  BY ResultsNumbered
<1>6. ~input[n].ok /\ \A e \in Results : e.line \in Nat /\ e.line < n /\ OfLine(e)
  BY <1>1, <1>5, ResultsNumbered DEF Ordered, OrderedDiverting
<1>7. EvidenceSorted' /\ \A e \in Results' : e \in Results \/ e = f
  <2>1. \A e \in Results : InOrder(e, f)
    BY <1>1, <1>5, <1>6 DEF InOrder
  <2>2. EvidenceSorted /\ out["results"] \in Seq(Event)
    BY ResultsNumbered DEF Ordered
  <2> QED
    BY <1>1, <1>4, <2>1, <2>2, InOrderAppend
<1>8. \A e \in Results' : e.line <= n /\ OfLine(e)
  <2>1. f.line <= n /\ OfLine(f)
    BY <1>1, <1>5, <1>6 DEF OfLine
  <2> QED
    BY <1>6, <1>7, <2>1
<1>9. OrderedBetween'
  BY <1>1, <1>5, <1>8, OrderStands DEF OrderedBetween
<1> QED
  BY <1>4, <1>7, <1>9 DEF Ordered, OrderedDiverting, OrderedRecord, OrderedFinal

\* The first of the pending rules: those reported precede it, and it precedes the others.
LEMMA FirstReported ==
  ASSUME pending \subseteq flagged, Queued, NEW i, IsFirst(rules, i, pending),
         contract' = contract, flagged' = flagged, pending' = pending \ {i}
  PROVE  /\ i \in flagged
         /\ \A j \in flagged \ pending : Precedes(rules, j, i)
         /\ flagged' \ pending' = (flagged \ pending) \cup {i}
         /\ Queued'
<1>1. i \in pending /\ i \in flagged /\ \A j \in pending \ {i} : Precedes(rules, i, j)
  BY DEF IsFirst
<1>2. \A j \in flagged \ pending : Precedes(rules, j, i)
  BY <1>1 DEF Queued
<1>3. flagged' \ pending' = (flagged \ pending) \cup {i}
  BY <1>1
<1>4. rules' = rules
  BY DEF rules
<1>5. Queued'
  <2> SUFFICES ASSUME NEW a \in flagged' \ pending', NEW b \in pending' PROVE Precedes(rules, a, b)
    BY <1>4 DEF Queued
  <2>1. CASE a = i
    BY <1>1, <2>1
  <2>2. CASE a \in flagged \ pending
    BY <2>2 DEF Queued
  <2> QED
    BY <1>3, <2>1, <2>2
<1> QED
  BY <1>1, <1>2, <1>3, <1>5

\* In a normalized contract the order of the reports is that of kinds and ids.
LEMMA RulesInOrder ==
  ASSUME Inv, pc \notin {"start", "done"}, NEW i \in DOMAIN rules, NEW j \in DOMAIN rules,
         Precedes(rules, j, i), IsCount(rules[i]) <=> IsCount(rules[j]),
         NEW e, NEW f, e.line = f.line, e.rule = rules[j].id, f.rule = rules[i].id
  PROVE  InOrder(e, f)
<1>1. /\ rules \in Seq(Rules) /\ IdsUnique(rules) /\ Ascending(rules)
      /\ \A k \in DOMAIN rules : RuleValid(rules[k])
  BY ContractInUse
<1>2. i \in Int /\ j \in Int
  BY <1>1
<1>3. \/ Group(rules[j]) < Group(rules[i])
      \/ Group(rules[j]) = Group(rules[i]) /\ rules[j].id < rules[i].id
  <2>1. CASE rules[i].kind = rules[j].kind
    <3>1. rules[j].id < rules[i].id
      BY <1>1, <1>2, <2>1 DEF Precedes, Ascending
    <3>2. Group(rules[j]) = Group(rules[i])
      BY <2>1 DEF Group
    <3> QED
      BY <3>1, <3>2
  <2>2. CASE rules[i].kind # rules[j].kind
    <3>1. rules[j].kind = "record" /\ rules[i].kind # "record"
      BY <1>1, <2>2 DEF Precedes, RuleValid
    <3>2. Group(rules[j]) = 1 /\ Group(rules[i]) \in {2, 3}
      BY <3>1 DEF Group
    <3> QED
      BY <3>2
  <2> QED
    BY <2>1, <2>2
<1>4. \A a, b \in DOMAIN rules : rules[a].id = e.rule /\ rules[b].id = f.rule => a = j /\ b = i
  BY <1>1 DEF IdsUnique
<1> QED
  BY <1>3, <1>4 DEF InOrder

LEMMA ReportOrdered ==
  ASSUME Inv, Ordered, Report
  PROVE  Ordered'
<1>1. /\ pc = "report" /\ UNCHANGED <<contract, input, flagged>>
      /\ \E i \in pending, f \in Event :
           /\ IsFirst(rules, i, pending) /\ pending' = pending \ {i}
           /\ f.line = Len(input) /\ f.rule = rules[i].id
           /\ \E done, cut : Wrote(EventItems(f), "report", done, cut)
  BY ReportMoves
<1>2. PICK i, f, done, cut :
        /\ i \in pending /\ f \in Event
        /\ IsFirst(rules, i, pending) /\ pending' = pending \ {i}
        /\ f.line = Len(input) /\ f.rule = rules[i].id
        /\ Wrote(EventItems(f), "report", done, cut)
  BY <1>1
<1>3. "results" \in DOMAIN EventItems(f) => EventItems(f)["results"] = f
  BY DEF EventItems
<1>4. /\ out'["results"] = out["results"] \/ out'["results"] = Append(out["results"], f)
      /\ pc' \in {"report", "done"}
  BY <1>1, <1>2, <1>3, ResultsWritten
<1>5. PICK n \in Nat : n = Len(input)
  BY ResultsNumbered
<1>6. /\ Queued /\ input[n].ok /\ \A j \in flagged : ~IsCount(rules[j])
      /\ \A e \in Results :
           OfLine(e) /\ (e.line < n \/ (e.line = n /\ OfRule(e, flagged \ pending)))
  BY <1>1, <1>5 DEF Ordered, OrderedRecord
<1>7. pending \subseteq flagged /\ flagged \subseteq DOMAIN rules
  BY DEF Inv, TypeOK, CheckerType
<1>8. /\ i \in flagged /\ \A j \in flagged \ pending : Precedes(rules, j, i)
      /\ flagged' \ pending' = (flagged \ pending) \cup {i} /\ Queued'
  BY <1>1, <1>2, <1>6, <1>7, FirstReported
<1>9. \A e \in Results : InOrder(e, f)
  <2> SUFFICES ASSUME NEW e \in Results, e.line = n, OfRule(e, flagged \ pending)
               PROVE  InOrder(e, f)
    BY <1>2, <1>5, <1>6 DEF InOrder
  <2>1. PICK j \in flagged \ pending : rules[j].id = e.rule
    BY DEF OfRule
  <2>2. /\ i \in DOMAIN rules /\ j \in DOMAIN rules /\ Precedes(rules, j, i)
        /\ ~IsCount(rules[i]) /\ ~IsCount(rules[j])
    BY <1>6, <1>7, <1>8
  <2> QED
    BY <1>1, <1>2, <1>5, <2>1, <2>2, RulesInOrder
<1>10. EvidenceSorted' /\ \A e \in Results' : e \in Results \/ e = f
  <2>1. EvidenceSorted /\ out["results"] \in Seq(Event)
    BY ResultsNumbered DEF Ordered
  <2> QED
    BY <1>1, <1>2, <1>4, <1>9, <2>1, InOrderAppend
<1>11. \A e \in Results' : OfLine(e) /\ (e.line < n \/ (e.line = n /\ OfRule(e, flagged' \ pending')))
  <2>1. OfLine(f) /\ OfRule(f, flagged' \ pending')
    BY <1>2, <1>5, <1>6, <1>7, <1>8 DEF OfLine, OfRule
  <2>2. \A e : OfRule(e, flagged \ pending) => OfRule(e, flagged' \ pending')
    BY <1>8 DEF OfRule
  <2> QED
    BY <1>2, <1>5, <1>6, <1>10, <2>1, <2>2
<1>12. OrderedRecord'
  <2>1. \A j \in flagged' : ~IsCount(rules[j])
    BY <1>1, <1>6
  <2> QED
    BY <1>1, <1>5, <1>6, <1>8, <1>11, <2>1, OrderStands DEF OrderedRecord
<1> QED
  BY <1>4, <1>10, <1>12 DEF Ordered, OrderedBetween, OrderedDiverting, OrderedFinal

LEMMA ReportFinalOrdered ==
  ASSUME Inv, Ordered, ReportFinal
  PROVE  Ordered'
<1>1. /\ pc = "final" /\ UNCHANGED <<contract, input, flagged>>
      /\ \E i \in pending, f \in Event :
           /\ IsFirst(rules, i, pending) /\ pending' = pending \ {i}
           /\ f.line = FinalLine(Len(input)) /\ f.rule = rules[i].id
           /\ \E done, cut : Wrote(EventItems(f), "final", done, cut)
  BY ReportFinalMoves
<1>2. PICK i, f, done, cut :
        /\ i \in pending /\ f \in Event
        /\ IsFirst(rules, i, pending) /\ pending' = pending \ {i}
        /\ f.line = FinalLine(Len(input)) /\ f.rule = rules[i].id
        /\ Wrote(EventItems(f), "final", done, cut)
  BY <1>1
<1>3. "results" \in DOMAIN EventItems(f) => EventItems(f)["results"] = f
  BY DEF EventItems
<1>4. /\ out'["results"] = out["results"] \/ out'["results"] = Append(out["results"], f)
      /\ pc' \in {"final", "done"}
  BY <1>1, <1>2, <1>3, ResultsWritten
<1>5. PICK n \in Nat : n = Len(input)
  BY ResultsNumbered
<1>6. /\ Queued /\ \A j \in flagged : IsCount(rules[j])
      /\ \A e \in Results :
           \/ e.line \in 1..n /\ OfLine(e)
           \/ e.line = FinalLine(n) /\ OfRule(e, flagged \ pending)
  <2>1. /\ Queued /\ \A j \in flagged : IsCount(rules[j])
        /\ \A e \in Results :
             \/ e.line <= n /\ OfLine(e)
             \/ e.line = FinalLine(n) /\ OfRule(e, flagged \ pending)
    BY <1>1, <1>5 DEF Ordered, OrderedFinal
  <2>2. \A e \in Results : e.line <= n => e.line \in 1..n
    BY <1>5, ResultsNumbered
  <2> QED
    BY <2>1, <2>2
<1>7. pending \subseteq flagged /\ flagged \subseteq DOMAIN rules /\ DOMAIN input = 1..n
  BY <1>5 DEF Inv, TypeOK, CheckerType
<1>8. /\ i \in flagged /\ \A j \in flagged \ pending : Precedes(rules, j, i)
      /\ flagged' \ pending' = (flagged \ pending) \cup {i} /\ Queued'
  BY <1>1, <1>2, <1>6, <1>7, FirstReported
<1>9. \A e \in Results : InOrder(e, f)
  <2> SUFFICES ASSUME NEW e \in Results PROVE InOrder(e, f)
    OBVIOUS
  <2>1. CASE e.line \in 1..n /\ OfLine(e)
    <3>1. e.line < FinalLine(n) \/ e.line = FinalLine(n)
      BY <2>1 DEF FinalLine
    <3>2. CASE e.line = FinalLine(n) /\ ~input[e.line].ok
      BY <1>2, <1>5, <1>7, <2>1, <3>2 DEF InOrder
    <3>3. CASE e.line = FinalLine(n) /\ \E j \in DOMAIN rules : rules[j].id = e.rule /\ ~IsCount(rules[j])
      <4>1. PICK j \in DOMAIN rules : rules[j].id = e.rule /\ ~IsCount(rules[j])
        BY <3>3
      <4>2. i \in DOMAIN rules /\ IsCount(rules[i])
        BY <1>6, <1>7, <1>8
      <4>3. IdsUnique(rules)
        BY <1>1, ContractInUse
      <4>4. \A a, b \in DOMAIN rules : rules[a].id = e.rule /\ rules[b].id = f.rule => a = j /\ b = i
        BY <1>2, <4>1, <4>2, <4>3 DEF IdsUnique
      <4>5. Group(rules[j]) \in {1, 2} /\ Group(rules[i]) = 3
        BY <4>1, <4>2 DEF Group, IsCount
      <4>6. Group(rules[j]) < Group(rules[i])
        BY <4>5
      <4> QED
        BY <1>2, <1>5, <3>3, <4>4, <4>6 DEF InOrder
    <3> QED
      BY <1>2, <1>5, <2>1, <3>1, <3>2, <3>3 DEF OfLine, InOrder
  <2>2. CASE e.line = FinalLine(n) /\ OfRule(e, flagged \ pending)
    <3>1. PICK j \in flagged \ pending : rules[j].id = e.rule
      BY <2>2 DEF OfRule
    <3>2. /\ i \in DOMAIN rules /\ j \in DOMAIN rules /\ Precedes(rules, j, i)
          /\ IsCount(rules[i]) /\ IsCount(rules[j])
      BY <1>6, <1>7, <1>8
    <3> QED
      BY <1>1, <1>2, <1>5, <2>2, <3>1, <3>2, RulesInOrder
  <2> QED
    BY <1>6, <2>1, <2>2
<1>10. EvidenceSorted' /\ \A e \in Results' : e \in Results \/ e = f
  <2>1. EvidenceSorted /\ out["results"] \in Seq(Event)
    BY ResultsNumbered DEF Ordered
  <2> QED
    BY <1>1, <1>2, <1>4, <1>9, <2>1, InOrderAppend
<1>11. \A e \in Results' :
         \/ e.line <= n /\ OfLine(e)
         \/ e.line = FinalLine(n) /\ OfRule(e, flagged' \ pending')
  <2>1. OfRule(f, flagged' \ pending')
    BY <1>2, <1>8 DEF OfRule
  <2>2. \A e : OfRule(e, flagged \ pending) => OfRule(e, flagged' \ pending')
    BY <1>8 DEF OfRule
  <2>3. \A k : k \in 1..n => k <= n
    OBVIOUS
  <2>4. f.line = FinalLine(n)
    BY <1>2, <1>5
  <2> QED
    BY <1>6, <1>10, <2>1, <2>2, <2>3, <2>4
<1>12. OrderedFinal'
  <2>1. \A j \in flagged' : IsCount(rules[j])
    BY <1>1, <1>6
  <2> QED
    BY <1>1, <1>5, <1>6, <1>8, <1>11, <2>1, OrderStands DEF OrderedFinal
<1> QED
  BY <1>4, <1>10, <1>12 DEF Ordered, OrderedBetween, OrderedDiverting, OrderedRecord

\* A route writes no event.
LEMMA RouteOrdered ==
  ASSUME Inv, Ordered, Route
  PROVE  Ordered'
<1>1. /\ pc = "report" /\ UNCHANGED <<contract, input>> /\ AfterRoute \in {"scan", "end"}
      /\ \E done, cut : Wrote(RouteItems, AfterRoute, done, cut)
  BY RouteMoves
<1>2. PICK done, cut : Wrote(RouteItems, AfterRoute, done, cut)
  BY <1>1
<1>3. "results" \notin DOMAIN RouteItems
  BY DEF RouteItems, Destination
<1>4. out'["results"] = out["results"] /\ pc' \in {"scan", "end", "done"}
  BY <1>1, <1>2, <1>3 DEF Wrote, Written, Streams, Files
<1> QED
  BY <1>1, <1>4, OrderedQuiet

LEMMA NextOrdered == Inv /\ Ordered /\ [Next]_vars => Ordered'
<1> SUFFICES ASSUME Inv, Ordered, [Next]_vars PROVE Ordered'
  OBVIOUS
<1>1. CASE pc = "done" /\ UNCHANGED vars
  BY <1>1, OrderedQuiet DEF vars
<1>2. CASE Quits \/ ReturnStatus
  BY <1>2, OrderedQuiet DEF Quits, ReturnStatus, Exit, progress, streams, world
<1>3. CASE StopsReading
  BY <1>3, OrderedQuiet DEF StopsReading, GoTo, streams
<1> QED
  BY <1>1, <1>2, <1>3, Steps, OpenedOrdered, TakeOrdered, FinalizeOrdered, DivertOrdered,
     ReportOrdered, ReportFinalOrdered, RouteOrdered

\* The results file preserves input order, and within a line the order of the canonical
\* contract, whatever order the contract file lists its rules in and wherever the run ends.
THEOREM EvidenceAlwaysSorted == Spec => []EvidenceSorted
<1>1. Ordered => EvidenceSorted
  BY DEF Ordered
<1>2. Inv /\ StreamsAgree /\ TornOutputsFail /\ [Next]_vars => Inv' /\ StreamsAgree' /\ TornOutputsFail'
  BY NextInv DEF Kept
<1> QED
  BY <1>1, <1>2, InitInv, InitOrdered, NextOrdered, PTL DEF Spec
=============================================================================
