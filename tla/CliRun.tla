-------------------------------- MODULE CliRun --------------------------------
(***************************************************************************)
(* `actually-fine run` (cmd/actually-fine/main.go): the same gate over files   *)
(* and standard streams, with an interrupt.                                  *)
(*                                                                         *)
(* Three things act: the program's main goroutine; the goroutine that closes  *)
(* the input once the interrupt has cancelled the context; and the world      *)
(* outside, which answers a pending Read, fails a write or sends SIGINT.       *)
(* bufio.Scanner is modelled by what its caller can tell: a line may come     *)
(* from the buffer, or Scan may wait in Read ("read") for a line, the end or    *)
(* an error; and after an error the unterminated rest of the buffer comes out  *)
(* as a last line.                                                          *)
(***************************************************************************)
EXTENDS Reporting

CONSTANTS
  Invocations,  \* the command lines, with the files they name
  Line,         \* the lines an input may hold
  MaxLines      \* bound on the length of the input

Files == {"valid", "quarantine", "results"}

Streams == Files \cup {"stdout"}

\* What a shell reports of a program that SIGPIPE killed. The Go runtime raises it
\* on a write to a broken pipe at standard output, unless the program asked for it.
Killed == 141

\* ... and of one that SIGINT killed.
Interrupted == 130

\* arguments: the flags parse and have allowed values; the contract file decodes, the
\* input opens; outputs, creates: the files named, and those that can be created;
\* closable: closing the input ends a Read that is waiting on it (a pipe or a FIFO
\* opened by name; not a standard input in blocking mode).
InvocationType ==
  [arguments : BOOLEAN, decodes : BOOLEAN, contract : Contracts, opens : BOOLEAN,
   outputs : SUBSET Files, creates : SUBSET Files, format : {"human", "jsonl"},
   invalid : {"fail", "quarantine"}, closable : BOOLEAN]

ASSUME InvocationsAssumption == Invocations \subseteq InvocationType
ASSUME LineAssumption == Line \subseteq {l \in LineType : l.whole}
ASSUME MaxLinesAssumption == MaxLines \in Nat

VARIABLES
  invocation,
  contract,     \* the contract in use: normalized once it is decoded
  pc,           \* where run is
  exit,         \* the exit code, 0 until pc = "done"
  signal,       \* where SIGINT found the program, "" while none came
  closed,       \* the goroutine has closed the input
  input,        \* the lines scanned and counted so far
  broken,       \* scanner.Err() # nil
  seen, count,  \* the StreamChecker
  flagged, pending,
  interrupted,
  counters,     \* total is Len(input); the other counters, and halted
  created,      \* the outputs os.Create has made, or emptied
  out,          \* what each stream holds: line numbers, or events
  torn          \* the streams whose last line a failed write cut short

vars == <<invocation, contract, pc, exit, signal, closed, input, broken, seen, count,
          flagged, pending, interrupted, counters, created, out, torn>>

checker == <<seen, count>>
world == <<invocation, signal, closed>>
streams == <<created, out, torn>>
progress == <<input, broken, seen, count, flagged, pending, interrupted, counters>>

rules == contract.rules

Init ==
  /\ invocation \in Invocations
  /\ contract = invocation.contract
  /\ pc = "start" /\ exit = Cleared
  /\ signal = "" /\ closed = FALSE
  /\ input = <<>> /\ broken = FALSE
  /\ seen = <<>> /\ count = 0
  /\ flagged = {} /\ pending = {}
  /\ interrupted = FALSE
  /\ counters = ZeroSummary
  /\ created = {} /\ out = [s \in Streams |-> <<>>] /\ torn = {}

Exit(code) == pc' = "done" /\ exit' = code

GoTo(where) == pc' = where /\ exit' = exit

(***************************************************************************)
(* Before the loop: flags, contract, files                                  *)
(***************************************************************************)
CreatedBefore(f, g) == <<f, g>> \in {<<"valid", "quarantine">>, <<"valid", "results">>, <<"quarantine", "results">>}

Admits(c) == invocation.arguments /\ invocation.decodes /\ Validate(c)

RejectArguments ==
  /\ pc = "start" /\ ~Admits(contract)
  /\ Exit(InvalidContract)
  /\ UNCHANGED <<world, contract, progress, streams>>

\* Mutated: the contract is used as it was written.
Used(c) == c

Decoded(c) == Normalize(c)

OpenInput ==
  /\ pc = "start" /\ Admits(contract)
  /\ IF invocation.opens
       THEN contract' = Decoded(contract) /\ GoTo("create")
       ELSE contract' = contract /\ Exit(RuntimeFailure)
  /\ UNCHANGED <<world, progress, streams>>

\* os.Create empties a file that exists, one output after the other.
CreateOutput(f) ==
  /\ pc = "create" /\ f \in invocation.outputs \ created
  /\ \A g \in invocation.outputs \ created : g = f \/ CreatedBefore(f, g)
  /\ IF f \in invocation.creates
       THEN created' = created \cup {f} /\ GoTo("create")
       ELSE created' = created /\ Exit(RuntimeFailure)
  /\ UNCHANGED <<world, contract, progress, out, torn>>

Begin ==
  /\ pc = "create" /\ created = invocation.outputs
  /\ seen' = NoneSeen(rules)
  /\ GoTo("scan")
  /\ UNCHANGED <<world, contract, input, broken, count, flagged, pending, interrupted, counters, streams>>

(***************************************************************************)
(* scanner.Scan()                                                          *)
(***************************************************************************)
\* A fragment is the last line the scanner gives.
MayScan == \A n \in DOMAIN input : input[n].whole

\* The loop body up to the first write: the context, the counters, the parser,
\* the engine.
Body(line) ==
  IF signal # "" THEN
    /\ interrupted' = TRUE
    /\ GoTo("end")
    /\ UNCHANGED <<input, checker, flagged, pending, counters>>
  ELSE
    /\ Len(input) < MaxLines
    /\ input' = Append(input, line)
    /\ IF line.ok THEN
         /\ count' = count + 1
         /\ flagged' = Violated(rules, seen, line.rec)
         /\ pending' = flagged'
         /\ seen' = Remember(rules, seen, line.rec)
         /\ GoTo("report")
         /\ UNCHANGED counters
       ELSE IF invocation.invalid = "quarantine" THEN
         /\ counters' = CountRecord(counters, "quarantined")
         /\ GoTo("divert")
         /\ UNCHANGED <<checker, flagged, pending>>
       ELSE
         /\ Exit(RuntimeFailure)
         /\ UNCHANGED <<checker, flagged, pending, counters>>
    /\ interrupted' = interrupted

\* A line that is in the buffer.
ScanBuffered(line) ==
  /\ pc = "scan" /\ MayScan /\ line.whole
  /\ Body(line)
  /\ UNCHANGED <<world, contract, broken, streams>>

\* The last line ended with the input and not with a newline: Scan met the end when
\* it gave that line, and does not read again.
ScanEnd ==
  /\ pc = "scan" /\ MayScan /\ ~broken /\ input # <<>>
  /\ GoTo("end")
  /\ UNCHANGED <<world, contract, progress, streams>>

\* The buffer holds no line and Scan calls Read, which fails at once on a file
\* that is closed.
StartRead ==
  /\ pc = "scan" /\ MayScan /\ ~closed /\ ~broken
  /\ GoTo("read")
  /\ UNCHANGED <<world, contract, progress, streams>>

\* Read has failed: Scan gives the rest of the buffer as a line, or nothing.
ReadFailure ==
  /\ broken' = TRUE
  /\ \/ /\ GoTo("end")
        /\ UNCHANGED <<input, checker, flagged, pending, interrupted, counters>>
     \/ MayScan /\ Body(Fragment)
  /\ UNCHANGED <<world, contract, streams>>

ReadClosed ==
  /\ \/ pc = "scan" /\ (closed \/ broken)
     \/ pc = "read" /\ closed /\ invocation.closable
  /\ ReadFailure

\* The world answers a pending Read.
ReadLine(line) ==
  /\ pc = "read" /\ line.whole
  /\ Body(line)
  /\ UNCHANGED <<world, contract, broken, streams>>

ReadEnd ==
  /\ pc = "read"
  /\ GoTo("end")
  /\ UNCHANGED <<world, contract, progress, streams>>

ReadError == pc = "read" /\ ReadFailure

(***************************************************************************)
(* Writes. One step of the program may write to several streams, in the       *)
(* order quarantine, results, stdout; the first write that fails ends it.     *)
(***************************************************************************)
Wired == invocation.outputs \cup (IF invocation.format = "jsonl" THEN {"stdout"} ELSE {})

\* Mutated: stdout comes first.
BeforeStdoutFirst(s, t) ==
  <<s, t>> \in {<<"stdout", "quarantine">>, <<"stdout", "results">>, <<"quarantine", "results">>}

Before(s, t) == <<s, t>> \in {<<"quarantine", "results">>, <<"quarantine", "stdout">>, <<"results", "stdout">>}

Written(items, done) ==
  [s \in Streams |-> IF s \in done THEN Append(out[s], items[s]) ELSE out[s]]

\* What a write that fails leaves: nothing, or a line without its end. An event and
\* its newline are one write, a record and its newline are two.
WriteFails(items, failed) ==
  LET before == {s \in DOMAIN items : Before(s, failed)} IN
  \/ out' = Written(items, before) /\ torn' = torn
  \/ out' = Written(items, before \cup {failed}) /\ torn' = torn \cup {failed}

Ends(failed) == Exit(RuntimeFailure) \/ (failed = "stdout" /\ Exit(Killed))

\* Mutated: the error of a line's newline is dropped.
WriteAllButNewline(items, where) ==
  \/ out' = Written(items, DOMAIN items) /\ torn' = torn /\ GoTo(where)
  \/ \E failed \in DOMAIN items :
       /\ WriteFails(items, failed)
       /\ IF torn' # {} /\ failed \in {"valid", "quarantine"} THEN GoTo(where) ELSE Ends(failed)

WriteAll(items, where) ==
  \/ out' = Written(items, DOMAIN items) /\ torn' = torn /\ GoTo(where)
  \/ \E failed \in DOMAIN items : WriteFails(items, failed) /\ Ends(failed)

\* writeEvent: an event that is not valid fails the write.
WriteEvent(event, where) ==
  LET wired == {"results", "stdout"} \cap Wired IN
  IF EventValid(event) \/ wired = {}
    THEN WriteAll([s \in wired |-> event], where)
    ELSE UNCHANGED <<out, torn>> /\ Exit(RuntimeFailure)

\* A malformed line under --invalid-record quarantine.
Divert ==
  /\ pc = "divert"
  /\ LET event == ParseEvent(contract, Len(input)) IN
     WriteAll([s \in {"quarantine", "results", "stdout"} \cap Wired |->
                 IF s = "quarantine" THEN Len(input) ELSE event], "scan")
  /\ UNCHANGED <<world, contract, progress, created>>

Report ==
  /\ pc = "report"
  /\ \E i \in pending :
       /\ IsFirst(rules, i, pending)
       /\ counters' = CountWarning(counters, rules[i])
       /\ pending' = pending \ {i}
       /\ WriteEvent(MakeEvent(contract, rules[i], Len(input)), "report")
  /\ UNCHANGED <<world, contract, input, broken, checker, flagged, interrupted, created>>

\* The stream that takes a record with this outcome.
Destination(outcome) ==
  CASE outcome = "cleared"     -> {"valid"}
    [] outcome = "quarantined" -> {"quarantine"}
    [] OTHER                   -> {}

\* Mutated: a halt does not leave the loop.
AfterRouteOnward == "scan"

AfterRoute == IF ShouldHalt(rules, flagged) THEN "end" ELSE "scan"

Route ==
  /\ pc = "report" /\ pending = {}
  /\ LET outcome == Outcome(rules, flagged) IN
     /\ WriteAll([s \in Destination(outcome) \cap Wired |-> Len(input)], AfterRoute)
     /\ counters' = [CountRecord(counters, outcome) EXCEPT
                       !.halted = ShouldHalt(rules, flagged) /\ pc' # "done"]
  /\ UNCHANGED <<world, contract, input, broken, checker, flagged, pending, interrupted, created>>

(***************************************************************************)
(* After the loop                                                          *)
(***************************************************************************)
ScanFailed ==
  /\ pc = "end" /\ broken
  /\ Exit(RuntimeFailure)
  /\ UNCHANGED <<world, contract, progress, streams>>

Finalize ==
  /\ pc = "end" /\ ~broken
  /\ flagged' = IF interrupted \/ counters.halted THEN {} ELSE FinalBreaches(rules, count)
  /\ pending' = flagged'
  /\ GoTo("final")
  /\ UNCHANGED <<world, contract, input, broken, checker, interrupted, counters, streams>>

ReportFinal ==
  /\ pc = "final"
  /\ \E i \in pending :
       /\ IsFirst(rules, i, pending)
       /\ counters' = CountFinal(counters, rules[i])
       /\ pending' = pending \ {i}
       /\ WriteEvent(MakeEvent(contract, rules[i], FinalLine(Len(input))), "final")
  /\ UNCHANGED <<world, contract, input, broken, checker, flagged, interrupted, created>>

ExitStatus == IF interrupted THEN RuntimeFailure ELSE ExitCode(counters)

\* The human summary goes to standard output; its write is not looked at.
ReturnStatus ==
  /\ pc = "final" /\ pending = {}
  /\ Exit(ExitStatus) \/ (invocation.format = "human" /\ Exit(Killed))
  /\ UNCHANGED <<world, contract, progress, streams>>

(***************************************************************************)
(* The interrupt                                                           *)
(***************************************************************************)
\* SIGINT. Before signal.NotifyContext is in place the process dies of it.
Interrupt ==
  /\ pc # "done" /\ signal = ""
  /\ signal' = pc
  /\ IF pc \in {"start", "create"} THEN Exit(Interrupted) ELSE GoTo(pc)
  /\ UNCHANGED <<invocation, contract, closed, progress, streams>>

\* Mutated: the input is closed on the way out of the loop.
CloseInputAfterLoop ==
  /\ signal # "" /\ ~closed /\ pc = "end"
  /\ closed' = TRUE
  /\ UNCHANGED <<invocation, contract, pc, exit, signal, progress, streams>>

CloseInput ==
  /\ signal # "" /\ ~closed /\ pc # "done"
  /\ closed' = TRUE
  /\ UNCHANGED <<invocation, contract, pc, exit, signal, progress, streams>>

Returned == pc = "done" /\ UNCHANGED vars

\* The main goroutine, as far as it depends on itself ...
Main ==
  \/ RejectArguments \/ OpenInput \/ (\E f \in Files : CreateOutput(f)) \/ Begin
  \/ \E line \in Line : ScanBuffered(line)
  \/ ScanEnd \/ StartRead \/ ReadClosed
  \/ Divert \/ Report \/ Route
  \/ ScanFailed \/ Finalize \/ ReportFinal \/ ReturnStatus

\* ... and what may never come: the answer to a Read.
Answer == \/ \E line \in Line : ReadLine(line)
          \/ ReadEnd \/ ReadError

Next == Main \/ Answer \/ Interrupt \/ CloseInput \/ Returned

Spec == Init /\ [][Next]_vars

\* The next step of the main goroutine writes to an output or to standard output.
Writing ==
  LET events == {"results", "stdout"} \cap Wired IN
  \/ pc = "divert" /\ events \cup ({"quarantine"} \cap Wired) # {}
  \/ pc \in {"report", "final"} /\ pending # {} /\ events # {}
  \/ pc = "report" /\ pending = {} /\ Destination(Outcome(rules, flagged)) \cap Wired # {}
  \/ pc = "final" /\ pending = {} /\ invocation.format = "human"

\* Goroutines are scheduled fairly. Nothing is assumed of the world: a Read may wait for
\* ever, and so may a write to a pipe or a FIFO that is full and that nobody reads.
FairSpec == Spec /\ WF_vars(~Writing /\ Main) /\ WF_vars(CloseInput)
=============================================================================
