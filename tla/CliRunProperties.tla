--------------------------- MODULE CliRunProperties ---------------------------
(***************************************************************************)
(* What `actually-fine run` must do, and the abstract gate it implements.    *)
(***************************************************************************)
EXTENDS CliRun

Elems(s) == {s[k] : k \in DOMAIN s}

\* Type correctness of run's state: exit codes are the protocol's, the line
\* outputs hold line numbers and the event streams complete events.
ControlType ==
  /\ invocation \in InvocationType /\ contract \in Contracts
  /\ pc \in {"start", "create", "scan", "read", "divert", "report", "end", "final", "done"}
  /\ exit \in {Cleared, Breach, InvalidContract, RuntimeFailure, Killed, Interrupted}
  /\ signal \in {"", "start", "create", "scan", "read", "divert", "report", "end", "final"}
  /\ closed \in BOOLEAN /\ broken \in BOOLEAN /\ interrupted \in BOOLEAN

CheckerType ==
  /\ input \in Seq(LineType) /\ count \in Nat
  /\ flagged \subseteq DOMAIN rules /\ pending \subseteq flagged

CountersType ==
  counters \in [cleared : Nat, warnings : Nat, quarantined : Nat, breached : Nat, halted : BOOLEAN]

StreamsType ==
  /\ out["valid"] \in Seq(Nat) /\ out["quarantine"] \in Seq(Nat)
  /\ created \subseteq invocation.outputs /\ torn \subseteq Streams
  /\ out["results"] \in Seq(Event) /\ out["stdout"] \in Seq(Event)

TypeOK == ControlType /\ CheckerType /\ CountersType /\ StreamsType

(***************************************************************************)
(* Refinement                                                              *)
(***************************************************************************)
SinksOf(q) ==
  {s \in {"accepted", "quarantined", "evidence"} :
     \/ s = "accepted" /\ "valid" \in q.outputs
     \/ s = "quarantined" /\ "quarantine" \in q.outputs
     \/ s = "evidence" /\ ("results" \in q.outputs \/ q.format = "jsonl")}

RequestOf(q) == [contract |-> Normalize(q.contract), invalid |-> q.invalid, sinks |-> SinksOf(q)]

\* The stream that is written first of those that carry events.
Events == IF "results" \in Wired THEN "results" ELSE "stdout"

\* The whole lines of a stream.
Intact(s) == IF s \in torn THEN SubSeq(out[s], 1, Len(out[s]) - 1) ELSE out[s]

Promise == INSTANCE Gate WITH
  request <- RequestOf(invocation),
  Requests <- {RequestOf(q) : q \in Invocations},
  Line <- Line \cup {Fragment},
  accepted <- Elems(Intact("valid")),
  quarantined <- Elems(Intact("quarantine")),
  evidence <- {<<e.line, e.rule>> : e \in Elems(Intact(Events))},
  status <- IF pc # "done" THEN "running"
            ELSE IF exit \notin {Cleared, Breach} THEN "failed"
            ELSE IF counters.halted THEN "halted" ELSE "completed"

\* `run` implements the abstract gate on the normalized contract: whatever write
\* fails, and wherever the interrupt finds it.
RefinesGate == Promise!Spec

(***************************************************************************)
(* Streams                                                                 *)
(***************************************************************************)
\* Where the findings of a rule come among those of one line: after a record's record
\* rules its stream rules, and after the last record the rules of the whole stream.
Group(r) == IF r.kind = "record" THEN 1 ELSE IF IsCount(r) THEN 3 ELSE 2

\* Event e may come before event f.
InOrder(e, f) ==
  \/ e.line < f.line
  \/ e.line = f.line /\ e.line \in DOMAIN input /\ ~input[e.line].ok
  \/ /\ e.line = f.line
     /\ \A i, j \in DOMAIN rules :
          rules[i].id = e.rule /\ rules[j].id = f.rule =>
            \/ Group(rules[i]) < Group(rules[j])
            \/ Group(rules[i]) = Group(rules[j]) /\ rules[i].id < rules[j].id

\* Results preserve input order, and the findings of one line come in the order
\* of the canonical contract, record rules before stream rules, each sorted by id,
\* whatever order the contract file lists them in.
EvidenceSorted ==
  LET es == out["results"] IN
  \A k, l \in DOMAIN es : k < l => InOrder(es[k], es[l])

\* The results file and the JSON Lines on stdout are one protocol: when both are
\* wired they hold the same events, but for one that a failed write cut short.
StreamsAgree ==
  {"results", "stdout"} \subseteq Wired =>
    LET r == out["results"]
        s == out["stdout"]
    IN  /\ Len(s) <= Len(r) /\ s = SubSeq(r, 1, Len(s))
        /\ Len(r) = Len(s) \/ (pc = "done" /\ exit \in {RuntimeFailure, Killed} /\ Len(r) = Len(s) + 1)

\* No line of an output runs into the next one: a stream whose last line was cut short
\* is the last that was written to, and the run says that it failed.
TornOutputsFail ==
  torn # {} =>
    /\ pc = "done" /\ exit \in {RuntimeFailure, Killed}
    /\ \E s \in Streams : torn = {s} /\ out[s] # <<>>

(***************************************************************************)
(* Exit codes                                                              *)
(***************************************************************************)
\* Exit code 1 means that a line or the finished stream broke a rule that
\* enforces, exit code 0 that none did, whatever outputs are wired; and exit
\* code 2 that nothing was read, and that the outputs of an earlier run are as they were.
ExitCodeSound ==
  pc = "done" =>
    /\ exit \in {Cleared, Breach} =>
         (exit = Breach <=>
            \/ \E n \in DOMAIN input : Promise!Verdict(n) # "accept"
            \/ /\ ~Promise!Stopped
               /\ \E i \in FinalBreaches(rules, Cardinality({n \in DOMAIN input : input[n].ok})) :
                    rules[i].action # "warn")
    /\ exit = InvalidContract => input = <<>> /\ created = {}

\* docs/streaming.md: "A failed output write, broken pipe, scanner error, or
\* interrupted execution returns exit code `3`". An execution that SIGINT found
\* waiting for its input is interrupted: it does not say that the data cleared or breached.
InterruptedExits3 == pc = "done" /\ signal = "read" => exit \in {RuntimeFailure, Killed}

\* docs/streaming.md: "A failed output write, broken pipe, scanner error, or
\* interrupted execution returns exit code `3`". Whatever ends a run that began, it
\* returns an exit code of the protocol.
BrokenPipeExits3 == pc = "done" => exit # Killed

\* docs/streaming.md: "A failed output write, broken pipe, scanner error, or
\* interrupted execution returns exit code `3`; these are runtime failures, not
\* data breaches." A line that the input failed in the middle of breaches nothing.
FragmentsBreachNothing ==
  \A k \in DOMAIN out["results"] :
    LET n == out["results"][k].line IN n \in DOMAIN input => input[n].whole

(***************************************************************************)
(* The interrupt                                                           *)
(***************************************************************************)
\* An interrupted run returns even if no more input ever comes. Where it does not, it
\* waits for ever in a Read that closing the input does not end, or in a write to a
\* stream that nobody reads: SIGINT has been taken, and closing the input wakes neither.
InterruptReturns ==
  (signal # "") ~> \/ pc = "done"
                   \/ ~invocation.closable /\ [](pc = "read")
                   \/ []Writing
=============================================================================
