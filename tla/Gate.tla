-------------------------------- MODULE Gate --------------------------------
(***************************************************************************)
(* What a gate promises its host, whatever carries the records: every       *)
(* verdict is a function of the lines read so far, evidence is complete      *)
(* for a line before the next one is read, and the accepted and quarantined  *)
(* outputs are prefixes, in input order, of what the verdicts say.           *)
(*                                                                         *)
(* Nothing here is a translation of one function. The verdicts are stated    *)
(* over the history of lines, with no seen-set, no counter and no pending    *)
(* state, so that the gates of the code (NdjsonGate, BatchGate, CliRun)     *)
(* have something to implement.                                            *)
(***************************************************************************)
EXTENDS Engine

CONSTANTS Requests, Line

VARIABLES
  request,      \* the contract, the policy for invalid lines, the sinks wired
  input,        \* the lines read so far
  accepted,     \* the numbers of the lines handed to the accepted sink
  quarantined,  \* the numbers of the lines handed to the quarantined sink
  evidence,     \* the pairs <<line, rule id>> published
  status        \* "running", "completed", "halted" or "failed"

vars == <<request, input, accepted, quarantined, evidence, status>>

rules == request.contract.rules

\* Line i repeats the key of an earlier line under unique rule r.
Repeats(r, i) ==
  \E j \in 1..(i - 1) : input[j].ok /\ KeysOf(r, input[j].rec) \cap KeysOf(r, input[i].rec) # {}

FlaggedAt(i) ==
  {k \in DOMAIN rules :
     \/ RecordBreach(rules[k], input[i].rec)
     \/ IsUnique(rules[k]) /\ (KeysOf(rules[k], input[i].rec) = {} \/ Repeats(rules[k], i))}

ActionsAt(i) == {rules[k].action : k \in FlaggedAt(i)}

Verdict(i) ==
  IF ~input[i].ok THEN IF request.invalid = "quarantine" THEN "quarantine" ELSE "abort"
  ELSE IF ActionsAt(i) \subseteq {"warn"} THEN "accept"
  ELSE IF "quarantine" \in ActionsAt(i) THEN "quarantine"
  ELSE "drop"

Stops(i) == Verdict(i) = "abort" \/ (input[i].ok /\ "halt" \in ActionsAt(i))

\* The lines up to n that the verdict v sends to the given sink.
Sent(sink, v, n) == {i \in 1..n : sink \in request.sinks /\ Verdict(i) = v}

EvidenceAt(i) ==
  IF "evidence" \notin request.sinks \/ Verdict(i) = "abort" THEN {}
  ELSE IF input[i].ok THEN {<<i, rules[k].id>> : k \in FlaggedAt(i)}
  ELSE {<<i, InputParse>>}

EvidenceUpTo(n) == UNION {EvidenceAt(i) : i \in 1..n}

FinalEvidence ==
  LET n == Len(input)
      parsed == Cardinality({i \in 1..n : input[i].ok})
  IN  IF "evidence" \notin request.sinks THEN {}
      ELSE {<<IF n = 0 THEN 1 ELSE n, rules[k].id>> : k \in FinalBreaches(rules, parsed)}

Stopped == \E i \in DOMAIN input : Stops(i)

Init ==
  /\ request \in Requests
  /\ input = <<>> /\ accepted = {} /\ quarantined = {} /\ evidence = {}
  /\ status = "running"

\* The next line is read once the evidence of the earlier ones is out and
\* none of them stopped the gate.
Take ==
  /\ status = "running" /\ ~Stopped
  /\ evidence = EvidenceUpTo(Len(input))
  /\ \E line \in Line : input' = Append(input, line)
  /\ status' = IF Verdict(Len(input))' = "abort" THEN "failed" ELSE "running"
  /\ UNCHANGED <<request, accepted, quarantined, evidence>>

\* Evidence and outputs advance, together or apart, within what the lines read
\* call for; a gate may fail at any point.
Advance ==
  /\ status = "running"
  /\ evidence' \subseteq EvidenceUpTo(Len(input))
  /\ \E n \in 0..Len(input) : accepted' = Sent("accepted", "accept", n)
  /\ \E n \in 0..Len(input) : quarantined' = Sent("quarantined", "quarantine", n)
  /\ evidence \subseteq evidence' /\ accepted \subseteq accepted' /\ quarantined \subseteq quarantined'
  /\ status' \in {"running", "failed"}
  /\ UNCHANGED <<request, input>>

Delivered ==
  /\ accepted = Sent("accepted", "accept", Len(input))
  /\ quarantined = Sent("quarantined", "quarantine", Len(input))

\* The count rules are reported on a complete stream only.
Conclude ==
  /\ status = "running" /\ ~Stopped /\ Delivered
  /\ EvidenceUpTo(Len(input)) \subseteq evidence
  /\ evidence \subseteq evidence'
  /\ evidence' \subseteq EvidenceUpTo(Len(input)) \cup FinalEvidence
  /\ status' \in {"running", "failed"}
  /\ UNCHANGED <<request, input, accepted, quarantined>>

Complete ==
  /\ status = "running" /\ ~Stopped /\ Delivered
  /\ evidence = EvidenceUpTo(Len(input)) \cup FinalEvidence
  /\ status' = "completed"
  /\ UNCHANGED <<request, input, accepted, quarantined, evidence>>

Halt ==
  /\ status = "running" /\ Stopped /\ Delivered
  /\ evidence = EvidenceUpTo(Len(input))
  /\ status' = "halted"
  /\ UNCHANGED <<request, input, accepted, quarantined, evidence>>

Next == Take \/ Advance \/ Conclude \/ Complete \/ Halt

Spec == Init /\ [][Next]_vars
=============================================================================
