--------------------------- MODULE CliRunRefinement ---------------------------
(***************************************************************************)
(* `actually-fine run` implements the abstract gate, and its exit code tells   *)
(* what Gate's verdicts are.                                                *)
(*                                                                         *)
(* History is the refinement's invariant: what the streams hold is what the    *)
(* verdicts say of the lines read, but for the line in progress. Every step    *)
(* is then a step of Gate or leaves what Gate sees as it was. Exits relates    *)
(* the counters to the same verdicts.                                       *)
(***************************************************************************)
EXTENDS CliRunProofs

(***************************************************************************)
(* Gate states its verdicts with an engine of its own, which is this one.    *)
(***************************************************************************)
LEMMA SameLookup == \A o, path : Promise!Lookup(o, path) = Lookup(o, path)
BY DEF Promise!Lookup, Lookup, Promise!Child, Child, Promise!V, V, Promise!Root, Root

LEMMA SameCardinality == \A S : Promise!Cardinality(S) = Cardinality(S)
BY DEF Promise!Cardinality, Cardinality

LEMMA SameNumbers == \A x : Promise!Float64(x) = Float64(x)
<1>1. \A v : Promise!Spacing(v) = Spacing(v)
  BY DEF Promise!Spacing, Spacing, Promise!Spacings, Spacings, Promise!Magnitude, Magnitude
<1>2. \A v : Promise!Rounded(v) = Rounded(v)
  BY <1>1 DEF Promise!Rounded, Rounded
<1> QED
  BY <1>2 DEF Promise!Float64, Float64

LEMMA SameKeys ==
  /\ \A x, y : Promise!EqualJSON(x, y) = EqualJSON(x, y)
  /\ \A x : Promise!Key(x) = Key(x) /\ Promise!Marshals(x) = Marshals(x)
BY DEF Promise!EqualJSON, EqualJSON, Promise!Marshals, Marshals, Promise!Key, Key, Promise!V, V,
       Promise!Digits, Digits

LEMMA SameFails == \A p, x : Promise!Fails(p, x) = Fails(p, x)
<1> USE DEF Promise!Numeric, Numeric, Promise!Finite, Finite
<1>1. \A y, t : Promise!TypeMatches(y, t) = TypeMatches(y, t)
  BY SameNumbers DEF Promise!TypeMatches, TypeMatches, Promise!IsInteger, IsInteger
<1>2. \A y, q : Promise!BelowMin(y, q) = BelowMin(y, q) /\ Promise!AboveMax(y, q) = AboveMax(y, q)
  BY SameNumbers DEF Promise!BelowMin, BelowMin, Promise!AboveMax, AboveMax
<1> QED
  BY <1>1, <1>2, SameKeys DEF Promise!Fails, Fails, Promise!Missing, Missing, Promise!V, V

LEMMA SameEngine ==
  /\ \A r, o : Promise!RecordBreach(r, o) = RecordBreach(r, o)
  /\ \A r, o : Promise!KeysOf(r, o) = KeysOf(r, o)
  /\ \A r : Promise!IsUnique(r) = IsUnique(r)
  /\ \A rs, n : Promise!FinalBreaches(rs, n) = FinalBreaches(rs, n)
<1>1. \A r, o : Promise!RecordBreach(r, o) = RecordBreach(r, o)
  BY SameLookup, SameFails DEF Promise!RecordBreach, RecordBreach
<1>2. \A r : Promise!IsUnique(r) = IsUnique(r)
  BY DEF Promise!IsUnique, IsUnique
<1>3. \A r, o : Promise!KeysOf(r, o) = KeysOf(r, o)
  BY <1>2, SameLookup, SameKeys DEF Promise!KeysOf, KeysOf, Promise!Comparable, Comparable,
     Promise!Missing, Missing
<1>4. \A rs, n : Promise!FinalBreaches(rs, n) = FinalBreaches(rs, n)
  BY DEF Promise!FinalBreaches, FinalBreaches, Promise!CountBreach, CountBreach, Promise!IsCount, IsCount
<1> QED
  BY <1>1, <1>2, <1>3, <1>4

(***************************************************************************)
(* The invariant: what the streams hold is what the verdicts on the history    *)
(* of lines say, up to the line in progress.                                 *)
(***************************************************************************)
\* What Gate sees of the streams, in whole lines.
Acc == Elems(Intact("valid"))
Quar == Elems(Intact("quarantine"))
Pairs == {<<e.line, e.rule>> : e \in Elems(Intact(Events))}
Sinks == SinksOf(invocation)

Parsed == {n \in 1..Len(input) : input[n].ok}

\* The findings of the rules in ks, all on one line.
Findings(line, ks) ==
  IF "evidence" \in Sinks THEN {<<line, rules[k].id>> : k \in ks} ELSE {}

\* The keys that unique rule r takes from the lines read.
KeysRead(r) == UNION {KeysOf(r, input[n].rec) : n \in Parsed}

\* The checker knows the history and nothing else.
SeenExact ==
  pc \notin {"start", "create", "done"} => \A i \in DOMAIN rules : seen[rules[i].id] = KeysRead(rules[i])

CountExact == count = Cardinality(Parsed)

\* The files hold what the verdicts on the first n lines say.
Routed(n) ==
  /\ Acc = Promise!Sent("accepted", "accept", n)
  /\ Quar = Promise!Sent("quarantined", "quarantine", n)

NoStop(n) == \A m \in 1..n : ~Promise!Stops(m)

\* Before a line is read, and before the first, everything is out.
Waiting ==
  pc \in {"start", "create", "scan", "read"} =>
    Routed(Len(input)) /\ Pairs = Promise!EvidenceUpTo(Len(input)) /\ NoStop(Len(input))

Diverting ==
  pc = "divert" =>
    /\ ~input[Len(input)].ok /\ invocation.invalid = "quarantine"
    /\ Routed(Len(input) - 1) /\ Pairs = Promise!EvidenceUpTo(Len(input) - 1)
    /\ NoStop(Len(input) - 1)

\* The line in progress: its findings are out but for those pending.
InProgress ==
  pc = "report" =>
    /\ input[Len(input)].ok /\ flagged = Promise!FlaggedAt(Len(input))
    /\ Routed(Len(input) - 1)
    /\ Pairs = Promise!EvidenceUpTo(Len(input) - 1) \cup Findings(Len(input), flagged \ pending)
    /\ NoStop(Len(input) - 1)

Ending ==
  pc \in {"end", "final"} =>
    /\ Routed(Len(input))
    /\ counters.halted <=> ~NoStop(Len(input))
    /\ pc = "end" => Pairs = Promise!EvidenceUpTo(Len(input))

Concluding ==
  pc = "final" =>
    /\ flagged = IF interrupted \/ counters.halted THEN {} ELSE FinalBreaches(rules, count)
    /\ Pairs = Promise!EvidenceUpTo(Len(input)) \cup Findings(FinalLine(Len(input)), flagged \ pending)

\* Only Route halts, and it leaves the loop.
Halting == pc \notin {"end", "final", "done"} => ~counters.halted

\* An interrupt has been noticed only where the loop was left.
Noticed == pc \notin {"end", "final", "done"} => ~interrupted

History ==
  /\ SeenExact /\ CountExact
  /\ Waiting /\ Diverting /\ InProgress /\ Ending /\ Concluding /\ Halting /\ Noticed

LEMMA RequestMade ==
  /\ RequestOf(invocation).sinks = Sinks
  /\ RequestOf(invocation).invalid = invocation.invalid
  /\ RequestOf(invocation).contract = Normalize(invocation.contract)
BY DEF RequestOf, Sinks

\* From Begin on the rules in use are those that the verdicts are stated with.
LEMMA RulesInUse ==
  ASSUME Inv, pc \notin {"start", "done"}
  PROVE  Promise!rules = rules
BY ContractInUse, RequestMade DEF Promise!rules, rules

(***************************************************************************)
(* Verdicts on a prefix                                                     *)
(***************************************************************************)
\* They depend on the command line and the lines read up to there.
LEMMA VerdictsStand ==
  ASSUME UNCHANGED <<invocation, input>>
  PROVE  /\ \A n : Promise!FlaggedAt(n)' = Promise!FlaggedAt(n)
         /\ \A n : Promise!Verdict(n)' = Promise!Verdict(n)
         /\ \A n : Promise!Stops(n)' = Promise!Stops(n)
         /\ \A n : Promise!EvidenceAt(n)' = Promise!EvidenceAt(n)
         /\ \A sink, v, n : Promise!Sent(sink, v, n)' = Promise!Sent(sink, v, n)
         /\ \A n : Promise!EvidenceUpTo(n)' = Promise!EvidenceUpTo(n)
<1>1. \A n : Promise!FlaggedAt(n)' = Promise!FlaggedAt(n)
  BY DEF Promise!FlaggedAt, Promise!Repeats, Promise!rules
<1>2. \A n : Promise!ActionsAt(n)' = Promise!ActionsAt(n)
  BY <1>1 DEF Promise!ActionsAt, Promise!rules
<1>3. \A n : Promise!Verdict(n)' = Promise!Verdict(n)
  BY <1>2 DEF Promise!Verdict
<1>4. \A n : Promise!Stops(n)' = Promise!Stops(n)
  BY <1>2, <1>3 DEF Promise!Stops
<1>5. \A n : Promise!EvidenceAt(n)' = Promise!EvidenceAt(n)
  BY <1>1, <1>3 DEF Promise!EvidenceAt, Promise!rules, Promise!InputParse
<1>6. \A sink, v, n : Promise!Sent(sink, v, n)' = Promise!Sent(sink, v, n)
  BY <1>3 DEF Promise!Sent
<1>7. \A n : Promise!EvidenceUpTo(n)' = Promise!EvidenceUpTo(n)
  BY <1>5 DEF Promise!EvidenceUpTo
<1> QED
  BY <1>1, <1>3, <1>4, <1>5, <1>6, <1>7

\* A further line changes none of the verdicts on the lines before it.
LEMMA VerdictsOnPrefix ==
  ASSUME input \in Seq(LineType), NEW line \in LineType,
         input' = Append(input, line), invocation' = invocation,
         NEW N \in Nat, N <= Len(input)
  PROVE  /\ \A n \in 1..N :
              /\ Promise!FlaggedAt(n)' = Promise!FlaggedAt(n)
              /\ Promise!Verdict(n)' = Promise!Verdict(n)
              /\ Promise!Stops(n)' = Promise!Stops(n)
              /\ Promise!EvidenceAt(n)' = Promise!EvidenceAt(n)
         /\ \A sink, v : Promise!Sent(sink, v, N)' = Promise!Sent(sink, v, N)
         /\ Promise!EvidenceUpTo(N)' = Promise!EvidenceUpTo(N)
<1>0. \A n \in 1..N : input'[n] = input[n]
  OBVIOUS
<1>1. ASSUME NEW n \in 1..N PROVE Promise!FlaggedAt(n)' = Promise!FlaggedAt(n)
  <2>1. \A j \in 1..(n - 1) : j \in 1..N
    OBVIOUS
  <2>2. \A r : Promise!Repeats(r, n)' = Promise!Repeats(r, n)
    BY <1>0, <2>1 DEF Promise!Repeats
  <2> QED
    BY <1>0, <2>2 DEF Promise!FlaggedAt, Promise!rules
<1>2. \A n \in 1..N : Promise!ActionsAt(n)' = Promise!ActionsAt(n)
  BY <1>1 DEF Promise!ActionsAt, Promise!rules
<1>3. \A n \in 1..N : Promise!Verdict(n)' = Promise!Verdict(n)
  BY <1>0, <1>2 DEF Promise!Verdict
<1>4. \A n \in 1..N : Promise!Stops(n)' = Promise!Stops(n)
  BY <1>0, <1>2, <1>3 DEF Promise!Stops
<1>5. \A n \in 1..N : Promise!EvidenceAt(n)' = Promise!EvidenceAt(n)
  BY <1>0, <1>1, <1>3 DEF Promise!EvidenceAt, Promise!rules, Promise!InputParse
<1>6. \A sink, v : Promise!Sent(sink, v, N)' = Promise!Sent(sink, v, N)
  BY <1>3 DEF Promise!Sent
<1>7. Promise!EvidenceUpTo(N)' = Promise!EvidenceUpTo(N)
  BY <1>5 DEF Promise!EvidenceUpTo
<1> QED
  BY <1>1, <1>3, <1>4, <1>5, <1>6, <1>7

\* One line further.
LEMMA NextPrefix ==
  ASSUME NEW n \in Nat \ {0}
  PROVE  /\ Promise!EvidenceUpTo(n) = Promise!EvidenceUpTo(n - 1) \cup Promise!EvidenceAt(n)
         /\ \A sink, v : Promise!Sent(sink, v, n) =
              Promise!Sent(sink, v, n - 1)
                \cup (IF sink \in Sinks /\ Promise!Verdict(n) = v THEN {n} ELSE {})
         /\ NoStop(n) <=> NoStop(n - 1) /\ ~Promise!Stops(n)
<1>1. 1..n = (1..(n - 1)) \cup {n}
  OBVIOUS
<1>2. Promise!EvidenceUpTo(n) = Promise!EvidenceUpTo(n - 1) \cup Promise!EvidenceAt(n)
  BY <1>1 DEF Promise!EvidenceUpTo
<1>3. ASSUME NEW sink, NEW v
      PROVE  Promise!Sent(sink, v, n) =
               Promise!Sent(sink, v, n - 1)
                 \cup (IF sink \in Sinks /\ Promise!Verdict(n) = v THEN {n} ELSE {})
  BY <1>1, RequestMade DEF Promise!Sent
<1>4. NoStop(n) <=> NoStop(n - 1) /\ ~Promise!Stops(n)
  BY <1>1 DEF NoStop
<1> QED
  BY <1>2, <1>3, <1>4

LEMMA NothingYet ==
  /\ Promise!EvidenceUpTo(0) = {}
  /\ \A sink, v : Promise!Sent(sink, v, 0) = {}
  /\ NoStop(0)
BY DEF Promise!EvidenceUpTo, Promise!Sent, NoStop

LEMMA ElemsAppend ==
  ASSUME NEW S, NEW s \in Seq(S), NEW e \in S
  PROVE  Elems(Append(s, e)) = Elems(s) \cup {e}
<1>1. /\ DOMAIN Append(s, e) = DOMAIN s \cup {Len(s) + 1}
      /\ \A k \in DOMAIN s : Append(s, e)[k] = s[k]
      /\ Append(s, e)[Len(s) + 1] = e
  OBVIOUS
<1> QED
  BY <1>1 DEF Elems

(***************************************************************************)
(* What Gate sees of a step                                                 *)
(***************************************************************************)
LEMMA Stutters ==
  ASSUME pc # "done", pc' # "done", UNCHANGED <<invocation, input, out, torn>>
  PROVE  UNCHANGED Promise!vars
<1>1. \A s : Intact(s)' = Intact(s)
  BY DEF Intact
<1>2. Events' = Events
  BY DEF Events, Wired
<1>3. Intact(Events)' = Intact(Events)
  BY <1>2 DEF Intact
<1> QED
  BY <1>1, <1>3 DEF Promise!vars

LEMMA Advances ==
  ASSUME pc # "done", pc' # "done" \/ exit' \notin {Cleared, Breach}, UNCHANGED <<invocation, input>>,
         input \in Seq(LineType),
         Pairs \subseteq Pairs', Pairs' \subseteq Promise!EvidenceUpTo(Len(input)),
         Acc \subseteq Acc', Quar \subseteq Quar',
         NEW n \in 0..Len(input), Acc' = Promise!Sent("accepted", "accept", n),
         NEW m \in 0..Len(input), Quar' = Promise!Sent("quarantined", "quarantine", m)
  PROVE  Promise!Next
<1>1. Promise!Advance
  BY DEF Promise!Advance, Pairs, Acc, Quar
<1> QED
  BY <1>1 DEF Promise!Next

\* The sinks of the request are the streams that are wired.
LEMMA SinksWired ==
  ASSUME Inv
  PROVE  /\ "accepted" \in Sinks <=> "valid" \in Wired
         /\ "quarantined" \in Sinks <=> "quarantine" \in Wired
         /\ "evidence" \in Sinks <=> Events \in Wired
         /\ Events \in {"results", "stdout"} /\ Events \in Streams
<1>1. invocation.outputs \subseteq {"valid", "quarantine", "results"}
  BY DEF Inv, TypeOK, ControlType, InvocationType, Files
<1>2. /\ \A f \in {"valid", "quarantine", "results"} : f \in Wired <=> f \in invocation.outputs
      /\ "stdout" \in Wired <=> invocation.format = "jsonl"
  BY <1>1 DEF Wired
<1> QED
  BY <1>2 DEF Sinks, SinksOf, Events, Streams, Files

\* The whole lines of a stream after a write.
LEMMA LinesWritten ==
  ASSUME Inv, pc # "done", NEW items, Writable(items), NEW where,
         NEW done, NEW cut, Wrote(items, where, done, cut), NEW s \in Streams
  PROVE  Elems(Intact(s)') = Elems(Intact(s)) \cup (IF s \in done \ cut THEN {items[s]} ELSE {})
<1>1. torn = {} /\ DOMAIN out = Streams
  BY DEF Inv, Unfinished, Abreast
<1>2. out[s] \in Seq(Item(s)) /\ (s \in DOMAIN items => items[s] \in Item(s))
  BY StreamTypes DEF Writable
<1>3. /\ Intact(s) = out[s]
      /\ Intact(s)' = IF s \in done /\ s \notin cut THEN Append(out[s], items[s]) ELSE out[s]
  BY <1>1, <1>2, StreamWritten
<1>4. CASE s \in done \ cut
  <2>1. items[s] \in Item(s)
    BY <1>2, <1>4 DEF Wrote
  <2>2. Elems(Append(out[s], items[s])) = Elems(out[s]) \cup {items[s]}
    BY <1>2, <2>1, ElemsAppend
  <2> QED
    BY <1>3, <1>4, <2>2
<1>5. CASE s \notin done \ cut
  BY <1>3, <1>5
<1> QED
  BY <1>4, <1>5

\* What Gate sees of a write that brings the items in full to the given streams.
Viewed(items, full) ==
  /\ Acc' = Acc \cup (IF "valid" \in full THEN {items["valid"]} ELSE {})
  /\ Quar' = Quar \cup (IF "quarantine" \in full THEN {items["quarantine"]} ELSE {})
  /\ Pairs' = Pairs \cup (IF Events \in full THEN {<<items[Events].line, items[Events].rule>>} ELSE {})
  /\ pc' # "done" => full = DOMAIN items
  /\ pc' = "done" => exit' \notin {Cleared, Breach}
  /\ full \subseteq DOMAIN items

LEMMA ViewWritten ==
  ASSUME Inv, pc # "done", NEW items, Writable(items), NEW where, where # "done",
         NEW done, NEW cut, Wrote(items, where, done, cut), UNCHANGED invocation
  PROVE  Viewed(items, done \ cut)
<1>1. "valid" \in Streams /\ "quarantine" \in Streams /\ Events \in Streams
  BY SinksWired DEF Streams, Files
<1>2. Elems(Intact("valid")') = Acc \cup (IF "valid" \in done \ cut THEN {items["valid"]} ELSE {})
  BY <1>1, LinesWritten DEF Acc
<1>3. Elems(Intact("quarantine")') = Quar \cup (IF "quarantine" \in done \ cut THEN {items["quarantine"]} ELSE {})
  BY <1>1, LinesWritten DEF Quar
<1>4. PICK E : E = Events
  OBVIOUS
<1>5. Elems(Intact(E)') = Elems(Intact(E)) \cup (IF E \in done \ cut THEN {items[E]} ELSE {})
  BY <1>1, <1>4, LinesWritten
<1>6. Events' = E
  BY <1>4 DEF Events, Wired
<1>7. Intact(Events)' = Intact(E)'
  BY <1>6 DEF Intact
<1>8. Pairs' = {<<e.line, e.rule>> : e \in Elems(Intact(E)')}
  BY <1>7 DEF Pairs
<1>9. Pairs = {<<e.line, e.rule>> : e \in Elems(Intact(E))}
  BY <1>4 DEF Pairs
<1>10. Pairs' = Pairs \cup (IF Events \in done \ cut
                              THEN {<<items[Events].line, items[Events].rule>>} ELSE {})
  BY <1>4, <1>5, <1>8, <1>9
<1>11. /\ pc' # "done" => done \ cut = DOMAIN items
       /\ pc' = "done" => exit' \notin {Cleared, Breach}
       /\ done \ cut \subseteq DOMAIN items
  BY DEF Wrote, Cleared, Breach, RuntimeFailure, Killed
<1> QED
  BY <1>2, <1>3, <1>10, <1>11 DEF Viewed, Acc, Quar

\* Steps that leave the checker and what it has read alone.
LEMMA CheckerUndisturbed ==
  ASSUME SeenExact, CountExact, UNCHANGED <<invocation, contract, input, checker>>,
         pc \notin {"start", "create", "done"} \/ pc' \in {"start", "create", "done"}
  PROVE  SeenExact' /\ CountExact'
<1>1. rules' = rules /\ Parsed' = Parsed /\ \A r : KeysRead(r)' = KeysRead(r)
  BY DEF rules, Parsed, KeysRead
<1> QED
  BY <1>1 DEF SeenExact, CountExact, checker

LEMMA InitHistory == Init => History /\ Promise!Init
<1> SUFFICES ASSUME Init PROVE History /\ Promise!Init
  OBVIOUS
<1>0. Elems(<<>>) = {}
  <2>1. DOMAIN <<>> = {}
    OBVIOUS
  <2> QED
    BY <2>1 DEF Elems
<1>1. Len(input) = 0 /\ \A s \in Streams : Elems(Intact(s)) = {}
  BY <1>0 DEF Init, Intact
<1>2. "valid" \in Streams /\ "quarantine" \in Streams /\ Events \in Streams
  BY DEF Streams, Files, Events
<1>3. Parsed = {} /\ Pairs = {} /\ Acc = {} /\ Quar = {}
  BY <1>1, <1>2 DEF Parsed, Pairs, Acc, Quar
<1>4. Cardinality(Parsed) = 0
  BY <1>3, FS_EmptySet, Zenon
<1>5. SeenExact /\ CountExact
  BY <1>4 DEF Init, SeenExact, CountExact
<1>6. Waiting
  BY <1>1, <1>3, NothingYet DEF Waiting, Routed
<1>7. Diverting /\ InProgress /\ Ending /\ Concluding /\ Halting /\ Noticed
  BY DEF Init, Diverting, InProgress, Ending, Concluding, Halting, Noticed, ZeroSummary
<1>8. Promise!Init
  <2>1. RequestOf(invocation) \in {RequestOf(q) : q \in Invocations}
    BY DEF Init
  <2>2. input = <<>> /\ pc # "done"
    BY DEF Init
  <2> QED
    BY <1>3, <2>1, <2>2 DEF Promise!Init, Pairs, Acc, Quar
<1> QED
  BY <1>5, <1>6, <1>7, <1>8 DEF History

(***************************************************************************)
(* Steps that neither read nor write                                        *)
(***************************************************************************)
Implemented == History' /\ [Promise!Next]_Promise!vars

\* What the streams and the verdicts say of n lines is not disturbed.
LEMMA HistoryStands ==
  ASSUME UNCHANGED <<invocation, input, out, torn>>
  PROVE  /\ \A n : Routed(n)' = Routed(n)
         /\ \A n : NoStop(n)' = NoStop(n)
         /\ Pairs' = Pairs /\ Acc' = Acc /\ Quar' = Quar
         /\ \A n : Promise!EvidenceUpTo(n)' = Promise!EvidenceUpTo(n)
         /\ \A n : Promise!FlaggedAt(n)' = Promise!FlaggedAt(n)
<1>1. Acc' = Acc /\ Quar' = Quar
  BY DEF Acc, Quar, Intact
<1>2. Events' = Events
  BY DEF Events, Wired
<1>3. Intact(Events)' = Intact(Events)
  BY <1>2 DEF Intact
<1>4. Pairs' = Pairs
  BY <1>3 DEF Pairs
<1>5. \A n : Routed(n)' = Routed(n)
  BY <1>1, VerdictsStand DEF Routed
<1>6. \A n : NoStop(n)' = NoStop(n)
  BY VerdictsStand DEF NoStop
<1> QED
  BY <1>1, <1>4, <1>5, <1>6, VerdictsStand

\* A run that fails between two lines leaves the streams as they are.
LEMMA QuitImplements == ASSUME Inv, History, Quits PROVE Implemented
<1>1. /\ pc \in {"start", "create", "end"} /\ pc' = "done" /\ exit' \notin {Cleared, Breach}
      /\ UNCHANGED <<invocation, contract, input, seen, count, out, torn>>
  BY DEF Quits, checker, streams, Cleared, Breach, InvalidContract, RuntimeFailure, Interrupted
<1>2. History'
  <2>1. SeenExact' /\ CountExact'
    BY <1>1, CheckerUndisturbed DEF History, checker
  <2> QED
    BY <1>1, <2>1 DEF History, Waiting, Diverting, InProgress, Ending, Concluding, Halting, Noticed
<1>3. Routed(Len(input)) /\ Pairs = Promise!EvidenceUpTo(Len(input))
  BY <1>1 DEF History, Waiting, Ending
<1>4. Pairs' = Pairs /\ Acc' = Acc /\ Quar' = Quar
  BY <1>1, HistoryStands
<1>5. Len(input) \in 0..Len(input) /\ input \in Seq(LineType)
  <2>1. input \in Seq(LineType)
    BY DEF Inv, TypeOK, CheckerType
  <2>2. Len(input) \in Nat
    BY <2>1
  <2> QED
    BY <2>1, <2>2
<1>6. Promise!Next
  BY <1>1, <1>3, <1>4, <1>5, Advances DEF Routed
<1> QED
  BY <1>2, <1>6 DEF Implemented

LEMMA ContinueImplements == ASSUME Inv, History, pc # "done", Continues PROVE Implemented
<1>1. UNCHANGED <<invocation, input, count, flagged, pending, interrupted, counters, out, torn>>
  BY DEF Continues
<1>2. \/ pc' = pc /\ UNCHANGED <<contract, seen>>
      \/ pc = "scan" /\ pc' = "read" /\ UNCHANGED <<contract, seen>>
      \/ pc \in {"start", "create"} /\ pc' = "create"
      \/ pc = "create" /\ pc' = "scan" /\ UNCHANGED contract /\ seen' = NoneSeen(rules)
  BY DEF Continues
<1>3. pc' # "done"
  BY <1>2
<1>4. SeenExact'
  <2>1. CASE pc' = "create"
    BY <2>1 DEF SeenExact
  <2>2. CASE pc' = pc \/ (pc = "scan" /\ pc' = "read" /\ UNCHANGED <<contract, seen>>)
    <3>1. CASE pc' = "create"
      BY <3>1 DEF SeenExact
    <3>2. CASE pc' # "create"
      <4>1. UNCHANGED <<contract, seen>>
        BY <1>2, <2>2, <3>2
      <4>2. CASE pc' \in {"start", "create", "done"}
        BY <4>2 DEF SeenExact
      <4>3. CASE pc' \notin {"start", "create", "done"}
        BY <1>1, <2>2, <4>1, <4>3, CheckerUndisturbed DEF History, checker
      <4> QED
        BY <4>2, <4>3
    <3> QED
      BY <3>1, <3>2
  <2>3. CASE pc = "create" /\ pc' = "scan" /\ UNCHANGED contract /\ seen' = NoneSeen(rules)
    <3>1. input = <<>> /\ rules' = rules
      BY <2>3 DEF Inv, Numbered, rules
    <3>2. \A r : KeysRead(r)' = {}
      BY <1>1, <3>1 DEF Parsed, KeysRead
    <3>3. \A i \in DOMAIN rules : seen'[rules[i].id] = {}
      BY <2>3 DEF NoneSeen, RuleIds
    <3> QED
      BY <3>1, <3>2, <3>3 DEF SeenExact
  <2> QED
    BY <1>2, <2>1, <2>2, <2>3
<1>5. CountExact'
  BY <1>1 DEF History, CountExact, Parsed
<1>6. Waiting'
  BY <1>1, <1>2, HistoryStands DEF History, Waiting
<1>7. (Diverting /\ Ending /\ Halting /\ Noticed)'
  BY <1>1, <1>2, HistoryStands DEF History, Diverting, Ending, Halting, Noticed
<1>8. InProgress' /\ Concluding'
  <2>1. CASE pc' \in {"report", "final"}
    <3>1. pc' = pc /\ UNCHANGED contract
      BY <1>2, <2>1
    <3>2. \A n, ks : Findings(n, ks)' = Findings(n, ks)
      BY <1>1, <3>1 DEF Findings, Sinks, rules
    <3>3. Findings(Len(input), flagged \ pending)' = Findings(Len(input), flagged \ pending)
          /\ Findings(FinalLine(Len(input)), flagged \ pending)' = Findings(FinalLine(Len(input)), flagged \ pending)
      BY <1>1, <3>1 DEF Findings, Sinks, rules
    <3>4. InProgress'
      BY <1>1, <3>1, <3>3, HistoryStands DEF History, InProgress
    <3>5. rules' = rules
      BY <3>1 DEF rules
    <3>6. Concluding'
      BY <1>1, <3>1, <3>3, <3>5, HistoryStands DEF History, Concluding
    <3> QED
      BY <3>4, <3>6
  <2>2. CASE pc' \notin {"report", "final"}
    BY <2>2 DEF InProgress, Concluding
  <2> QED
    BY <2>1, <2>2
<1>9. UNCHANGED Promise!vars
  BY <1>1, <1>3, Stutters
<1> QED
  BY <1>4, <1>5, <1>6, <1>7, <1>8, <1>9 DEF Implemented, History

LEMMA StopImplements == ASSUME Inv, History, StopsReading PROVE Implemented
<1>1. /\ pc \in {"scan", "read"} /\ pc' = "end"
      /\ UNCHANGED <<invocation, contract, input, checker, counters, out, torn>>
  BY DEF StopsReading, GoTo, streams, world
<1>2. SeenExact' /\ CountExact'
  BY <1>1, CheckerUndisturbed DEF History
<1>3. Ending'
  BY <1>1, HistoryStands DEF History, Waiting, Halting, Ending
<1>4. (Waiting /\ Diverting /\ InProgress /\ Concluding /\ Halting /\ Noticed)'
  BY <1>1 DEF Waiting, Diverting, InProgress, Concluding, Halting, Noticed
<1>5. UNCHANGED Promise!vars
  BY <1>1, Stutters
<1> QED
  BY <1>2, <1>3, <1>4, <1>5 DEF Implemented, History

LEMMA FinalizeImplements == ASSUME Inv, History, Finalize PROVE Implemented
<1>1. /\ pc = "end" /\ pc' = "final"
      /\ UNCHANGED <<invocation, contract, input, checker, interrupted, counters, out, torn>>
      /\ flagged' = (IF interrupted \/ counters.halted THEN {} ELSE FinalBreaches(rules, count))
      /\ pending' = flagged'
  BY DEF Finalize, GoTo, streams, world
<1>2. SeenExact' /\ CountExact'
  BY <1>1, CheckerUndisturbed DEF History
<1>3. Ending'
  BY <1>1, HistoryStands DEF History, Ending
<1>4. Concluding'
  <2>1. Findings(FinalLine(Len(input)), flagged' \ pending') = {}
    BY <1>1 DEF Findings
  <2>2. Pairs = Promise!EvidenceUpTo(Len(input))
    BY <1>1 DEF History, Ending
  <2>3. Findings(FinalLine(Len(input)), flagged \ pending)'
          = Findings(FinalLine(Len(input)), flagged' \ pending')
    BY <1>1 DEF Findings, FinalLine, rules, Sinks
  <2>4. rules' = rules /\ count' = count
    BY <1>1 DEF checker, rules
  <2>5. flagged' = (IF interrupted' \/ counters'.halted THEN {} ELSE FinalBreaches(rules', count'))
    BY <1>1, <2>4
  <2>6. /\ Pairs' = Pairs
        /\ Promise!EvidenceUpTo(Len(input))' = Promise!EvidenceUpTo(Len(input))
    BY <1>1, HistoryStands
  <2> QED
    BY <2>1, <2>2, <2>3, <2>5, <2>6 DEF Concluding
<1>5. (Waiting /\ Diverting /\ InProgress /\ Halting /\ Noticed)'
  BY <1>1 DEF Waiting, Diverting, InProgress, Halting, Noticed
<1>6. UNCHANGED Promise!vars
  BY <1>1, Stutters
<1> QED
  BY <1>2, <1>3, <1>4, <1>5, <1>6 DEF Implemented, History

LEMMA ReturnImplements == ASSUME Inv, History, ReturnStatus PROVE Implemented
<1>1. /\ pc = "final" /\ pc' = "done" /\ pending = {}
      /\ UNCHANGED <<invocation, contract, input, checker, flagged, interrupted, counters, out, torn>>
      /\ exit' \in {ExitStatus, Killed}
  BY DEF ReturnStatus, Exit, progress, streams, world, checker
<1>2. History'
  <2>1. SeenExact' /\ CountExact'
    BY <1>1, CheckerUndisturbed DEF History
  <2> QED
    BY <1>1, <2>1 DEF History, Waiting, Diverting, InProgress, Ending, Concluding, Halting, Noticed
<1>3. Routed(Len(input)) /\ (counters.halted <=> ~NoStop(Len(input)))
  BY <1>1 DEF History, Ending
<1>4. Acc' = Acc /\ Quar' = Quar /\ Pairs' = Pairs
  BY <1>1, HistoryStands
<1>5. Len(input) \in Nat /\ DOMAIN input = 1..Len(input) /\ input \in Seq(LineType)
      /\ Len(input) \in 0..Len(input)
  <2>1. input \in Seq(LineType)
    BY DEF Inv, TypeOK, CheckerType
  <2>2. Len(input) \in Nat
    BY <2>1
  <2> QED
    BY <2>1, <2>2
<1>6. /\ Promise!Delivered /\ (Promise!Stopped <=> counters.halted)
  BY <1>3, <1>5 DEF Promise!Delivered, Promise!Stopped, Routed, NoStop, Acc, Quar
<1>7. interrupted \/ counters.halted => Pairs = Promise!EvidenceUpTo(Len(input))
  <2>1. interrupted \/ counters.halted => Findings(FinalLine(Len(input)), flagged \ pending) = {}
    BY <1>1 DEF History, Concluding, Findings
  <2> QED
    BY <1>1, <2>1 DEF History, Concluding
<1>8. ~interrupted /\ ~counters.halted => Pairs = Promise!EvidenceUpTo(Len(input)) \cup Promise!FinalEvidence
  <2> SUFFICES ASSUME ~interrupted, ~counters.halted
               PROVE  Pairs = Promise!EvidenceUpTo(Len(input)) \cup Promise!FinalEvidence
    OBVIOUS
  <2>1. flagged \ pending = FinalBreaches(rules, Cardinality(Parsed))
    BY <1>1 DEF History, Concluding, CountExact
  <2>2. FinalLine(Len(input)) = IF Len(input) = 0 THEN 1 ELSE Len(input)
    BY <1>5 DEF FinalLine
  <2>3. Promise!rules = rules
    BY <1>1, RulesInUse
  <2>4. Findings(FinalLine(Len(input)), flagged \ pending) = Promise!FinalEvidence
    BY <2>1, <2>2, <2>3, SameEngine, SameCardinality, RequestMade
       DEF Findings, Promise!FinalEvidence, Parsed
  <2> QED
    BY <1>1, <2>4 DEF History, Concluding
<1>9. CASE exit' \in {Cleared, Breach}
  <2>1. ~interrupted
    BY <1>1, <1>9 DEF ExitStatus, Cleared, Breach, RuntimeFailure, Killed
  <2>2. CASE counters.halted
    <3>1. Promise!Halt
      BY <1>1, <1>4, <1>6, <1>7, <1>9, <2>2 DEF Promise!Halt, Pairs, Acc, Quar
    <3> QED
      BY <1>2, <3>1 DEF Implemented, Promise!Next
  <2>3. CASE ~counters.halted
    <3>1. Promise!Complete
      BY <1>1, <1>4, <1>6, <1>8, <1>9, <2>1, <2>3 DEF Promise!Complete, Pairs, Acc, Quar
    <3> QED
      BY <1>2, <3>1 DEF Implemented, Promise!Next
  <2> QED
    BY <2>2, <2>3
<1>10. CASE exit' \notin {Cleared, Breach}
  <2>1. CASE Pairs = Promise!EvidenceUpTo(Len(input))
    <3>1. Promise!Next
      BY <1>1, <1>3, <1>4, <1>5, <1>10, <2>1, Advances DEF Routed
    <3> QED
      BY <1>2, <3>1 DEF Implemented
  <2>2. CASE ~counters.halted /\ Pairs = Promise!EvidenceUpTo(Len(input)) \cup Promise!FinalEvidence
    <3>1. Promise!Conclude
      BY <1>1, <1>4, <1>6, <1>10, <2>2 DEF Promise!Conclude, Pairs, Acc, Quar
    <3> QED
      BY <1>2, <3>1 DEF Implemented, Promise!Next
  <2> QED
    BY <1>7, <1>8, <2>1, <2>2
<1> QED
  BY <1>9, <1>10
(***************************************************************************)
(* Reading a line                                                          *)
(***************************************************************************)
LEMMA ParsedGrows ==
  ASSUME input \in Seq(LineType), NEW line \in LineType, input' = Append(input, line)
  PROVE  /\ Parsed' = Parsed \cup (IF line.ok THEN {Len(input) + 1} ELSE {})
         /\ \A r : KeysRead(r)' = KeysRead(r) \cup (IF line.ok THEN KeysOf(r, line.rec) ELSE {})
         /\ Cardinality(Parsed') = Cardinality(Parsed) + (IF line.ok THEN 1 ELSE 0)
<1>1. /\ Len(input) \in Nat /\ Len(input') = Len(input) + 1
      /\ \A n \in 1..Len(input) : input'[n] = input[n]
      /\ input'[Len(input) + 1] = line
      /\ 1..(Len(input) + 1) = (1..Len(input)) \cup {Len(input) + 1}
  OBVIOUS
<1>2. Parsed' = Parsed \cup (IF line.ok THEN {Len(input) + 1} ELSE {})
  BY <1>1 DEF Parsed
<1>3. IsFiniteSet(Parsed) /\ Len(input) + 1 \notin Parsed
  <2>1. IsFiniteSet(1..Len(input))
    <3>1. 1 \in Int /\ Len(input) \in Int
      BY <1>1
    <3> QED
      BY <3>1, FS_Interval
  <2>2. Parsed \subseteq 1..Len(input)
    BY DEF Parsed
  <2>3. IsFiniteSet(Parsed)
    BY <2>1, <2>2, FS_Subset
  <2> QED
    BY <1>1, <2>3 DEF Parsed
<1>4. Cardinality(Parsed) \in Nat
  BY <1>3, FS_CardinalityType
<1>5. Cardinality(Parsed \cup {Len(input) + 1}) = Cardinality(Parsed) + 1
  BY <1>3, FS_AddElement
<1>6. Cardinality(Parsed') = Cardinality(Parsed) + (IF line.ok THEN 1 ELSE 0)
  <2>1. CASE line.ok
    BY <1>2, <1>5, <2>1
  <2>2. CASE ~line.ok
    <3>1. Parsed' = Parsed
      BY <1>2, <2>2
    <3> QED
      BY <1>4, <2>2, <3>1
  <2> QED
    BY <2>1, <2>2
<1>7. ASSUME NEW r
      PROVE  KeysRead(r)' = KeysRead(r) \cup (IF line.ok THEN KeysOf(r, line.rec) ELSE {})
  <2>1. \A n \in Parsed : input'[n] = input[n]
    BY <1>1 DEF Parsed
  <2>2. KeysRead(r)' = UNION {KeysOf(r, input'[n].rec) : n \in Parsed'}
    BY DEF KeysRead
  <2>3. CASE line.ok
    <3>1. {KeysOf(r, input'[n].rec) : n \in Parsed'}
            = {KeysOf(r, input[n].rec) : n \in Parsed} \cup {KeysOf(r, line.rec)}
      <4>1. PICK k : Parsed' = Parsed \cup {k} /\ input'[k] = line
        BY <1>1, <1>2, <2>3
      <4> QED
        BY <2>1, <4>1
    <3> QED
      BY <2>2, <2>3, <3>1 DEF KeysRead
  <2>4. CASE ~line.ok
    <3>1. {KeysOf(r, input'[n].rec) : n \in Parsed'} = {KeysOf(r, input[n].rec) : n \in Parsed}
      BY <1>2, <2>1, <2>4
    <3> QED
      BY <2>2, <2>4, <3>1 DEF KeysRead
  <2> QED
    BY <2>3, <2>4
<1> QED
  BY <1>2, <1>6, <1>7

\* What Check finds is the verdict on the line.
LEMMA CheckJudges ==
  ASSUME Inv, History, NEW line \in Line \cup {Fragment}, Takes(line), line.ok,
         NEW n \in Nat, n = Len(input) + 1
  PROVE  flagged' = Promise!FlaggedAt(n)'
<1>0. pc \in {"scan", "read"} /\ UNCHANGED <<invocation, contract>>
  BY DEF Takes, world
<1>1. /\ line \in LineType /\ input \in Seq(LineType) /\ input' = Append(input, line)
      /\ rules \in Seq(Rules) /\ IdsUnique(rules)
  BY <1>0, FragmentType, ContractInUse DEF Inv, TypeOK, CheckerType, Takes
<1>2. /\ input'[n] = line /\ \A m \in 1..(n - 1) : input'[m] = input[m]
      /\ 1..(n - 1) = 1..Len(input)
  BY <1>1
<1>3. \A r : (\E m \in Parsed : KeysOf(r, input[m].rec) \cap KeysOf(r, line.rec) # {}) <=>
        \E m \in 1..(n - 1) :
          input'[m].ok /\ KeysOf(r, input'[m].rec) \cap KeysOf(r, input'[n].rec) # {}
  BY <1>2 DEF Parsed
<1>4. ASSUME NEW i \in DOMAIN rules
      PROVE  UniqueBreach(rules, seen, i, line.rec) <=>
               /\ IsUnique(rules[i])
               /\ \/ KeysOf(rules[i], line.rec) = {}
                  \/ \E m \in Parsed : KeysOf(rules[i], input[m].rec) \cap KeysOf(rules[i], line.rec) # {}
  <2>1. SeenBy(rules, seen, i, line.rec) = seen[rules[i].id]
    BY <1>1, OwnKeys
  <2>2. seen[rules[i].id] = UNION {KeysOf(rules[i], input[m].rec) : m \in Parsed}
    BY <1>0 DEF History, SeenExact, KeysRead
  <2> QED
    BY <2>1, <2>2 DEF UniqueBreach
<1>5. Promise!FlaggedAt(n)' =
        {i \in DOMAIN rules :
           \/ RecordBreach(rules[i], line.rec)
           \/ /\ IsUnique(rules[i])
              /\ \/ KeysOf(rules[i], line.rec) = {}
                 \/ \E m \in Parsed : KeysOf(rules[i], input[m].rec) \cap KeysOf(rules[i], line.rec) # {}}
  <2>1. Promise!rules' = rules
    <3>1. Promise!rules = rules
      BY <1>0, RulesInUse
    <3>2. Promise!rules' = Promise!rules
      BY <1>0 DEF Promise!rules
    <3> QED
      BY <3>1, <3>2
  <2>2. Promise!FlaggedAt(n)' =
          {i \in DOMAIN rules :
             \/ RecordBreach(rules[i], input'[n].rec)
             \/ /\ IsUnique(rules[i])
                /\ \/ KeysOf(rules[i], input'[n].rec) = {}
                   \/ \E m \in 1..(n - 1) :
                        /\ input'[m].ok
                        /\ KeysOf(rules[i], input'[m].rec) \cap KeysOf(rules[i], input'[n].rec) # {}}
    BY <2>1, SameEngine DEF Promise!FlaggedAt, Promise!Repeats
  <2> QED
    BY <1>2, <1>3, <2>2
<1>6. flagged' = Violated(rules, seen, line.rec)
  BY DEF Takes
<1> QED
  BY <1>4, <1>5, <1>6 DEF Violated

\* The next line is taken when everything before it is out.
LEMMA LineTaken ==
  ASSUME Inv, History, NEW line \in Line \cup {Fragment}, Takes(line),
         NEW N \in Nat, N = Len(input)
  PROVE  /\ Len(input') = N + 1 /\ input'[N + 1] = line /\ line \in LineType
         /\ input' = Append(input, line) /\ rules' = rules
         /\ Routed(N)' /\ NoStop(N)' /\ Pairs' = Promise!EvidenceUpTo(N)'
         /\ Promise!Next
<1>1. /\ pc \in {"scan", "read"} /\ line \in LineType /\ input \in Seq(LineType)
      /\ input' = Append(input, line) /\ UNCHANGED <<invocation, contract, out, torn>> /\ rules' = rules
  BY FragmentType DEF Takes, Inv, TypeOK, CheckerType, world, streams, rules
<1>2. Len(input') = N + 1 /\ input'[N + 1] = line /\ DOMAIN input = 1..N
  BY <1>1
<1>3. Routed(N) /\ NoStop(N) /\ Pairs = Promise!EvidenceUpTo(N)
  BY <1>1 DEF History, Waiting
<1>4. UNCHANGED <<Acc, Quar, Pairs>>
  <2>1. Events' = Events
    BY <1>1 DEF Events, Wired
  <2>2. Intact(Events)' = Intact(Events)
    BY <1>1, <2>1 DEF Intact
  <2> QED
    BY <1>1, <2>2 DEF Acc, Quar, Pairs, Intact
<1>5. /\ \A m \in 1..N : Promise!Stops(m)' = Promise!Stops(m)
      /\ \A sink, v : Promise!Sent(sink, v, N)' = Promise!Sent(sink, v, N)
      /\ Promise!EvidenceUpTo(N)' = Promise!EvidenceUpTo(N)
  BY <1>1, VerdictsOnPrefix
<1>6. Routed(N)' /\ NoStop(N)' /\ Pairs' = Promise!EvidenceUpTo(N)'
  BY <1>3, <1>4, <1>5 DEF Routed, NoStop
<1>7. pc' = "done" <=> Promise!Verdict(N + 1)' = "abort"
  <2>1. RequestOf(invocation).invalid' = invocation.invalid
    BY <1>1, RequestMade
  <2>2. Promise!Verdict(N + 1)' = "abort" <=> ~line.ok /\ invocation.invalid # "quarantine"
    BY <1>2, <2>1 DEF Promise!Verdict
  <2>3. pc' = "done" <=> ~line.ok /\ invocation.invalid # "quarantine"
    BY DEF Takes, GoTo, Exit
  <2> QED
    BY <2>2, <2>3
<1>8. pc' = "done" => exit' \notin {Cleared, Breach}
  BY DEF Takes, GoTo, Exit, Cleared, Breach, RuntimeFailure
<1>9. Promise!Next
  <2>1. ~Promise!Stopped /\ Pairs = Promise!EvidenceUpTo(Len(input))
    BY <1>2, <1>3 DEF Promise!Stopped, NoStop
  <2>2. Promise!Verdict(Len(input))' = Promise!Verdict(N + 1)'
    BY <1>2
  <2>3. Promise!Take
    BY <1>1, <1>4, <1>7, <1>8, <2>1, <2>2 DEF Promise!Take, Pairs, Acc, Quar
  <2> QED
    BY <2>3 DEF Promise!Next
<1> QED
  BY <1>1, <1>2, <1>6, <1>9

LEMMA TakeImplements ==
  ASSUME Inv, History, NEW line \in Line \cup {Fragment}, Takes(line)
  PROVE  Implemented
<1>0. PICK N \in Nat : N = Len(input)
  BY DEF Inv, TypeOK, CheckerType
<1>1. N + 1 \in Nat /\ (N + 1) - 1 = N /\ input \in Seq(LineType)
  BY DEF Inv, TypeOK, CheckerType
<1>2. /\ pc \in {"scan", "read"} /\ pc' \in {"report", "divert", "done"}
      /\ UNCHANGED <<invocation, contract, interrupted>>
  BY DEF Takes, GoTo, Exit, world
<1>3. /\ Len(input') = N + 1 /\ input'[N + 1] = line /\ line \in LineType
      /\ input' = Append(input, line) /\ rules' = rules
      /\ Routed(N)' /\ NoStop(N)' /\ Pairs' = Promise!EvidenceUpTo(N)'
      /\ Promise!Next
  BY <1>0, LineTaken
<1>4. counters'.halted = counters.halted
  BY DEF Takes, CountRecord, Inv, TypeOK, CountersType
<1>5. (Waiting /\ Ending /\ Concluding /\ Halting /\ Noticed)'
  BY <1>2, <1>4 DEF Waiting, Ending, Concluding, Halting, Noticed, History
<1>6. CASE line.ok
  <2>1. pc' = "report" /\ pending' = flagged' /\ count' = count + 1
        /\ seen' = Remember(rules, seen, line.rec)
    BY <1>6 DEF Takes, GoTo
  <2>2. SeenExact'
    <3>1. \A r : KeysRead(r)' = KeysRead(r) \cup KeysOf(r, line.rec)
      BY <1>1, <1>3, <1>6, ParsedGrows
    <3>2. rules \in Seq(Rules) /\ IdsUnique(rules)
      BY <1>2, ContractInUse
    <3>3. ASSUME NEW i \in DOMAIN rules
          PROVE  seen'[rules[i].id] = KeysRead(rules[i]) \cup KeysOf(rules[i], line.rec)
      <4>1. seen'[rules[i].id] = seen[rules[i].id] \cup KeysOf(rules[i], line.rec)
        BY <2>1, <3>2, OwnKeys
      <4> QED
        BY <1>2, <4>1 DEF History, SeenExact
    <3> QED
      BY <1>3, <3>1, <3>3 DEF SeenExact
  <2>3. CountExact'
    <3>1. Cardinality(Parsed') = Cardinality(Parsed) + 1
      BY <1>1, <1>3, <1>6, ParsedGrows
    <3> QED
      BY <2>1, <3>1 DEF History, CountExact
  <2>4. InProgress'
    <3>1. flagged' = Promise!FlaggedAt(N + 1)'
      BY <1>0, <1>1, <1>6, CheckJudges
    <3>2. \A m : Findings(m, flagged \ pending)' = {}
      BY <2>1 DEF Findings
    <3> QED
      BY <1>1, <1>3, <1>6, <3>1, <3>2 DEF InProgress
  <2>5. Diverting'
    BY <2>1 DEF Diverting
  <2> QED
    BY <1>3, <1>5, <2>2, <2>3, <2>4, <2>5 DEF Implemented, History
<1>7. CASE ~line.ok
  <2>1. /\ UNCHANGED <<seen, count>> /\ pc' \in {"divert", "done"}
        /\ pc' = "divert" => invocation.invalid = "quarantine"
    BY <1>7 DEF Takes, GoTo, Exit
  <2>2. SeenExact' /\ CountExact'
    <3>1. Cardinality(Parsed') = Cardinality(Parsed) /\ \A r : KeysRead(r)' = KeysRead(r)
      <4>1. /\ Parsed' = Parsed \cup {}
            /\ \A r : KeysRead(r)' = KeysRead(r) \cup {}
        BY <1>1, <1>3, <1>7, ParsedGrows
      <4>2. Parsed' = Parsed
        BY <4>1
      <4> QED
        BY <4>1, <4>2
    <3> QED
      BY <1>2, <1>3, <2>1, <3>1 DEF History, SeenExact, CountExact
  <2>3. Diverting'
    BY <1>1, <1>2, <1>3, <1>7, <2>1 DEF Diverting
  <2>4. InProgress'
    BY <2>1 DEF InProgress
  <2> QED
    BY <1>3, <1>5, <2>2, <2>3, <2>4 DEF Implemented, History
<1>8. line.ok \in BOOLEAN
  BY <1>3 DEF LineType
<1> QED
  BY <1>6, <1>7, <1>8

(***************************************************************************)
(* Steps that write                                                         *)
(***************************************************************************)
LEMMA LineInProgress ==
  ASSUME Inv, pc \in {"divert", "report"}
  PROVE  /\ Len(input) \in Nat \ {0} /\ Len(input) \in 0..Len(input)
         /\ Len(input) - 1 \in 0..Len(input)
         /\ input \in Seq(LineType)
<1>1. Len(input) \in Nat /\ Len(input) >= 1
  BY DEF Inv, TypeOK, CheckerType, Numbered
<1> QED
  BY <1>1 DEF Inv, TypeOK, CheckerType

LEMMA MalformedVerdict ==
  ASSUME Inv, History, pc = "divert", NEW N \in Nat \ {0}, N = Len(input)
  PROVE  /\ Promise!Verdict(N) = "quarantine" /\ ~Promise!Stops(N)
         /\ Promise!EvidenceAt(N) = IF "evidence" \in Sinks THEN {<<N, InputParse>>} ELSE {}
<1>1. ~input[N].ok /\ invocation.invalid = "quarantine"
  BY DEF History, Diverting
<1>2. Promise!Verdict(N) = "quarantine"
  BY <1>1, RequestMade DEF Promise!Verdict
<1> QED
  BY <1>1, <1>2, RequestMade DEF Promise!Stops, Promise!EvidenceAt, Promise!InputParse, InputParse

LEMMA DivertImplements == ASSUME Inv, History, Divert PROVE Implemented
<1> DEFINE N == Len(input)
           event == ParseEvent(contract, N)
<1>1. /\ pc = "divert" /\ UNCHANGED <<world, contract, progress, created>>
      /\ event \in Event /\ event.line = N /\ event.rule = InputParse
  BY DivertMoves
<1>2. PICK done, cut : Wrote(DivertItems(event), "scan", done, cut)
  BY DivertMoves
<1> HIDE DEF event
<1>3. /\ N \in Nat \ {0} /\ N \in 0..N /\ N - 1 \in 0..N /\ input \in Seq(LineType)
  BY <1>1, LineInProgress
<1>4. /\ UNCHANGED <<invocation, contract, input, checker, counters, interrupted>>
      /\ pc' \in {"scan", "done"}
  BY <1>1, <1>2 DEF Wrote, world, progress, checker
<1>5. Writable(DivertItems(event))
  BY <1>1, <1>3, ItemsWritable
<1> DEFINE full == done \ cut
<1>6. /\ Acc' = Acc \cup (IF "valid" \in full THEN {DivertItems(event)["valid"]} ELSE {})
      /\ Quar' = Quar \cup (IF "quarantine" \in full THEN {DivertItems(event)["quarantine"]} ELSE {})
      /\ Pairs' = Pairs \cup (IF Events \in full
                                THEN {<<DivertItems(event)[Events].line, DivertItems(event)[Events].rule>>} ELSE {})
      /\ pc' # "done" => full = DOMAIN DivertItems(event)
      /\ pc' = "done" => exit' \notin {Cleared, Breach}
      /\ full \subseteq DOMAIN DivertItems(event)
  <2>1. pc # "done" /\ "scan" # "done"
    BY <1>1
  <2> QED
    BY <1>2, <1>4, <1>5, <2>1, ViewWritten DEF Viewed
<1> HIDE DEF full
<1>7. /\ "valid" \notin DOMAIN DivertItems(event)
      /\ "quarantine" \in DOMAIN DivertItems(event) <=> "quarantined" \in Sinks
      /\ Events \in DOMAIN DivertItems(event) <=> "evidence" \in Sinks
      /\ "quarantine" \in DOMAIN DivertItems(event) => DivertItems(event)["quarantine"] = N
      /\ Events \in DOMAIN DivertItems(event) => DivertItems(event)[Events] = event
  BY SinksWired DEF DivertItems
<1>8. /\ Acc' = Acc
      /\ Quar' = Quar \cup (IF "quarantine" \in full THEN {N} ELSE {})
      /\ Pairs' = Pairs \cup (IF Events \in full THEN {<<N, InputParse>>} ELSE {})
      /\ "quarantine" \in full => "quarantined" \in Sinks
      /\ Events \in full => "evidence" \in Sinks
      /\ pc' # "done" => ("quarantine" \in full <=> "quarantined" \in Sinks)
      /\ pc' # "done" => (Events \in full <=> "evidence" \in Sinks)
  BY <1>1, <1>6, <1>7
<1>9. /\ Routed(N - 1) /\ Pairs = Promise!EvidenceUpTo(N - 1) /\ NoStop(N - 1)
  BY <1>1 DEF History, Diverting
<1> HIDE DEF N
<1>10. /\ Promise!EvidenceUpTo(N) =
            Promise!EvidenceUpTo(N - 1) \cup (IF "evidence" \in Sinks THEN {<<N, InputParse>>} ELSE {})
       /\ Promise!Sent("accepted", "accept", N) = Promise!Sent("accepted", "accept", N - 1)
       /\ Promise!Sent("quarantined", "quarantine", N) =
            Promise!Sent("quarantined", "quarantine", N - 1)
              \cup (IF "quarantined" \in Sinks THEN {N} ELSE {})
       /\ NoStop(N)
  <2>1. /\ Promise!Verdict(N) = "quarantine" /\ ~Promise!Stops(N)
        /\ Promise!EvidenceAt(N) = IF "evidence" \in Sinks THEN {<<N, InputParse>>} ELSE {}
    BY <1>1, <1>3, MalformedVerdict DEF N
  <2>2. /\ Promise!EvidenceUpTo(N) = Promise!EvidenceUpTo(N - 1) \cup Promise!EvidenceAt(N)
        /\ \A sink, v : Promise!Sent(sink, v, N) =
             Promise!Sent(sink, v, N - 1)
               \cup (IF sink \in Sinks /\ Promise!Verdict(N) = v THEN {N} ELSE {})
        /\ NoStop(N) <=> NoStop(N - 1) /\ ~Promise!Stops(N)
    BY <1>3, NextPrefix
  <2>3. \A sink, v : Promise!Sent(sink, v, N) =
          Promise!Sent(sink, v, N - 1)
            \cup (IF sink \in Sinks /\ "quarantine" = v THEN {N} ELSE {})
    BY <2>1, <2>2
  <2>4. Promise!Sent("accepted", "accept", N) = Promise!Sent("accepted", "accept", N - 1)
    BY <2>3
  <2>5. Promise!Sent("quarantined", "quarantine", N) =
          Promise!Sent("quarantined", "quarantine", N - 1)
            \cup (IF "quarantined" \in Sinks THEN {N} ELSE {})
    BY <2>3
  <2>6. Promise!EvidenceUpTo(N) =
          Promise!EvidenceUpTo(N - 1) \cup (IF "evidence" \in Sinks THEN {<<N, InputParse>>} ELSE {})
    BY <2>1, <2>2
  <2>7. NoStop(N)
    BY <1>9, <2>1, <2>2
  <2> QED
    BY <2>4, <2>5, <2>6, <2>7
<1>11. Promise!Next
  <2>1. /\ Acc' = Promise!Sent("accepted", "accept", N) /\ Acc \subseteq Acc' /\ Quar \subseteq Quar'
        /\ Quar' \in {Promise!Sent("quarantined", "quarantine", N - 1),
                      Promise!Sent("quarantined", "quarantine", N)}
        /\ Pairs \subseteq Pairs' /\ Pairs' \subseteq Promise!EvidenceUpTo(N)
    BY <1>8, <1>9, <1>10 DEF Routed
  <2> QED
    BY <1>1, <1>3, <1>4, <1>6, <2>1, Advances DEF N
<1>12. SeenExact' /\ CountExact'
  BY <1>1, <1>4, CheckerUndisturbed DEF History
<1>13. Waiting'
  <2>1. ASSUME pc' # "done"
        PROVE  /\ Acc' = Promise!Sent("accepted", "accept", N)
               /\ Quar' = Promise!Sent("quarantined", "quarantine", N)
               /\ Pairs' = Promise!EvidenceUpTo(N)
    BY <1>8, <1>9, <1>10, <2>1 DEF Routed
  <2>2. ASSUME pc' # "done"
        PROVE  Routed(Len(input))' /\ Pairs' = Promise!EvidenceUpTo(Len(input))' /\ NoStop(Len(input))'
    BY <1>4, <1>10, <2>1, <2>2, VerdictsStand DEF Routed, NoStop, N
  <2> QED
    BY <2>2 DEF Waiting
<1>14. (Diverting /\ InProgress /\ Ending /\ Concluding /\ Halting /\ Noticed)'
  BY <1>1, <1>4 DEF Diverting, InProgress, Ending, Concluding, History, Halting, Noticed
<1> QED
  BY <1>11, <1>12, <1>13, <1>14 DEF Implemented, History

LEMMA RecordVerdict ==
  ASSUME Inv, History, pc = "report", NEW N \in Nat \ {0}, N = Len(input)
  PROVE  /\ Promise!EvidenceAt(N) = Findings(N, flagged)
         /\ Promise!Stops(N) <=> ShouldHalt(rules, flagged)
         /\ Promise!Verdict(N) = "accept" <=> Outcome(rules, flagged) = "cleared"
         /\ Promise!Verdict(N) = "quarantine" <=> Outcome(rules, flagged) = "quarantined"
<1>1. input[N].ok /\ flagged = Promise!FlaggedAt(N) /\ Promise!rules = rules
  BY RulesInUse DEF History, InProgress
<1>2. Promise!ActionsAt(N) = ActionsOf(rules, flagged)
  BY <1>1 DEF Promise!ActionsAt, ActionsOf
<1>3. Promise!Verdict(N) =
        IF ActionsOf(rules, flagged) \subseteq {"warn"} THEN "accept"
        ELSE IF "quarantine" \in ActionsOf(rules, flagged) THEN "quarantine" ELSE "drop"
  BY <1>1, <1>2 DEF Promise!Verdict
<1>4. HasBreach(rules, flagged) <=> ~(ActionsOf(rules, flagged) \subseteq {"warn"})
  BY DEF HasBreach
<1>5. /\ Promise!Verdict(N) = "accept" <=> Outcome(rules, flagged) = "cleared"
      /\ Promise!Verdict(N) = "quarantine" <=> Outcome(rules, flagged) = "quarantined"
  BY <1>3, <1>4 DEF Outcome, ShouldQuarantine
<1>6. Promise!Verdict(N) # "abort"
  BY <1>3
<1>7. Promise!Stops(N) <=> ShouldHalt(rules, flagged)
  BY <1>1, <1>2, <1>6 DEF Promise!Stops, ShouldHalt
<1>8. Promise!EvidenceAt(N) = Findings(N, flagged)
  BY <1>1, <1>6, RequestMade DEF Promise!EvidenceAt, Findings
<1> QED
  BY <1>5, <1>7, <1>8

\* One more of the findings on a line.
LEMMA FindingsGrow ==
  ASSUME NEW line, NEW i \in pending, pending \subseteq flagged
  PROVE  /\ Findings(line, flagged \ (pending \ {i})) =
              Findings(line, flagged \ pending)
                \cup (IF "evidence" \in Sinks THEN {<<line, rules[i].id>>} ELSE {})
         /\ Findings(line, flagged \ (pending \ {i})) \subseteq Findings(line, flagged)
         /\ Findings(line, flagged \ pending) \subseteq Findings(line, flagged)
<1>1. flagged \ (pending \ {i}) = (flagged \ pending) \cup {i}
  OBVIOUS
<1>2. CASE "evidence" \in Sinks
  BY <1>1, <1>2 DEF Findings
<1>3. CASE "evidence" \notin Sinks
  BY <1>3 DEF Findings
<1> QED
  BY <1>2, <1>3

\* An event that is written, that no stream wants, or that is lost to a failure.
LEMMA EventViewed ==
  ASSUME Inv, pc # "done", NEW event \in Event, NEW where, where # "done",
         NEW done, NEW cut, Wrote(EventItems(event), where, done, cut), UNCHANGED invocation
  PROVE  /\ Acc' = Acc /\ Quar' = Quar /\ pc' \in {where, "done"}
         /\ pc' = "done" => exit' \notin {Cleared, Breach}
         /\ Pairs' \in {Pairs, Pairs \cup (IF "evidence" \in Sinks THEN {<<event.line, event.rule>>} ELSE {})}
         /\ pc' # "done" =>
              Pairs' = Pairs \cup (IF "evidence" \in Sinks THEN {<<event.line, event.rule>>} ELSE {})
<1>1. Writable(EventItems(event))
  <2>1. Len(input) \in Nat
    BY DEF Inv, TypeOK, CheckerType
  <2> QED
    BY <2>1, ItemsWritable
<1> DEFINE full == done \ cut
<1>0. PICK items : items = EventItems(event)
  OBVIOUS
<1>2. /\ Acc' = Acc \cup (IF "valid" \in full THEN {items["valid"]} ELSE {})
      /\ Quar' = Quar \cup (IF "quarantine" \in full THEN {items["quarantine"]} ELSE {})
      /\ Pairs' = Pairs \cup (IF Events \in full THEN {<<items[Events].line, items[Events].rule>>} ELSE {})
      /\ pc' # "done" => full = DOMAIN items
      /\ pc' = "done" => exit' \notin {Cleared, Breach}
      /\ full \subseteq DOMAIN items
  <2>1. Writable(items) /\ Wrote(items, where, done, cut)
    BY <1>0, <1>1
  <2>2. Viewed(items, full)
    BY <2>1, ViewWritten
  <2> QED
    BY <2>2 DEF Viewed
<1>3. /\ "valid" \notin DOMAIN items /\ "quarantine" \notin DOMAIN items
      /\ Events \in DOMAIN items <=> "evidence" \in Sinks
      /\ Events \in DOMAIN items => items[Events] = event
  BY <1>0, SinksWired DEF EventItems
<1>4. pc' \in {where, "done"}
  BY DEF Wrote
<1> HIDE DEF full
<1> QED
  BY <1>2, <1>3, <1>4

LEMMA ReportImplements == ASSUME Inv, History, Report PROVE Implemented
<1> DEFINE N == Len(input)
<1>1. PICK i \in pending :
        /\ i \in DOMAIN rules
        /\ counters' = CountWarning(counters, rules[i]) /\ pending' = pending \ {i}
        /\ \E event \in Event : \E done, cut :
             /\ event.line = N /\ event.rule = rules[i].id
             /\ Wrote(EventItems(event), "report", done, cut)
  BY ReportMoves
<1>2. PICK event, done, cut :
        /\ event \in Event
        /\ event.line = N /\ event.rule = rules[i].id
        /\ Wrote(EventItems(event), "report", done, cut)
  BY <1>1
<1>3. /\ pc = "report"
      /\ UNCHANGED <<invocation, contract, input, checker, flagged, interrupted>>
  BY ReportMoves DEF world, checker
<1>4. counters'.halted = counters.halted
  BY <1>1 DEF CountWarning, Inv, TypeOK, CountersType
<1>5. /\ N \in Nat \ {0} /\ N - 1 \in 0..N /\ input \in Seq(LineType)
      /\ pending \subseteq flagged /\ flagged \subseteq DOMAIN rules
  BY <1>3, LineInProgress DEF Inv, TypeOK, CheckerType
<1>6. /\ input[N].ok /\ flagged = Promise!FlaggedAt(N) /\ Routed(N - 1) /\ NoStop(N - 1)
      /\ Pairs = Promise!EvidenceUpTo(N - 1) \cup Findings(N, flagged \ pending)
  BY <1>3 DEF History, InProgress
<1>7. /\ Acc' = Acc /\ Quar' = Quar /\ pc' \in {"report", "done"}
      /\ pc' = "done" => exit' \notin {Cleared, Breach}
      /\ Pairs' \in {Pairs, Pairs \cup (IF "evidence" \in Sinks THEN {<<event.line, event.rule>>} ELSE {})}
      /\ pc' # "done" =>
           Pairs' = Pairs \cup (IF "evidence" \in Sinks THEN {<<event.line, event.rule>>} ELSE {})
  <2>1. pc # "done" /\ "report" # "done"
    BY <1>3
  <2> QED
    BY <1>2, <1>3, <2>1, EventViewed
<1> HIDE DEF N
<1>8. /\ pc' # "done" => Pairs' = Promise!EvidenceUpTo(N - 1) \cup Findings(N, flagged \ pending')
      /\ Pairs \subseteq Pairs'
      /\ Pairs' \subseteq Promise!EvidenceUpTo(N - 1) \cup Findings(N, flagged)
  <2>1. /\ Findings(N, flagged \ pending') =
             Findings(N, flagged \ pending)
               \cup (IF "evidence" \in Sinks THEN {<<N, rules[i].id>>} ELSE {})
        /\ Findings(N, flagged \ pending') \subseteq Findings(N, flagged)
        /\ Findings(N, flagged \ pending) \subseteq Findings(N, flagged)
    BY <1>1, <1>5, FindingsGrow
  <2> QED
    BY <1>2, <1>6, <1>7, <2>1
<1>9. Promise!Next
  <2>1. Promise!EvidenceUpTo(N) = Promise!EvidenceUpTo(N - 1) \cup Findings(N, flagged)
    BY <1>3, <1>5, NextPrefix, RecordVerdict DEF N
  <2>2. Pairs' \subseteq Promise!EvidenceUpTo(N)
    BY <1>8, <2>1
  <2> QED
    BY <1>3, <1>5, <1>6, <1>7, <1>8, <2>2, Advances DEF Routed, N
<1>10. SeenExact' /\ CountExact'
  BY <1>3, CheckerUndisturbed DEF History
<1>11. InProgress'
  <2>1. Routed(Len(input) - 1)' /\ NoStop(Len(input) - 1)'
        /\ flagged' = Promise!FlaggedAt(Len(input))' /\ input'[Len(input')].ok
    BY <1>3, <1>6, <1>7, VerdictsStand DEF Routed, NoStop, N
  <2>2. ASSUME pc' = "report"
        PROVE  Pairs' = Promise!EvidenceUpTo(Len(input) - 1)' \cup Findings(Len(input), flagged \ pending)'
    <3>1. Promise!EvidenceUpTo(Len(input) - 1)' = Promise!EvidenceUpTo(N - 1)
      BY <1>3, VerdictsStand DEF N
    <3>2. Findings(Len(input), flagged \ pending)' = Findings(N, flagged \ pending')
      BY <1>3 DEF Findings, rules, Sinks, N
    <3> QED
      BY <1>8, <2>2, <3>1, <3>2
  <2> QED
    BY <2>1, <2>2 DEF InProgress
<1>12. (Waiting /\ Diverting /\ Ending /\ Concluding /\ Halting /\ Noticed)'
  BY <1>3, <1>4, <1>7 DEF Waiting, Diverting, Ending, Concluding, History, Halting, Noticed
<1> QED
  BY <1>9, <1>10, <1>11, <1>12 DEF Implemented, History

LEMMA RouteImplements == ASSUME Inv, History, Route PROVE Implemented
<1> DEFINE N == Len(input)
           outcome == Outcome(rules, flagged)
           halted == ShouldHalt(rules, flagged) /\ pc' # "done"
<1>1. /\ pc = "report" /\ pending = {}
      /\ UNCHANGED <<invocation, contract, input, checker, flagged, interrupted>>
      /\ AfterRoute \in {"scan", "end"}
      /\ counters' = Counting(counters, outcome, halted)
      /\ outcome \in {"cleared", "quarantined", "breached"}
      /\ \E done, cut : Wrote(RouteItems, AfterRoute, done, cut)
  BY RouteMoves DEF world, checker
<1>2. PICK done, cut : Wrote(RouteItems, AfterRoute, done, cut)
  BY <1>1
<1>3. /\ N \in Nat \ {0} /\ N \in 0..N /\ N - 1 \in 0..N /\ input \in Seq(LineType)
  BY <1>1, LineInProgress
<1>4. counters'.halted = halted
  <2>1. counters \in Summary
    BY DEF Inv, TypeOK, CountersType, Summary
  <2>2. halted \in BOOLEAN
    OBVIOUS
  <2> HIDE DEF halted, outcome
  <2>3. Counting(counters, outcome, halted).halted = halted
    BY <1>1, <2>1, <2>2, RecordCounted
  <2> QED
    BY <1>1, <2>3
<1>5. /\ Routed(N - 1) /\ NoStop(N - 1) /\ Pairs = Promise!EvidenceUpTo(N - 1) \cup Findings(N, flagged)
  <2>1. flagged \ pending = flagged
    BY <1>1
  <2> QED
    BY <1>1, <2>1 DEF History, InProgress
<1>6. /\ Promise!EvidenceAt(N) = Findings(N, flagged)
      /\ Promise!Stops(N) <=> ShouldHalt(rules, flagged)
      /\ Promise!Verdict(N) = "accept" <=> outcome = "cleared"
      /\ Promise!Verdict(N) = "quarantine" <=> outcome = "quarantined"
  BY <1>1, <1>3, RecordVerdict
<1> DEFINE full == done \ cut
<1>7. /\ Acc' = Acc \cup (IF "valid" \in full THEN {RouteItems["valid"]} ELSE {})
      /\ Quar' = Quar \cup (IF "quarantine" \in full THEN {RouteItems["quarantine"]} ELSE {})
      /\ Pairs' = Pairs \cup (IF Events \in full
                                THEN {<<RouteItems[Events].line, RouteItems[Events].rule>>} ELSE {})
      /\ pc' # "done" => full = DOMAIN RouteItems
      /\ pc' = "done" => exit' \notin {Cleared, Breach}
      /\ full \subseteq DOMAIN RouteItems
  <2>1. pc # "done" /\ AfterRoute # "done"
    BY <1>1
  <2>2. Writable(RouteItems)
    <3>1. Len(input) \in Nat
      BY <1>3
    <3>2. Destination(Outcome(rules, flagged)) \subseteq {"valid", "quarantine"}
      BY DEF Destination
    <3> QED
      BY <3>1, <3>2 DEF Writable, RouteItems, Item
  <2> QED
    BY <1>1, <1>2, <2>1, <2>2, ViewWritten DEF Viewed
<1>8. /\ DOMAIN RouteItems = Destination(outcome) \cap Wired
      /\ \A s \in DOMAIN RouteItems : RouteItems[s] = N
  BY DEF RouteItems
<1> HIDE DEF full, outcome, N, halted
<1>9. /\ "valid" \in DOMAIN RouteItems <=> outcome = "cleared" /\ "accepted" \in Sinks
      /\ "quarantine" \in DOMAIN RouteItems <=> outcome = "quarantined" /\ "quarantined" \in Sinks
      /\ Events \notin DOMAIN RouteItems
  BY <1>1, <1>8, SinksWired DEF Destination
<1>10. /\ Pairs' = Pairs
       /\ Acc' = Acc \cup (IF "valid" \in full THEN {N} ELSE {})
       /\ Quar' = Quar \cup (IF "quarantine" \in full THEN {N} ELSE {})
       /\ "valid" \in full => outcome = "cleared" /\ "accepted" \in Sinks
       /\ "quarantine" \in full => outcome = "quarantined" /\ "quarantined" \in Sinks
       /\ pc' # "done" => ("valid" \in full <=> outcome = "cleared" /\ "accepted" \in Sinks)
       /\ pc' # "done" => ("quarantine" \in full <=> outcome = "quarantined" /\ "quarantined" \in Sinks)
  BY <1>7, <1>8, <1>9
<1>11. /\ Pairs = Promise!EvidenceUpTo(N)
       /\ NoStop(N) <=> ~ShouldHalt(rules, flagged)
       /\ Promise!Sent("accepted", "accept", N) =
            Promise!Sent("accepted", "accept", N - 1)
              \cup (IF "accepted" \in Sinks /\ outcome = "cleared" THEN {N} ELSE {})
       /\ Promise!Sent("quarantined", "quarantine", N) =
            Promise!Sent("quarantined", "quarantine", N - 1)
              \cup (IF "quarantined" \in Sinks /\ outcome = "quarantined" THEN {N} ELSE {})
  <2>1. Pairs = Promise!EvidenceUpTo(N) /\ (NoStop(N) <=> ~ShouldHalt(rules, flagged))
    BY <1>3, <1>5, <1>6, NextPrefix
  <2>2. \A sink, v : Promise!Sent(sink, v, N) =
          Promise!Sent(sink, v, N - 1)
            \cup (IF sink \in Sinks /\ Promise!Verdict(N) = v THEN {N} ELSE {})
    BY <1>3, NextPrefix
  <2> QED
    BY <1>6, <2>1, <2>2
<1>12. Promise!Next
  <2>1. /\ Acc' \in {Promise!Sent("accepted", "accept", N - 1), Promise!Sent("accepted", "accept", N)}
        /\ Acc \subseteq Acc'
    BY <1>5, <1>10, <1>11 DEF Routed
  <2>2. /\ Quar' \in {Promise!Sent("quarantined", "quarantine", N - 1),
                      Promise!Sent("quarantined", "quarantine", N)}
        /\ Quar \subseteq Quar'
    BY <1>5, <1>10, <1>11 DEF Routed
  <2>3. \E n, m \in 0..N : /\ Acc' = Promise!Sent("accepted", "accept", n)
                           /\ Quar' = Promise!Sent("quarantined", "quarantine", m)
    BY <1>3, <2>1, <2>2
  <2> QED
    BY <1>1, <1>3, <1>7, <1>10, <1>11, <2>1, <2>2, <2>3, Advances DEF N
<1>13. pc' \in {AfterRoute, "done"}
  BY <1>2 DEF Wrote
<1>14. SeenExact' /\ CountExact'
  BY <1>1, <1>13, CheckerUndisturbed DEF History
<1>15. pc' # "done" => Routed(Len(input))' /\ Pairs' = Promise!EvidenceUpTo(Len(input))'
  <2>1. ASSUME pc' # "done"
        PROVE  /\ Acc' = Promise!Sent("accepted", "accept", N)
               /\ Quar' = Promise!Sent("quarantined", "quarantine", N)
    BY <1>5, <1>10, <1>11, <2>1 DEF Routed
  <2> QED
    BY <1>1, <1>10, <1>11, <2>1, VerdictsStand DEF Routed, N
<1>16. NoStop(Len(input))' <=> ~ShouldHalt(rules, flagged)
  BY <1>1, <1>11, VerdictsStand DEF NoStop, N
<1>17. /\ pc' = "scan" => ~ShouldHalt(rules, flagged)
       /\ pc' = "end" => ShouldHalt(rules, flagged)
       /\ pc' \in {"scan", "end", "done"}
  BY <1>13 DEF AfterRoute
<1>18. /\ pc' = "scan" => ~counters'.halted
       /\ pc' = "end" => counters'.halted
  BY <1>4, <1>17 DEF halted
<1>19. (Waiting /\ Diverting /\ InProgress /\ Ending /\ Concluding /\ Halting)'
  BY <1>15, <1>16, <1>17, <1>18 DEF Waiting, Diverting, InProgress, Ending, Concluding, Halting
<1>20. Noticed'
  BY <1>1 DEF History, Noticed
<1> QED
  BY <1>12, <1>14, <1>19, <1>20 DEF Implemented, History

LEMMA ReportFinalImplements == ASSUME Inv, History, ReportFinal PROVE Implemented
<1> DEFINE N == Len(input)
           L == FinalLine(N)
<1>1. PICK i \in pending :
        /\ i \in DOMAIN rules
        /\ counters' = CountFinal(counters, rules[i]) /\ pending' = pending \ {i}
        /\ \E event \in Event : \E done, cut :
             /\ event.line = L /\ event.rule = rules[i].id
             /\ Wrote(EventItems(event), "final", done, cut)
  BY ReportFinalMoves
<1>2. PICK event, done, cut :
        /\ event \in Event
        /\ event.line = L /\ event.rule = rules[i].id
        /\ Wrote(EventItems(event), "final", done, cut)
  BY <1>1
<1>3. /\ pc = "final"
      /\ UNCHANGED <<invocation, contract, input, checker, flagged, interrupted>>
  BY ReportFinalMoves DEF world, checker
<1>4. counters'.halted = counters.halted
  BY <1>1 DEF CountFinal, Inv, TypeOK, CountersType
<1>5. /\ N \in Nat /\ L \in Nat \ {0} /\ input \in Seq(LineType)
      /\ pending \subseteq flagged /\ flagged \subseteq DOMAIN rules
  <2>1. N \in Nat
    BY DEF Inv, TypeOK, CheckerType
  <2> QED
    BY <2>1 DEF Inv, TypeOK, CheckerType, FinalLine
<1>6. /\ Routed(N) /\ (counters.halted <=> ~NoStop(N))
      /\ flagged = IF interrupted \/ counters.halted THEN {} ELSE FinalBreaches(rules, count)
      /\ Pairs = Promise!EvidenceUpTo(N) \cup Findings(L, flagged \ pending)
  BY <1>3 DEF History, Ending, Concluding
<1>7. NoStop(N) /\ flagged = FinalBreaches(rules, count)
  BY <1>1, <1>5, <1>6
<1>8. Findings(L, flagged) = Promise!FinalEvidence
  <2>1. L = IF N = 0 THEN 1 ELSE N
    BY <1>5 DEF FinalLine
  <2>2. flagged = FinalBreaches(rules, Cardinality(Parsed))
    BY <1>7 DEF History, CountExact
  <2>3. Promise!rules = rules
    BY <1>3, RulesInUse
  <2> QED
    BY <2>1, <2>2, <2>3, SameEngine, SameCardinality, RequestMade
       DEF Findings, Promise!FinalEvidence, Parsed
<1>9. /\ Acc' = Acc /\ Quar' = Quar /\ pc' \in {"final", "done"}
      /\ pc' = "done" => exit' \notin {Cleared, Breach}
      /\ Pairs' \in {Pairs, Pairs \cup (IF "evidence" \in Sinks THEN {<<event.line, event.rule>>} ELSE {})}
      /\ pc' # "done" =>
           Pairs' = Pairs \cup (IF "evidence" \in Sinks THEN {<<event.line, event.rule>>} ELSE {})
  <2>1. pc # "done" /\ "final" # "done"
    BY <1>3
  <2> QED
    BY <1>2, <1>3, <2>1, EventViewed
<1> HIDE DEF N, L
<1>10. /\ pc' # "done" => Pairs' = Promise!EvidenceUpTo(N) \cup Findings(L, flagged \ pending')
       /\ Pairs \subseteq Pairs'
       /\ Pairs' \subseteq Promise!EvidenceUpTo(N) \cup Findings(L, flagged)
  <2>1. /\ Findings(L, flagged \ pending') =
             Findings(L, flagged \ pending)
               \cup (IF "evidence" \in Sinks THEN {<<L, rules[i].id>>} ELSE {})
        /\ Findings(L, flagged \ pending') \subseteq Findings(L, flagged)
        /\ Findings(L, flagged \ pending) \subseteq Findings(L, flagged)
    BY <1>1, <1>5, FindingsGrow
  <2> QED
    BY <1>2, <1>6, <1>9, <2>1
<1>11. Promise!Next
  <2>1. ~Promise!Stopped /\ Promise!Delivered
    <3>1. DOMAIN input = 1..N
      BY <1>5 DEF N
    <3> QED
      BY <1>6, <1>7, <3>1 DEF Promise!Stopped, Promise!Delivered, NoStop, Routed, N, Acc, Quar
  <2>2. /\ Promise!EvidenceUpTo(N) \subseteq Pairs
        /\ Pairs' \subseteq Promise!EvidenceUpTo(N) \cup Promise!FinalEvidence
    BY <1>6, <1>8, <1>10
  <2>3. Promise!Conclude
    BY <1>3, <1>9, <1>10, <2>1, <2>2 DEF Promise!Conclude, Pairs, Acc, Quar, N
  <2> QED
    BY <2>3 DEF Promise!Next
<1>12. SeenExact' /\ CountExact'
  BY <1>3, CheckerUndisturbed DEF History
<1>13. Ending'
  <2>1. Routed(Len(input))' /\ (NoStop(Len(input))' <=> NoStop(N))
    BY <1>3, <1>6, <1>9, VerdictsStand DEF Routed, NoStop, N
  <2> QED
    BY <1>4, <1>6, <1>9, <2>1 DEF Ending
<1>14. Concluding'
  <2>1. flagged' = (IF interrupted' \/ counters'.halted THEN {} ELSE FinalBreaches(rules', count'))
    BY <1>3, <1>4, <1>6 DEF checker, rules
  <2>2. Promise!EvidenceUpTo(Len(input))' = Promise!EvidenceUpTo(N)
    BY <1>3, VerdictsStand DEF N
  <2>3. Findings(FinalLine(Len(input)), flagged \ pending)' = Findings(L, flagged \ pending')
    BY <1>3 DEF Findings, FinalLine, rules, Sinks, N, L
  <2> QED
    BY <1>10, <2>1, <2>2, <2>3 DEF Concluding
<1>15. (Waiting /\ Diverting /\ InProgress /\ Halting /\ Noticed)'
  BY <1>9 DEF Waiting, Diverting, InProgress, Halting, Noticed
<1> QED
  BY <1>11, <1>12, <1>13, <1>14, <1>15 DEF Implemented, History

LEMMA NextImplements == Inv /\ History /\ [Next]_vars => Implemented
<1> SUFFICES ASSUME Inv, History, [Next]_vars PROVE Implemented
  OBVIOUS
<1>1. CASE pc = "done" /\ UNCHANGED vars
  <2>1. UNCHANGED <<pc, invocation, contract, input, checker, out, torn, exit, counters>>
    BY <1>1 DEF vars, checker
  <2>2. SeenExact' /\ CountExact'
    BY <1>1, <2>1, CheckerUndisturbed DEF History
  <2>3. History'
    BY <1>1, <2>1, <2>2 DEF History, Waiting, Diverting, InProgress, Ending, Concluding, Halting, Noticed
  <2>4. UNCHANGED Promise!vars
    <3>1. Events' = Events
      BY <2>1 DEF Events, Wired
    <3>2. Intact(Events)' = Intact(Events)
      BY <2>1, <3>1 DEF Intact
    <3> QED
      BY <2>1, <3>2 DEF Promise!vars, Intact
  <2> QED
    BY <2>3, <2>4 DEF Implemented
<1> QED
  BY <1>1, Steps, QuitImplements, ContinueImplements, StopImplements, TakeImplements, DivertImplements,
     ReportImplements, RouteImplements, FinalizeImplements, ReportFinalImplements, ReturnImplements

\* Every behaviour of `run`, whichever write fails, wherever the interrupt finds it and
\* whatever order the contract file lists its rules in, is one that the abstract gate
\* allows on the canonical contract.
THEOREM GateRefined == Spec => RefinesGate
<1>1. Init => Inv /\ History /\ StreamsAgree /\ TornOutputsFail /\ Promise!Init
  BY InitInv, InitHistory
<1>2. Inv /\ StreamsAgree /\ TornOutputsFail /\ History /\ [Next]_vars =>
        (Inv /\ StreamsAgree /\ TornOutputsFail /\ History)' /\ [Promise!Next]_Promise!vars
  BY NextInv, NextImplements DEF Implemented, Kept
<1>3. Spec => Promise!Init /\ [][Promise!Next]_Promise!vars
  BY <1>1, <1>2, PTL DEF Spec
<1> QED
  BY <1>3 DEF RefinesGate, Promise!Spec

(***************************************************************************)
(* The exit code                                                           *)
(***************************************************************************)
\* One of the first n lines did not go to the valid output.
Faulty(n) == \E m \in 1..n : Promise!Verdict(m) # "accept"

Enforced == counters.quarantined > 0 \/ counters.breached > 0

\* What the counters say of the lines read: the line in progress is counted with its
\* route, the count rules with their events.
Exits ==
  /\ pc \in {"start", "create", "scan", "read", "end"} => (Enforced <=> Faulty(Len(input)))
  /\ pc = "divert" => Enforced
  /\ pc = "report" => (Enforced <=> Faulty(Len(input) - 1))
  /\ pc = "final" => (Enforced <=> Faulty(Len(input)) \/ HasBreach(rules, flagged \ pending))

LEMMA FaultyStands ==
  ASSUME UNCHANGED <<invocation, input>>
  PROVE  \A n : Faulty(n)' <=> Faulty(n)
BY VerdictsStand DEF Faulty

LEMMA FaultyNext ==
  ASSUME NEW n \in Nat \ {0}
  PROVE  Faulty(n) <=> Faulty(n - 1) \/ Promise!Verdict(n) # "accept"
<1>1. 1..n = (1..(n - 1)) \cup {n}
  OBVIOUS
<1> QED
  BY <1>1 DEF Faulty

LEMMA InitExits == Init => Exits /\ ExitCodeSound
<1> SUFFICES ASSUME Init PROVE Exits /\ ExitCodeSound
  OBVIOUS
<1>1. Len(input) = 0 /\ pc = "start" /\ counters.quarantined = 0 /\ counters.breached = 0
  BY DEF Init, ZeroSummary
<1>2. ~Faulty(Len(input))
  BY <1>1 DEF Faulty
<1> QED
  BY <1>1, <1>2 DEF Exits, Enforced, ExitCodeSound

\* A run that ends with neither 0 nor 1 owes nothing more.
LEMMA OtherExits ==
  ASSUME Unfinished', pc' # "done" \/ exit' \notin {Cleared, Breach}
  PROVE  ExitCodeSound'
BY DEF Unfinished, ExitCodeSound

LEMMA QuietExits ==
  ASSUME Inv, Exits, Quits \/ (pc # "done" /\ Continues) \/ StopsReading
  PROVE  Exits' /\ (pc' # "done" \/ exit' \notin {Cleared, Breach})
<1>1. CASE Quits
  BY <1>1 DEF Quits, Exits, Cleared, Breach, InvalidContract, RuntimeFailure, Interrupted
<1>2. CASE (pc # "done" /\ Continues) \/ StopsReading
  <2>1. /\ UNCHANGED <<invocation, input, flagged, pending, counters>> /\ pc' # "done"
        /\ \/ pc' = pc /\ contract' = contract
           \/ /\ pc \in {"start", "create", "scan", "read"}
              /\ pc' \in {"create", "scan", "read", "end"}
    BY <1>2 DEF Continues, StopsReading, GoTo, world
  <2>2. /\ \A n : Faulty(n)' <=> Faulty(n)
        /\ Enforced' <=> Enforced
    BY <2>1, FaultyStands DEF Enforced
  <2>3. CASE pc' = pc /\ contract' = contract
    BY <2>1, <2>2, <2>3 DEF Exits, rules
  <2>4. CASE pc \in {"start", "create", "scan", "read"} /\ pc' \in {"create", "scan", "read", "end"}
    BY <2>1, <2>2, <2>4 DEF Exits
  <2> QED
    BY <2>1, <2>3, <2>4
<1> QED
  BY <1>1, <1>2

LEMMA TakeExits ==
  ASSUME Inv, Exits, NEW line \in Line \cup {Fragment}, Takes(line)
  PROVE  Exits' /\ (pc' # "done" \/ exit' \notin {Cleared, Breach})
<1>0. PICK N \in Nat : N = Len(input)
  BY DEF Inv, TypeOK, CheckerType
<1>1. /\ pc \in {"scan", "read"} /\ line \in LineType /\ input \in Seq(LineType)
      /\ input' = Append(input, line) /\ invocation' = invocation
      /\ pc' \in {"report", "divert", "done"}
  BY FragmentType DEF Takes, Inv, TypeOK, CheckerType, world, GoTo, Exit
<1>2. Len(input') - 1 = N /\ N \in Nat /\ N <= Len(input)
  BY <1>0, <1>1
<1>3. Faulty(N)' <=> Faulty(N)
  <2>1. \A n \in 1..N : Promise!Verdict(n)' = Promise!Verdict(n)
    BY <1>1, <1>2, VerdictsOnPrefix
  <2> QED
    BY <2>1 DEF Faulty
<1>4. Faulty(Len(input) - 1)' <=> Faulty(N)
  BY <1>2, <1>3 DEF Faulty
<1>5. Enforced <=> Faulty(N)
  BY <1>0, <1>1 DEF Exits
<1>6. pc' = "report" => (Enforced' <=> Enforced)
  BY DEF Takes, GoTo, Exit, Enforced
<1>7. pc' = "divert" => Enforced'
  <2> SUFFICES ASSUME pc' = "divert" PROVE counters'.quarantined > 0
    BY DEF Enforced
  <2>1. counters' = CountRecord(counters, "quarantined")
    BY DEF Takes, GoTo, Exit
  <2> QED
    BY <2>1 DEF CountRecord, Inv, TypeOK, CountersType
<1>8. pc' = "done" => exit' \notin {Cleared, Breach}
  BY DEF Takes, GoTo, Exit, Cleared, Breach, RuntimeFailure
<1> QED
  BY <1>1, <1>4, <1>5, <1>6, <1>7, <1>8 DEF Exits

LEMMA WroteExits ==
  ASSUME NEW items, NEW where, where # "done", NEW done, NEW cut, Wrote(items, where, done, cut)
  PROVE  pc' \in {where, "done"} /\ (pc' # "done" \/ exit' \notin {Cleared, Breach})
BY DEF Wrote, Cleared, Breach, RuntimeFailure, Killed

LEMMA DivertExits ==
  ASSUME Inv, History, Exits, Divert
  PROVE  Exits' /\ (pc' # "done" \/ exit' \notin {Cleared, Breach})
<1>1. /\ pc = "divert" /\ UNCHANGED <<invocation, input, counters>>
      /\ \E items, done, cut : Wrote(items, "scan", done, cut)
  BY DivertMoves DEF world, progress
<1>2. pc' \in {"scan", "done"} /\ (pc' # "done" \/ exit' \notin {Cleared, Breach})
  BY <1>1, WroteExits
<1>3. PICK N \in Nat \ {0} : N = Len(input)
  BY <1>1, LineInProgress
<1>4. Faulty(N)
  BY <1>1, <1>3, MalformedVerdict, FaultyNext
<1>5. Enforced' /\ Faulty(Len(input))'
  <2>1. Faulty(Len(input))' <=> Faulty(N)
    BY <1>1, <1>3, FaultyStands
  <2> QED
    BY <1>1, <1>4, <2>1 DEF Exits, Enforced
<1> QED
  BY <1>2, <1>5 DEF Exits

LEMMA ReportExits ==
  ASSUME Inv, Exits, Report
  PROVE  Exits' /\ (pc' # "done" \/ exit' \notin {Cleared, Breach})
<1>1. /\ pc = "report" /\ UNCHANGED <<invocation, input>>
      /\ \E items, done, cut : Wrote(items, "report", done, cut)
      /\ \E r : counters' = CountWarning(counters, r)
  <2>1. /\ pc = "report" /\ UNCHANGED <<invocation, input>>
        /\ \E i \in pending : \E event, done, cut :
             counters' = CountWarning(counters, rules[i]) /\ Wrote(EventItems(event), "report", done, cut)
    BY ReportMoves DEF world
  <2> QED
    BY <2>1
<1>2. pc' \in {"report", "done"} /\ (pc' # "done" \/ exit' \notin {Cleared, Breach})
  BY <1>1, WroteExits
<1>3. counters'.quarantined = counters.quarantined /\ counters'.breached = counters.breached
  BY <1>1 DEF CountWarning, Inv, TypeOK, CountersType
<1>4. Enforced' <=> Enforced
  BY <1>3 DEF Enforced
<1>5. Faulty(Len(input) - 1)' <=> Faulty(Len(input) - 1)
  BY <1>1, FaultyStands
<1> QED
  BY <1>1, <1>2, <1>4, <1>5 DEF Exits

LEMMA RouteExits ==
  ASSUME Inv, History, Exits, Route
  PROVE  Exits' /\ (pc' # "done" \/ exit' \notin {Cleared, Breach})
<1> DEFINE outcome == Outcome(rules, flagged)
           halted == ShouldHalt(rules, flagged) /\ pc' # "done"
<1>1. /\ pc = "report" /\ UNCHANGED <<invocation, input>> /\ AfterRoute \in {"scan", "end"}
      /\ \E items, done, cut : Wrote(items, AfterRoute, done, cut)
      /\ counters' = Counting(counters, outcome, halted)
      /\ outcome \in {"cleared", "quarantined", "breached"}
  BY RouteMoves DEF world
<1>2. pc' \in {"scan", "end", "done"} /\ (pc' # "done" \/ exit' \notin {Cleared, Breach})
  BY <1>1, WroteExits
<1>3. PICK N \in Nat \ {0} : N = Len(input)
  BY <1>1, LineInProgress
<1>4. Promise!Verdict(N) = "accept" <=> outcome = "cleared"
  BY <1>1, <1>3, RecordVerdict
<1> HIDE DEF outcome, halted
<1>5. Enforced' <=> Enforced \/ outcome # "cleared"
  <2>1. counters \in Summary
    BY DEF Inv, TypeOK, CountersType, Summary
  <2>2. /\ counters'.quarantined = IF outcome = "quarantined" THEN counters.quarantined + 1 ELSE counters.quarantined
        /\ counters'.breached = IF outcome = "breached" THEN counters.breached + 1 ELSE counters.breached
        /\ counters.quarantined \in Nat /\ counters.breached \in Nat
    BY <1>1, <2>1, RecordCounted
  <2> QED
    BY <1>1, <2>2 DEF Enforced
<1>6. Enforced <=> Faulty(N - 1)
  BY <1>1, <1>3 DEF Exits
<1>7. Faulty(Len(input))' <=> Faulty(N)
  BY <1>1, <1>3, FaultyStands
<1>8. Faulty(N) <=> Faulty(N - 1) \/ outcome # "cleared"
  BY <1>3, <1>4, FaultyNext
<1>9. Enforced' <=> Faulty(Len(input))'
  BY <1>5, <1>6, <1>7, <1>8
<1> QED
  BY <1>2, <1>9 DEF Exits

LEMMA FinalizeExits ==
  ASSUME Inv, Exits, Finalize
  PROVE  Exits' /\ pc' # "done"
<1>1. /\ pc = "end" /\ pc' = "final" /\ UNCHANGED <<invocation, input, counters>>
      /\ flagged' \ pending' = {}
  BY DEF Finalize, GoTo, world
<1>2. (Enforced' <=> Enforced) /\ (Faulty(Len(input))' <=> Faulty(Len(input)))
  BY <1>1, FaultyStands DEF Enforced
<1>3. ~HasBreach(rules', flagged' \ pending')
  BY <1>1, NoHitsNoBreach
<1> QED
  BY <1>1, <1>2, <1>3 DEF Exits

LEMMA ReportFinalExits ==
  ASSUME Inv, Exits, ReportFinal
  PROVE  Exits' /\ (pc' # "done" \/ exit' \notin {Cleared, Breach})
<1>1. PICK i \in pending :
        /\ counters' = CountFinal(counters, rules[i]) /\ pending' = pending \ {i}
        /\ \E items, done, cut : Wrote(items, "final", done, cut)
  <2>1. \E i \in pending : \E event, done, cut :
          /\ counters' = CountFinal(counters, rules[i]) /\ pending' = pending \ {i}
          /\ Wrote(EventItems(event), "final", done, cut)
    BY ReportFinalMoves
  <2> QED
    BY <2>1
<1>2. pc = "final" /\ UNCHANGED <<invocation, input, contract, flagged>>
  BY ReportFinalMoves DEF world
<1>3. pc' \in {"final", "done"} /\ (pc' # "done" \/ exit' \notin {Cleared, Breach})
  BY <1>1, WroteExits
<1>4. HasBreach(rules', flagged' \ pending') <=> HasBreach(rules, flagged \ pending) \/ rules[i].action # "warn"
  <2>1. flagged' \ pending' = (flagged \ pending) \cup {i} /\ rules' = rules
    BY <1>1, <1>2 DEF Inv, TypeOK, CheckerType, rules
  <2>2. HasBreach(rules, (flagged \ pending) \cup {i})
          <=> HasBreach(rules, flagged \ pending) \/ rules[i].action # "warn"
    BY OneMoreHit
  <2> QED
    BY <2>1, <2>2
<1>5. Enforced' <=> Enforced \/ rules[i].action # "warn"
  <2>1. /\ counters'.quarantined = counters.quarantined
        /\ counters'.breached = IF rules[i].action = "warn" THEN counters.breached ELSE counters.breached + 1
        /\ counters.quarantined \in Nat /\ counters.breached \in Nat
    BY <1>1 DEF CountFinal, Inv, TypeOK, CountersType
  <2> QED
    BY <2>1 DEF Enforced
<1>6. Faulty(Len(input))' <=> Faulty(Len(input))
  BY <1>2, FaultyStands
<1> QED
  BY <1>2, <1>3, <1>4, <1>5, <1>6 DEF Exits

LEMMA ReturnExits ==
  ASSUME Inv, History, Exits, Unfinished', ReturnStatus
  PROVE  Exits' /\ ExitCodeSound'
<1>1. /\ pc = "final" /\ pc' = "done" /\ pending = {} /\ exit' \in {ExitStatus, Killed}
      /\ UNCHANGED <<invocation, contract, input, created>>
  BY DEF ReturnStatus, Exit, progress, streams, world
<1>2. Exits'
  BY <1>1 DEF Exits
<1>3. CASE exit' \notin {Cleared, Breach}
  BY <1>2, <1>3, OtherExits
<1>4. CASE exit' \in {Cleared, Breach}
  <2>1. ~interrupted /\ exit' = ExitCode(counters)
    BY <1>1, <1>4 DEF ExitStatus, Cleared, Breach, RuntimeFailure, Killed
  <2>2. exit' = Breach <=> Enforced
    BY <2>1 DEF ExitCode, Enforced, Cleared, Breach
  <2>3. Enforced <=> Faulty(Len(input)) \/ HasBreach(rules, flagged)
    <3>1. flagged \ pending = flagged
      BY <1>1
    <3> QED
      BY <1>1, <3>1 DEF Exits
  <2>4. DOMAIN input = 1..Len(input)
    BY DEF Inv, TypeOK, CheckerType
  <2>5. Faulty(Len(input)) <=> \E n \in DOMAIN input : Promise!Verdict(n) # "accept"
    BY <2>4 DEF Faulty
  <2>6. HasBreach(rules, flagged) <=>
          /\ ~Promise!Stopped
          /\ \E i \in FinalBreaches(rules, Cardinality(Parsed)) : rules[i].action # "warn"
    <3>1. counters.halted <=> Promise!Stopped
      BY <1>1, <2>4 DEF History, Ending, NoStop, Promise!Stopped
    <3>2. flagged = IF Promise!Stopped THEN {} ELSE FinalBreaches(rules, Cardinality(Parsed))
      BY <1>1, <2>1, <3>1 DEF History, Concluding, CountExact
    <3>3. HasBreach(rules, flagged) <=> \E i \in flagged : rules[i].action # "warn"
      BY DEF HasBreach, ActionsOf
    <3> QED
      BY <3>2, <3>3
  <2>7. Parsed = {n \in DOMAIN input : input[n].ok}
    BY <2>4 DEF Parsed
  <2>8. /\ \A n : Promise!Verdict(n)' = Promise!Verdict(n)
        /\ Promise!Stopped' <=> Promise!Stopped
    <3>1. /\ \A n : Promise!Verdict(n)' = Promise!Verdict(n)
          /\ \A n : Promise!Stops(n)' = Promise!Stops(n)
      BY <1>1, VerdictsStand
    <3> QED
      BY <1>1, <3>1 DEF Promise!Stopped
  <2>9. {n \in DOMAIN input' : input'[n].ok} = Parsed /\ rules' = rules
    BY <1>1, <2>7 DEF rules
  <2>10. exit' # InvalidContract
    BY <1>4 DEF Cleared, Breach, InvalidContract
  <2>11. exit' = Breach <=>
           \/ \E n \in DOMAIN input : Promise!Verdict(n) # "accept"
           \/ /\ ~Promise!Stopped
              /\ \E i \in FinalBreaches(rules, Cardinality(Parsed)) : rules[i].action # "warn"
    BY <2>2, <2>3, <2>5, <2>6
  <2>12. exit' = Breach <=>
           \/ \E n \in DOMAIN input' : Promise!Verdict(n)' # "accept"
           \/ /\ ~Promise!Stopped'
              /\ \E i \in FinalBreaches(rules', Cardinality({n \in DOMAIN input' : input'[n].ok})) :
                   rules'[i].action # "warn"
    BY <1>1, <2>8, <2>9, <2>11
  <2>13. ExitCodeSound'
    BY <2>10, <2>12 DEF ExitCodeSound
  <2> QED
    BY <1>2, <2>13
<1> QED
  BY <1>2, <1>3, <1>4

LEMMA NextExits == Inv /\ History /\ Exits /\ ExitCodeSound /\ Unfinished' /\ [Next]_vars => Exits' /\ ExitCodeSound'
<1> SUFFICES ASSUME Inv, History, Exits, ExitCodeSound, Unfinished', [Next]_vars
             PROVE  Exits' /\ ExitCodeSound'
  OBVIOUS
<1>1. CASE pc = "done" /\ UNCHANGED vars
  <2>1. UNCHANGED <<pc, exit, invocation, input, contract, created>>
    BY <1>1 DEF vars
  <2>2. /\ \A n : Promise!Verdict(n)' = Promise!Verdict(n)
        /\ \A n : Promise!Stops(n)' = Promise!Stops(n)
    BY <2>1, VerdictsStand
  <2>3. Promise!Stopped' <=> Promise!Stopped
    BY <2>1, <2>2 DEF Promise!Stopped
  <2>4. rules' = rules
    BY <2>1 DEF rules
  <2>5. ExitCodeSound'
    BY <2>1, <2>2, <2>3, <2>4 DEF ExitCodeSound
  <2> QED
    BY <1>1, <2>1, <2>5 DEF Exits
<1>2. CASE ReturnStatus
  BY <1>2, ReturnExits
<1>3. CASE Exits' /\ (pc' # "done" \/ exit' \notin {Cleared, Breach})
  BY <1>3, OtherExits
<1> QED
  BY <1>1, <1>2, <1>3, Steps, QuietExits, TakeExits, DivertExits, ReportExits, RouteExits,
     FinalizeExits, ReportFinalExits

\* For every input and whatever outputs are wired: exit code 1 is given exactly when a
\* line or the finished stream broke a rule that enforces, and 2 only before any reading.
THEOREM ExitCodeAlwaysSound == Spec => []ExitCodeSound
<1> DEFINE I == Inv /\ StreamsAgree /\ TornOutputsFail /\ History /\ Exits /\ ExitCodeSound
<1>1. Init => I
  BY InitInv, InitHistory, InitExits
<1>2. I /\ [Next]_vars => I'
  <2>1. I /\ [Next]_vars => Inv' /\ StreamsAgree' /\ TornOutputsFail' /\ History'
    BY NextInv, NextImplements DEF Implemented, Kept
  <2>2. Inv' => Unfinished'
    BY DEF Inv
  <2> QED
    BY <2>1, <2>2, NextExits
<1> QED
  BY <1>1, <1>2, PTL DEF Spec
=============================================================================
