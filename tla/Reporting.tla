----------------------------- MODULE Reporting -----------------------------
(***************************************************************************)
(* What the three record loops of the code decide about a line and report     *)
(* of it. brokoli.Run, brokoli.RunBatches and the CLI's run each carry their   *)
(* own copy of these decisions; the copies agree, and are written here once:   *)
(*   adapter/brokoli/gate.go   117-148, 158-163, 182-195                     *)
(*   adapter/brokoli/batch.go   63-85, 108-114                               *)
(*   cmd/actually-fine/main.go 170-183, 198-216, 227-233, 259-264, 329-342     *)
(***************************************************************************)
EXTENDS Engine

\* A line of input: whether it parses to a JSON object, whether it is the line
\* the producer wrote, and the object.
LineType == [ok : BOOLEAN, whole : BOOLEAN, rec : Nat]

\* The fragment a failing reader leaves in the scanner's buffer. A proper
\* prefix of an object's text is not an object's text.
Fragment == [ok |-> FALSE, whole |-> FALSE, rec |-> 0]

ZeroSummary == [cleared |-> 0, warnings |-> 0, quarantined |-> 0, breached |-> 0, halted |-> FALSE]

(***************************************************************************)
(* One record: hits are the indexes of the rules it breaches                 *)
(***************************************************************************)
ActionsOf(rs, hits) == {rs[i].action : i \in hits}

\* Mutated: a warning counts as a breach.
HasBreachOfAnyAction(rs, hits) == hits # {}

HasBreach(rs, hits) == ActionsOf(rs, hits) \ {"warn"} # {}

ShouldQuarantine(rs, hits) == "quarantine" \in ActionsOf(rs, hits)

ShouldHalt(rs, hits) == "halt" \in ActionsOf(rs, hits)

\* Mutated: a reject wins over a quarantine.
OutcomeRejectFirst(rs, hits) ==
  IF ~HasBreach(rs, hits) THEN "cleared"
  ELSE IF ShouldQuarantine(rs, hits) /\ "reject" \notin ActionsOf(rs, hits) THEN "quarantined"
  ELSE "breached"

\* The counter that a record with these violations is counted under.
Outcome(rs, hits) ==
  IF ~HasBreach(rs, hits) THEN "cleared"
  ELSE IF ShouldQuarantine(rs, hits) THEN "quarantined"
  ELSE "breached"

CountRecord(s, outcome) == [s EXCEPT ![outcome] = @ + 1]

\* Mutated: every violation counts as a warning.
CountWarningAlways(s, r) == [s EXCEPT !.warnings = @ + 1]

\* The counter that the violation of a record by rule r adds to, if any.
CountWarning(s, r) == IF r.action = "warn" THEN [s EXCEPT !.warnings = @ + 1] ELSE s

\* Mutated: the breach of a final rule is published but not counted.
CountFinalWarnings(s, r) == IF r.action = "warn" THEN [s EXCEPT !.warnings = @ + 1] ELSE s

\* The counter that a final violation adds to.
CountFinal(s, r) ==
  IF r.action = "warn" THEN [s EXCEPT !.warnings = @ + 1] ELSE [s EXCEPT !.breached = @ + 1]

\* Mutated: the line of the last record, 0 if there was none.
FinalLineUnguarded(n) == n

FinalLine(n) == IF n > 1 THEN n ELSE 1

\* Mutated: severity and action change places.
MakeEventSwapped(c, r, line) ==
  [contract |-> c.id, version |-> c.version,
   status |-> IF r.action = "warn" THEN "warning" ELSE "breach",
   rule |-> r.id, ruleVersion |-> RuleVersion(r), line |-> line,
   severity |-> r.action, action |-> Severity(r)]

MakeEvent(c, r, line) ==
  [contract |-> c.id, version |-> c.version,
   status |-> IF r.action = "warn" THEN "warning" ELSE "breach",
   rule |-> r.id, ruleVersion |-> RuleVersion(r), line |-> line,
   severity |-> Severity(r), action |-> r.action]

ParseEvent(c, line) ==
  [contract |-> c.id, version |-> c.version, status |-> "breach",
   rule |-> InputParse, ruleVersion |-> "1", line |-> line,
   severity |-> "error", action |-> "quarantine"]

\* Summary.ExitCode, and the end of the CLI's run
ExitCode(s) == IF s.quarantined > 0 \/ s.breached > 0 THEN Breach ELSE Cleared
=============================================================================
