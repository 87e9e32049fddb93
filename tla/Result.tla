------------------------------- MODULE Result -------------------------------
(***************************************************************************)
(* The result protocol (result/result.go): exit codes, events, and what    *)
(* Event.Validate demands of an event before a writer or a sink gets it.    *)
(***************************************************************************)
EXTENDS Contract

Cleared == 0
Breach == 1
InvalidContract == 2
RuntimeFailure == 3

\* The rule id "input.parse" that the gates give to malformed lines. Nothing
\* keeps a contract from using the same id.
InputParse == 1

\* The events that the gates publish.
Event == [contract : STRING, version : STRING, status : {"warning", "breach"},
          rule : Nat \ {0}, ruleVersion : {"1"}, line : Nat \ {0},
          severity : {"warning", "error"}, action : Actions]

\* Event.Validate; the protocol version, the path and the message are set by
\* every caller to text that is not empty, and are left out of the record.
EventValid(e) ==
  /\ e.status \in {"warning", "breach"}
  /\ e.contract # "" /\ e.version # ""
  /\ e.rule # 0 /\ e.ruleVersion # ""
  /\ e.line >= 1
  /\ e.severity # "" /\ e.action # ""
=============================================================================
