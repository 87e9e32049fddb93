------------------------------ MODULE MCCliRun ------------------------------
(***************************************************************************)
(* Small instances of CliRun: command lines and lines of input.              *)
(***************************************************************************)
EXTENDS CliRunProperties, MCContracts

MCLine == {[ok |-> TRUE, whole |-> TRUE, rec |-> o] : o \in 1..3}
            \cup {[ok |-> FALSE, whole |-> TRUE, rec |-> 0]}

\* Command lines that get as far as the loop, when the contract is valid.
Sound(outputs, formats, policies, closables) ==
  [arguments : {TRUE}, decodes : {TRUE}, contract : MCContracts, opens : {TRUE},
   outputs : outputs, creates : {Files}, format : formats, invalid : policies, closable : closables]

MCInvocations ==
  Sound({Files}, {"jsonl"}, {"quarantine"}, {TRUE, FALSE})
    \cup Sound({{}}, {"human"}, {"quarantine"}, {TRUE})
    \cup Sound({{"valid", "results"}}, {"human"}, {"fail"}, {TRUE})
    \cup {q \in [arguments : BOOLEAN, decodes : BOOLEAN, contract : MCContracts, opens : BOOLEAN,
                 outputs : {Files, {"quarantine"}}, creates : {{"valid", "results"}, {"quarantine"}},
                 format : {"jsonl"}, invalid : {"fail"}, closable : {TRUE}] :
          (q.arguments /\ q.decodes) \/ q.opens}

\* A standard input in blocking mode.
StdinInvocations == Sound({Files}, {"jsonl"}, {"quarantine"}, {FALSE})
=============================================================================
