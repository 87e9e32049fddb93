---------------------------- MODULE MCNdjsonGate ----------------------------
(***************************************************************************)
(* Small instances of NdjsonGate: the lines, and the requests of a host.      *)
(***************************************************************************)
EXTENDS NdjsonGateProperties, MCContracts

MCLine == {[ok |-> TRUE, whole |-> TRUE, rec |-> o] : o \in 1..3}
            \cup {[ok |-> FALSE, whole |-> TRUE, rec |-> 0]}

MCRequests ==
  [contract : MCContracts, invalid : {"", "quarantine"}, reader : {TRUE}, sinks : {{}, Sinks}]
    \cup [contract : MCContracts, invalid : {"drop"}, reader : {TRUE}, sinks : {Sinks}]
    \cup [contract : MCContracts, invalid : {"quarantine"}, reader : {FALSE}, sinks : {Sinks}]
    \cup [contract : MCContracts, invalid : {"quarantine"}, reader : {TRUE},
          sinks : {{"accepted"}, {"evidence"}, {"quarantined", "evidence"}}]
=============================================================================
