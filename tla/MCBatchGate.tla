----------------------------- MODULE MCBatchGate -----------------------------
(***************************************************************************)
(* Small instances of BatchGate: batches of up to two of the three records.   *)
(***************************************************************************)
EXTENDS BatchGateProperties, MCContracts

MCRecord == 1..3

MCRequests ==
  [contract : MCContracts, source : {TRUE}, sinks : {{}, Sinks, {"accepted"}}]
    \cup [contract : MCContracts, source : {FALSE}, sinks : {Sinks}]
=============================================================================
