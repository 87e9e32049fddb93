\* brokoli.RunBatches over up to three records in batches of up to two.
CONSTANTS
  Patterns = {}
  Emails = {}
  Matches = {}
  Exact = 8
  Spelling <- MCSpelling
  Member <- MCMember
  Text <- MCText
  Requests <- MCRequests
  Record <- MCRecord
  MaxBatch = 2
  MaxRecords = 3
SPECIFICATION FairSpec
INVARIANT TypeOK
INVARIANT EvidenceFirst
INVARIANT SummaryAgrees
INVARIANT AtMostOneBatchInFlight
PROPERTY RefinesGate
PROPERTY Termination
