\* arrow.RunGate over up to three rows in batches of up to two.
CONSTANTS
  Patterns = {}
  Emails = {}
  Matches = {}
  Exact = 8
  Spelling <- MCSpelling
  Member <- MCMember
  Text <- MCText
  Requests <- MCRequests
  Record <- MCRecord
  Columns <- MCColumns
  Hosted <- MCHosted
  MaxInt64 = 15
  MaxBatch = 2
  MaxRecords = 3
SPECIFICATION ArrowSpec
INVARIANT TypeOK
INVARIANT CellsSurvive
INVARIANT HostedSurvive
INVARIANT WritersClosed
INVARIANT StreamsComplete
