\* A column that is null in the first batch that a writer gets.
CONSTANTS
  Patterns = {}
  Emails = {}
  Matches = {}
  Exact = 8
  Spelling <- MCSpelling
  Member <- MCMember
  Text <- MCText
  Requests <- MCRequests
  Record <- MCRecord
  Columns <- MCColumns
  Hosted <- MCHosted
  MaxInt64 = 15
  MaxBatch = 2
  MaxRecords = 3
SPECIFICATION ArrowSpec
INVARIANT ValuesKeepTheirType
