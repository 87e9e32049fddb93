\* A type rule at the root path.
CONSTANTS
  Patterns = {"^1"}
  Emails = {2}
  Matches <- MCMatches
  Exact = 8
  Spelling <- MCSpelling
  Member <- MCMember
  Text <- MCText
  Read <- MCRead
  Given <- MCGiven
  Objects <- MCObjects
  MaxRecords = 3
SPECIFICATION Spec
INVARIANT RecordsAreObjects
CHECK_DEADLOCK FALSE
