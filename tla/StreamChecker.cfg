\* A checker of each contract over up to three records; it ends when it is finalized.
CONSTANTS
  Patterns = {"^1"}
  Emails = {2}
  Matches <- MCMatches
  Exact = 8
  Spelling <- MCSpelling
  Member <- MCMember
  Text <- MCText
  Read <- MCRead
  Given <- MCGiven
  Objects <- MCObjects
  MaxRecords = 3
SPECIFICATION Spec
INVARIANT TypeOK
INVARIANT UniqueOnce
INVARIANT VerdictsCanonical
INVARIANT JSONDecides
INVARIANT TransportsAgree
CHECK_DEADLOCK FALSE
