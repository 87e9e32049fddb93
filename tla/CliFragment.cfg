\* An input that fails in the middle of a line.
CONSTANTS
  Patterns = {}
  Emails = {}
  Matches = {}
  Exact = 8
  Spelling <- MCSpelling
  Member <- MCMember
  Text <- MCText
  Invocations <- StdinInvocations
  Line <- MCLine
  MaxLines = 2
SPECIFICATION Spec
INVARIANT FragmentsBreachNothing
