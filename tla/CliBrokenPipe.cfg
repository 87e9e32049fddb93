\* A reader of standard output that goes away.
CONSTANTS
  Patterns = {}
  Emails = {}
  Matches = {}
  Exact = 8
  Spelling <- MCSpelling
  Member <- MCMember
  Text <- MCText
  Invocations <- StdinInvocations
  Line <- MCLine
  MaxLines = 2
SPECIFICATION Spec
INVARIANT BrokenPipeExits3
