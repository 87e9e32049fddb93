\* An input that SIGINT cannot close: a standard input in blocking mode.
CONSTANTS
  Patterns = {}
  Emails = {}
  Matches = {}
  Exact = 8
  Spelling <- MCSpelling
  Member <- MCMember
  Text <- MCText
  Invocations <- StdinInvocations
  Line <- MCLine
  MaxLines = 2
SPECIFICATION Spec
INVARIANT InterruptedExits3
