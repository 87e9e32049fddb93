\* `actually-fine run` over up to three lines, with every placement of a failing
\* write, a failing read and an interrupt.
CONSTANTS
  Patterns = {}
  Emails = {}
  Matches = {}
  Exact = 8
  Spelling <- MCSpelling
  Member <- MCMember
  Text <- MCText
  Invocations <- MCInvocations
  Line <- MCLine
  MaxLines = 3
SPECIFICATION FairSpec
INVARIANT TypeOK
INVARIANT EvidenceSorted
INVARIANT StreamsAgree
INVARIANT TornOutputsFail
INVARIANT ExitCodeSound
PROPERTY RefinesGate
PROPERTY InterruptReturns
