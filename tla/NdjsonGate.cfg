\* brokoli.Run over up to three lines, with every placement of a failing sink, a
\* failing reader and a cancelled context.
CONSTANTS
  Patterns = {}
  Emails = {}
  Matches = {}
  Exact = 8
  Spelling <- MCSpelling
  Member <- MCMember
  Text <- MCText
  Requests <- MCRequests
  Line <- MCLine
  MaxLines = 3
SPECIFICATION FairSpec
INVARIANT TypeOK
INVARIANT AcceptedUnique
INVARIANT EvidenceInOrder
INVARIANT EvidenceFirst
INVARIANT EventsValid
INVARIANT SummaryAgrees
INVARIANT ExitCodeSound
INVARIANT AtMostOneInFlight
PROPERTY RefinesGate
PROPERTY Termination
