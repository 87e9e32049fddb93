\* Contracts that a host hands to brokoli.Run as it built them.
CONSTANTS
  Patterns = {}
  Emails = {}
  Matches = {}
  Exact = 8
  Spelling <- MCSpelling
  Member <- MCMember
  Text <- MCText
  Requests <- MCRequests
  Line <- MCLine
  MaxLines = 2
SPECIFICATION Spec
INVARIANT EvidenceCanonical
