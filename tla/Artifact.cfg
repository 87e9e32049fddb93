\* Drafts written by hand or compiled by the SDKs, and the answers of two commands.
CONSTANTS
  Patterns = {"^1"}
  Exact = 8
  Spelling <- MCSpelling
  Drafts <- MCDrafts
  Dialect <- MCDialect
  Utf16 <- MCUtf16
  MaxReports = 2
SPECIFICATION Spec
INVARIANT TypeOK
 
INVARIANT DigestsAgree
INVARIANT EquivalentContracts
\* It stops when the last report is given.
CHECK_DEADLOCK FALSE
