SPECIFICATION Spec
CONSTANTS
  first = first
  corrected = corrected
  anonymous = anonymous
  undated = undated
  unnamed = unnamed
  form = form
  File <- MCFile
  Application = {first, corrected, anonymous, undated, unnamed}
  Incomplete = {undated}
  Nameless = {unnamed}
  ResponseIdOf <- MCResponseIdOf
  NoResponseId = NoResponseId
  Partial = Partial
  NoObject = NoObject
  Inbox <- LoneInbox
  Absent = Absent
  Corrupt = Corrupt
  WriteCounts <- Once
  FaultCounts <- MCFaultCounts
  MaxClosed = 1
INVARIANTS
  RegisteredMeansImported
