SPECIFICATION FairSpec
CONSTANTS
  s1 = s1
  s2 = s2
  switch = switch
  shared = shared
  Sources = {s1, s2}
  Readers = {switch, shared}
  Branches <- MCBranches
  Rounds = 2
  Samples = 2
  MaxRegistrations = 2
  None = None
INVARIANTS
  TypeOK
  NoReportLost
  AttachmentsFollowReaders
  HandlesOwnRegistrations
PROPERTIES
  OperationsEnd
