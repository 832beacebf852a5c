SPECIFICATION FairSpec
CONSTANTS
  Segments <- MCSegments
  Servers <- MCServers
  Members <- MCMembers
  Unescaped <- MCUnescaped
  Malformed = {"%zz"}
  Keyed <- MCKeyed
  Escape <- MCEscape
  Suffixed <- MCSuffixed
  Designed <- MCDesigned
  Inputs <- MCInputs
  Dirs <- MCDirs
  Restored = {}
  MaxTyped = 3
  MaxOutside = 1
  Ids = {1, 2, 3, 4}
  Keys = {1, 2}
  Limits = {0, 1, 2}
  PageSize = 2
  ServerLimit = 2
  MaxPages = 3
  MaxWrites = 1
  Window = 2
INVARIANTS NotStranded OwnChangesOffered UpStepsOver CandidatesLead ListedOnce FinishedIsTrue
PROPERTIES WatchEnds
CHECK_DEADLOCK FALSE
