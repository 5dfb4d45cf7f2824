SPECIFICATION FairSpec
CONSTANTS
  f1 = f1
  f2 = f2
  d1 = d1
  d2 = d2
  Files = {f1, f2}
  Findings = {d1}
  NoDiags = NoDiags
  NoFile = NoFile
  CompiledWith <- MCCompiledWith
  Contents = {d1, "gone"}
  InitialContents = {d1, "gone"}
  ChannelCap = 1
  OutCap = 1
  MaxEdits = 2
  MaxNoise = 0
PROPERTIES FileChangesAreTaken
CHECK_DEADLOCK FALSE
