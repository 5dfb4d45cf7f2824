SPECIFICATION FairSpec
CONSTANTS
  f1 = f1
  f2 = f2
  d1 = d1
  d2 = d2
  Files = {f1, f2}
  Findings = {d1}
  NoDiags = NoDiags
  NoFile = NoFile
  CompiledWith <- MCCompiledWith
  Contents = {d1, "clean"}
  InitialContents = {d1, "clean"}
  ChannelCap = 1
  OutCap = 1
  MaxEdits = 0
  MaxNoise = 0
PROPERTIES FirstRunReachesEditor
CHECK_DEADLOCK FALSE
