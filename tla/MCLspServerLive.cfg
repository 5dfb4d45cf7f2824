SPECIFICATION FairSpec
CONSTANTS
  f1 = f1
  f2 = f2
  d1 = d1
  d2 = d2
  Files = {f1, f2}
  Findings = {d1}
  NoDiags = NoDiags
  NoFile = NoFile
  CompiledWith <- MCCompiledWith
  Contents = {d1, "broken", "undecodable", "unresolvable"}
  InitialContents = {d1, "broken"}
  ChannelCap = 1
  OutCap = 1
  MaxEdits = 1
  MaxNoise = 0
PROPERTIES HandlersComplete EditorCatchesUp
CHECK_DEADLOCK FALSE
