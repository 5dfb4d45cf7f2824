SPECIFICATION Spec
CONSTANTS
  f1 = f1
  f2 = f2
  d1 = d1
  d2 = d2
  Files = {f1, f2}
  Findings = {d1, d2}
  NoDiags = NoDiags
  NoFile = NoFile
  CompiledWith <- MCCompiledWith
  Contents = {d1, d2, "gone"}
  InitialContents = {d1, d2}
  ChannelCap = 1
  OutCap = 1
  MaxEdits = 2
  MaxNoise = 1
INVARIANTS TypeOK SentFilesAreTracked ClientIsExclusive
PROPERTIES ImplementsMirror
CHECK_DEADLOCK FALSE
SYMMETRY MCSymmetry
