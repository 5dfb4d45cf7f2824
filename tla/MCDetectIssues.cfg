SPECIFICATION Spec
CONSTANTS
  hi = hi
  lo = lo
  fa = fa
  fb = fb
  target = target
  h1 = h1
  h2 = h2
  Detectors = {hi, lo}
  Highs = {hi}
  NumContexts = 2
  Files = {fa, fb, target}
  Instances <- MCInstances
  Directives <- MCDirectives
  Hints = {h1, h2}
  NoHint = NoHint
  Workspaces <- MCWorkspaces
INVARIANTS ReportIsExpected OnlyLinksPanic HintsAreOfTheLastContext
CHECK_DEADLOCK FALSE
