SPECIFICATION Spec
CONSTANTS
  Fns <- MCFns
  NoFn = "-"
  NoKey = "-"
  Symbols <- MCSymbols
  Projects <- MCProjects
  ProjectOf <- MCProjectOf
  AuthRounds = 6
  NestedRounds = 2
  ReturnDepth = 3
  Bases <- MCBases
  Hinted = {"nonces", "nonce", "cancelled"}
  Cancelling = {"cancelled"}
  Hashes = {"hash"}
  Values = {0, 1, 2}
  Accounts = {"signer", "owner", "sender", "a", "to"}
  Top = 7
  MaxCalls = 3
  MalleabilityRounds = 3
  ProofDepth = 3
  HalfOrder = 3
  Order = 7
  Symbolic = 0
  GateRounds = 3
  InlineDepth = 4
  Contract = {"this"}
  FreshnessDepth = 3
  Meaning <- MCMeaning
  Caller = "sender"
  Endings <- MCEndings
  Alphabet <- MCAlphabet
  Generations = {"version"}
  Unit <- MCUnit
  Parties = {"owner", "who", "sender"}
  State <- MCState
  Settings = {"maxAge"}
  Late = 5
  ValidationDepth = 4
  DependenceDepth = 7
  Standing <- MCStanding
  Telling = {"recovered", "valid", "ok"}
INVARIANT TypeOK
INVARIANT SpentSignaturesStaySpent
INVARIANT SummariesAreExact
 
INVARIANT IdentitiesAreProven
INVARIANT UnreportedSignaturesExpire
INVARIANT UnreportedAuthorizationsRunOnce
INVARIANT UnreportedAnswersAreOwners
INVARIANT UnreportedActsAreApproved
CHECK_DEADLOCK FALSE
