-------------------------- MODULE CallgraphDetectors --------------------------
(***************************************************************************)
(* The detectors that visit call graphs (aderyn_core/src/detect): what     *)
(* each looks at, what its tracker keeps of the nodes it is shown, and     *)
(* when it captures the node it started from.                              *)
(***************************************************************************)
EXTENDS CallGraphs, StorageChanges

Marks ==
  { "loop", "loop part", "condition", "assert",             \* what a spot is
    "initial value",  \* the function gives a state variable its initial value
    "init name", "access modifier", "initializer", "payable", "constant", "old solc",
    "underscore", "emits", "require", "delegatecall", "delegatecall on local",
    "address check", "call decoded", "msg.value", "msg.sender", "tx.origin",
    "sends ether", "retry", "assembly", "reads state" }

(* What the detectors see of a node; writes is what really changes when it *)
(* runs, through pointers wherever they come from (external).              *)
FactsType ==
  [marks : SUBSET Marks, statements : SUBSET StatementType,
   lengths : SUBSET StateVariables,  \* arrays whose length a loop's condition reads
   writes : SUBSET StateVariables]

(* A body that changes nothing through a pointer writes what it names.     *)
WritesAreNamed(facts) ==
  LET changes == ChangesIn(facts.statements)
  IN  changes.pointers = {} => facts.writes \subseteq changes.direct
ASSUME FactsAssumption == \A facts \in Facts : facts \in FactsType /\ WritesAreNamed(facts)

MarksOf(d) == project.facts[d].marks
ChangesOf(facts) == ChangesIn(facts.statements)
SumOfChanges(cs) ==
  [direct |-> UNION {c.direct : c \in cs}, pointers |-> UNION {c.pointers : c \in cs},
   links |-> UNION {c.links : c \in cs}]

(* What a tracker has seen once the spot and the definitions were visited: *)
(* a function's own underscore hides its assembly.                         *)
Shown(marks) == IF "underscore" \in marks THEN marks \ {"assembly"} ELSE marks
Tracker(s, visited) ==
  LET retries == {d \in visited : "retry" \in MarksOf(d)}
  IN [ marks   |-> Shown(s.facts.marks) \cup UNION {Shown(MarksOf(d)) : d \in visited},
       retries |-> Cardinality(retries) + (IF "retry" \in s.facts.marks THEN 1 ELSE 0),
       changes |-> AddChanges(ChangesOf(s.facts),
                              SumOfChanges({ChangesOf(project.facts[d]) : d \in visited})) ]

-------------------------------------------------------------------------------
(* What the detectors start from.                                          *)
IsEntryPoint(d) == \E c \in DOMAIN routes : d \in EntrypointFunctions(project, routes[c])
IsCallableAndImplemented(d) ==
  /\ project.sort[d] \notin {"modifier", "variable"} /\ project.implemented[d]
  /\ project.visibility[d] \in {"public", "external"}
IsOldConstant(s) ==
  /\ s.whole /\ IsCallableAndImplemented(s.within)
  /\ {"constant", "old solc"} \subseteq s.facts.marks

LoopDetectors == {"costly-loop", "msg-value-in-loop"}
LoopPartDetectors == {"require-revert-in-loop", "delegatecall-in-loop"}
EntryDetectors == {"delegatecall-unchecked-address", "unprotected-initializer", "eth-send-unchecked-address"}
FunctionDetectors == {"out-of-order-retryable", "return-bomb"}
LegacyDetectors == {"constant-function-changes-state", "constant-function-contains-assembly"}
NodeDetectors == {"tx-origin-used-for-auth", "assert-state-change", "function-initializing-state"}
PerVisitDetectors ==
  LoopDetectors \cup LoopPartDetectors \cup EntryDetectors \cup FunctionDetectors
  \cup LegacyDetectors \cup NodeDetectors

Examines(detector, s) ==
  \/ detector \in LoopDetectors /\ "loop" \in s.facts.marks
  \/ detector \in LoopPartDetectors /\ "loop part" \in s.facts.marks
  \/ detector \in EntryDetectors /\ s.whole /\ IsEntryPoint(s.within)
  \/ detector \in FunctionDetectors /\ s.whole /\ IsCallableAndImplemented(s.within)
  \/ detector \in LegacyDetectors /\ IsOldConstant(s)
  \/ detector = "tx-origin-used-for-auth" /\ "condition" \in s.facts.marks
  \/ detector = "assert-state-change" /\ "assert" \in s.facts.marks
  \/ detector = "function-initializing-state" /\ s.whole /\ "initial value" \in s.facts.marks

(* When a tracker is satisfied, after one visit.                           *)
CostlyLoop(t) == HaveBeenManipulated(t.changes)
MsgValueInLoop(t) == "msg.value" \in t.marks
RequireRevertInLoop(t) == "require" \in t.marks
DelegatecallInLoop(t) == t.marks \cap {"delegatecall", "delegatecall on local"} # {}
DelegateCallUncheckedAddress(t) ==
  "delegatecall on local" \in t.marks /\ "address check" \notin t.marks
UnprotectedInitializer(s, t) ==
  "init name" \in s.facts.marks /\ t.marks \cap {"initializer", "require"} = {}
EthSendUncheckedAddress(s, t) ==
  /\ "sends ether" \in t.marks /\ "address check" \notin t.marks
  /\ "access modifier" \notin s.facts.marks
OutOfOrderRetryable(t) == t.retries >= 2
ReturnBomb(t) == "call decoded" \in t.marks /\ "address check" \notin t.marks
TxOriginUsedForAuth(t) == "tx.origin" \in t.marks /\ "msg.sender" \notin t.marks
AssertStateChange(t) == HaveBeenManipulated(t.changes)
FunctionInitializingState(t) == "reads state" \in t.marks
ConstFuncChangesState(t) == HaveBeenManipulated(t.changes)
ConstantFunctionContainsAssembly(t) == "assembly" \in t.marks

Satisfied(detector, s, t) ==
  CASE detector = "costly-loop" -> CostlyLoop(t)
    [] detector = "msg-value-in-loop" -> MsgValueInLoop(t)
    [] detector = "require-revert-in-loop" -> RequireRevertInLoop(t)
    [] detector = "delegatecall-in-loop" -> DelegatecallInLoop(t)
    [] detector = "delegatecall-unchecked-address" -> DelegateCallUncheckedAddress(t)
    [] detector = "unprotected-initializer" -> UnprotectedInitializer(s, t)
    [] detector = "eth-send-unchecked-address" -> EthSendUncheckedAddress(s, t)
    [] detector = "out-of-order-retryable" -> OutOfOrderRetryable(t)
    [] detector = "return-bomb" -> ReturnBomb(t)
    [] detector = "tx-origin-used-for-auth" -> TxOriginUsedForAuth(t)
    [] detector = "assert-state-change" -> AssertStateChange(t)
    [] detector = "function-initializing-state" -> FunctionInitializingState(t)
    [] detector = "constant-function-changes-state" -> ConstFuncChangesState(t)
    [] detector = "constant-function-contains-assembly" -> ConstantFunctionContainsAssembly(t)

(* The detectors that visit as this spot was visited capture it when one   *)
(* of the visits, each with a tracker of its own, satisfies them.          *)
VisitedInAll(r) ==  \* Mutant: one tracker for the visits in all contracts
  UNION {DOMAIN x.visits["inward"] : x \in finished}
Visited(r) == DOMAIN r.visits["inward"]
Captured(detector) ==
  /\ Examines(detector, spot.node)
  /\ spot.direction = "inward" /\ spot.legacy = (detector \in LegacyDetectors)
  /\ \E r \in finished : Satisfied(detector, spot.node, Tracker(spot.node, Visited(r)))

-------------------------------------------------------------------------------
(* The detectors that put several visits together.                         *)

(* state_variable_changes: the changes of every visit                      *)
AllChanges == SumOfChanges({Tracker(spot.node, Visited(r)).changes : r \in finished})

StateChangeWithoutEvent ==
  /\ spot.node.whole /\ IsCallableAndImplemented(spot.node.within)
  /\ project.sort[spot.node.within] # "constructor"
  /\ \E r \in finished : "emits" \notin Tracker(spot.node, Visited(r)).marks
  /\ HaveBeenManipulated(AllChanges)

StorageArrayLengthNotCached ==
  /\ "loop" \in spot.node.facts.marks /\ finished # {}
  /\ spot.node.facts.lengths # {}
  /\ \A var \in spot.node.facts.lengths : Verdict(AllChanges, var) = "not manipulated"

(* What a visit inward from a function sees, the visit told in one step    *)
(* (VisitsAreExact), and the contracts a function is visited in.           *)
Further(g, T) == T \cup UNION {g[d] : d \in T \cap DOMAIN g}
Reach(g, S) ==
  LET steps[n \in 0..Cardinality(DOMAIN g)] == IF n = 0 THEN S ELSE Further(g, steps[n - 1])
  IN  steps[Cardinality(DOMAIN g)]
ContractsOf(d) == {c \in DOMAIN graphs : d \in DOMAIN graphs[c]}
SeenFrom(d) == UNION {Reach(graphs[c], {d}) : c \in ContractsOf(d)}

ContractLocksEtherItself(c) ==  \* Mutant: only the bodies of entry points are looked at
  LET entryPoints == EntrypointFunctions(project, routes[c])
  IN  /\ \E e \in entryPoints : "payable" \in MarksOf(e)
      /\ \A e \in entryPoints : "sends ether" \notin MarksOf(e)
ContractLocksEtherOfAll(c) ==  \* Mutant: all of a graph an entry point is in is looked at
  LET entryPoints == EntrypointFunctions(project, routes[c])
  IN  /\ \E e \in entryPoints : "payable" \in MarksOf(e)
      /\ \A e \in entryPoints : \A b \in ContractsOf(e) : \A d \in DOMAIN graphs[b] :
           "sends ether" \notin MarksOf(d)
ContractLocksEther(c) ==
  LET entryPoints == EntrypointFunctions(project, routes[c])
  IN  /\ \E e \in entryPoints : "payable" \in MarksOf(e)
      /\ \A e \in entryPoints : \A d \in SeenFrom(e) : "sends ether" \notin MarksOf(d)

(* Mutant: only the bodies of entry points are looked at. *)
EntryPointsCouldBeConstant ==
  LET entryPoints == UNION {EntrypointFunctions(project, routes[c]) : c \in DOMAIN routes}
  IN  IF entryPoints = {} THEN {}
      ELSE StateVariables
             \ Manipulated(SumOfChanges({ChangesOf(project.facts[d]) : d \in entryPoints}))
StateVariableCouldBeConstant ==
  LET seenAtAll == UNION {SeenFrom(d) : d \in project.defs}
  IN  IF seenAtAll = {} THEN {}
      ELSE StateVariables
             \ Manipulated(SumOfChanges({ChangesOf(project.facts[d]) : d \in seenAtAll}))

-------------------------------------------------------------------------------
(* What runs in a contract, according to Solidity alone (external).        *)
TargetsOf(c, caller, calls) ==
  {SolidityTarget(project, c, caller, call) : call \in {x \in calls : x.style # "external"}}
RunEdges(c) ==
  [d \in {e \in project.defs : project.home[e] = NoContract \/ project.kind[project.home[e]] = "library"
                              \/ IsIn(project, project.home[e], c)}
     |-> TargetsOf(c, d, project.calls[d])]
RunsIn(c) == Reach(RunEdges(c), EntrypointFunctions(project, routes[c]))
RunsFrom(c, s) == Reach(RunEdges(c), TargetsOf(c, s.within, s.calls))
AllPlain ==
  \A c \in DOMAIN graphs : \A d \in DOMAIN graphs[c] :
    \A call \in {x \in project.calls[d] : x.style # "external"} : Plain(project, c, d, call)

(* A detector captures a node exactly when it should for the code that     *)
(* runs from it in one of the contracts: the guards of one contract do not *)
(* excuse another, and overridden code neither condemns nor excuses.       *)
CapturesAreWhatRuns ==
  phase = "done" /\ ~spot.legacy /\ spot.direction = "inward" /\ AllPlain =>
    \A detector \in PerVisitDetectors \ LegacyDetectors :
      Captured(detector) <=>
        /\ Examines(detector, spot.node)
        /\ \E c \in DOMAIN graphs :
             /\ spot.node.within \in RunsIn(c)
             /\ Satisfied(detector, spot.node, Tracker(spot.node, RunsFrom(c, spot.node)))

(* A loop is told to cache the length of an array only when no contract    *)
(* runs code from that loop that changes the array, by pointer or by name. *)
CachedLengthsDoNotChange ==
  phase = "done" /\ ~spot.legacy /\ spot.direction = "inward" /\ AllPlain
  /\ StorageArrayLengthNotCached =>
    \A c \in DOMAIN graphs : spot.node.within \in RunsIn(c) =>
      /\ spot.node.facts.lengths \cap spot.node.facts.writes = {}
      /\ \A d \in RunsFrom(c, spot.node) : spot.node.facts.lengths \cap project.facts[d].writes = {}

(* A contract said to lock its ether takes some and runs no code that      *)
(* sends any.                                                              *)
LockedEtherIsReal ==
  phase = "pick" /\ AllPlain =>
    \A c \in DOMAIN graphs : ContractLocksEther(c) =>
      \A d \in RunsIn(c) : "sends ether" \notin MarksOf(d)

(* A contract that takes ether and is not said to lock it runs code that   *)
(* sends some, but for what contract_locks_ether.rs:100 overlooks: another *)
(* contract that has one of its entry points excuses it, if code that runs *)
(* there from that entry point sends ether. No other code excuses it.      *)
SendsFrom(b, es) == \E d \in Reach(RunEdges(b), es) : "sends ether" \in MarksOf(d)
UnlockedEtherIsSent ==
  phase = "pick" /\ AllPlain =>
    \A c \in DOMAIN graphs :
      LET entryPoints == EntrypointFunctions(project, routes[c])
      IN  (\E e \in entryPoints : "payable" \in MarksOf(e)) /\ ~ContractLocksEther(c) =>
            \/ SendsFrom(c, entryPoints)
            \/ \E b \in DOMAIN graphs \ {c} : \E e \in entryPoints \cap RunsIn(b) : SendsFrom(b, {e})

(* What is said to be constant is written by no code that runs in a        *)
(* contract once it is there ("Investigate every function and collect all  *)
(* the state variables that could change",                                 *)
(* low/state_variable_could_be_constant.rs:27). Constructors are left out: *)
(* they are in no graph, and their changes are not looked for.             *)
ConstantsAreNeverWritten ==
  phase = "pick" =>
    \A c \in DOMAIN graphs : \A d \in RunsIn(c) :
      project.facts[d].writes \cap StateVariableCouldBeConstant = {}
===============================================================================
