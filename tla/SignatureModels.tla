---------------------------- MODULE SignatureModels ----------------------------
(***************************************************************************)
(* What the detectors of signature flaws have in common (aderyn_core/src/  *)
(* detect/high): a model of every function, made from the AST and from the *)
(* text of its body; calls resolved to functions; summaries that flow from *)
(* callees to callers in rounds; entry points judged one after another.    *)
(* A text is what the detectors find in it, a name a symbol.               *)
(***************************************************************************)
EXTENDS Naturals, Sequences, FiniteSets, SequencesExt

CONSTANTS
  Fns,          \* ids of function definitions
  NoFn,         \* where a reference does not lead to a function
  NoKey,        \* of a place that is a plain variable
  Symbols,      \* names of parameters, locals and state variables
  Alphabet,     \* the same in an order
  Projects,     \* names of the projects considered
  ProjectOf(_)  \* name -> project, a skeleton and the facts of its detector

(* What every project has, besides the facts its detector is after.        *)
IsSkeleton(p) ==
  /\ p.fns \subseteq Fns /\ p.detector \in STRING
  /\ p.named \in [p.fns -> STRING] /\ p.file \in [p.fns -> Nat] /\ p.scope \in [p.fns -> STRING]
  /\ p.entry \in [p.fns -> BOOLEAN] /\ p.hasBody \in [p.fns -> BOOLEAN]

ASSUME SignatureAssumption ==
  /\ NoFn \notin Fns
  /\ \A n \in Projects : IsSkeleton(ProjectOf(n))

VARIABLES
  name,         \* of the project, and its sources
  project,
  phase,        \* "propagate", "assess", "search", "done"
  round,        \* rounds of propagation made
  sites,        \* function -> its calls, resolved
  summaries,    \* function -> what is known of it and its callees
  helpers,      \* function -> what it and its callees write, of nonces
  left,         \* entry points not judged yet; of nonces, those that passed
  stack,        \* a search of the calls: frames [fn, rest, ...]
  visited,      \* functions the search went into
  vulnerable    \* functions to be captured

sigVars == <<name, project, phase, round, sites, summaries, helpers, left, stack, visited, vulnerable>>
EntryFns(p) == {f \in p.fns : p.entry[f]}

(* A body is a sequence of the statements a detector finds in a text.      *)
Body(p, f) == p.body[f]
At(p, f, op) == {i \in DOMAIN Body(p, f) : Body(p, f)[i].op = op}

Judge(f, isVulnerable) ==
  /\ left' = left \ {f}
  /\ vulnerable' = IF isVulnerable THEN vulnerable \cup {f} ELSE vulnerable

-------------------------------------------------------------------------------
(* Resolution of calls. A name stands for a function when it is the only   *)
(* one of that name in the file, or else in the project.                   *)
SameFile(p, f, call) == {g \in p.fns : p.named[g] = call.by /\ p.file[g] = p.file[f]}
SameName(p, call) == {g \in p.fns : p.named[g] = call.by}
IsOnly(ids, f) == \E g \in ids : ids = {g} /\ g # f
Only(ids) == CHOOSE g \in ids : TRUE

ResolveIdentifier(p, f, call) ==
  IF call.refers \in p.fns \ {f} THEN call.refers ELSE NoFn
ResolveMember(p, f, call) ==
  IF call.refers \in p.fns \ {f} /\ p.hasBody[call.refers] THEN call.refers
  ELSE IF IsOnly(SameFile(p, f, call), f) THEN Only(SameFile(p, f, call))
  ELSE IF IsOnly(SameName(p, call), f) THEN Only(SameName(p, call))
  ELSE NoFn
Callee(p, f, call) ==
  IF call.member THEN ResolveMember(p, f, call) ELSE ResolveIdentifier(p, f, call)
===============================================================================
