-------------------------------- MODULE Router --------------------------------
(***************************************************************************)
(* The function router (aderyn_core/src/context/router.rs): for every      *)
(* contract that can be deployed, where internal calls, external calls and *)
(* modifier invocations go when the code runs in that contract.            *)
(*                                                                         *)
(* A project is what the ASTs say. A definition is a function, a modifier  *)
(* or a public state variable; its selector is the key the routes use: the *)
(* function selector, or name and parameter types (selectorish).           *)
(***************************************************************************)
EXTENDS Naturals, Sequences, FiniteSets, Functions

CONSTANTS
  Contracts,
  NoContract,   \* the home of a free function
  Definitions,  \* ids of functions, modifiers and public state variables
  Selectors,
  Facts,        \* what else a body says, of interest to the detectors
  Unresolved,   \* what a call resolves to when it is not resolved
  Projects      \* the projects considered: name -> project, see ProjectType

Kinds == {"contract", "abstract", "interface", "library"}
Sorts == {"function", "modifier", "variable", "constructor", "fallback", "receive"}

(* A call is how it is written and what solc's AST says it refers to:      *)
(* f() is direct, super.f() super, C.f() explicit (of a library, too), m   *)
(* a modifier and C.m a qualified one; external calls leave the contract.  *)
Styles == {"direct", "super", "explicit", "modifier", "qualified", "external"}
Calls == [style : Styles, suspect : Definitions, named : Contracts \cup {NoContract}]

ProjectType ==
  [contracts : SUBSET Contracts, kind : [Contracts -> Kinds],
   c3 : [Contracts -> Seq(Contracts)],   \* linearized_base_contracts
   defs : SUBSET Definitions,            \* those with an AST in the context
   home : [Definitions -> Contracts \cup {NoContract}],
   sort : [Definitions -> Sorts], selector : [Definitions -> Selectors],
   visibility : [Definitions -> {"public", "external", "internal", "private"}],
   implemented : [Definitions -> BOOLEAN],
   hasSelector : [Definitions -> BOOLEAN],  \* solc before 0.5 writes none
   calls : [Definitions -> SUBSET Calls],   \* made in the body of each
   facts : [Definitions -> Facts]]

ASSUME RouterAssumption ==
  /\ NoContract \notin Contracts
  /\ Unresolved \notin Definitions
  /\ \A n \in DOMAIN Projects : Projects[n] \in ProjectType /\ IsFiniteSet(Projects[n].defs)

(* Contracts of the linearization of a base, and who comes next in it.     *)
IsDeployable(p, c) == c \in p.contracts /\ p.kind[c] = "contract"
Deployable(p) == {c \in p.contracts : IsDeployable(p, c)}
IsIn(p, c, base) == c \in Range(p.c3[base])
Position(p, c, base) == CHOOSE i \in DOMAIN p.c3[base] : p.c3[base][i] = c
HasNext(p, c, base) == IsIn(p, c, base) /\ Position(p, c, base) < Len(p.c3[base])
NextInFromSelf(p, c, base) == p.c3[base][Position(p, c, base)]  \* Mutant: off by one
NextIn(p, c, base) == p.c3[base][Position(p, c, base) + 1]

(* What the loop over the linearization from a starting point finds first: *)
(* an entry that is not vacant is kept.                                    *)
From(p, base, start) == {p.c3[base][i] : i \in Position(p, start, base)..Len(p.c3[base])}
Candidates(p, base, start, ofInterest) ==
  {d \in ofInterest : p.home[d] \in From(p, base, start)}
LastOf(p, base, ds) ==  \* Mutant: an entry that is not vacant is replaced
  CHOOSE d \in ds : \A e \in ds : Position(p, p.home[d], base) >= Position(p, p.home[e], base)
FirstOf(p, base, ds) ==
  CHOOSE d \in ds : \A e \in ds : Position(p, p.home[d], base) <= Position(p, p.home[e], base)
Routes(p, base, start, ofInterest) ==
  LET found == Candidates(p, base, start, ofInterest)
  IN  [s \in {p.selector[d] : d \in found} |-> FirstOf(p, base, {d \in found : p.selector[d] = s})]

IsInternalFunction(p, d) == p.sort[d] = "function" /\ p.visibility[d] \in {"internal", "public"}
IsModifier(p, d) == p.sort[d] = "modifier"
IsExternal(p, d) ==
  \/ p.sort[d] = "variable" /\ p.visibility[d] = "public"
  \/ p.sort[d] = "function" /\ p.visibility[d] \in {"public", "external"}
  \/ p.sort[d] \in {"fallback", "receive"}

InternalFunctions(p) == {d \in p.defs : IsInternalFunction(p, d)}
Modifiers(p) == {d \in p.defs : IsModifier(p, d)}
Externals(p) == {d \in p.defs : IsExternal(p, d)}

BuildInternalRoutes(p, base) ==
  [start \in Range(p.c3[base]) |-> Routes(p, base, start, InternalFunctions(p))]
BuildModifierRoutes(p, base) ==
  [start \in Range(p.c3[base]) |-> Routes(p, base, start, Modifiers(p))]

(* What solc has seen to when it writes an AST (external). It linearizes   *)
(* the bases of a contract so that theirs are kept in order.               *)
Linearized(p) ==
  \A c \in p.contracts :
    /\ p.c3[c] # <<>> /\ p.c3[c][1] = c /\ Range(p.c3[c]) \subseteq p.contracts
    /\ \A i, j \in DOMAIN p.c3[c] : p.c3[c][i] = p.c3[c][j] => i = j
    /\ \A b \in Range(p.c3[c]) : "library" \in {p.kind[b], p.kind[c]} => b = c
    /\ \A b \in Range(p.c3[c]) : \A x, y \in Range(p.c3[b]) :
         /\ x \in Range(p.c3[c])
         /\ Position(p, x, b) < Position(p, y, b) => Position(p, x, c) < Position(p, y, c)

(* A contract declares a selector once of each sort.                       *)
Declared(p) ==
  /\ \A d \in p.defs :
       /\ p.home[d] \in p.contracts \cup {NoContract}
       /\ IsModifier(p, d) => p.home[d] # NoContract /\ p.visibility[d] = "internal"
       /\ IsExternal(p, d) => (p.selector[d] = "FALLBACK" <=> p.sort[d] = "fallback")
  /\ \A d, e \in p.defs :
       /\ p.home[d] = p.home[e] /\ p.home[d] # NoContract /\ p.selector[d] = p.selector[e]
       /\ \/ IsExternal(p, d) /\ IsExternal(p, e)
          \/ IsInternalFunction(p, d) /\ IsInternalFunction(p, e)
          \/ IsModifier(p, d) /\ IsModifier(p, e)
       => d = e

(* What a call refers to: something the caller's contract inherits, or     *)
(* free, or of a library; super is behind it; C.f is the first f of C.     *)
InLibrary(p, d) == p.home[d] # NoContract /\ p.kind[p.home[d]] = "library"
Inherits(p, caller, c) == p.home[caller] # NoContract /\ IsIn(p, c, p.home[caller])
RefersTo(p, caller, call) ==
  LET s == call.suspect
  IN  /\ p.home[s] = NoContract \/ InLibrary(p, s) \/ Inherits(p, caller, p.home[s])
      /\ IsModifier(p, s) <=> call.style \in {"modifier", "qualified"}
      /\ IsModifier(p, s) => Inherits(p, caller, p.home[s])
      /\ ~IsModifier(p, s) => p.sort[s] = "function" /\ (p.visibility[s] # "external" \/ InLibrary(p, s))
      /\ call.style = "super" =>
           IsInternalFunction(p, s) /\ Inherits(p, caller, p.home[s]) /\ p.home[s] # p.home[caller]
      /\ call.style = "explicit" => InLibrary(p, s) \/
           /\ Inherits(p, caller, call.named) /\ IsIn(p, p.home[s], call.named)
           /\ \A e \in p.defs :
                IsInternalFunction(p, e) /\ p.selector[e] = p.selector[s] /\ IsIn(p, p.home[e], call.named)
                => Position(p, p.home[s], call.named) <= Position(p, p.home[e], call.named)
CallsAreBound(p) ==
  \A caller \in p.defs : \A call \in p.calls[caller] :
    call.style # "external" /\ call.suspect \in p.defs => RefersTo(p, caller, call)

ASSUME SolcAssumption ==
  \A n \in DOMAIN Projects :
    Linearized(Projects[n]) /\ Declared(Projects[n]) /\ CallsAreBound(Projects[n])

(* One definition without a selector leaves the contract without external  *)
(* routes. The selectors of fallback and receive are "FALLBACK", "RECEIVE".*)
LacksSelector(p, d) == p.sort[d] \in {"variable", "function"} /\ ~p.hasSelector[d]
BuildExternalRoutes(p, base) ==
  LET all == Candidates(p, base, base, Externals(p))
  IN  IF \E d \in all : LacksSelector(p, d) THEN <<>>
      ELSE Routes(p, base, base, Externals(p))

BuildRoutes(p, base) ==
  [internal |-> BuildInternalRoutes(p, base), external |-> BuildExternalRoutes(p, base),
   modifiers |-> BuildModifierRoutes(p, base)]

EntrypointFunctions(p, routes) == {d \in Range(routes.external) : p.sort[d] # "variable"}

-------------------------------------------------------------------------------
(* Resolving one call written in the body of caller.                       *)

(* A call written in a contract the base does not inherit from is not its  *)
(* business; one written in a library goes where the AST says.             *)
WrittenIn(p, caller, kinds) == p.home[caller] # NoContract /\ p.kind[p.home[caller]] \in kinds
WrittenElsewhere(p, base, caller) ==
  WrittenIn(p, caller, {"contract", "abstract"}) /\ ~IsIn(p, p.home[caller], base)

LookUp(routes, start, suspect, selector) ==
  IF start \notin DOMAIN routes THEN Unresolved
  ELSE IF selector \in DOMAIN routes[start] THEN routes[start][selector]
  ELSE suspect

ResolveThroughTree(p, base, routes, caller, call) ==
  LET lookUpFrom(start) == LookUp(routes.internal, start, call.suspect, p.selector[call.suspect])
  IN CASE call.style = "direct" -> lookUpFrom(base)
       [] call.style = "super" ->
            IF p.home[caller] # NoContract /\ HasNext(p, p.home[caller], base)
            THEN lookUpFrom(NextIn(p, p.home[caller], base)) ELSE Unresolved
       [] call.style = "explicit" ->
            IF IsIn(p, call.named, base) THEN lookUpFrom(call.named) ELSE Unresolved
       [] OTHER -> Unresolved

(* resolve_internal_call                                                   *)
ResolveInternalCall(p, base, routes, caller, call) ==
  IF \/ call.style \notin {"direct", "super", "explicit"}
     \/ ~IsDeployable(p, base)
     \/ call.suspect \notin p.defs
     \/ WrittenElsewhere(p, base, caller)
  THEN Unresolved
  ELSE IF \/ WrittenIn(p, caller, {"library"})
          \/ p.visibility[call.suspect] = "private"
          \/ p.home[call.suspect] # NoContract /\ p.kind[p.home[call.suspect]] = "library"
       THEN call.suspect
       ELSE ResolveThroughTree(p, base, routes, caller, call)

(* resolve_modifier_call                                                   *)
ResolveModifierCall(p, base, routes, caller, call) ==
  IF \/ call.style \notin {"modifier", "qualified"}
     \/ ~IsDeployable(p, base)
     \/ call.suspect \notin p.defs
     \/ WrittenElsewhere(p, base, caller)
  THEN Unresolved
  ELSE IF WrittenIn(p, caller, {"library"}) \/ call.style = "qualified"
       THEN call.suspect
       ELSE LookUp(routes.modifiers, base, call.suspect, p.selector[call.suspect])

(* resolve_function_selector, and resolve_external_call with the selector  *)
(* of the suspect: what is not found goes to the fallback function.        *)
ResolveSelector(p, base, routes, selector) ==
  IF ~IsDeployable(p, base) THEN Unresolved
  ELSE IF selector \in DOMAIN routes.external THEN routes.external[selector]
  ELSE IF "FALLBACK" \in DOMAIN routes.external THEN routes.external["FALLBACK"]
  ELSE Unresolved
ResolveExternalCall(p, base, routes, call) ==
  IF call.style # "external" \/ call.suspect \notin p.defs \/ LacksSelector(p, call.suspect)
  THEN Unresolved
  ELSE ResolveSelector(p, base, routes, p.selector[call.suspect])

(* The functions and modifiers a body leads to, in a base.                 *)
Resolved(p, base, routes, caller, calls) ==
  {d \in p.defs : \E call \in calls :
     d \in { ResolveInternalCall(p, base, routes, caller, call),
             ResolveModifierCall(p, base, routes, caller, call)}}

-------------------------------------------------------------------------------
(* What Solidity says of the same calls, without any routes (external).    *)

(* A virtual call runs the most derived implementation, a call of super    *)
(* the most derived one behind the caller's contract; a private function,  *)
(* a library function, a free function and a function named with its       *)
(* contract are what they are.                                             *)
IsStatic(p, call) ==
  \/ call.style \in {"explicit", "qualified"}
  \/ p.visibility[call.suspect] = "private"
  \/ p.home[call.suspect] = NoContract
  \/ p.kind[p.home[call.suspect]] = "library"
IsBehind(p, base, c, d) == Position(p, c, base) < Position(p, d, base)
Declarations(p, base, caller, call) ==
  {d \in p.defs :
     /\ IsIn(p, p.home[d], base)
     /\ p.selector[d] = p.selector[call.suspect] /\ p.sort[d] = p.sort[call.suspect]
     /\ p.visibility[d] \in {"internal", "public"}
     /\ call.style = "super" => IsBehind(p, base, p.home[caller], p.home[d])}
Implementations(p, base, caller, call) ==
  {d \in Declarations(p, base, caller, call) : p.implemented[d]}
SolidityTarget(p, base, caller, call) ==
  IF IsStatic(p, call) THEN call.suspect
  ELSE LET found == Implementations(p, base, caller, call)
       IN  CHOOSE d \in found : \A e \in found \ {d} : IsBehind(p, base, p.home[d], p.home[e])
===============================================================================
