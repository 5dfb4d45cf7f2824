---------------------------- MODULE RouterProofs ----------------------------
(***************************************************************************)
(* The function router, for every project solc can write an AST of: what   *)
(* the routes hold, and that the calls that go through them reach what     *)
(* Solidity would run.                                                     *)
(***************************************************************************)
EXTENDS CallGraphs, DataInduction

IsProject(p) == p \in ProjectType /\ Linearized(p) /\ Declared(p) /\ CallsAreBound(p)

LEMMA ProjectsAreProjects ==
  ASSUME NEW n \in DOMAIN Projects
  PROVE  IsProject(Projects[n])
BY RouterAssumption, SolcAssumption DEF IsProject

-------------------------------------------------------------------------------
(* Positions in a linearization.                                           *)
LEMMA PositionIsIn ==
  ASSUME NEW p, IsProject(p), NEW base \in p.contracts, NEW c, IsIn(p, c, base)
  PROVE  /\ Position(p, c, base) \in Nat
         /\ Position(p, c, base) \in 1 .. Len(p.c3[base])
         /\ p.c3[base][Position(p, c, base)] = c
<1>1. p.c3[base] \in Seq(Contracts)
  BY DEF IsProject, ProjectType
<1>2. \E i \in DOMAIN p.c3[base] : p.c3[base][i] = c
  BY DEF IsIn, Range
<1>3. Position(p, c, base) \in DOMAIN p.c3[base] /\ p.c3[base][Position(p, c, base)] = c
  BY <1>2 DEF Position
<1> QED BY <1>1, <1>3

LEMMA PositionsDiffer ==
  ASSUME NEW p, IsProject(p), NEW base \in p.contracts, NEW b, NEW c,
         IsIn(p, b, base), IsIn(p, c, base), Position(p, b, base) = Position(p, c, base)
  PROVE  b = c
BY PositionIsIn

LEMMA PositionIs ==
  ASSUME NEW p, IsProject(p), NEW base \in p.contracts, NEW i \in 1 .. Len(p.c3[base])
  PROVE  IsIn(p, p.c3[base][i], base) /\ Position(p, p.c3[base][i], base) = i
<1>1. p.c3[base] \in Seq(Contracts) /\ i \in DOMAIN p.c3[base]
  BY DEF IsProject, ProjectType
<1>2. IsIn(p, p.c3[base][i], base)
  BY <1>1 DEF IsIn, Range
<1>3. /\ Position(p, p.c3[base][i], base) \in DOMAIN p.c3[base]
      /\ p.c3[base][Position(p, p.c3[base][i], base)] = p.c3[base][i]
  BY <1>1, <1>2, PositionIsIn
<1> QED BY <1>1, <1>2, <1>3 DEF IsProject, Linearized

LEMMA BaseIsFirst ==
  ASSUME NEW p, IsProject(p), NEW base \in p.contracts
  PROVE  IsIn(p, base, base) /\ Position(p, base, base) = 1
<1>1. p.c3[base] \in Seq(Contracts) /\ p.c3[base] # <<>> /\ p.c3[base][1] = base
  BY DEF IsProject, ProjectType, Linearized
<1>2. 1 \in 1 .. Len(p.c3[base])
  BY <1>1
<1> QED BY <1>1, <1>2, PositionIs

(* From a starting point: it and what comes behind it.                     *)
LEMMA FromIsBehind ==
  ASSUME NEW p, IsProject(p), NEW base \in p.contracts, NEW start, IsIn(p, start, base), NEW c
  PROVE  c \in From(p, base, start) <=>
           IsIn(p, c, base) /\ Position(p, start, base) <= Position(p, c, base)
<1>1. Position(p, start, base) \in 1 .. Len(p.c3[base]) /\ Len(p.c3[base]) \in Nat
  <2>1. p.c3[base] \in Seq(Contracts)
    BY DEF IsProject, ProjectType
  <2> QED BY <2>1, PositionIsIn
<1>2. ASSUME c \in From(p, base, start)
      PROVE  IsIn(p, c, base) /\ Position(p, start, base) <= Position(p, c, base)
  <2>1. PICK i \in Position(p, start, base) .. Len(p.c3[base]) : c = p.c3[base][i]
    BY <1>2 DEF From
  <2>2. i \in 1 .. Len(p.c3[base])
    BY <1>1, <2>1
  <2> QED BY <2>1, <2>2, PositionIs
<1>3. ASSUME IsIn(p, c, base), Position(p, start, base) <= Position(p, c, base)
      PROVE  c \in From(p, base, start)
  <2>1. /\ Position(p, c, base) \in 1 .. Len(p.c3[base])
        /\ p.c3[base][Position(p, c, base)] = c
    BY <1>3, PositionIsIn
  <2>2. Position(p, c, base) \in Position(p, start, base) .. Len(p.c3[base])
    BY <1>1, <1>3, <2>1
  <2> QED BY <2>1, <2>2 DEF From
<1> QED BY <1>2, <1>3

LEMMA FromBase ==
  ASSUME NEW p, IsProject(p), NEW base \in p.contracts, NEW c
  PROVE  c \in From(p, base, base) <=> IsIn(p, c, base)
<1>1. IsIn(p, base, base) /\ Position(p, base, base) = 1
  BY BaseIsFirst
<1>2. IsIn(p, c, base) => 1 <= Position(p, c, base)
  BY PositionIsIn
<1> QED BY <1>1, <1>2, FromIsBehind

(* The loop over a linearization keeps what it finds first.                *)
LEMMA FirstOfIsFirst ==
  ASSUME NEW p, IsProject(p), NEW base \in p.contracts, NEW ds, ds # {},
         \A d \in ds : IsIn(p, p.home[d], base)
  PROVE  /\ FirstOf(p, base, ds) \in ds
         /\ \A e \in ds :
              Position(p, p.home[FirstOf(p, base, ds)], base) <= Position(p, p.home[e], base)
<1> DEFINE pos == [d \in ds |-> Position(p, p.home[d], base)]
<1>1. \A d \in ds : pos[d] \in Nat
  BY PositionIsIn
<1>2. \E d \in ds : \A e \in ds : pos[d] <= pos[e]
  <2> HIDE DEF pos
  <2> QED BY <1>1, LeastElement
<1>3. \E d \in ds : \A e \in ds : Position(p, p.home[d], base) <= Position(p, p.home[e], base)
  BY <1>2
<1> QED BY <1>3 DEF FirstOf

-------------------------------------------------------------------------------
(* A route leads to the first of the candidates that have its selector.    *)
Found(p, base, start, ofInterest, s) ==
  {d \in Candidates(p, base, start, ofInterest) : p.selector[d] = s}

LEMMA CandidatesAreIn ==
  ASSUME NEW p, IsProject(p), NEW base \in p.contracts, NEW start, IsIn(p, start, base),
         NEW ofInterest, NEW d \in Candidates(p, base, start, ofInterest)
  PROVE  d \in ofInterest /\ IsIn(p, p.home[d], base)
BY FromIsBehind DEF Candidates

LEMMA RouteLeadsToFirst ==
  ASSUME NEW p, IsProject(p), NEW base \in p.contracts, NEW start, IsIn(p, start, base),
         NEW ofInterest, NEW s
  PROVE  /\ s \in DOMAIN Routes(p, base, start, ofInterest) <=>
              Found(p, base, start, ofInterest, s) # {}
         /\ Found(p, base, start, ofInterest, s) # {} =>
              /\ Routes(p, base, start, ofInterest)[s] \in Found(p, base, start, ofInterest, s)
              /\ \A e \in Found(p, base, start, ofInterest, s) :
                   Position(p, p.home[Routes(p, base, start, ofInterest)[s]], base)
                   <= Position(p, p.home[e], base)
<1> DEFINE found == Found(p, base, start, ofInterest, s)
<1>1. s \in DOMAIN Routes(p, base, start, ofInterest) <=> found # {}
  BY DEF Routes, Found
<1>2. found # {} => Routes(p, base, start, ofInterest)[s] = FirstOf(p, base, found)
  BY DEF Routes, Found
<1>3. \A d \in found : IsIn(p, p.home[d], base)
  BY CandidatesAreIn DEF Found
<1>4. found # {} => /\ FirstOf(p, base, found) \in found
                   /\ \A e \in found :
                        Position(p, p.home[FirstOf(p, base, found)], base) <= Position(p, p.home[e], base)
  <2> HIDE DEF found
  <2> QED BY <1>3, FirstOfIsFirst
<1> QED BY <1>1, <1>2, <1>4

(* The routes from outside are the outermost definitions.                  *)
LEMMA ExternalRoute ==
  ASSUME NEW p, IsProject(p), NEW base \in p.contracts, NEW s
  PROVE  LET out == {d \in Interface(p, base) : p.selector[d] = s}
             built == BuildExternalRoutes(p, base)
         IN  /\ s \in DOMAIN built <=> out # {}
             /\ s \in DOMAIN built => out = {built[s]}
<1> DEFINE out == {d \in Interface(p, base) : p.selector[d] = s}
           all == Externals(p)
           r == Routes(p, base, base, all)
           found == Found(p, base, base, all, s)
<1>1. BuildExternalRoutes(p, base) = IF IsBlind(p, base) THEN <<>> ELSE r
  BY FromBase DEF BuildExternalRoutes, Candidates, Externals, IsBlind
<1>2. IsIn(p, base, base)
  BY BaseIsFirst
<1>3. found = {d \in p.defs : IsExternal(p, d) /\ IsIn(p, p.home[d], base) /\ p.selector[d] = s}
  BY FromBase DEF Found, Candidates, Externals
<1>4. ~IsBlind(p, base) => out = {d \in found : ~\E e \in found : Position(p, p.home[e], base) < Position(p, p.home[d], base)}
  BY <1>3 DEF Outermost, Interface
<1>5. s \in DOMAIN r <=> found # {}
  BY <1>2, RouteLeadsToFirst
<1>6. ASSUME found # {}, ~IsBlind(p, base) PROVE out = {r[s]}
  <2>1. r[s] \in found /\ \A e \in found : Position(p, p.home[r[s]], base) <= Position(p, p.home[e], base)
    BY <1>2, <1>6, RouteLeadsToFirst
  <2>2. \A d \in found : Position(p, p.home[d], base) \in Nat
    BY <1>3, PositionIsIn
  <2>3. r[s] \in out
    <3> HIDE DEF out, found, r
    <3> QED BY <1>4, <1>6, <2>1, <2>2
  <2>4. ASSUME NEW d \in out PROVE d = r[s]
    <3>1. d \in found /\ ~(Position(p, p.home[r[s]], base) < Position(p, p.home[d], base))
      BY <1>4, <1>6, <2>1
    <3>2. Position(p, p.home[r[s]], base) = Position(p, p.home[d], base)
      <4> HIDE DEF found, r, out
      <4> QED BY <2>1, <2>2, <3>1
    <3>3. p.home[d] = p.home[r[s]]
      BY <1>3, <2>1, <3>1, <3>2, PositionsDiffer
    <3>4. p.home[d] # NoContract
      <4>1. IsIn(p, p.home[d], base)
        BY <1>3, <3>1
      <4>2. p.home[d] \in Contracts
        BY <4>1 DEF IsIn, Range, IsProject, ProjectType
      <4> QED BY <4>2, RouterAssumption
    <3> QED BY <1>3, <2>1, <3>1, <3>3, <3>4 DEF IsProject, Declared
  <2> QED BY <2>3, <2>4
<1>7. found = {} \/ IsBlind(p, base) => out = {}
  BY <1>4 DEF Interface
<1> HIDE DEF out, found, r
<1>8. ~IsBlind(p, base) => (s \in DOMAIN r <=> out # {}) /\ (s \in DOMAIN r => out = {r[s]})
  BY <1>5, <1>6, <1>7
<1>9. CASE IsBlind(p, base)
  BY <1>1, <1>7, <1>9 DEF out
<1>10. CASE ~IsBlind(p, base)
  BY <1>1, <1>8, <1>10 DEF out
<1> QED BY <1>9, <1>10

LEMMA EntrypointsAreOutermost ==
  ASSUME NEW p, IsProject(p), NEW base \in p.contracts
  PROVE  EntrypointFunctions(p, BuildRoutes(p, base)) =
           {d \in Interface(p, base) : p.sort[d] # "variable"}
<1> DEFINE built == BuildExternalRoutes(p, base)
<1>1. \A s : /\ s \in DOMAIN built <=> {d \in Interface(p, base) : p.selector[d] = s} # {}
             /\ s \in DOMAIN built => {d \in Interface(p, base) : p.selector[d] = s} = {built[s]}
  BY ExternalRoute
<1>2. EntrypointFunctions(p, BuildRoutes(p, base)) = {d \in Range(built) : p.sort[d] # "variable"}
  BY DEF EntrypointFunctions, BuildRoutes
<1> HIDE DEF built
<1>3. Range(built) \subseteq Interface(p, base)
  <2>1. ASSUME NEW s \in DOMAIN built PROVE built[s] \in Interface(p, base)
    <3>1. {d \in Interface(p, base) : p.selector[d] = s} = {built[s]}
      BY <1>1
    <3> QED BY <3>1
  <2> QED BY <2>1 DEF Range
<1>4. Interface(p, base) \subseteq Range(built)
  <2>1. ASSUME NEW d \in Interface(p, base) PROVE d \in Range(built)
    <3>1. p.selector[d] \in DOMAIN built
      BY <1>1
    <3>2. built[p.selector[d]] = d
      <4>1. {e \in Interface(p, base) : p.selector[e] = p.selector[d]} = {built[p.selector[d]]}
        BY <1>1, <3>1
      <4> QED BY <4>1
    <3> QED BY <3>1, <3>2 DEF Range
  <2> QED BY <2>1
<1>5. Range(built) = Interface(p, base)
  BY <1>3, <1>4
<1> QED BY <1>2, <1>5

(* An external call finds the outermost definition of its selector, or the *)
(* outermost fallback function.                                            *)
LEMMA ExternalCallIsRouted ==
  ASSUME NEW p, IsProject(p), NEW base, IsDeployable(p, base),
         NEW call, call.style = "external", call.suspect \in p.defs
  PROVE  LET found == {e \in Interface(p, base) : p.selector[e] = p.selector[call.suspect]}
             fallback == {e \in Interface(p, base) : p.sort[e] = "fallback"}
         IN  {ResolveExternalCall(p, base, BuildRoutes(p, base), call)} =
               IF LacksSelector(p, call.suspect) THEN {Unresolved}
               ELSE IF found # {} THEN found ELSE IF fallback # {} THEN fallback ELSE {Unresolved}
<1> DEFINE built == BuildExternalRoutes(p, base)
           sel == p.selector[call.suspect]
           outer(s) == {e \in Interface(p, base) : p.selector[e] = s}
           fallback == {e \in Interface(p, base) : p.sort[e] = "fallback"}
<1>1. base \in p.contracts
  BY DEF IsDeployable
<1>2. \A s : /\ s \in DOMAIN built <=> outer(s) # {}
             /\ s \in DOMAIN built => outer(s) = {built[s]}
  BY <1>1, ExternalRoute
<1>3. fallback = outer("FALLBACK")
  BY DEF Interface, Outermost, IsProject, Declared
<1>4. ResolveExternalCall(p, base, BuildRoutes(p, base), call) =
        IF LacksSelector(p, call.suspect) THEN Unresolved
        ELSE IF sel \in DOMAIN built THEN built[sel]
        ELSE IF "FALLBACK" \in DOMAIN built THEN built["FALLBACK"] ELSE Unresolved
  BY DEF ResolveExternalCall, ResolveSelector, BuildRoutes
<1>5. {ResolveExternalCall(p, base, BuildRoutes(p, base), call)} =
        IF LacksSelector(p, call.suspect) THEN {Unresolved}
        ELSE IF outer(sel) # {} THEN outer(sel) ELSE IF fallback # {} THEN fallback ELSE {Unresolved}
  <2> HIDE DEF built, outer, sel, fallback
  <2> QED BY <1>2, <1>3, <1>4
<1> QED BY <1>5

-------------------------------------------------------------------------------
(* The most derived of some definitions, one per contract, is the first of *)
(* them if the first has a body.                                           *)
LEMMA FirstIsMostDerived ==
  ASSUME NEW p, IsProject(p), NEW base \in p.contracts, NEW declared,
         \A d \in declared : IsIn(p, p.home[d], base),
         \A d, e \in declared : p.home[d] = p.home[e] => d = e,
         NEW first \in declared,
         \A e \in declared : Position(p, p.home[first], base) <= Position(p, p.home[e], base),
         \A d \in declared : p.implemented[d] \/ \E e \in declared : IsBehind(p, base, p.home[e], p.home[d])
  PROVE  LET found == {d \in declared : p.implemented[d]}
         IN  first = CHOOSE d \in found : \A e \in found \ {d} : IsBehind(p, base, p.home[d], p.home[e])
<1> DEFINE found == {d \in declared : p.implemented[d]}
           Derived(d) == \A e \in found \ {d} : IsBehind(p, base, p.home[d], p.home[e])
<1>1. \A d \in declared : Position(p, p.home[d], base) \in Nat
  BY PositionIsIn
<1>2. p.implemented[first]
  BY <1>1 DEF IsBehind
<1>3. \A e \in declared \ {first} : IsBehind(p, base, p.home[first], p.home[e])
  <2>1. ASSUME NEW e \in declared \ {first} 
        PROVE  IsBehind(p, base, p.home[first], p.home[e])
    <3>1. Position(p, p.home[first], base) # Position(p, p.home[e], base)
      BY PositionsDiffer
    <3> QED BY <1>1, <3>1 DEF IsBehind
  <2> QED BY <2>1
<1>4. first \in found /\ Derived(first)
  BY <1>2, <1>3
<1>5. ASSUME NEW d \in found, Derived(d) PROVE d = first
  BY <1>1, <1>3, <1>4, <1>5 DEF IsBehind
<1>6. first = CHOOSE d \in found : Derived(d)
  <2> HIDE DEF found, Derived
  <2> QED BY <1>4, <1>5
<1> QED BY <1>6

-------------------------------------------------------------------------------
(* What runs in a contract is free, of a library, or inherited.            *)
MayRunIn(p, base, d) ==
  d \in p.defs /\ (p.home[d] = NoContract \/ InLibrary(p, d) \/ IsIn(p, p.home[d], base))

LEMMA InheritedIsIn ==
  ASSUME NEW p, IsProject(p), NEW base \in p.contracts, NEW b, IsIn(p, b, base)
  PROVE  b \in p.contracts /\ \A x : IsIn(p, x, b) => IsIn(p, x, base)
<1>1. b \in p.contracts /\ b \in Range(p.c3[base])
  BY DEF IsProject, Linearized, IsIn
<1> QED BY <1>1 DEF IsProject, Linearized, IsIn

LEMMA HomesAreContracts ==
  ASSUME NEW p, IsProject(p), NEW d \in p.defs, p.home[d] # NoContract
  PROVE  p.home[d] \in p.contracts
BY DEF IsProject, Declared

(* A library stands alone.                                                 *)
LEMMA LibrariesAreAlone ==
  ASSUME NEW p, IsProject(p), NEW caller \in p.defs, InLibrary(p, caller),
         NEW b, Inherits(p, caller, b)
  PROVE  b = p.home[caller]
<1>1. p.home[caller] \in p.contracts /\ b \in Range(p.c3[p.home[caller]])
  BY HomesAreContracts DEF InLibrary, Inherits, IsIn
<1>2. p.kind[p.home[caller]] = "library"
  BY DEF InLibrary
<1> QED BY <1>1, <1>2 DEF IsProject, Linearized

LEMMA SuspectRuns ==
  ASSUME NEW p, IsProject(p), NEW base \in p.contracts, NEW caller, MayRunIn(p, base, caller),
         NEW call, RefersTo(p, caller, call), call.suspect \in p.defs
  PROVE  MayRunIn(p, base, call.suspect)
<1> DEFINE s == call.suspect
<1>1. CASE p.home[s] = NoContract \/ InLibrary(p, s)
  BY <1>1 DEF MayRunIn
<1>2. CASE Inherits(p, caller, p.home[s])
  <2>1. p.home[caller] # NoContract /\ IsIn(p, p.home[s], p.home[caller]) /\ caller \in p.defs
    BY <1>2 DEF Inherits, MayRunIn
  <2>2. CASE IsIn(p, p.home[caller], base)
    BY <2>1, <2>2, InheritedIsIn DEF MayRunIn
  <2>3. CASE InLibrary(p, caller)
    <3>1. p.home[s] = p.home[caller]
      BY <1>2, <2>1, <2>3, LibrariesAreAlone
    <3> QED BY <2>3, <3>1 DEF MayRunIn, InLibrary
  <2> QED BY <2>1, <2>2, <2>3 DEF MayRunIn
<1> QED BY <1>1, <1>2 DEF RefersTo

RoutesFrom(p, base, ofInterest) ==
  [start \in Range(p.c3[base]) |-> Routes(p, base, start, ofInterest)]

LEMMA LookUpStays ==
  ASSUME NEW p, IsProject(p), NEW base \in p.contracts, NEW start, NEW suspect, NEW s,
         NEW ofInterest \in SUBSET p.defs
  PROVE  LET d == LookUp(RoutesFrom(p, base, ofInterest), start, suspect, s)
         IN  d = Unresolved \/ d = suspect \/ (d \in p.defs /\ IsIn(p, p.home[d], base))
<1> DEFINE r == Routes(p, base, start, ofInterest)
           d == LookUp(RoutesFrom(p, base, ofInterest), start, suspect, s)
<1>1. CASE ~IsIn(p, start, base)
  BY <1>1 DEF LookUp, RoutesFrom, IsIn
<1>2. CASE IsIn(p, start, base)
  <2>1. d = IF s \in DOMAIN r THEN r[s] ELSE suspect
    BY <1>2 DEF LookUp, RoutesFrom, IsIn
  <2>2. s \in DOMAIN r => r[s] \in Found(p, base, start, ofInterest, s)
    BY <1>2, RouteLeadsToFirst
  <2>3. Found(p, base, start, ofInterest, s) \subseteq {e \in p.defs : IsIn(p, p.home[e], base)}
    BY <1>2, CandidatesAreIn DEF Found
  <2> HIDE DEF r
  <2>4. d = suspect \/ (d \in p.defs /\ IsIn(p, p.home[d], base))
    BY <2>1, <2>2, <2>3
  <2> QED BY <2>4
<1> QED BY <1>1, <1>2

(* A call made by what runs in a contract stays there.                     *)
LEMMA CallsStay ==
  ASSUME NEW p, IsProject(p), NEW base \in p.contracts, NEW caller, MayRunIn(p, base, caller),
         NEW calls, \A call \in calls : call \in p.calls[caller],
         NEW d \in Resolved(p, base, BuildRoutes(p, base), caller, calls)
  PROVE  MayRunIn(p, base, d)
<1> DEFINE r == BuildRoutes(p, base)
<1>1. PICK call \in calls : \/ d = ResolveInternalCall(p, base, r, caller, call)
                           \/ d = ResolveModifierCall(p, base, r, caller, call)
  BY DEF Resolved
<1>2. d \in p.defs /\ d # Unresolved
  BY RouterAssumption DEF Resolved, IsProject, ProjectType
<1>3. call.style # "external" /\ call.suspect \in p.defs
  BY <1>1, <1>2 DEF ResolveInternalCall, ResolveModifierCall
<1>4. MayRunIn(p, base, call.suspect)
  <2>1. caller \in p.defs /\ call \in p.calls[caller]
    BY DEF MayRunIn
  <2>2. RefersTo(p, caller, call)
    BY <1>3, <2>1 DEF IsProject, CallsAreBound
  <2> QED BY <1>3, <2>2, SuspectRuns
<1>5. /\ r.internal = RoutesFrom(p, base, InternalFunctions(p))
      /\ r.modifiers = RoutesFrom(p, base, Modifiers(p))
  BY DEF BuildRoutes, BuildInternalRoutes, BuildModifierRoutes, RoutesFrom
<1> DEFINE Looked(rs, start) == LookUp(rs, start, call.suspect, p.selector[call.suspect])
<1>6. d = call.suspect \/ \E start : d = Looked(r.internal, start) \/ d = Looked(r.modifiers, start)
  <2>1. ASSUME d = ResolveInternalCall(p, base, r, caller, call)
        PROVE  d = call.suspect \/ \E start : d = Looked(r.internal, start)
    <3>1. d = call.suspect \/ d = ResolveThroughTree(p, base, r, caller, call)
      BY <1>2, <2>1 DEF ResolveInternalCall
    <3>2. CASE d = ResolveThroughTree(p, base, r, caller, call)
      BY <1>2, <3>2 DEF ResolveThroughTree
    <3> QED BY <3>1, <3>2
  <2>2. ASSUME d = ResolveModifierCall(p, base, r, caller, call)
        PROVE  d = call.suspect \/ d = Looked(r.modifiers, base)
    BY <1>2, <2>2 DEF ResolveModifierCall
  <2> QED BY <1>1, <2>1, <2>2
<1>7. \A start : /\ Looked(r.internal, start) \in {Unresolved, call.suspect} \/ MayRunIn(p, base, Looked(r.internal, start))
                 /\ Looked(r.modifiers, start) \in {Unresolved, call.suspect} \/ MayRunIn(p, base, Looked(r.modifiers, start))
  <2>1. InternalFunctions(p) \in SUBSET p.defs /\ Modifiers(p) \in SUBSET p.defs
    BY DEF InternalFunctions, Modifiers
  <2> QED BY <1>5, <2>1, LookUpStays DEF MayRunIn
<1> HIDE DEF Looked, r
<1> QED BY <1>2, <1>4, <1>6, <1>7

-------------------------------------------------------------------------------
(* Looking a selector up from a starting point is Solidity's dispatch, if  *)
(* what is declared there and behind is what Solidity looks at.            *)
LEMMA LookUpDispatches ==
  ASSUME NEW p, IsProject(p), NEW base \in p.contracts, NEW start, IsIn(p, start, base),
         NEW ofInterest \in {InternalFunctions(p), Modifiers(p)},
         NEW caller, NEW call, call.suspect \in Candidates(p, base, start, ofInterest),
         Declarations(p, base, caller, call) =
           Found(p, base, start, ofInterest, p.selector[call.suspect]),
         Plain(p, base, caller, call), ~IsStatic(p, call)
  PROVE  /\ LookUp(RoutesFrom(p, base, ofInterest), start, call.suspect, p.selector[call.suspect])
           = SolidityTarget(p, base, caller, call)
         /\ SolidityTarget(p, base, caller, call) \in p.defs
<1> DEFINE sel == p.selector[call.suspect]
           r == Routes(p, base, start, ofInterest)
           declared == Declarations(p, base, caller, call)
           found == {d \in declared : p.implemented[d]}
<1>1. call.suspect \in Found(p, base, start, ofInterest, sel)
  BY DEF Found
<1>2. /\ sel \in DOMAIN r /\ r[sel] \in declared
      /\ \A e \in declared : Position(p, p.home[r[sel]], base) <= Position(p, p.home[e], base)
  <2>1. declared = Found(p, base, start, ofInterest, sel)
    OBVIOUS
  <2> HIDE DEF sel, declared
  <2> QED BY <1>1, <2>1, RouteLeadsToFirst
<1>3. LookUp(RoutesFrom(p, base, ofInterest), start, call.suspect, sel) = r[sel]
  BY <1>2 DEF LookUp, RoutesFrom, IsIn
<1>4. \A d \in declared : IsIn(p, p.home[d], base) /\ d \in ofInterest /\ p.selector[d] = sel
  BY DEF Declarations, Found, Candidates
<1>5. \A d \in declared : p.home[d] # NoContract
  <2>1. \A c : IsIn(p, c, base) => c \in Contracts
    BY DEF IsIn, Range, IsProject, ProjectType
  <2> QED BY <1>4, <2>1, RouterAssumption
<1>6. \A d, e \in declared : p.home[d] = p.home[e] => d = e
  BY <1>4, <1>5 DEF InternalFunctions, Modifiers, IsProject, Declared
<1>7. \A d \in declared : p.implemented[d] \/ \E e \in declared : IsBehind(p, base, p.home[e], p.home[d])
  BY DEF Plain
<1>8. r[sel] = CHOOSE d \in found : \A e \in found \ {d} : IsBehind(p, base, p.home[d], p.home[e])
  <2> HIDE DEF declared, r, sel
  <2> QED BY <1>2, <1>4, <1>6, <1>7, FirstIsMostDerived
<1>9. SolidityTarget(p, base, caller, call) =
        CHOOSE d \in found : \A e \in found \ {d} : IsBehind(p, base, p.home[d], p.home[e])
  BY DEF SolidityTarget, Implementations
<1>10. declared \subseteq p.defs
  BY DEF Declarations
<1> QED BY <1>2, <1>3, <1>8, <1>9, <1>10

(* What Solidity looks at: of everything inherited for a virtual call, and *)
(* of what is behind the caller's contract for a call of super.            *)
LEMMA DeclaredFromBase ==
  ASSUME NEW p, IsProject(p), NEW base \in p.contracts, NEW caller, NEW call,
         call.style # "super", call.suspect \in p.defs,
         NEW ofInterest, 
         \/ ofInterest = InternalFunctions(p) /\ p.sort[call.suspect] = "function"
         \/ ofInterest = Modifiers(p) /\ IsModifier(p, call.suspect)
  PROVE  Declarations(p, base, caller, call) =
           Found(p, base, base, ofInterest, p.selector[call.suspect])
<1>1. \A c : c \in From(p, base, base) <=> IsIn(p, c, base)
  BY FromBase
<1>2. Candidates(p, base, base, ofInterest) = {d \in ofInterest : IsIn(p, p.home[d], base)}
  BY <1>1 DEF Candidates
<1>3. CASE ofInterest = InternalFunctions(p) /\ p.sort[call.suspect] = "function"
  BY <1>2, <1>3 DEF Declarations, Found, InternalFunctions, IsInternalFunction
<1>4. CASE ofInterest = Modifiers(p) /\ IsModifier(p, call.suspect)
  <2>1. \A d \in p.defs : IsModifier(p, d) => p.visibility[d] = "internal"
    BY DEF IsProject, Declared
  <2> QED BY <1>2, <1>4, <2>1 DEF Declarations, Found, Modifiers, IsModifier
<1> QED BY <1>3, <1>4

LEMMA SuperStarts ==
  ASSUME NEW p, IsProject(p), NEW base \in p.contracts, NEW caller,
         p.home[caller] # NoContract, IsIn(p, p.home[caller], base),
         NEW call, call.style = "super", call.suspect \in p.defs, RefersTo(p, caller, call)
  PROVE  /\ HasNext(p, p.home[caller], base)
         /\ IsIn(p, NextIn(p, p.home[caller], base), base)
         /\ \A c : c \in From(p, base, NextIn(p, p.home[caller], base)) <=>
              IsIn(p, c, base) /\ IsBehind(p, base, p.home[caller], c)
         /\ IsBehind(p, base, p.home[caller], p.home[call.suspect])
         /\ IsIn(p, p.home[call.suspect], base)
<1> DEFINE h == p.home[caller]
           s == p.home[call.suspect]
<1>1. h \in p.contracts /\ IsIn(p, s, h) /\ s # h
  BY InheritedIsIn DEF RefersTo, Inherits
<1>2. IsIn(p, s, base)
  BY <1>1, InheritedIsIn
<1>3. Position(p, h, h) < Position(p, s, h)
  <2>1. IsIn(p, h, h) /\ Position(p, h, h) = 1
    BY <1>1, BaseIsFirst
  <2>2. Position(p, s, h) \in 1 .. Len(p.c3[h]) /\ Position(p, s, h) # Position(p, h, h)
    BY <1>1, <2>1, PositionIsIn, PositionsDiffer
  <2>3. p.c3[h] \in Seq(Contracts)
    BY <1>1 DEF IsProject, ProjectType
  <2> QED BY <2>1, <2>2, <2>3
<1>4. Position(p, h, base) < Position(p, s, base)
  <2>1. IsIn(p, h, h) /\ base \in p.contracts /\ h \in Range(p.c3[base])
    BY <1>1, BaseIsFirst DEF IsIn
  <2> QED BY <1>1, <1>3, <2>1 DEF IsProject, Linearized, IsIn
<1>5. /\ Position(p, h, base) \in 1 .. Len(p.c3[base])
      /\ Position(p, s, base) \in 1 .. Len(p.c3[base])
      /\ Len(p.c3[base]) \in Nat
  <2>1. p.c3[base] \in Seq(Contracts)
    BY DEF IsProject, ProjectType
  <2> QED BY <1>2, <2>1, PositionIsIn
<1>6. HasNext(p, h, base)
  BY <1>4, <1>5 DEF HasNext
<1>7. Position(p, h, base) + 1 \in 1 .. Len(p.c3[base])
  BY <1>4, <1>5
<1>8. /\ IsIn(p, NextIn(p, h, base), base)
      /\ Position(p, NextIn(p, h, base), base) = Position(p, h, base) + 1
  BY <1>7, PositionIs DEF NextIn
<1>9. ASSUME NEW c
      PROVE  c \in From(p, base, NextIn(p, h, base)) <=> IsIn(p, c, base) /\ IsBehind(p, base, h, c)
  <2>1. IsIn(p, c, base) => Position(p, c, base) \in Nat
    BY PositionIsIn
  <2>2. c \in From(p, base, NextIn(p, h, base)) <=>
          IsIn(p, c, base) /\ Position(p, h, base) + 1 <= Position(p, c, base)
    BY <1>8, FromIsBehind
  <2> QED BY <1>5, <2>1, <2>2 DEF IsBehind
<1> QED BY <1>2, <1>4, <1>6, <1>8, <1>9 DEF IsBehind

-------------------------------------------------------------------------------
(* The calls the router resolves, by the way they are written.             *)
IsCall(p, base, caller, call) ==
  /\ IsProject(p) /\ IsDeployable(p, base) /\ MayRunIn(p, base, caller)
  /\ call \in Calls /\ call.style # "external" /\ RefersTo(p, caller, call)
  /\ Plain(p, base, caller, call)

LEMMA CallsOfContracts ==
  ASSUME NEW p, NEW base, NEW caller, NEW call, IsCall(p, base, caller, call),
         ~InLibrary(p, caller), NEW b, Inherits(p, caller, b)
  PROVE  /\ base \in p.contracts /\ p.home[caller] \in p.contracts
         /\ IsIn(p, p.home[caller], base) /\ IsIn(p, b, base)
         /\ b \in p.contracts /\ b # NoContract /\ p.kind[b] # "library"
<1>1. base \in p.contracts /\ p.home[caller] # NoContract /\ IsIn(p, b, p.home[caller])
  BY DEF IsCall, IsDeployable, Inherits
<1>2. IsProject(p) /\ IsIn(p, p.home[caller], base)
  BY <1>1 DEF IsCall, MayRunIn
<1>3. p.home[caller] \in p.contracts /\ IsIn(p, b, base)
  BY <1>1, <1>2, InheritedIsIn
<1>4. b \in p.contracts
  BY <1>1, <1>2, <1>3, InheritedIsIn
<1>5. b # NoContract
  BY <1>2, <1>4, RouterAssumption DEF IsProject, ProjectType
<1>6. p.kind[b] # "library"
  <2>1. b \in Range(p.c3[p.home[caller]]) /\ p.kind[p.home[caller]] # "library"
    BY <1>1 DEF IsIn, InLibrary
  <2>2. "library" \in {p.kind[b], p.kind[p.home[caller]]} => b = p.home[caller]
    BY <1>2, <1>3, <2>1 DEF IsProject, Linearized
  <2> QED BY <2>1, <2>2
<1> QED BY <1>1, <1>2, <1>3, <1>4, <1>5, <1>6

LEMMA CallsOfLibraries ==
  ASSUME NEW p, NEW base, NEW caller, NEW call, IsCall(p, base, caller, call), InLibrary(p, caller)
  PROVE  /\ ResolveCall(p, base, BuildRoutes(p, base), caller, call) = SolidityTarget(p, base, caller, call)
         /\ SolidityTarget(p, base, caller, call) \in p.defs
<1> DEFINE s == call.suspect
<1>1. s \in p.defs /\ caller \in p.defs /\ IsProject(p)
  BY DEF IsCall, Plain, MayRunIn
<1>2. p.home[s] = NoContract \/ InLibrary(p, s)
  <2>1. CASE Inherits(p, caller, p.home[s])
    <3>1. p.home[s] = p.home[caller]
      BY <1>1, <2>1, LibrariesAreAlone
    <3> QED BY <3>1 DEF InLibrary
  <2> QED BY <2>1 DEF IsCall, RefersTo
<1>3. SolidityTarget(p, base, caller, call) = s
  BY <1>2 DEF SolidityTarget, IsStatic, InLibrary
<1>4. ~WrittenElsewhere(p, base, caller) /\ WrittenIn(p, caller, {"library"})
  BY DEF WrittenElsewhere, WrittenIn, InLibrary
<1>5. call.style \in Styles \ {"external"}
  BY DEF IsCall, Calls
<1>6. CASE call.style \in {"modifier", "qualified"}
  BY <1>1, <1>3, <1>4, <1>6 DEF ResolveCall, ResolveModifierCall, IsCall
<1>7. CASE call.style \in {"direct", "super", "explicit"}
  BY <1>1, <1>3, <1>4, <1>7 DEF ResolveCall, ResolveInternalCall, IsCall
<1> QED BY <1>5, <1>6, <1>7 DEF Styles

LEMMA ModifiersOfContracts ==
  ASSUME NEW p, NEW base, NEW caller, NEW call, IsCall(p, base, caller, call),
         ~InLibrary(p, caller), call.style \in {"modifier", "qualified"}
  PROVE  /\ ResolveCall(p, base, BuildRoutes(p, base), caller, call) = SolidityTarget(p, base, caller, call)
         /\ SolidityTarget(p, base, caller, call) \in p.defs
<1> DEFINE s == call.suspect
<1>1. /\ s \in p.defs /\ caller \in p.defs /\ IsProject(p) /\ IsModifier(p, s)
      /\ Inherits(p, caller, p.home[s]) /\ IsDeployable(p, base)
  BY DEF IsCall, Plain, MayRunIn, RefersTo
<1>2. /\ base \in p.contracts /\ p.home[caller] \in p.contracts
      /\ IsIn(p, p.home[caller], base) /\ IsIn(p, p.home[s], base)
      /\ p.home[s] # NoContract /\ p.kind[p.home[s]] # "library"
  BY <1>1, CallsOfContracts
<1>3. ~WrittenElsewhere(p, base, caller) /\ ~WrittenIn(p, caller, {"library"})
  BY <1>2 DEF WrittenElsewhere, WrittenIn, InLibrary
<1>4. CASE call.style = "qualified"
  BY <1>1, <1>3, <1>4 DEF ResolveCall, ResolveModifierCall, SolidityTarget, IsStatic
<1>5. CASE call.style = "modifier"
  <2>1. ResolveCall(p, base, BuildRoutes(p, base), caller, call) =
          LookUp(RoutesFrom(p, base, Modifiers(p)), base, s, p.selector[s])
    BY <1>1, <1>3, <1>5 DEF ResolveCall, ResolveModifierCall, BuildRoutes, BuildModifierRoutes, RoutesFrom
  <2>2. ~IsStatic(p, call)
    BY <1>1, <1>2, <1>5 DEF IsStatic, IsProject, Declared
  <2>3. s \in Candidates(p, base, base, Modifiers(p))
    BY <1>1, <1>2, FromBase DEF Candidates, Modifiers
  <2>4. Declarations(p, base, caller, call) = Found(p, base, base, Modifiers(p), p.selector[s])
    BY <1>1, <1>2, <1>5, DeclaredFromBase
  <2>5. Plain(p, base, caller, call) /\ IsIn(p, base, base)
    BY <1>1, <1>2, BaseIsFirst DEF IsCall
  <2> QED BY <1>1, <1>2, <2>1, <2>2, <2>3, <2>4, <2>5, LookUpDispatches
<1> QED BY <1>4, <1>5

LEMMA FunctionsOfContracts ==
  ASSUME NEW p, NEW base, NEW caller, NEW call, IsCall(p, base, caller, call),
         ~InLibrary(p, caller), call.style \in {"direct", "super", "explicit"}
  PROVE  /\ ResolveCall(p, base, BuildRoutes(p, base), caller, call) = SolidityTarget(p, base, caller, call)
         /\ SolidityTarget(p, base, caller, call) \in p.defs
<1> DEFINE s == call.suspect
           sel == p.selector[s]
           fns == InternalFunctions(p)
           target == ResolveCall(p, base, BuildRoutes(p, base), caller, call)
<1>1. /\ s \in p.defs /\ caller \in p.defs /\ IsProject(p) /\ RefersTo(p, caller, call)
      /\ IsDeployable(p, base) /\ base \in p.contracts /\ Plain(p, base, caller, call)
      /\ ~IsModifier(p, s) /\ p.sort[s] = "function"
  BY DEF IsCall, Plain, MayRunIn, RefersTo, IsDeployable
<1>2. ~WrittenElsewhere(p, base, caller) /\ ~WrittenIn(p, caller, {"library"})
  BY DEF WrittenElsewhere, WrittenIn, InLibrary, IsCall, MayRunIn
<1>3. target = IF p.visibility[s] = "private" \/ InLibrary(p, s) THEN s
               ELSE ResolveThroughTree(p, base, BuildRoutes(p, base), caller, call)
  BY <1>1, <1>2 DEF ResolveCall, ResolveInternalCall, InLibrary
<1>4. CASE p.visibility[s] = "private" \/ InLibrary(p, s)
  <2>1. IsStatic(p, call)
    BY <1>4 DEF IsStatic, InLibrary
  <2> QED BY <1>1, <1>3, <1>4, <2>1 DEF SolidityTarget
<1>5. ASSUME p.visibility[s] # "private", ~InLibrary(p, s)
      PROVE  target = SolidityTarget(p, base, caller, call) /\ SolidityTarget(p, base, caller, call) \in p.defs
  <2> DEFINE looked(start) == LookUp(RoutesFrom(p, base, fns), start, s, sel)
  <2>1. target = ResolveThroughTree(p, base, BuildRoutes(p, base), caller, call)
    BY <1>3, <1>5
  <2>2. BuildRoutes(p, base).internal = RoutesFrom(p, base, fns)
    BY DEF BuildRoutes, BuildInternalRoutes, RoutesFrom
  <2>3. p.home[s] # NoContract => IsInternalFunction(p, s) /\ s \in fns /\ Inherits(p, caller, p.home[s])
    <3>1. p.visibility[s] \in {"public", "external", "internal", "private"}
      BY <1>1 DEF IsProject, ProjectType
    <3> QED BY <1>1, <1>5, <3>1 DEF RefersTo, IsInternalFunction, InternalFunctions
  <2>4. p.home[s] # NoContract =>
          IsIn(p, p.home[caller], base) /\ IsIn(p, p.home[s], base) /\ p.home[caller] # NoContract
    BY <2>3, CallsOfContracts DEF Inherits
  <2>5. IsIn(p, base, base)
    BY <1>1, BaseIsFirst
  <2>6. CASE call.style = "direct" /\ p.home[s] = NoContract
    <3>1. target = looked(base)
      BY <2>1, <2>2, <2>6 DEF ResolveThroughTree
    <3>2. Found(p, base, base, fns, sel) = {}
      BY <1>1, <2>6, FromBase DEF Found, Candidates, InternalFunctions, Plain
    <3>3. sel \notin DOMAIN Routes(p, base, base, fns)
      BY <1>1, <2>5, <3>2, RouteLeadsToFirst
    <3>4. target = s
      BY <2>5, <3>1, <3>3 DEF LookUp, RoutesFrom, IsIn
    <3> QED BY <1>1, <2>6, <3>4 DEF SolidityTarget, IsStatic
  <2>7. CASE call.style = "direct" /\ p.home[s] # NoContract
    <3>1. target = looked(base)
      BY <2>1, <2>2, <2>7 DEF ResolveThroughTree
    <3>2. ~IsStatic(p, call)
      BY <1>5, <2>7 DEF IsStatic, InLibrary
    <3>3. s \in Candidates(p, base, base, fns)
      BY <1>1, <2>3, <2>4, <2>7, FromBase DEF Candidates
    <3>4. Declarations(p, base, caller, call) = Found(p, base, base, fns, sel)
      BY <1>1, <2>7, DeclaredFromBase
    <3> QED BY <1>1, <2>5, <3>1, <3>2, <3>3, <3>4, LookUpDispatches
  <2>8. CASE call.style = "super"
    <3> DEFINE start == NextIn(p, p.home[caller], base)
    <3>1. p.home[s] # NoContract
      <4>1. Inherits(p, caller, p.home[s])
        BY <1>1, <2>8 DEF RefersTo
      <4> QED BY <4>1, CallsOfContracts
    <3>2. /\ HasNext(p, p.home[caller], base)
          /\ IsIn(p, start, base)
          /\ \A c : c \in From(p, base, start) <=> IsIn(p, c, base) /\ IsBehind(p, base, p.home[caller], c)
          /\ IsBehind(p, base, p.home[caller], p.home[s])
      BY <1>1, <2>4, <2>8, <3>1, SuperStarts
    <3>3. target = looked(start)
      BY <2>1, <2>2, <2>4, <2>8, <3>1, <3>2 DEF ResolveThroughTree
    <3>4. ~IsStatic(p, call)
      BY <1>5, <2>8, <3>1 DEF IsStatic, InLibrary
    <3> HIDE DEF start
    <3>5. s \in Candidates(p, base, start, fns)
      BY <2>3, <2>4, <3>1, <3>2 DEF Candidates
    <3>6. Declarations(p, base, caller, call) = Found(p, base, start, fns, sel)
      BY <1>1, <2>8, <3>2 DEF Declarations, Found, Candidates, InternalFunctions, IsInternalFunction
    <3> QED BY <1>1, <3>2, <3>3, <3>4, <3>5, <3>6, LookUpDispatches
  <2>9. CASE call.style = "explicit"
    <3> DEFINE start == call.named
               found == Found(p, base, start, fns, sel)
               first == Routes(p, base, start, fns)[sel]
    <3>1. /\ Inherits(p, caller, start) /\ IsIn(p, p.home[s], start)
          /\ \A e \in p.defs : IsInternalFunction(p, e) /\ p.selector[e] = sel /\ IsIn(p, p.home[e], start)
                => Position(p, p.home[s], start) <= Position(p, p.home[e], start)
      BY <1>1, <1>5, <2>9 DEF RefersTo
    <3>2. IsIn(p, start, base) /\ start \in p.contracts
      BY <3>1, CallsOfContracts
    <3>3. \A c : c \in From(p, base, start) <=> IsIn(p, c, start)
      BY <1>1, <2>9, <3>2 DEF Plain, IsIn
    <3>4. \A c : IsIn(p, c, start) => c \in p.contracts /\ c # NoContract /\ IsIn(p, c, base)
      <4>1. \A c : IsIn(p, c, start) => c \in p.contracts
        BY <1>1, <3>2, InheritedIsIn
      <4>2. \A c : IsIn(p, c, start) => IsIn(p, c, base)
        BY <1>1, <3>2, InheritedIsIn
      <4>3. NoContract \notin p.contracts
        BY <1>1, RouterAssumption DEF IsProject, ProjectType
      <4> QED BY <4>1, <4>2, <4>3
    <3>5. s \in found
      BY <2>3, <3>1, <3>3, <3>4 DEF Found, Candidates
    <3>6. /\ sel \in DOMAIN Routes(p, base, start, fns) /\ first \in found
          /\ Position(p, p.home[first], base) <= Position(p, p.home[s], base)
      <4> HIDE DEF fns, sel, start
      <4> QED BY <1>1, <3>2, <3>5, RouteLeadsToFirst
    <3>7. target = first
      <4>1. target = looked(start)
        BY <1>1, <2>1, <2>2, <2>9, <3>2 DEF ResolveThroughTree
      <4> QED BY <3>2, <3>6, <4>1 DEF LookUp, RoutesFrom, IsIn
    <3>8. /\ first \in p.defs /\ IsInternalFunction(p, first) /\ p.selector[first] = sel
          /\ IsIn(p, p.home[first], start)
      BY <3>3, <3>6 DEF Found, Candidates, InternalFunctions
    <3>9. p.home[first] = p.home[s]
      <4> DEFINE f == p.home[first]
                 h == p.home[s]
      <4>1. Position(p, h, start) <= Position(p, f, start)
        BY <3>1, <3>8
      <4>2. IsIn(p, f, start) /\ IsIn(p, h, start) /\ IsIn(p, f, base) /\ IsIn(p, h, base)
        BY <3>1, <3>4, <3>8
      <4>3. Position(p, h, start) < Position(p, f, start) => Position(p, h, base) < Position(p, f, base)
        BY <1>1, <3>2, <4>2 DEF IsProject, Linearized, IsIn
      <4>4. Position(p, f, base) <= Position(p, h, base)
        BY <3>6
      <4>5. /\ Position(p, h, start) \in Nat /\ Position(p, f, start) \in Nat
            /\ Position(p, h, base) \in Nat /\ Position(p, f, base) \in Nat
        BY <1>1, <3>2, <4>2, PositionIsIn
      <4> HIDE DEF f, h
      <4>6. Position(p, h, start) = Position(p, f, start)
        BY <4>1, <4>3, <4>4, <4>5
      <4>7. f = h
        BY <1>1, <3>2, <4>2, <4>6, PositionsDiffer
      <4> QED BY <4>7 DEF f, h
    <3>10. p.home[s] # NoContract
      BY <3>1, <3>4
    <3>11. first = s
      BY <1>1, <2>3, <3>8, <3>9, <3>10 DEF IsProject, Declared
    <3> QED BY <1>1, <2>9, <3>7, <3>11 DEF SolidityTarget, IsStatic
  <2> QED BY <2>6, <2>7, <2>8, <2>9
<1> QED BY <1>4, <1>5

LEMMA CallReachesTarget ==
  ASSUME NEW p, NEW base, NEW caller, NEW call, IsCall(p, base, caller, call)
  PROVE  /\ ResolveCall(p, base, BuildRoutes(p, base), caller, call) = SolidityTarget(p, base, caller, call)
         /\ SolidityTarget(p, base, caller, call) \in p.defs
<1>1. call.style \in {"direct", "super", "explicit"} \/ call.style \in {"modifier", "qualified"}
  BY DEF IsCall, Calls, Styles
<1> QED BY <1>1, CallsOfLibraries, ModifiersOfContracts, FunctionsOfContracts

(* So the code that calls lead to, by the routes, is what Solidity runs.   *)
LEMMA ResolvedIsWhatRuns ==
  ASSUME NEW p, NEW base, NEW caller, IsProject(p), IsDeployable(p, base), MayRunIn(p, base, caller),
         NEW calls, calls \subseteq p.calls[caller],
         \A call \in calls : call.style # "external" => Plain(p, base, caller, call)
  PROVE  Resolved(p, base, BuildRoutes(p, base), caller, calls) =
           {SolidityTarget(p, base, caller, call) : call \in {x \in calls : x.style # "external"}}
<1> DEFINE r == BuildRoutes(p, base)
           Internal(call) == ResolveInternalCall(p, base, r, caller, call)
           Modified(call) == ResolveModifierCall(p, base, r, caller, call)
           Target(call) == SolidityTarget(p, base, caller, call)
<1>1. Unresolved \notin p.defs
  BY RouterAssumption DEF IsProject, ProjectType
<1>2. ASSUME NEW call \in calls, call.style # "external"
      PROVE  /\ Target(call) \in p.defs
             /\ Target(call) \in {Internal(call), Modified(call)}
             /\ \A d \in p.defs : d \in {Internal(call), Modified(call)} => d = Target(call)
  <2>1. call \in Calls /\ RefersTo(p, caller, call)
    BY <1>2 DEF MayRunIn, Plain, IsProject, ProjectType, CallsAreBound
  <2>2. IsCall(p, base, caller, call)
    BY <1>2, <2>1 DEF IsCall
  <2>3. ResolveCall(p, base, r, caller, call) = Target(call) /\ Target(call) \in p.defs
    BY <2>2, CallReachesTarget
  <2>4. CASE call.style \in {"modifier", "qualified"}
    <3>1. Internal(call) = Unresolved
      BY <2>4 DEF ResolveInternalCall
    <3> QED BY <1>1, <2>3, <2>4, <3>1 DEF ResolveCall
  <2>5. CASE call.style \notin {"modifier", "qualified"}
    <3>1. Modified(call) = Unresolved
      BY <2>5 DEF ResolveModifierCall
    <3> QED BY <1>1, <2>3, <2>5, <3>1 DEF ResolveCall
  <2> QED BY <2>4, <2>5
<1>3. ASSUME NEW call \in calls, call.style = "external"
      PROVE  Internal(call) = Unresolved /\ Modified(call) = Unresolved
  BY <1>3 DEF ResolveInternalCall, ResolveModifierCall
<1>4. Resolved(p, base, r, caller, calls) =
        {d \in p.defs : \E call \in calls : d \in {Internal(call), Modified(call)}}
  BY DEF Resolved
<1> HIDE DEF Internal, Modified, Target, r
<1>5. {d \in p.defs : \E call \in calls : d \in {Internal(call), Modified(call)}} =
        {Target(call) : call \in {x \in calls : x.style # "external"}}
  BY <1>1, <1>2, <1>3
<1> QED BY <1>4, <1>5 DEF Target, r
=============================================================================
