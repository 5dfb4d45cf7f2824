------------------------------ MODULE CallGraphs ------------------------------
(***************************************************************************)
(* The call graphs of a project (aderyn_core/src/context/graph): one for   *)
(* every contract that can be deployed, of the code its entry points lead  *)
(* to, and the visits the detectors make of them, starting from the node   *)
(* of the AST they are interested in.                                      *)
(*                                                                         *)
(* The order a HashMap or a HashSet is walked in, and the order of calls   *)
(* in a body, are open: the next node to look at is any that is waiting.   *)
(***************************************************************************)
EXTENDS Router, TLC

(* A node a detector starts from: a function or modifier, or a part of it  *)
(* (a loop, a condition, the arguments of a call) with the calls in it.    *)
SpotType ==
  [within : Definitions, whole : BOOLEAN, calls : SUBSET Calls, facts : Facts]

CONSTANTS
  SpotsOf(_),   \* the spots of a project that are looked at
  Directions    \* a subset of {"inward", "outward", "both ways"}

ASSUME CallGraphsAssumption ==
  \A n \in DOMAIN Projects : \A s \in SpotsOf(Projects[n]) :
    /\ s \in SpotType /\ s.within \in Projects[n].defs
    /\ s.calls \subseteq Projects[n].calls[s.within]

Vectors == {"entry", "inward", "outward", "side effects"}

VARIABLES
  name,        \* of the project
  phase,       \* "route", "graph", "pick", "visit", "done"
  routes,      \* Router: contract -> its routes
  graphs,      \* inward_callgraphs: contract -> (node -> nodes it calls)
  contract,    \* the contract at work: its graph is built, or visited
  entries,     \* its entry points not started from
  pending,     \* current: the nodes to look at next
  graph,       \* raw_callgraph of contract; its keys are the nodes visited
  spot,        \* the node of interest, and how it is asked for
  consumers,   \* the contracts whose graph is yet to be visited from it
  vector,      \* the DFS vector of the visit
  seen,        \* the visited sets of the three vectors
  visits,      \* how often each definition was shown to the tracker
  finished     \* the visits made, with the contract of each

buildVars == <<routes, graphs, entries, graph>>
visitVars == <<spot, consumers, vector, seen, visits, finished>>
vars == <<name, phase, contract, pending, buildVars, visitVars>>

(* HashMap::insert                                                         *)
Insert(map, key, value) ==
  [k \in DOMAIN map \cup {key} |-> IF k = key THEN value ELSE map[k]]

project == Projects[name]
EmptyGraph == [d \in {} |-> {}]
NoSpot == [legacy |-> FALSE]
NoVisits == [v \in Vectors |-> [d \in {} |-> 0]]
NothingSeen == [v \in Vectors |-> {}]

TypeOK ==
  /\ name \in DOMAIN Projects
  /\ phase \in {"route", "graph", "pick", "visit", "done"}
  /\ DOMAIN graphs \subseteq Deployable(project)
  /\ contract \in project.contracts \cup {NoContract}
  /\ entries \subseteq project.defs
  /\ pending \subseteq Definitions
  /\ DOMAIN graph \subseteq project.defs
  /\ \A d \in DOMAIN graph : graph[d] \subseteq project.defs
  /\ consumers \subseteq project.contracts \cup {NoContract}
  /\ vector \in Vectors
  /\ seen \in [Vectors -> SUBSET Definitions]
  /\ DOMAIN visits = Vectors

Init ==
  /\ name \in DOMAIN Projects
  /\ phase = "route" /\ contract = NoContract
  /\ routes = <<>> /\ graphs = <<>>
  /\ entries = {} /\ pending = {} /\ graph = EmptyGraph
  /\ spot = NoSpot /\ consumers = {} /\ vector = "entry"
  /\ seen = NothingSeen /\ visits = NoVisits /\ finished = {}

-------------------------------------------------------------------------------
(* Router::build, then WorkspaceCallGraphs::build.                         *)

(* The routes of the contracts are computed in parallel and share nothing. *)
BuildRouter ==
  /\ phase = "route"
  /\ routes' = [c \in Deployable(project) |-> BuildRoutes(project, c)]
  /\ phase' = "graph"
  /\ UNCHANGED <<name, contract, pending, graphs, entries, graph, visitVars>>

Callees(c, caller) == Resolved(project, c, routes[c], caller, project.calls[caller])

StartContract(c) ==
  /\ phase = "graph" /\ contract = NoContract
  /\ c \in DOMAIN routes \ DOMAIN graphs
  /\ contract' = c
  /\ entries' = EntrypointFunctions(project, routes[c])
  /\ graph' = EmptyGraph
  /\ UNCHANGED <<name, phase, pending, routes, graphs, visitVars>>

StartEntry(e) ==
  /\ phase = "graph" /\ contract # NoContract
  /\ pending = {} /\ e \in entries
  /\ pending' = {e} /\ entries' = entries \ {e}
  /\ UNCHANGED <<name, phase, contract, routes, graphs, graph, visitVars>>

SkipNode(n) ==
  /\ phase = "graph" /\ n \in pending /\ n \in DOMAIN graph
  /\ pending' = pending \ {n}
  /\ UNCHANGED <<name, phase, contract, buildVars, visitVars>>

(* Mutant: the nodes a node calls are not looked at.                       *)
ExpandNodeOnly(n) ==
  /\ phase = "graph" /\ n \in pending /\ n \notin DOMAIN graph
  /\ graph' = Insert(graph, n, Callees(contract, n))
  /\ pending' = pending \ {n}
  /\ UNCHANGED <<name, phase, contract, routes, graphs, entries, visitVars>>

(* Mutant: a node that was looked at is looked at again.                   *)
ExpandNodeAgain(n) ==
  /\ phase = "graph" /\ n \in pending
  /\ graph' = Insert(graph, n, Callees(contract, n))
  /\ pending' = (pending \ {n}) \cup Callees(contract, n)
  /\ UNCHANGED <<name, phase, contract, routes, graphs, entries, visitVars>>

ExpandNode(n) ==
  /\ phase = "graph" /\ n \in pending /\ n \notin DOMAIN graph
  /\ graph' = Insert(graph, n, Callees(contract, n))
  /\ pending' = (pending \ {n}) \cup Callees(contract, n)
  /\ UNCHANGED <<name, phase, contract, routes, graphs, entries, visitVars>>

FinishContract ==
  /\ phase = "graph" /\ contract # NoContract
  /\ pending = {} /\ entries = {}
  /\ graphs' = Insert(graphs, contract, graph)
  /\ contract' = NoContract
  /\ UNCHANGED <<name, phase, pending, routes, entries, graph, visitVars>>

AttachGraphs ==
  /\ phase = "graph" /\ contract = NoContract
  /\ DOMAIN graphs = DOMAIN routes
  /\ phase' = "pick"
  /\ UNCHANGED <<name, contract, pending, buildVars, visitVars>>

Reverse(g) ==
  [d \in UNION {g[e] : e \in DOMAIN g} |-> {e \in DOMAIN g : d \in g[e]}]

(* LegacyWorkspaceCallGraph: what the AST refers to, in any contract; only *)
(* calls by a bare name, and modifiers, make an edge.                      *)
ReferredTo(p, d) ==
  {call.suspect : call \in {c \in p.calls[d] : c.style \in {"direct", "modifier", "qualified"}}}
LegacyGraph(p) ==
  [d \in {e \in p.defs : ReferredTo(p, e) # {} /\ (IsModifier(p, e) \/ p.implemented[e])}
     |-> ReferredTo(p, d)]

-------------------------------------------------------------------------------
(* CallGraphConsumer: the surface points of a node, and the visit.         *)

PickSpot(s, d, legacy) ==
  /\ phase = "pick"
  /\ spot' = [legacy |-> legacy, node |-> s, direction |-> d]
  /\ consumers' = IF legacy THEN {NoContract}
                  ELSE {c \in DOMAIN graphs : s.within \in DOMAIN graphs[c]}
  /\ phase' = "visit"
  /\ UNCHANGED <<name, contract, pending, buildVars, vector, seen, visits, finished>>

(* The legacy consumer starts from all declarations the node refers to.    *)
InwardSurface(c) ==
  IF spot.legacy
  THEN {d \in project.defs :
          /\ \E call \in spot.node.calls : call.suspect = d
          /\ \/ IsModifier(project, d)
             \/ project.sort[d] # "variable" /\ project.implemented[d]}
  ELSE Resolved(project, c, routes[c], spot.node.within, spot.node.calls)

Inward == IF spot.legacy THEN LegacyGraph(project) ELSE graphs[contract]
Goes(v) ==
  \/ spot.direction = "both ways"
  \/ spot.direction = v
Visiting == phase = "visit" /\ vector # "entry"

Count(v, d) ==
  [visits EXCEPT ![v] = IF d \in DOMAIN @ THEN [@ EXCEPT ![d] = @ + 1] ELSE Insert(@, d, 1)]

StartConsumer(c) ==
  /\ phase = "visit" /\ vector = "entry" /\ c \in consumers
  /\ contract' = c
  /\ consumers' = consumers \ {c}
  /\ visits' = [NoVisits EXCEPT !["entry"] = [d \in {spot.node.within} |-> 1]]
  /\ seen' = NothingSeen
  /\ vector' = "inward"
  /\ pending' = IF Goes("inward") THEN InwardSurface(c) ELSE {}
  /\ UNCHANGED <<name, phase, buildVars, spot, finished>>

EntryNodes == IF spot.node.whole THEN {spot.node.within} ELSE {}
BlacklistInward == seen["inward"] \cup EntryNodes  \* Mutant: the way out is shown again
Blacklist == seen["inward"] \cup seen["outward"] \cup EntryNodes
GraphOf(v) == IF v = "outward" THEN Reverse(Inward) ELSE Inward
Successors(v, d) == IF d \in DOMAIN GraphOf(v) THEN GraphOf(v)[d] ELSE {}

(* dfs_and_visit_subgraph, one node                                        *)
PassBy(d) ==
  /\ Visiting /\ d \in pending /\ d \in seen[vector]
  /\ pending' = pending \ {d}
  /\ UNCHANGED <<name, phase, contract, buildVars, visitVars>>

Visit(d) ==
  /\ Visiting /\ d \in pending /\ d \notin seen[vector]
  /\ seen' = [seen EXCEPT ![vector] = @ \cup {d}]
  /\ pending' = (pending \ {d}) \cup Successors(vector, d)
  /\ visits' = IF \/ vector = "side effects" /\ d \in Blacklist
                  \/ d \notin project.defs
               THEN visits ELSE Count(vector, d)
  /\ UNCHANGED <<name, phase, contract, buildVars, spot, consumers, vector, finished>>

TurnOutward ==
  /\ phase = "visit" /\ vector = "inward" /\ pending = {}
  /\ vector' = "outward"
  /\ pending' = IF Goes("outward") THEN {spot.node.within} ELSE {}
  /\ UNCHANGED <<name, phase, contract, buildVars, spot, consumers, seen, visits, finished>>

TurnToSideEffects ==
  /\ phase = "visit" /\ vector = "outward" /\ pending = {}
  /\ vector' = "side effects"
  /\ pending' = IF spot.direction = "both ways" THEN seen["outward"] ELSE {}
  /\ UNCHANGED <<name, phase, contract, buildVars, spot, consumers, seen, visits, finished>>

FinishConsumer ==
  /\ phase = "visit" /\ vector = "side effects" /\ pending = {}
  /\ finished' = finished \cup {[base |-> contract, seen |-> seen, visits |-> visits]}
  /\ vector' = "entry" /\ contract' = NoContract
  /\ UNCHANGED <<name, phase, pending, buildVars, spot, consumers, seen, visits>>

FinishSpot ==
  /\ phase = "visit" /\ vector = "entry" /\ consumers = {}
  /\ phase' = "done"
  /\ UNCHANGED <<name, contract, pending, buildVars, visitVars>>

Next ==
  \/ BuildRouter \/ AttachGraphs
  \/ \E c \in project.contracts : StartContract(c)
  \/ \E e \in entries : StartEntry(e)
  \/ \E n \in pending : SkipNode(n) \/ ExpandNode(n) \/ PassBy(n) \/ Visit(n)
  \/ FinishContract
  \/ \E s \in SpotsOf(project), d \in Directions, legacy \in BOOLEAN : PickSpot(s, d, legacy)
  \/ \E c \in consumers : StartConsumer(c)
  \/ TurnOutward \/ TurnToSideEffects \/ FinishConsumer \/ FinishSpot
  \/ phase = "done" /\ UNCHANGED vars

Spec == Init /\ [][Next]_vars /\ WF_vars(Next)

-------------------------------------------------------------------------------
(* T is what can be reached from S: it is closed, and nothing in it could  *)
(* be left out.                                                            *)
Closed(g, T) == \A d \in T \cap DOMAIN g : g[d] \subseteq T
IsReach(g, S, T) ==
  /\ S \subseteq T /\ Closed(g, T)
  /\ \A U \in SUBSET T : S \subseteq U /\ Closed(g, U) => U = T

(* The graph of a contract has exactly the code its entry points lead to,  *)
(* and every call that code makes, whatever the order of the walk.         *)
GraphsAreClosures ==
  phase = "pick" => \A c \in DOMAIN graphs :
    /\ \A d \in DOMAIN graphs[c] : graphs[c][d] = Callees(c, d)
    /\ IsReach(graphs[c], EntrypointFunctions(project, routes[c]), DOMAIN graphs[c])

(* A visit shows the tracker every definition it can reach once, recursion *)
(* or not, the side effects only where neither the node nor a vector went. *)
VisitsAreExact ==
  phase = "done" => \A r \in finished :
    LET g == IF spot.legacy THEN LegacyGraph(project) ELSE graphs[r.base]
        side == r.seen["side effects"]
        shown(v) == DOMAIN r.visits[v]
    IN  /\ \A v \in Vectors : \A d \in shown(v) : r.visits[v][d] = 1
        /\ Goes("inward") => IsReach(g, InwardSurface(r.base), r.seen["inward"])
        /\ Goes("outward") => IsReach(Reverse(g), {spot.node.within}, r.seen["outward"])
        /\ spot.direction = "both ways" => IsReach(g, r.seen["outward"], side)
        /\ shown("inward") = r.seen["inward"] \cap project.defs
        /\ shown("outward") = r.seen["outward"] \cap project.defs
        /\ shown("side effects") =
             (side \ (r.seen["inward"] \cup r.seen["outward"] \cup EntryNodes)) \cap project.defs

(* The walks and the visits end, on any recursion (external: the program   *)
(* runs on while it can).                                                  *)
Ends == <>(phase = "done")

(* Calls whose target the routes can tell: of a definition the context     *)
(* has, if it is a free function one that no function of the contract      *)
(* shadows, if it is named with a contract one whose ancestors come next   *)
(* in the linearization, and if it is dispatched one where the first       *)
(* declaration has a body, for the routes do not look at what is           *)
(* implemented: router/internal_calls.rs:184-188.                          *)
Plain(p, base, caller, call) ==
  /\ call.suspect \in p.defs
  /\ p.home[call.suspect] = NoContract =>
       ~\E d \in p.defs : /\ IsInternalFunction(p, d) /\ IsIn(p, p.home[d], base)
                         /\ p.selector[d] = p.selector[call.suspect]
  /\ call.style = "explicit" /\ IsIn(p, call.named, base) =>
       From(p, base, call.named) = Range(p.c3[call.named])
  /\ ~IsStatic(p, call) =>
       LET declared == Declarations(p, base, caller, call)
       IN  \A d \in declared : p.implemented[d] \/ \E e \in declared : IsBehind(p, base, p.home[e], p.home[d])
ResolveCall(p, base, r, caller, call) ==
  IF call.style \in {"modifier", "qualified"} THEN ResolveModifierCall(p, base, r, caller, call)
  ELSE ResolveInternalCall(p, base, r, caller, call)

(* In every contract, the code that runs there has its calls resolved to   *)
(* what Solidity would run.                                                *)
CallsReachTheirTargets ==
  phase = "pick" => \A c \in DOMAIN graphs : \A d \in DOMAIN graphs[c] :
    \A call \in {x \in project.calls[d] : x.style # "external"} :
      Plain(project, c, d, call) =>
        ResolveCall(project, c, routes[c], d, call) = SolidityTarget(project, c, d, call)

(* The entry points are the most derived definitions of what can be called *)
(* from outside, and an external call finds them by the selector alone. A  *)
(* contract with a definition that lacks a selector has no entry points    *)
(* ("If function selector field isn't present, this algorithm cannot       *)
(* work", router/external_calls.rs:88), and takes them from no other       *)
(* contract, unless that one has the definition too.                       *)
Outermost(p, c) ==
  {d \in p.defs :
     /\ IsExternal(p, d) /\ IsIn(p, p.home[d], c)
     /\ ~\E e \in p.defs :
           /\ IsExternal(p, e) /\ IsIn(p, p.home[e], c) /\ p.selector[e] = p.selector[d]
           /\ Position(p, p.home[e], c) < Position(p, p.home[d], c)}
IsBlind(p, c) ==
  \E d \in p.defs : IsExternal(p, d) /\ IsIn(p, p.home[d], c) /\ LacksSelector(p, d)
Interface(p, c) == IF IsBlind(p, c) THEN {} ELSE Outermost(p, c)
EntryPointsAreTheInterface ==
  phase = "pick" => \A c \in DOMAIN routes :
    LET out == Interface(project, c)
    IN  /\ EntrypointFunctions(project, routes[c]) = {d \in out : project.sort[d] # "variable"}
        /\ \A d \in project.defs :
           \A call \in {x \in project.calls[d] : x.style = "external" /\ x.suspect \in project.defs} :
             LET target == ResolveExternalCall(project, c, routes[c], call)
                 found == {e \in out : project.selector[e] = project.selector[call.suspect]}
                 fallback == {e \in out : project.sort[e] = "fallback"}
             IN  {target} = IF LacksSelector(project, call.suspect) THEN {Unresolved}
                            ELSE IF found # {} THEN found
                            ELSE IF fallback # {} THEN fallback ELSE {Unresolved}
===============================================================================
