--------------------------- MODULE CallGraphsProofs ---------------------------
(***************************************************************************)
(* The call graphs and the visits the detectors make of them, for every    *)
(* project: a graph is what its entry points lead to, a visit shows what   *)
(* the node leads to once, in whatever order nodes are taken; and for the  *)
(* projects solc can write, calls go where Solidity sends them, so that    *)
(* what a detector captures is what runs.                                  *)
(***************************************************************************)
EXTENDS CallgraphDetectors, RouterProofs

EntryPoints(c) == EntrypointFunctions(project, routes[c])
ClosedUnderCalls(c, U) == \A d \in U : Callees(c, d) \subseteq U

(* The graph at work: its edges are the calls of its nodes, what is left   *)
(* to do is in pending or entries, and nothing is there without a reason.  *)
EdgesAreCalls == \A d \in DOMAIN graph : graph[d] = Callees(contract, d)
EdgesAreFollowed == \A d \in DOMAIN graph : graph[d] \subseteq DOMAIN graph \cup pending
EntriesAreFollowed ==
  EntryPoints(contract) \subseteq DOMAIN graph \cup pending \cup entries
NodesAreReached ==
  /\ entries \subseteq EntryPoints(contract)
  /\ \A U : EntryPoints(contract) \subseteq U /\ ClosedUnderCalls(contract, U) =>
       DOMAIN graph \cup pending \subseteq U
WalkInv ==
  phase = "graph" /\ contract # NoContract =>
    EdgesAreCalls /\ EdgesAreFollowed /\ EntriesAreFollowed /\ NodesAreReached
IdleInv == phase \in {"route", "graph"} /\ contract = NoContract => pending = {}

(* What is finished                                                        *)
IsGraphOf(g, c) ==
  /\ \A d \in DOMAIN g : g[d] = Callees(c, d)
  /\ IsReach(g, EntryPoints(c), DOMAIN g)
GraphsInv == \A c \in DOMAIN graphs : IsGraphOf(graphs[c], c)

GraphInv ==
  /\ phase \in {"route", "graph", "pick", "visit", "done"}
  /\ phase = "route" => graphs = <<>> /\ contract = NoContract
  /\ IdleInv /\ WalkInv /\ GraphsInv

-------------------------------------------------------------------------------
(* A finished walk leaves the graph of its contract.                       *)
LEMMA FinishedWalk ==
  ASSUME phase = "graph", contract # NoContract, pending = {}, entries = {}, WalkInv
  PROVE  IsGraphOf(graph, contract)
<1>1. EdgesAreCalls /\ EdgesAreFollowed /\ EntriesAreFollowed /\ NodesAreReached
  BY DEF WalkInv
<1>2. \A d \in DOMAIN graph : graph[d] = Callees(contract, d)
  BY <1>1 DEF EdgesAreCalls
<1>3. EntryPoints(contract) \subseteq DOMAIN graph
  BY <1>1 DEF EntriesAreFollowed
<1>4. Closed(graph, DOMAIN graph)
  BY <1>1 DEF EdgesAreFollowed, Closed
<1>5. ASSUME NEW U \in SUBSET DOMAIN graph, EntryPoints(contract) \subseteq U, Closed(graph, U)
      PROVE  U = DOMAIN graph
  <2>1. ClosedUnderCalls(contract, U)
    BY <1>2, <1>5 DEF Closed, ClosedUnderCalls
  <2> QED BY <1>1, <1>5, <2>1 DEF NodesAreReached
<1> QED BY <1>2, <1>3, <1>4, <1>5 DEF IsGraphOf, IsReach

(* What a contract's graph is depends on the project and its routes alone. *)
LEMMA GraphOfIsStable ==
  ASSUME UNCHANGED <<name, routes>>, NEW g, NEW c, IsGraphOf(g, c)
  PROVE  IsGraphOf(g, c)'
BY DEF IsGraphOf, IsReach, Closed, EntryPoints, Callees, project

(* The walk starts in a contract with nothing but its entry points.        *)
LEMMA StartContractKeeps ==
  ASSUME GraphInv, NEW c, StartContract(c)
  PROVE  WalkInv'
<1>1. /\ phase' = "graph" /\ contract' = c /\ pending' = {} /\ DOMAIN graph' = {}
      /\ entries' = EntrypointFunctions(project, routes[c])
      /\ UNCHANGED <<name, routes>>
  BY DEF StartContract, GraphInv, IdleInv, EmptyGraph
<1>2. EntryPoints(contract)' = entries'
  BY <1>1 DEF EntryPoints, project
<1> QED BY <1>1, <1>2 DEF WalkInv, EdgesAreCalls, EdgesAreFollowed, EntriesAreFollowed, NodesAreReached

LEMMA StartEntryKeeps ==
  ASSUME GraphInv, NEW e, StartEntry(e)
  PROVE  WalkInv'
<1>1. /\ phase = "graph" /\ contract # NoContract /\ e \in entries
      /\ pending' = {e} /\ entries' = entries \ {e} /\ pending = {}
      /\ UNCHANGED <<name, phase, contract, routes, graph>>
  BY DEF StartEntry
<1>2. EdgesAreCalls /\ EdgesAreFollowed /\ EntriesAreFollowed /\ NodesAreReached
  BY <1>1 DEF GraphInv, WalkInv
<1>3. EntryPoints(contract)' = EntryPoints(contract) /\ \A d : Callees(contract, d)' = Callees(contract, d)
  BY <1>1 DEF EntryPoints, Callees, project
<1>4. EdgesAreCalls' /\ EdgesAreFollowed'
  BY <1>1, <1>2, <1>3 DEF EdgesAreCalls, EdgesAreFollowed
<1>5. EntriesAreFollowed'
  BY <1>1, <1>2, <1>3 DEF EntriesAreFollowed
<1>6. NodesAreReached'
  BY <1>1, <1>2, <1>3 DEF NodesAreReached, ClosedUnderCalls
<1> QED BY <1>4, <1>5, <1>6 DEF WalkInv

LEMMA SkipNodeKeeps ==
  ASSUME GraphInv, NEW n, SkipNode(n)
  PROVE  WalkInv'
<1>1. /\ phase = "graph" /\ n \in DOMAIN graph /\ pending' = pending \ {n}
      /\ UNCHANGED <<name, phase, contract, routes, graph, entries>>
  BY DEF SkipNode, buildVars
<1>2. EntryPoints(contract)' = EntryPoints(contract) /\ \A d : Callees(contract, d)' = Callees(contract, d)
  BY <1>1 DEF EntryPoints, Callees, project
<1>3. CASE contract = NoContract
  BY <1>1, <1>3 DEF WalkInv
<1>4. CASE contract # NoContract
  <2>1. EdgesAreCalls /\ EdgesAreFollowed /\ EntriesAreFollowed /\ NodesAreReached
    BY <1>1, <1>4 DEF GraphInv, WalkInv
  <2>2. EdgesAreCalls' /\ EdgesAreFollowed' /\ EntriesAreFollowed'
    BY <1>1, <1>2, <2>1 DEF EdgesAreCalls, EdgesAreFollowed, EntriesAreFollowed
  <2>3. NodesAreReached'
    BY <1>1, <1>2, <2>1 DEF NodesAreReached, ClosedUnderCalls
  <2> QED BY <2>2, <2>3 DEF WalkInv
<1> QED BY <1>3, <1>4

LEMMA ExpandNodeKeeps ==
  ASSUME GraphInv, NEW n, ExpandNode(n)
  PROVE  WalkInv'
<1>1. /\ phase = "graph" /\ n \in pending /\ n \notin DOMAIN graph
      /\ pending' = (pending \ {n}) \cup Callees(contract, n)
      /\ UNCHANGED <<name, phase, contract, routes, entries>>
  BY DEF ExpandNode
<1>2. /\ DOMAIN graph' = DOMAIN graph \cup {n} /\ graph'[n] = Callees(contract, n)
      /\ \A d \in DOMAIN graph : graph'[d] = graph[d]
  BY DEF ExpandNode, Insert
<1>3. EntryPoints(contract)' = EntryPoints(contract) /\ \A d : Callees(contract, d)' = Callees(contract, d)
  BY <1>1 DEF EntryPoints, Callees, project
<1>4. CASE contract = NoContract
  BY <1>1, <1>4 DEF WalkInv
<1>5. CASE contract # NoContract
  <2>1. EdgesAreCalls /\ EdgesAreFollowed /\ EntriesAreFollowed /\ NodesAreReached
    BY <1>1, <1>5 DEF GraphInv, WalkInv
  <2>2. EdgesAreCalls'
    BY <1>1, <1>2, <1>3, <2>1 DEF EdgesAreCalls
  <2>3. EdgesAreFollowed'
    BY <1>1, <1>2, <2>1 DEF EdgesAreFollowed
  <2>4. EntriesAreFollowed'
    BY <1>1, <1>2, <1>3, <2>1 DEF EntriesAreFollowed
  <2>5. NodesAreReached'
    <3>1. ASSUME NEW U, EntryPoints(contract) \subseteq U, ClosedUnderCalls(contract, U)
          PROVE  DOMAIN graph' \cup pending' \subseteq U
      <4>1. DOMAIN graph \cup pending \subseteq U
        BY <2>1, <3>1 DEF NodesAreReached
      <4> QED BY <1>1, <1>2, <3>1, <4>1 DEF ClosedUnderCalls
    <3> QED BY <1>1, <1>3, <2>1, <3>1 DEF NodesAreReached, ClosedUnderCalls
  <2> QED BY <2>2, <2>3, <2>4, <2>5 DEF WalkInv
<1> QED BY <1>4, <1>5

(* Every step of the program: the walk's, and those of the visits, which   *)
(* leave the graphs alone.                                                 *)
LEMMA GraphInvInit == Init => GraphInv
BY DEF Init, GraphInv, IdleInv, WalkInv, GraphsInv

LEMMA GraphInvNext == GraphInv /\ [Next]_vars => GraphInv'
<1> SUFFICES ASSUME GraphInv, [Next]_vars PROVE GraphInv'
  OBVIOUS
<1>1. CASE BuildRouter
  BY <1>1 DEF BuildRouter, visitVars, GraphInv, IdleInv, WalkInv, GraphsInv
<1>2. CASE AttachGraphs
  <2>1. GraphsInv'
    BY <1>2, GraphOfIsStable DEF AttachGraphs, buildVars, visitVars, GraphInv, GraphsInv
  <2> QED BY <1>2, <2>1 DEF AttachGraphs, buildVars, visitVars, GraphInv, IdleInv, WalkInv
<1>3. ASSUME NEW c \in project.contracts, StartContract(c) PROVE GraphInv'
  <2>1. WalkInv'
    BY <1>3, StartContractKeeps
  <2>2. GraphsInv'
    BY <1>3, GraphOfIsStable DEF StartContract, GraphInv, GraphsInv
  <2> QED BY <1>3, <2>1, <2>2 DEF StartContract, GraphInv, IdleInv
<1>4. ASSUME NEW e \in entries, StartEntry(e) PROVE GraphInv'
  <2>1. WalkInv'
    BY <1>4, StartEntryKeeps
  <2>2. GraphsInv'
    BY <1>4, GraphOfIsStable DEF StartEntry, GraphInv, GraphsInv
  <2> QED BY <1>4, <2>1, <2>2 DEF StartEntry, GraphInv, IdleInv
<1>5. ASSUME NEW n \in pending, SkipNode(n) PROVE GraphInv'
  <2>1. WalkInv'
    BY <1>5, SkipNodeKeeps
  <2>2. GraphsInv'
    BY <1>5, GraphOfIsStable DEF SkipNode, buildVars, GraphInv, GraphsInv
  <2> QED BY <1>5, <2>1, <2>2 DEF SkipNode, buildVars, GraphInv, IdleInv
<1>6. ASSUME NEW n \in pending, ExpandNode(n) PROVE GraphInv'
  <2>1. WalkInv'
    BY <1>6, ExpandNodeKeeps
  <2>2. GraphsInv'
    BY <1>6, GraphOfIsStable DEF ExpandNode, GraphInv, GraphsInv
  <2>3. contract # NoContract
    BY <1>6 DEF ExpandNode, GraphInv, IdleInv
  <2> QED BY <1>6, <2>1, <2>2, <2>3 DEF ExpandNode, GraphInv, IdleInv
<1>7. CASE FinishContract
  <2>1. IsGraphOf(graph, contract)
    BY <1>7, FinishedWalk DEF FinishContract, GraphInv
  <2>2. \A g, c : IsGraphOf(g, c) => IsGraphOf(g, c)'
    BY <1>7, GraphOfIsStable DEF FinishContract
  <2>3. \A c \in DOMAIN graphs' : IsGraphOf(graphs'[c], c)
    BY <1>7, <2>1 DEF FinishContract, Insert, GraphInv, GraphsInv
  <2>4. GraphsInv'
    BY <2>2, <2>3 DEF GraphsInv
  <2> QED BY <1>7, <2>4 DEF FinishContract, GraphInv, IdleInv, WalkInv
<1>8. CASE \/ \E s \in SpotsOf(project), d \in Directions, legacy \in BOOLEAN : PickSpot(s, d, legacy)
           \/ \E c \in consumers : StartConsumer(c)
           \/ \E n \in pending : PassBy(n) \/ Visit(n)
           \/ TurnOutward \/ TurnToSideEffects \/ FinishConsumer \/ FinishSpot
           \/ UNCHANGED vars
  <2>1. /\ UNCHANGED <<name, routes, graphs>>
        /\ \/ phase \in {"pick", "visit"} /\ phase' \in {"visit", "done"}
           \/ UNCHANGED vars
    BY <1>8 DEF PickSpot, StartConsumer, PassBy, Visit, Visiting, TurnOutward, TurnToSideEffects,
                FinishConsumer, FinishSpot, buildVars, visitVars, vars
  <2>2. GraphsInv'
    BY <2>1, GraphOfIsStable DEF GraphInv, GraphsInv
  <2>3. CASE UNCHANGED vars
    BY <2>2, <2>3 DEF vars, buildVars, visitVars, GraphInv, IdleInv, WalkInv, EdgesAreCalls, EdgesAreFollowed, EntriesAreFollowed, NodesAreReached, ClosedUnderCalls, EntryPoints, Callees, project
  <2>4. CASE phase \in {"pick", "visit"} /\ phase' \in {"visit", "done"}
    BY <2>2, <2>4 DEF GraphInv, IdleInv, WalkInv
  <2> QED BY <2>1, <2>3, <2>4
<1> QED BY <1>1, <1>2, <1>3, <1>4, <1>5, <1>6, <1>7, <1>8 DEF Next

(* At every moment the nodes of a graph in the making are accounted for by *)
(* the entry points started from and the calls looked at, and what has     *)
(* been looked at is followed (WorkspaceCallGraph::from_routes).           *)
THEOREM GraphInvariant == Spec => []GraphInv
BY GraphInvInit, GraphInvNext, PTL DEF Spec

(* The graph of every contract has exactly the code its entry points lead  *)
(* to and every call of that code (WorkspaceCallGraphs::build).            *)
THEOREM GraphsAreClosed == Spec => []GraphsAreClosures
<1>1. GraphInv => GraphsAreClosures
  BY DEF GraphInv, GraphsInv, IsGraphOf, GraphsAreClosures, EntryPoints
<1> QED BY <1>1, GraphInvariant, PTL


-------------------------------------------------------------------------------
(* The visits. A walk from S has seen T and has P to look at: it goes on   *)
(* along every edge of what it saw, and does nothing it need not do.       *)
Leads(g, S, T, P) ==
  /\ S \subseteq T \cup P
  /\ \A d \in T \cap DOMAIN g : g[d] \subseteq T \cup P
  /\ \A U : S \subseteq U /\ Closed(g, U) => T \cup P \subseteq U

SurfaceOf(v) ==
  IF v = "side effects" THEN IF spot.direction = "both ways" THEN seen["outward"] ELSE {}
  ELSE IF ~Goes(v) THEN {}
  ELSE IF v = "inward" THEN InwardSurface(contract) ELSE {spot.node.within}
Walked(v, P) == Leads(GraphOf(v), SurfaceOf(v), seen[v], P)

(* The tracker was shown what a vector saw, each definition once.          *)
HiddenFrom(v) == IF v = "side effects" THEN Blacklist ELSE {}
ShownOnce(v) ==
  /\ DOMAIN visits[v] = (seen[v] \ HiddenFrom(v)) \cap project.defs
  /\ \A d \in DOMAIN visits[v] : visits[v][d] = 1

(* The three vectors are walked one after the other.                       *)
VectorsInv ==
  /\ vector \in {"inward", "outward", "side effects"}
  /\ DOMAIN visits = Vectors /\ DOMAIN seen = Vectors
  /\ visits["entry"] = [d \in {spot.node.within} |-> 1]
  /\ ShownOnce("inward") /\ ShownOnce("outward") /\ ShownOnce("side effects")
  /\ Walked("inward", IF vector = "inward" THEN pending ELSE {})
  /\ IF vector = "inward" THEN seen["outward"] = {}
     ELSE Walked("outward", IF vector = "outward" THEN pending ELSE {})
  /\ IF vector = "side effects" THEN Walked("side effects", pending)
     ELSE seen["side effects"] = {}

ExactVisit(r) ==
  LET g == IF spot.legacy THEN LegacyGraph(project) ELSE graphs[r.base]
      side == r.seen["side effects"]
      shown(v) == DOMAIN r.visits[v]
  IN  /\ \A v \in Vectors : \A d \in shown(v) : r.visits[v][d] = 1
      /\ Goes("inward") => IsReach(g, InwardSurface(r.base), r.seen["inward"])
      /\ Goes("outward") => IsReach(Reverse(g), {spot.node.within}, r.seen["outward"])
      /\ spot.direction = "both ways" => IsReach(g, r.seen["outward"], side)
      /\ shown("inward") = r.seen["inward"] \cap project.defs
      /\ shown("outward") = r.seen["outward"] \cap project.defs
      /\ shown("side effects") =
           (side \ (r.seen["inward"] \cup r.seen["outward"] \cup EntryNodes)) \cap project.defs

VisitInv ==
  /\ phase \in {"route", "graph", "pick", "visit", "done"}
  /\ phase \in {"route", "graph", "pick"} => finished = {} /\ vector = "entry"
  /\ phase \in {"route", "graph"} /\ contract = NoContract => pending = {}
  /\ phase = "pick" \/ (phase = "visit" /\ vector = "entry") => pending = {}
  /\ phase = "visit" /\ vector # "entry" => VectorsInv
  /\ \A r \in finished : ExactVisit(r)

-------------------------------------------------------------------------------
LEMMA WalkBegins ==
  ASSUME NEW g, NEW S
  PROVE  Leads(g, S, {}, S)
BY DEF Leads

LEMMA WalkPassesBy ==
  ASSUME NEW g, NEW S, NEW T, NEW P, NEW d \in T, Leads(g, S, T, P)
  PROVE  Leads(g, S, T, P \ {d})
BY DEF Leads

LEMMA WalkGoesOn ==
  ASSUME NEW g, NEW S, NEW T, NEW P, NEW d \in P, Leads(g, S, T, P)
  PROVE  Leads(g, S, T \cup {d}, (P \ {d}) \cup (IF d \in DOMAIN g THEN g[d] ELSE {}))
<1> DEFINE next == IF d \in DOMAIN g THEN g[d] ELSE {}
<1>1. ASSUME NEW U, S \subseteq U, Closed(g, U)
      PROVE  (T \cup {d}) \cup ((P \ {d}) \cup next) \subseteq U
  <2>1. T \cup P \subseteq U
    BY <1>1 DEF Leads
  <2>2. next \subseteq U
    BY <1>1, <2>1 DEF Closed
  <2> QED BY <2>1, <2>2
<1>2. \A e \in (T \cup {d}) \cap DOMAIN g : g[e] \subseteq (T \cup {d}) \cup ((P \ {d}) \cup next)
  BY DEF Leads
<1> QED BY <1>1, <1>2 DEF Leads

(* A walk with nothing left to look at has seen what can be reached.       *)
LEMMA WalkEnds ==
  ASSUME NEW g, NEW S, NEW T, Leads(g, S, T, {})
  PROVE  IsReach(g, S, T)
BY DEF Leads, IsReach, Closed


-------------------------------------------------------------------------------
(* What a visit was depends on the spot, the project and its graphs alone. *)
LEMMA VisitsAreStable ==
  ASSUME UNCHANGED <<name, spot, graphs, routes>>
  PROVE  /\ \A r : ExactVisit(r) => ExactVisit(r)'
         /\ EntryNodes' = EntryNodes /\ project' = project
<1>1. EntryNodes' = EntryNodes /\ project' = project
  BY DEF EntryNodes, project
<1>2. ASSUME NEW c PROVE InwardSurface(c)' = InwardSurface(c)
  BY <1>1 DEF InwardSurface
<1>3. ASSUME NEW r, ExactVisit(r) PROVE ExactVisit(r)'
  BY <1>1, <1>2, <1>3 DEF ExactVisit, Goes
<1> QED BY <1>1, <1>3

LEMMA GraphsAreStable ==
  ASSUME UNCHANGED <<name, spot, graphs, routes, contract>>, NEW v
  PROVE  /\ GraphOf(v)' = GraphOf(v)
         /\ v # "side effects" \/ UNCHANGED seen["outward"] => SurfaceOf(v)' = SurfaceOf(v)
<1>1. project' = project
  BY DEF project
<1>2. Inward' = Inward
  BY <1>1 DEF Inward
<1> QED BY <1>1, <1>2 DEF GraphOf, SurfaceOf, Goes, InwardSurface

(* A contract's visit starts with the node itself and its surface points.  *)
LEMMA StartConsumerKeeps ==
  ASSUME VisitInv, NEW c, StartConsumer(c)
  PROVE  VisitInv'
<1>1. /\ phase = "visit" /\ phase' = phase /\ contract' = c
      /\ vector = "entry" /\ vector' = "inward"
      /\ visits' = [NoVisits EXCEPT !["entry"] = [d \in {spot.node.within} |-> 1]]
      /\ seen' = NothingSeen
      /\ pending' = IF Goes("inward") THEN InwardSurface(c) ELSE {}
      /\ UNCHANGED <<name, routes, graphs, spot, finished>>
  BY DEF StartConsumer, buildVars
<1>2. SurfaceOf("inward")' = pending'
  BY <1>1 DEF SurfaceOf, Goes, InwardSurface, project
<1>3. /\ DOMAIN visits' = Vectors /\ DOMAIN seen' = Vectors
      /\ \A v \in Vectors : seen'[v] = {}
      /\ \A v \in Vectors \ {"entry"} : DOMAIN visits'[v] = {}
      /\ visits'["entry"] = [d \in {spot'.node.within} |-> 1]
  BY <1>1 DEF NoVisits, NothingSeen, Vectors
<1>4. ASSUME NEW v \in Vectors \ {"entry"} PROVE ShownOnce(v)'
  <2>1. DOMAIN visits'[v] = {} /\ seen'[v] = {}
    BY <1>3
  <2> QED BY <2>1 DEF ShownOnce
<1>5. Walked("inward", pending)'
  <2>1. Leads(GraphOf("inward")', pending', {}, pending')
    BY WalkBegins
  <2> QED BY <1>2, <1>3, <2>1 DEF Walked, Vectors
<1>6. VectorsInv'
  BY <1>1, <1>3, <1>4, <1>5 DEF VectorsInv, Vectors
<1>7. \A r \in finished' : ExactVisit(r)'
  BY <1>1, VisitsAreStable DEF VisitInv
<1> QED BY <1>1, <1>6, <1>7 DEF VisitInv

LEMMA CountCounts ==
  ASSUME DOMAIN visits = Vectors, NEW v \in Vectors, NEW d
  PROVE  /\ DOMAIN Count(v, d) = Vectors
         /\ \A w \in Vectors : w # v => Count(v, d)[w] = visits[w]
         /\ d \notin DOMAIN visits[v] => Count(v, d)[v] = Insert(visits[v], d, 1)
BY DEF Count

(* One definition of a walk: what the other vectors saw stays, and this    *)
(* one has one definition more, shown for the first time.                  *)
LEMMA VisitKeeps ==
  ASSUME VisitInv, NEW d \in pending, Visit(d), NEW v, v = vector
  PROVE  VisitInv'
<1>1. /\ phase = "visit" /\ phase' = phase /\ v # "entry" /\ vector' = v
      /\ d \notin seen[v]
      /\ seen' = [seen EXCEPT ![v] = @ \cup {d}]
      /\ pending' = (pending \ {d}) \cup Successors(v, d)
      /\ visits' = IF (v = "side effects" /\ d \in Blacklist) \/ d \notin project.defs
                   THEN visits ELSE Count(v, d)
      /\ UNCHANGED <<name, routes, graphs, spot, contract, finished>>
  BY DEF Visit, Visiting, buildVars
<1>2. VectorsInv
  BY <1>1 DEF VisitInv
<1>3. v \in {"inward", "outward", "side effects"} /\ v \in Vectors
  BY <1>2 DEF VectorsInv, Vectors
<1>4. /\ DOMAIN seen' = Vectors /\ seen'[v] = seen[v] \cup {d}
      /\ \A w \in Vectors : w # v => seen'[w] = seen[w]
  BY <1>1, <1>2, <1>3 DEF VectorsInv
<1>5. \A w \in Vectors : w # "side effects" \/ v = "side effects" => SurfaceOf(w)' = SurfaceOf(w)
  BY <1>1, <1>4, GraphsAreStable DEF Vectors
<1>6. Walked(v, pending)'
  <2>1. Walked(v, pending)
    BY <1>2, <1>3 DEF VectorsInv
  <2>2. Leads(GraphOf(v), SurfaceOf(v), seen[v] \cup {d}, (pending \ {d}) \cup Successors(v, d))
    BY <2>1, WalkGoesOn DEF Walked, Successors
  <2>3. GraphOf(v)' = GraphOf(v) /\ SurfaceOf(v)' = SurfaceOf(v)
    BY <1>1, <1>3, <1>5, GraphsAreStable
  <2> QED BY <1>1, <1>4, <2>2, <2>3 DEF Walked
<1>7. ASSUME NEW w \in Vectors, w # v, w # "side effects", Walked(w, {})
      PROVE  Walked(w, {})'
  <2>1. GraphOf(w)' = GraphOf(w) /\ SurfaceOf(w)' = SurfaceOf(w)
    BY <1>1, <1>5, <1>7, GraphsAreStable
  <2> QED BY <1>4, <1>7, <2>1 DEF Walked
<1>8. v = "side effects" => Blacklist' = Blacklist
  BY <1>1, <1>4, VisitsAreStable DEF Blacklist, Vectors
<1>9. project' = project /\ EntryNodes' = EntryNodes
  BY <1>1, VisitsAreStable
<1>10. DOMAIN visits' = Vectors /\ \A w \in Vectors : w # v => visits'[w] = visits[w]
  <2>1. DOMAIN visits = Vectors
    BY <1>2 DEF VectorsInv
  <2>2. visits' = visits \/ visits' = Count(v, d)
    BY <1>1
  <2>3. /\ DOMAIN Count(v, d) = Vectors
        /\ \A w \in Vectors : w # v => Count(v, d)[w] = visits[w]
    BY <1>3, <2>1, CountCounts
  <2>4. CASE visits' = visits
    BY <2>1, <2>4
  <2>5. CASE visits' = Count(v, d)
    BY <2>3, <2>5
  <2> QED BY <2>2, <2>4, <2>5
<1>11. ASSUME NEW w \in {"inward", "outward", "side effects"}, ShownOnce(w)
       PROVE  ShownOnce(w)'
  <2>1. CASE w # v
    <3>1. visits'[w] = visits[w]
      BY <1>10, <2>1 DEF Vectors
    <3>2. CASE w # "side effects"
      BY <1>4, <1>9, <1>11, <2>1, <3>1, <3>2 DEF ShownOnce, HiddenFrom, Vectors
    <3>3. CASE w = "side effects"
      <4>1. seen[w] = {} /\ seen'[w] = {}
        BY <1>2, <1>4, <2>1, <3>3 DEF VectorsInv, Vectors
      <4> QED BY <1>11, <3>1, <4>1 DEF ShownOnce
    <3> QED BY <3>2, <3>3
  <2>2. CASE w = v /\ d \in (seen'[v] \ HiddenFrom(v)) \cap project.defs
    <3>1. d \notin DOMAIN visits[v]
      BY <1>1, <1>11, <2>2 DEF ShownOnce
    <3>2. visits' = Count(v, d)
      BY <1>1, <2>2 DEF HiddenFrom
    <3>3. visits'[v] = Insert(visits[v], d, 1)
      BY <1>2, <1>3, <3>1, <3>2, CountCounts DEF VectorsInv
    <3>4. /\ DOMAIN visits'[v] = DOMAIN visits[v] \cup {d}
          /\ \A e \in DOMAIN visits'[v] : visits'[v][e] = 1
      BY <1>11, <2>2, <3>3 DEF Insert, ShownOnce
    <3>5. HiddenFrom(v)' = HiddenFrom(v)
      BY <1>8 DEF HiddenFrom
    <3>6. DOMAIN visits'[v] = (seen'[v] \ HiddenFrom(v)) \cap project.defs
      <4>1. DOMAIN visits[v] = (seen[v] \ HiddenFrom(v)) \cap project.defs
        BY <1>11, <2>2 DEF ShownOnce
      <4> QED BY <1>4, <2>2, <3>4, <4>1
    <3> QED BY <1>9, <2>2, <3>4, <3>5, <3>6 DEF ShownOnce
  <2>3. CASE w = v /\ d \notin (seen'[v] \ HiddenFrom(v)) \cap project.defs
    <3>1. visits' = visits
      BY <1>1, <1>4, <2>3 DEF HiddenFrom
    <3>2. HiddenFrom(v)' = HiddenFrom(v)
      BY <1>8 DEF HiddenFrom
    <3>3. DOMAIN visits[v] = (seen'[v] \ HiddenFrom(v)) \cap project.defs
      <4>1. DOMAIN visits[v] = (seen[v] \ HiddenFrom(v)) \cap project.defs
        BY <1>11, <2>3 DEF ShownOnce
      <4> QED BY <1>4, <2>3, <4>1
    <3> QED BY <1>9, <1>11, <2>3, <3>1, <3>2, <3>3 DEF ShownOnce
  <2> QED BY <2>1, <2>2, <2>3
<1>12. visits'["entry"] = visits["entry"]
  BY <1>3, <1>10 DEF Vectors
<1>13. VectorsInv'
  <2>1. ShownOnce("inward")' /\ ShownOnce("outward")' /\ ShownOnce("side effects")'
    BY <1>2, <1>11 DEF VectorsInv
  <2>2. CASE v = "inward"
    BY <1>1, <1>2, <1>4, <1>6, <1>10, <1>12, <2>1, <2>2 DEF VectorsInv, Vectors
  <2>3. CASE v = "outward"
    <3>1. Walked("inward", {})'
      BY <1>2, <1>7, <2>3 DEF VectorsInv, Vectors
    <3> QED BY <1>1, <1>2, <1>4, <1>6, <1>10, <1>12, <2>1, <2>3, <3>1 DEF VectorsInv, Vectors
  <2>4. CASE v = "side effects"
    <3>1. Walked("inward", {})' /\ Walked("outward", {})'
      BY <1>2, <1>7, <2>4 DEF VectorsInv, Vectors
    <3> QED BY <1>1, <1>2, <1>4, <1>6, <1>10, <1>12, <2>1, <2>4, <3>1 DEF VectorsInv, Vectors
  <2> QED BY <1>3, <2>2, <2>3, <2>4
<1>14. \A r \in finished' : ExactVisit(r)'
  BY <1>1, VisitsAreStable DEF VisitInv
<1> QED BY <1>1, <1>13, <1>14 DEF VisitInv


(* The other steps of a visit.                                             *)
LEMMA PassByKeeps ==
  ASSUME VisitInv, NEW d \in pending, PassBy(d), NEW v, v = vector
  PROVE  VisitInv'
<1>1. /\ phase = "visit" /\ phase' = phase /\ v # "entry" /\ vector' = v
      /\ d \in seen[v] /\ pending' = pending \ {d}
      /\ UNCHANGED <<name, routes, graphs, spot, contract, seen, visits, finished>>
  BY DEF PassBy, Visiting, buildVars, visitVars
<1>2. VectorsInv
  BY <1>1 DEF VisitInv
<1>3. v \in {"inward", "outward", "side effects"}
  BY <1>2 DEF VectorsInv
<1>4. Walked(v, pending \ {d})
  BY <1>1, <1>2, <1>3, WalkPassesBy DEF VectorsInv, Walked
<1>5. ASSUME NEW w, NEW P, Walked(w, P) PROVE Leads(GraphOf(w)', SurfaceOf(w)', seen'[w], P)
  BY <1>1, <1>5, GraphsAreStable DEF Walked
<1>6. Walked(v, pending)' /\ \A w : Walked(w, {}) => Walked(w, {})'
  BY <1>1, <1>4, <1>5 DEF Walked
<1>7. \A w : ShownOnce(w) => ShownOnce(w)'
  BY <1>1, VisitsAreStable DEF ShownOnce, HiddenFrom, Blacklist
<1>8. VectorsInv'
  <2>1. CASE v = "inward"
    BY <1>1, <1>2, <1>6, <1>7, <2>1 DEF VectorsInv
  <2>2. CASE v = "outward"
    BY <1>1, <1>2, <1>6, <1>7, <2>2 DEF VectorsInv
  <2>3. CASE v = "side effects"
    BY <1>1, <1>2, <1>6, <1>7, <2>3 DEF VectorsInv
  <2> QED BY <1>3, <2>1, <2>2, <2>3
<1>9. \A r \in finished' : ExactVisit(r)'
  BY <1>1, VisitsAreStable DEF VisitInv
<1> QED BY <1>1, <1>8, <1>9 DEF VisitInv

LEMMA TurnsKeep ==
  ASSUME VisitInv, TurnOutward \/ TurnToSideEffects
  PROVE  VisitInv'
<1>1. /\ phase = "visit" /\ phase' = phase /\ pending = {}
      /\ \/ /\ vector = "inward" /\ vector' = "outward"
            /\ pending' = IF Goes("outward") THEN {spot.node.within} ELSE {}
         \/ /\ vector = "outward" /\ vector' = "side effects"
            /\ pending' = IF spot.direction = "both ways" THEN seen["outward"] ELSE {}
      /\ UNCHANGED <<name, routes, graphs, spot, contract, seen, visits, finished>>
  BY DEF TurnOutward, TurnToSideEffects, buildVars
<1>2. VectorsInv
  BY <1>1 DEF VisitInv
<1>3. ASSUME NEW w, NEW P, Leads(GraphOf(w), SurfaceOf(w), seen[w], P)
      PROVE  Leads(GraphOf(w)', SurfaceOf(w)', seen'[w], P)
  BY <1>1, <1>3, GraphsAreStable
<1>4. \A w : Walked(w, {}) => Walked(w, {})'
  BY <1>3 DEF Walked
<1>5. \A w : ShownOnce(w) => ShownOnce(w)'
  BY <1>1, VisitsAreStable DEF ShownOnce, HiddenFrom, Blacklist
<1>6. ASSUME vector = "inward" PROVE VectorsInv'
  <2>1. pending' = SurfaceOf("outward") /\ seen["outward"] = {}
    BY <1>1, <1>2, <1>6 DEF SurfaceOf, VectorsInv
  <2>2. Walked("outward", pending)'
    BY <1>3, <2>1, WalkBegins DEF Walked
  <2> QED BY <1>1, <1>2, <1>4, <1>5, <1>6, <2>2 DEF VectorsInv
<1>7. ASSUME vector = "outward" PROVE VectorsInv'
  <2>1. pending' = SurfaceOf("side effects") /\ seen["side effects"] = {}
    BY <1>1, <1>2, <1>7 DEF SurfaceOf, VectorsInv
  <2>2. Walked("side effects", pending)'
    BY <1>3, <2>1, WalkBegins DEF Walked
  <2> QED BY <1>1, <1>2, <1>4, <1>5, <1>7, <2>2 DEF VectorsInv
<1>8. \A r \in finished' : ExactVisit(r)'
  BY <1>1, VisitsAreStable DEF VisitInv
<1>9. VectorsInv'
  BY <1>1, <1>6, <1>7
<1> QED BY <1>1, <1>8, <1>9 DEF VisitInv


(* A visit whose three walks have ended is exact.                          *)
LEMMA FinishConsumerKeeps ==
  ASSUME VisitInv, FinishConsumer
  PROVE  VisitInv'
<1> DEFINE made == [base |-> contract, seen |-> seen, visits |-> visits]
           g == IF spot.legacy THEN LegacyGraph(project) ELSE graphs[contract]
<1>1. /\ phase = "visit" /\ phase' = phase /\ vector = "side effects" /\ pending = {}
      /\ finished' = finished \cup {made}
      /\ vector' = "entry" /\ pending' = {}
      /\ UNCHANGED <<name, routes, graphs, spot>>
  BY DEF FinishConsumer, buildVars
<1>2. VectorsInv
  BY <1>1 DEF VisitInv
<1>3. Walked("inward", {}) /\ Walked("outward", {}) /\ Walked("side effects", {})
  BY <1>1, <1>2 DEF VectorsInv
<1>4. Goes("inward") => IsReach(g, InwardSurface(contract), seen["inward"])
  BY <1>3, WalkEnds DEF Walked, SurfaceOf, GraphOf, Inward
<1>5. Goes("outward") => IsReach(Reverse(g), {spot.node.within}, seen["outward"])
  BY <1>3, WalkEnds DEF Walked, SurfaceOf, GraphOf, Inward
<1>6. spot.direction = "both ways" => IsReach(g, seen["outward"], seen["side effects"])
  BY <1>3, WalkEnds DEF Walked, SurfaceOf, GraphOf, Inward
<1>7. /\ DOMAIN visits["inward"] = seen["inward"] \cap project.defs
      /\ DOMAIN visits["outward"] = seen["outward"] \cap project.defs
      /\ DOMAIN visits["side effects"] =
           (seen["side effects"] \ (seen["inward"] \cup seen["outward"] \cup EntryNodes)) \cap project.defs
  BY <1>2 DEF VectorsInv, ShownOnce, HiddenFrom, Blacklist
<1>8. \A v \in Vectors : \A d \in DOMAIN visits[v] : visits[v][d] = 1
  BY <1>2 DEF VectorsInv, ShownOnce, Vectors
<1>9. ExactVisit(made)
  BY <1>4, <1>5, <1>6, <1>7, <1>8 DEF ExactVisit
<1>10. \A r \in finished' : ExactVisit(r)
  BY <1>1, <1>9 DEF VisitInv
<1>11. \A r \in finished' : ExactVisit(r)'
  BY <1>1, <1>10, VisitsAreStable
<1> QED BY <1>1, <1>11 DEF VisitInv

LEMMA VisitInvInit == Init => VisitInv
BY DEF Init, VisitInv

LEMMA VisitInvNext == VisitInv /\ [Next]_vars => VisitInv'
<1> SUFFICES ASSUME VisitInv, [Next]_vars PROVE VisitInv'
  OBVIOUS
<1>1. CASE BuildRouter
  BY <1>1 DEF BuildRouter, visitVars, VisitInv
<1>2. CASE AttachGraphs
  BY <1>2 DEF AttachGraphs, visitVars, VisitInv
<1>3. ASSUME NEW c \in project.contracts, StartContract(c) PROVE VisitInv'
  BY <1>3 DEF StartContract, visitVars, VisitInv
<1>4. ASSUME NEW e \in entries, StartEntry(e) PROVE VisitInv'
  BY <1>4 DEF StartEntry, visitVars, VisitInv
<1>5. ASSUME NEW n \in pending, SkipNode(n) \/ ExpandNode(n) PROVE VisitInv'
  BY <1>5 DEF SkipNode, ExpandNode, visitVars, buildVars, VisitInv
<1>6. CASE FinishContract
  BY <1>6 DEF FinishContract, visitVars, VisitInv
<1>7. ASSUME NEW s \in SpotsOf(project), NEW d \in Directions, NEW legacy \in BOOLEAN,
             PickSpot(s, d, legacy)
      PROVE  VisitInv'
  BY <1>7 DEF PickSpot, buildVars, VisitInv
<1>8. ASSUME NEW c \in consumers, StartConsumer(c) PROVE VisitInv'
  BY <1>8, StartConsumerKeeps
<1>9. ASSUME NEW d \in pending, PassBy(d) \/ Visit(d) PROVE VisitInv'
  BY <1>9, PassByKeeps, VisitKeeps
<1>10. CASE TurnOutward \/ TurnToSideEffects
  BY <1>10, TurnsKeep
<1>11. CASE FinishConsumer
  BY <1>11, FinishConsumerKeeps
<1>12. CASE FinishSpot
  <2>1. \A r \in finished' : ExactVisit(r)'
    BY <1>12, VisitsAreStable DEF FinishSpot, buildVars, visitVars, VisitInv
  <2> QED BY <1>12, <2>1 DEF FinishSpot, visitVars, VisitInv
<1>13. CASE UNCHANGED vars
  <2>1. UNCHANGED <<name, phase, contract, pending, spot, vector, seen, visits, finished, graphs, routes>>
    BY <1>13 DEF vars, buildVars, visitVars
  <2>2. \A r \in finished' : ExactVisit(r)'
    BY <2>1, VisitsAreStable DEF VisitInv
  <2>3. VectorsInv => VectorsInv'
    <3>1. \A w, P : Leads(GraphOf(w), SurfaceOf(w), seen[w], P) =>
                    Leads(GraphOf(w)', SurfaceOf(w)', seen'[w], P)
      BY <2>1, GraphsAreStable
    <3>2. \A w : ShownOnce(w) => ShownOnce(w)'
      BY <2>1, VisitsAreStable DEF ShownOnce, HiddenFrom, Blacklist
    <3> QED BY <2>1, <3>1, <3>2 DEF VectorsInv, Walked
  <2> QED BY <2>1, <2>2, <2>3 DEF VisitInv
<1> QED BY <1>1, <1>2, <1>3, <1>4, <1>5, <1>6, <1>7, <1>8, <1>9, <1>10, <1>11, <1>12, <1>13 DEF Next

(* At every moment of a visit, what was shown and what waits account for   *)
(* all a walk from the spot has to show, and nothing was shown twice       *)
(* (CallGraphConsumer's traversals).                                       *)
THEOREM VisitInvariant == Spec => []VisitInv
BY VisitInvInit, VisitInvNext, PTL DEF Spec

(* A tracker is shown every definition the node leads to, in each vector   *)
(* and in any order of the walk, exactly once (CallGraphConsumer::accept). *)
THEOREM VisitsExact == Spec => []VisitsAreExact
<1>1. VisitInv => VisitsAreExact
  BY DEF VisitInv, VisitsAreExact, ExactVisit
<1> QED BY <1>1, VisitInvariant, PTL

-------------------------------------------------------------------------------
(* Types. The routes are those of the router from the moment it is built;  *)
(* the graphs, the entries and the nodes of a walk are definitions.        *)
GraphTyped(g) == DOMAIN g \subseteq project.defs /\ \A d \in DOMAIN g : g[d] \subseteq project.defs
RoutesInv ==
  routes = IF phase = "route" THEN <<>>
           ELSE [c \in Deployable(project) |-> BuildRoutes(project, c)]
SpotInv ==
  phase = "visit" =>
    /\ spot.node \in SpotType
    /\ ~spot.legacy =>
         consumers \subseteq DOMAIN graphs /\ (vector # "entry" => contract \in DOMAIN graphs)
TypeInv ==
  /\ TypeOK /\ RoutesInv /\ SpotInv
  /\ phase # "visit" => vector = "entry"
  /\ phase = "route" => contract = NoContract
  /\ phase \in {"route", "graph"} => pending \subseteq project.defs
  /\ phase = "graph" /\ contract # NoContract => contract \in Deployable(project)
  /\ \A c \in DOMAIN graphs : GraphTyped(graphs[c])

LEMMA EntrypointsAreDefinitions ==
  ASSUME NEW p, IsProject(p), NEW base \in p.contracts
  PROVE  EntrypointFunctions(p, BuildRoutes(p, base)) \subseteq {d \in p.defs : IsIn(p, p.home[d], base)}
<1> DEFINE r == Routes(p, base, base, Externals(p))
<1>1. IsIn(p, base, base)
  BY BaseIsFirst
<1>2. ASSUME NEW s \in DOMAIN r PROVE r[s] \in {d \in p.defs : IsIn(p, p.home[d], base)}
  <2>1. r[s] \in Found(p, base, base, Externals(p), s)
    BY <1>1, RouteLeadsToFirst
  <2>2. Found(p, base, base, Externals(p), s) \subseteq {d \in p.defs : IsIn(p, p.home[d], base)}
    BY <1>1, CandidatesAreIn DEF Found, Externals
  <2> QED BY <2>1, <2>2
<1>3. BuildExternalRoutes(p, base) = <<>> \/ BuildExternalRoutes(p, base) = r
  BY DEF BuildExternalRoutes
<1> HIDE DEF r
<1> QED BY <1>2, <1>3 DEF EntrypointFunctions, BuildRoutes, Range

(* What a project says of its calls, and what it is at all.                *)
LEMMA ProjectTyped ==
  ASSUME name \in DOMAIN Projects
  PROVE  /\ IsProject(project) /\ project.contracts \subseteq Contracts
         /\ project.defs \subseteq Definitions
         /\ \A d \in project.defs : project.calls[d] \subseteq Calls
         /\ Deployable(project) \subseteq project.contracts
<1>1. IsProject(project)
  BY ProjectsAreProjects DEF project
<1> QED BY <1>1 DEF IsProject, ProjectType, Deployable

LEMMA LegacyGraphTyped ==
  ASSUME name \in DOMAIN Projects
  PROVE  /\ DOMAIN LegacyGraph(project) \subseteq Definitions
         /\ \A d \in DOMAIN LegacyGraph(project) : LegacyGraph(project)[d] \subseteq Definitions
BY ProjectTyped DEF LegacyGraph, ReferredTo, Calls

LEMMA SuccessorsTyped ==
  ASSUME TypeInv, phase = "visit", vector # "entry", NEW v, NEW d
  PROVE  Successors(v, d) \subseteq Definitions
<1>1. name \in DOMAIN Projects /\ project.defs \subseteq Definitions
  BY ProjectTyped DEF TypeInv, TypeOK
<1>2. DOMAIN Inward \subseteq Definitions /\ \A e \in DOMAIN Inward : Inward[e] \subseteq Definitions
  <2>1. CASE spot.legacy
    BY <1>1, <2>1, LegacyGraphTyped DEF Inward
  <2>2. CASE ~spot.legacy
    <3>1. GraphTyped(graphs[contract])
      BY <2>2 DEF TypeInv, SpotInv
    <3> QED BY <1>1, <2>2, <3>1 DEF Inward, GraphTyped
  <2> QED BY <2>1, <2>2
<1>3. \A e \in DOMAIN Reverse(Inward) : Reverse(Inward)[e] \subseteq Definitions
  BY <1>2 DEF Reverse
<1> QED BY <1>2, <1>3 DEF Successors, GraphOf

LEMMA TypeInvInit == Init => TypeInv
<1> SUFFICES ASSUME Init PROVE TypeInv
  OBVIOUS
<1>1. DOMAIN graphs = {} /\ DOMAIN graph = {} /\ seen \in [Vectors -> SUBSET Definitions]
  BY DEF Init, EmptyGraph, NothingSeen
<1>2. TypeOK
  BY <1>1 DEF Init, TypeOK, NoVisits, Vectors
<1> QED BY <1>1, <1>2 DEF Init, TypeInv, RoutesInv, SpotInv

LEMMA CalleesTyped ==
  ASSUME NEW c, NEW d
  PROVE  Callees(c, d) \subseteq project.defs
BY DEF Callees, Resolved

LEMMA InwardSurfaceTyped ==
  ASSUME NEW c
  PROVE  InwardSurface(c) \subseteq project.defs
BY DEF InwardSurface, Resolved

(* The walk that builds the graphs.                                        *)
LEMMA WalkTyped ==
  ASSUME TypeInv,
         \/ BuildRouter \/ AttachGraphs \/ FinishContract
         \/ \E c \in project.contracts : StartContract(c)
         \/ \E e \in entries : StartEntry(e)
         \/ \E n \in pending : SkipNode(n) \/ ExpandNode(n)
  PROVE  TypeInv'
<1>1. /\ name \in DOMAIN Projects /\ IsProject(project) /\ project.defs \subseteq Definitions
      /\ Deployable(project) \subseteq project.contracts /\ NoContract \notin project.contracts
  BY ProjectTyped, RouterAssumption DEF TypeInv, TypeOK
<1>2. CASE BuildRouter
  <2>1. project' = project
    BY <1>2 DEF BuildRouter, project
  <2>2. RoutesInv'
    BY <1>2, <2>1 DEF BuildRouter, RoutesInv
  <2>3. /\ phase = "route" /\ phase' = "graph" /\ contract = NoContract /\ contract' = NoContract
        /\ UNCHANGED <<name, pending, graphs, entries, graph, visitVars>>
    BY <1>2 DEF BuildRouter, TypeInv
  <2> QED BY <2>1, <2>2, <2>3 DEF visitVars, TypeInv, TypeOK, SpotInv, GraphTyped
<1>3. CASE AttachGraphs
  <2>1. project' = project
    BY <1>3 DEF AttachGraphs, project
  <2> QED BY <1>3, <2>1 DEF AttachGraphs, buildVars, visitVars, TypeInv, TypeOK, RoutesInv, SpotInv, GraphTyped
<1>4. CASE FinishContract
  <2>1. /\ phase = "graph" /\ phase' = phase /\ contract \in Deployable(project) /\ project' = project
        /\ graphs' = Insert(graphs, contract, graph) /\ contract' = NoContract
        /\ UNCHANGED <<name, pending, routes, entries, graph, visitVars>>
    BY <1>4 DEF FinishContract, TypeInv, project
  <2>2. GraphTyped(graph)
    BY DEF TypeInv, TypeOK, GraphTyped
  <2>3. /\ DOMAIN graphs' \subseteq Deployable(project)
        /\ \A c \in DOMAIN graphs' : GraphTyped(graphs'[c])
    BY <2>1, <2>2 DEF Insert, TypeInv, TypeOK
  <2> QED BY <2>1, <2>3 DEF visitVars, TypeInv, TypeOK, RoutesInv, SpotInv, GraphTyped
<1>5. ASSUME NEW c \in project.contracts, StartContract(c) PROVE TypeInv'
  <2>1. /\ phase = "graph" /\ phase' = phase /\ project' = project /\ contract' = c
        /\ entries' = EntrypointFunctions(project, routes[c]) /\ DOMAIN graph' = {}
        /\ UNCHANGED <<name, pending, routes, graphs, visitVars>>
    BY <1>5 DEF StartContract, project, EmptyGraph
  <2>2. c \in Deployable(project) /\ routes[c] = BuildRoutes(project, c)
    BY <1>5 DEF StartContract, TypeInv, RoutesInv
  <2>3. entries' \subseteq project.defs
    BY <1>1, <2>1, <2>2, EntrypointsAreDefinitions
  <2> QED BY <2>1, <2>2, <2>3 DEF visitVars, TypeInv, TypeOK, RoutesInv, SpotInv, GraphTyped
<1>6. ASSUME NEW e \in entries, StartEntry(e) PROVE TypeInv'
  <2>1. /\ project' = project /\ e \in project.defs /\ phase = "graph"
        /\ pending' = {e} /\ entries' = entries \ {e}
        /\ UNCHANGED <<name, phase, contract, routes, graphs, graph, visitVars>>
    BY <1>6 DEF StartEntry, project, TypeInv, TypeOK
  <2> QED BY <1>1, <2>1 DEF visitVars, TypeInv, TypeOK, RoutesInv, SpotInv, GraphTyped
<1>7. ASSUME NEW n \in pending, SkipNode(n) PROVE TypeInv'
  <2>1. /\ project' = project /\ phase = "graph" /\ pending' = pending \ {n}
        /\ UNCHANGED <<name, phase, contract, routes, graphs, entries, graph, visitVars>>
    BY <1>7 DEF SkipNode, project, buildVars
  <2> QED BY <2>1 DEF visitVars, TypeInv, TypeOK, RoutesInv, SpotInv, GraphTyped
<1>8. ASSUME NEW n \in pending, ExpandNode(n) PROVE TypeInv'
  <2>1. /\ project' = project /\ phase = "graph"
        /\ graph' = Insert(graph, n, Callees(contract, n))
        /\ pending' = (pending \ {n}) \cup Callees(contract, n)
        /\ UNCHANGED <<name, phase, contract, routes, graphs, entries, visitVars>>
    BY <1>8 DEF ExpandNode, project
  <2>2. Callees(contract, n) \subseteq project.defs /\ pending \subseteq project.defs
    BY <2>1, CalleesTyped DEF TypeInv
  <2>3. /\ DOMAIN graph' \subseteq project.defs /\ pending' \subseteq project.defs
        /\ \A d \in DOMAIN graph' : graph'[d] \subseteq project.defs
    BY <2>1, <2>2 DEF Insert, TypeInv, TypeOK
  <2> QED BY <1>1, <2>1, <2>3 DEF visitVars, TypeInv, TypeOK, RoutesInv, SpotInv, GraphTyped
<1> QED BY <1>2, <1>3, <1>4, <1>5, <1>6, <1>7, <1>8

(* The visits.                                                             *)
LEMMA VisitsTyped ==
  ASSUME TypeInv,
         \/ \E s \in SpotsOf(project), d \in Directions, legacy \in BOOLEAN : PickSpot(s, d, legacy)
         \/ \E c \in consumers : StartConsumer(c)
         \/ \E n \in pending : PassBy(n) \/ Visit(n)
         \/ TurnOutward \/ TurnToSideEffects \/ FinishConsumer \/ FinishSpot
         \/ UNCHANGED vars
  PROVE  TypeInv'
<1>1. /\ name \in DOMAIN Projects /\ IsProject(project) /\ project.defs \subseteq Definitions
      /\ Deployable(project) \subseteq project.contracts /\ NoContract \notin project.contracts
  BY ProjectTyped, RouterAssumption DEF TypeInv, TypeOK
<1>2. ASSUME NEW s \in SpotsOf(project), NEW d \in Directions, NEW legacy \in BOOLEAN,
             PickSpot(s, d, legacy)
      PROVE  TypeInv'
  <2>1. /\ project' = project /\ phase = "pick" /\ phase' = "visit"
        /\ spot'.node = s /\ spot'.legacy = legacy
        /\ consumers' = IF legacy THEN {NoContract}
                        ELSE {c \in DOMAIN graphs : s.within \in DOMAIN graphs[c]}
        /\ UNCHANGED <<name, contract, pending, routes, graphs, entries, graph, vector, seen, visits, finished>>
    BY <1>2 DEF PickSpot, project, buildVars
  <2>2. s \in SpotType
    BY <1>1, CallGraphsAssumption DEF project
  <2> QED BY <1>1, <2>1, <2>2 DEF TypeInv, TypeOK, RoutesInv, SpotInv, GraphTyped
<1>3. ASSUME NEW c \in consumers, StartConsumer(c) PROVE TypeInv'
  <2>1. /\ project' = project /\ phase = "visit" /\ contract' = c
        /\ consumers' = consumers \ {c} /\ seen' = NothingSeen /\ vector' = "inward"
        /\ visits' = [NoVisits EXCEPT !["entry"] = [d \in {spot.node.within} |-> 1]]
        /\ pending' = IF Goes("inward") THEN InwardSurface(c) ELSE {}
        /\ UNCHANGED <<name, phase, routes, graphs, entries, graph, spot, finished>>
    BY <1>3 DEF StartConsumer, project, buildVars
  <2>2. /\ pending' \subseteq Definitions /\ DOMAIN visits' = Vectors
        /\ seen' \in [Vectors -> SUBSET Definitions] /\ vector' \in Vectors
    BY <1>1, <2>1, InwardSurfaceTyped DEF NothingSeen, NoVisits, Vectors
  <2> QED BY <1>1, <2>1, <2>2 DEF TypeInv, TypeOK, RoutesInv, SpotInv, GraphTyped
<1>4. ASSUME NEW d \in pending, PassBy(d) PROVE TypeInv'
  <2>1. /\ project' = project /\ phase = "visit" /\ pending' = pending \ {d}
        /\ UNCHANGED <<name, phase, contract, buildVars, visitVars>>
    BY <1>4 DEF PassBy, Visiting, project
  <2> QED BY <2>1 DEF buildVars, visitVars, TypeInv, TypeOK, RoutesInv, SpotInv, GraphTyped
<1>5. ASSUME NEW d \in pending, Visit(d), NEW v, v = vector PROVE TypeInv'
  <2>1. /\ project' = project /\ phase = "visit" /\ v # "entry"
        /\ seen' = [seen EXCEPT ![v] = @ \cup {d}]
        /\ pending' = (pending \ {d}) \cup Successors(v, d)
        /\ visits' = visits \/ visits' = Count(v, d)
        /\ UNCHANGED <<name, phase, contract, routes, graphs, entries, graph, spot, consumers, vector, finished>>
    BY <1>5 DEF Visit, Visiting, project, buildVars
  <2>2. Successors(v, d) \subseteq Definitions
    BY <1>5, <2>1, SuccessorsTyped
  <2>3. v \in Vectors /\ d \in Definitions /\ DOMAIN visits = Vectors
    BY <1>5 DEF TypeInv, TypeOK
  <2>4. DOMAIN Count(v, d) = Vectors
    BY <2>3, CountCounts
  <2>5. DOMAIN visits' = Vectors
    BY <2>1, <2>3, <2>4
  <2>6. pending' \subseteq Definitions /\ seen' \in [Vectors -> SUBSET Definitions]
    BY <2>1, <2>2, <2>3 DEF TypeInv, TypeOK
  <2> QED BY <2>1, <2>5, <2>6 DEF TypeInv, TypeOK, RoutesInv, SpotInv, GraphTyped
<1>6. CASE TurnOutward \/ TurnToSideEffects
  <2>1. /\ project' = project /\ phase = "visit" /\ vector # "entry"
        /\ vector' \in {"outward", "side effects"}
        /\ pending' \in {{}, {spot.node.within}, seen["outward"]}
        /\ UNCHANGED <<name, phase, contract, routes, graphs, entries, graph, spot, consumers, seen, visits, finished>>
    BY <1>6 DEF TurnOutward, TurnToSideEffects, project, buildVars
  <2>2. pending' \subseteq Definitions
    <3>1. spot.node.within \in Definitions
      BY <2>1 DEF TypeInv, SpotInv, SpotType
    <3>2. seen["outward"] \subseteq Definitions
      BY DEF TypeInv, TypeOK, Vectors
    <3> QED BY <2>1, <3>1, <3>2
  <2> QED BY <2>1, <2>2 DEF TypeInv, TypeOK, RoutesInv, SpotInv, GraphTyped, Vectors
<1>7. CASE FinishConsumer
  <2>1. /\ project' = project /\ phase = "visit" /\ vector' = "entry" /\ contract' = NoContract
        /\ UNCHANGED <<name, phase, pending, routes, graphs, entries, graph, spot, consumers, seen, visits>>
    BY <1>7 DEF FinishConsumer, project, buildVars
  <2> QED BY <2>1 DEF TypeInv, TypeOK, RoutesInv, SpotInv, GraphTyped, Vectors
<1>8. CASE FinishSpot
  <2>1. /\ project' = project /\ phase = "visit" /\ phase' = "done" /\ vector = "entry"
        /\ UNCHANGED <<name, contract, pending, buildVars, visitVars>>
    BY <1>8 DEF FinishSpot, project
  <2> QED BY <2>1 DEF buildVars, visitVars, TypeInv, TypeOK, RoutesInv, SpotInv, GraphTyped
<1>9. CASE UNCHANGED vars
  <2>1. project' = project
    BY <1>9 DEF vars, project
  <2> QED BY <1>9, <2>1 DEF vars, buildVars, visitVars, TypeInv, TypeOK, RoutesInv, SpotInv, GraphTyped
<1> QED BY <1>2, <1>3, <1>4, <1>5, <1>6, <1>7, <1>8, <1>9

LEMMA TypeInvNext == TypeInv /\ [Next]_vars => TypeInv'
<1> SUFFICES ASSUME TypeInv, [Next]_vars PROVE TypeInv'
  OBVIOUS
<1>1. CASE phase = "done" /\ UNCHANGED vars
  BY <1>1, VisitsTyped
<1> QED BY <1>1, WalkTyped, VisitsTyped DEF Next

(* What is routed, built and visited keeps to its type, with the routes    *)
(* those of the contracts at work: inductive without further facts.        *)
THEOREM TypeInvariant == Spec => []TypeInv
BY TypeInvInit, TypeInvNext, PTL DEF Spec

(* Every name, every node and every edge of a graph is of the project, for *)
(* any project and any walk.                                               *)
THEOREM CallGraphsTyped == Spec => []TypeOK
<1>1. TypeInv => TypeOK
  BY DEF TypeInv
<1> QED BY <1>1, TypeInvariant, PTL

-------------------------------------------------------------------------------
(* What is in the graph of a contract runs in that contract.               *)
LEMMA GraphsRunInTheirContracts ==
  ASSUME TypeInv, GraphInv, NEW c \in DOMAIN graphs, NEW d \in DOMAIN graphs[c]
  PROVE  MayRunIn(project, c, d) /\ c \in DOMAIN routes /\ routes[c] = BuildRoutes(project, c)
<1>1. /\ name \in DOMAIN Projects /\ IsProject(project) /\ c \in Deployable(project)
      /\ c \in project.contracts
  BY ProjectTyped DEF TypeInv, TypeOK
<1>2. c \in DOMAIN routes /\ routes[c] = BuildRoutes(project, c)
  <2>1. phase # "route"
    BY DEF GraphInv
  <2> QED BY <1>1, <2>1 DEF TypeInv, RoutesInv
<1>3. IsGraphOf(graphs[c], c) /\ GraphTyped(graphs[c])
  BY DEF GraphInv, GraphsInv, TypeInv
<1> DEFINE U == {e \in DOMAIN graphs[c] : MayRunIn(project, c, e)}
<1>4. EntryPoints(c) \subseteq U
  <2>1. EntryPoints(c) \subseteq {e \in project.defs : IsIn(project, project.home[e], c)}
    BY <1>1, <1>2, EntrypointsAreDefinitions DEF EntryPoints
  <2> QED BY <1>3, <2>1 DEF IsGraphOf, IsReach, MayRunIn
<1>5. Closed(graphs[c], U)
  <2>1. ASSUME NEW e \in U, NEW f \in graphs[c][e] PROVE f \in U
    <3>1. f \in Resolved(project, c, BuildRoutes(project, c), e, project.calls[e])
      BY <1>2, <1>3 DEF IsGraphOf, Callees
    <3>2. MayRunIn(project, c, f)
      BY <1>1, <3>1, CallsStay
    <3>3. f \in DOMAIN graphs[c]
      BY <1>3 DEF IsGraphOf, IsReach, Closed
    <3> QED BY <3>2, <3>3
  <2> QED BY <2>1 DEF Closed
<1>6. U = DOMAIN graphs[c]
  <2>1. U \in SUBSET DOMAIN graphs[c]
    OBVIOUS
  <2> HIDE DEF U
  <2> QED BY <1>3, <1>4, <1>5, <2>1 DEF IsGraphOf, IsReach
<1> QED BY <1>2, <1>6

(* For every project solc can write: the calls of the code that runs in a  *)
(* contract go where Solidity sends them (Router::resolve_internal_call,   *)
(* resolve_modifier_call).                                                 *)
THEOREM CallsReachTargets == Spec => []CallsReachTheirTargets
<1>1. TypeInv /\ GraphInv => CallsReachTheirTargets
  <2> SUFFICES ASSUME TypeInv, GraphInv, NEW c \in DOMAIN graphs, NEW d \in DOMAIN graphs[c],
                      NEW call \in project.calls[d], call.style # "external",
                      Plain(project, c, d, call)
               PROVE  ResolveCall(project, c, routes[c], d, call) = SolidityTarget(project, c, d, call)
    BY DEF CallsReachTheirTargets
  <2>1. MayRunIn(project, c, d) /\ routes[c] = BuildRoutes(project, c)
    BY GraphsRunInTheirContracts
  <2>2. IsProject(project) /\ IsDeployable(project, c) /\ call \in Calls
    BY <2>1, ProjectTyped DEF TypeInv, TypeOK, MayRunIn, Deployable
  <2>3. RefersTo(project, d, call)
    BY <2>1, <2>2 DEF Plain, MayRunIn, IsProject, CallsAreBound
  <2> QED BY <2>1, <2>2, <2>3, CallReachesTarget DEF IsCall
<1> QED BY <1>1, TypeInvariant, GraphInvariant, PTL

(* For every such project: the entry points of a contract are its          *)
(* interface, and a call from outside finds them by the selector           *)
(* (Router::entrypoint_functions, resolve_external_call).                  *)
THEOREM EntryPointsAreInterface == Spec => []EntryPointsAreTheInterface
<1>1. TypeInv => EntryPointsAreTheInterface
  <2> SUFFICES ASSUME TypeInv, phase = "pick", NEW c \in DOMAIN routes
               PROVE  LET out == Interface(project, c)
                      IN  /\ EntrypointFunctions(project, routes[c]) = {d \in out : project.sort[d] # "variable"}
                          /\ \A d \in project.defs :
                             \A call \in {x \in project.calls[d] : x.style = "external" /\ x.suspect \in project.defs} :
                               LET target == ResolveExternalCall(project, c, routes[c], call)
                                   found == {e \in out : project.selector[e] = project.selector[call.suspect]}
                                   fallback == {e \in out : project.sort[e] = "fallback"}
                               IN  {target} = IF LacksSelector(project, call.suspect) THEN {Unresolved}
                              ELSE IF found # {} THEN found
                                              ELSE IF fallback # {} THEN fallback ELSE {Unresolved}
    BY DEF EntryPointsAreTheInterface
  <2>1. c \in Deployable(project) /\ routes[c] = BuildRoutes(project, c)
    BY DEF TypeInv, RoutesInv
  <2>2. IsProject(project) /\ IsDeployable(project, c) /\ c \in project.contracts
    BY <2>1, ProjectTyped DEF TypeInv, TypeOK, Deployable
  <2>3. EntrypointFunctions(project, routes[c]) = {d \in Interface(project, c) : project.sort[d] # "variable"}
    BY <2>1, <2>2, EntrypointsAreOutermost
  <2>4. ASSUME NEW d \in project.defs, NEW call \in project.calls[d],
               call.style = "external", call.suspect \in project.defs
        PROVE  LET target == ResolveExternalCall(project, c, routes[c], call)
                   found == {e \in Interface(project, c) : project.selector[e] = project.selector[call.suspect]}
                   fallback == {e \in Interface(project, c) : project.sort[e] = "fallback"}
               IN  {target} = IF LacksSelector(project, call.suspect) THEN {Unresolved}
                              ELSE IF found # {} THEN found
                              ELSE IF fallback # {} THEN fallback ELSE {Unresolved}
    BY <2>1, <2>2, <2>4, ExternalCallIsRouted
  <2> QED BY <2>3, <2>4
<1> QED BY <1>1, TypeInvariant, PTL

-------------------------------------------------------------------------------
(* What can be reached in a graph, computed in as many rounds as it has    *)
(* nodes: every round that is not the last goes on from one node more.     *)
Rounds(g, S, steps) ==
  steps = [n \in 0 .. Cardinality(DOMAIN g) |-> IF n = 0 THEN S ELSE Further(g, steps[n - 1])]

LEMMA ReachHasRounds ==
  ASSUME NEW g, NEW S, IsFiniteSet(DOMAIN g)
  PROVE  \E steps : Rounds(g, S, steps) /\ Reach(g, S) = steps[Cardinality(DOMAIN g)]
<1> DEFINE top == Cardinality(DOMAIN g)
           W == S \cup UNION {g[d] : d \in DOMAIN g}
           step == [x \in (SUBSET W) \X (1 .. top) |-> Further(g, x[1])]
<1>1. top \in Nat
  BY FS_CardinalityType
<1>2. \A T \in SUBSET W : Further(g, T) \in SUBSET W
  BY DEF Further
<1>3. \A T \in SUBSET W, i \in 1 .. top : step[<<T, i>>] = Further(g, T)
  OBVIOUS
<1>4. S \in SUBSET W
  OBVIOUS
<1> HIDE DEF top, step, W
<1>5. PICK f : Follows(f, top, S, step)
  BY <1>1, RecursionOnRange
<1>6. f[0] = S /\ \A i \in 1 .. top : f[i] = step[<<f[i - 1], i>>]
  BY <1>1, <1>5 DEF Follows
<1>7. \A i \in 0 .. top : f[i] \in SUBSET W
  <2> DEFINE N == {i \in Nat : f[i] \in SUBSET W}
  <2>1. 0 \in N
    BY <1>4, <1>6
  <2>2. ASSUME NEW i \in 0 .. top - 1, i \in N PROVE i + 1 \in N
    <3>1. i + 1 \in 1 .. top /\ (i + 1) - 1 = i
      BY <1>1
    <3>2. f[i + 1] = Further(g, f[i])
      BY <1>3, <1>6, <2>2, <3>1
    <3>3. f[i + 1] \in SUBSET W
      BY <1>2, <2>2, <3>2
    <3> QED BY <3>3
  <2>3. 0 .. top \subseteq N
    <3> HIDE DEF N
    <3> QED BY <1>1, <2>1, <2>2, RangeInduction
  <2> QED BY <2>3
<1>8. ASSUME NEW i \in 1 .. top PROVE f[i] = Further(g, f[i - 1])
  <2>1. i - 1 \in 0 .. top
    BY <1>1
  <2>2. f[i - 1] \in SUBSET W
    BY <1>7, <2>1
  <2>3. step[<<f[i - 1], i>>] = Further(g, f[i - 1])
    BY <1>3, <2>2
  <2> QED BY <1>6, <2>3
<1>9. f = [n \in 0 .. top |-> IF n = 0 THEN S ELSE Further(g, f[n - 1])]
  <2>1. f = [n \in 0 .. top |-> f[n]]
    BY <1>5 DEF Follows
  <2>2. \A n \in 0 .. top : f[n] = IF n = 0 THEN S ELSE Further(g, f[n - 1])
    BY <1>1, <1>6, <1>8
  <2> QED BY <2>1, <2>2
<1> DEFINE steps == CHOOSE h : Rounds(g, S, h)
<1>10. Rounds(g, S, steps)
  <2>1. \E h : Rounds(g, S, h)
    BY <1>9 DEF Rounds, top
  <2> QED BY <2>1
<1>11. Reach(g, S) = steps[top]
  BY DEF Reach, Rounds, top
<1> HIDE DEF steps
<1> QED BY <1>10, <1>11 DEF top

LEMMA RoundsAre ==
  ASSUME NEW g, NEW S, NEW steps, IsFiniteSet(DOMAIN g), Rounds(g, S, steps),
         NEW top \in Nat, top = Cardinality(DOMAIN g)
  PROVE  /\ steps[0] = S
         /\ \A n \in 0 .. top - 1 : steps[n + 1] = Further(g, steps[n])
BY DEF Rounds

(* A round is closed, or has seen more nodes than there were rounds.       *)
LEMMA RoundsGrow ==
  ASSUME NEW g, NEW S, NEW steps, IsFiniteSet(DOMAIN g), Rounds(g, S, steps),
         NEW top \in Nat, top = Cardinality(DOMAIN g), NEW n \in 0 .. top
  PROVE  Closed(g, steps[n]) \/ Cardinality(steps[n] \cap DOMAIN g) >= n + 1
<1> DEFINE Met(k) == steps[k] \cap DOMAIN g
           N == {k \in Nat : Closed(g, steps[k]) \/ Cardinality(Met(k)) >= k + 1}
<1>1. \A k : IsFiniteSet(Met(k)) /\ Cardinality(Met(k)) \in Nat
  BY FS_Subset, FS_CardinalityType
<1>2. 0 \in N
  <2>1. CASE Met(0) = {}
    BY <2>1 DEF Closed
  <2>2. CASE Met(0) # {}
    <3>1. Cardinality(Met(0)) # 0 /\ Cardinality(Met(0)) \in Nat
      BY <1>1, <2>2, FS_EmptySet
    <3>2. Cardinality(Met(0)) >= 0 + 1
      BY <3>1
    <3> QED BY <3>2
  <2> QED BY <2>1, <2>2
<1>3. ASSUME NEW k \in 0 .. top - 1, k \in N PROVE k + 1 \in N
  <2>1. steps[k + 1] = Further(g, steps[k]) /\ k \in Nat /\ k + 1 \in Nat
    BY RoundsAre
  <2>2. CASE Closed(g, steps[k])
    <3>1. steps[k + 1] = steps[k]
      BY <2>1, <2>2 DEF Closed, Further
    <3> QED BY <2>1, <2>2, <3>1
  <2>3. CASE Met(k + 1) = Met(k)
    <3>1. Closed(g, steps[k + 1])
      BY <2>1, <2>3 DEF Closed, Further
    <3> QED BY <2>1, <3>1
  <2>4. CASE Cardinality(Met(k)) >= k + 1 /\ Met(k + 1) # Met(k)
    <3>1. Met(k) \subseteq Met(k + 1)
      BY <2>1 DEF Further
    <3>2. PICK a, b : a = Met(k) /\ b = Met(k + 1)
      OBVIOUS
    <3>3. IsFiniteSet(b) /\ a \in SUBSET b /\ a # b
      BY <1>1, <2>4, <3>1, <3>2
    <3>4. Cardinality(a) <= Cardinality(b) /\ Cardinality(a) # Cardinality(b)
      BY <3>3, FS_Subset
    <3>5. Cardinality(a) \in Nat /\ Cardinality(b) \in Nat /\ Cardinality(a) >= k + 1
      BY <1>1, <2>4, <3>2
    <3>6. Cardinality(b) >= (k + 1) + 1
      BY <2>1, <3>4, <3>5
    <3> QED BY <2>1, <3>2, <3>6
  <2> QED BY <1>3, <2>2, <2>3, <2>4
<1>4. 0 .. top \subseteq N
  <2> HIDE DEF N
  <2> QED BY <1>2, <1>3, RangeInduction
<1> QED BY <1>4

LEMMA ReachIsReach ==
  ASSUME NEW g, NEW S, IsFiniteSet(DOMAIN g)
  PROVE  /\ S \subseteq Reach(g, S) /\ Closed(g, Reach(g, S))
         /\ \A U : S \subseteq U /\ Closed(g, U) => Reach(g, S) \subseteq U
<1> DEFINE top == Cardinality(DOMAIN g)
<1>1. top \in Nat
  BY FS_CardinalityType
<1>2. PICK steps : Rounds(g, S, steps) /\ Reach(g, S) = steps[top]
  BY ReachHasRounds
<1> HIDE DEF top
<1>3. steps[0] = S /\ \A n \in 0 .. top - 1 : steps[n + 1] = Further(g, steps[n])
  BY <1>1, <1>2, RoundsAre DEF top
<1>4. S \subseteq steps[top]
  <2> DEFINE N == {n \in Nat : S \subseteq steps[n]}
  <2>1. 0 \in N /\ \A n \in 0 .. top - 1 : n \in N => n + 1 \in N
    BY <1>1, <1>3 DEF Further
  <2>2. 0 .. top \subseteq N
    <3> HIDE DEF N
    <3> QED BY <1>1, <2>1, RangeInduction
  <2> QED BY <1>1, <2>2
<1>5. Closed(g, steps[top])
  <2>1. steps[top] \cap DOMAIN g \in SUBSET DOMAIN g
    OBVIOUS
  <2>2. Cardinality(steps[top] \cap DOMAIN g) <= top /\ Cardinality(steps[top] \cap DOMAIN g) \in Nat
    BY <2>1, FS_Subset, FS_CardinalityType DEF top
  <2>3. Closed(g, steps[top]) \/ Cardinality(steps[top] \cap DOMAIN g) >= top + 1
    BY <1>1, <1>2, RoundsGrow DEF top
  <2> QED BY <1>1, <2>2, <2>3
<1>6. ASSUME NEW U, S \subseteq U, Closed(g, U) PROVE steps[top] \subseteq U
  <2> DEFINE N == {n \in Nat : steps[n] \subseteq U}
  <2>1. 0 \in N /\ \A n \in 0 .. top - 1 : n \in N => n + 1 \in N
    BY <1>1, <1>3, <1>6 DEF Further, Closed
  <2>2. 0 .. top \subseteq N
    <3> HIDE DEF N
    <3> QED BY <1>1, <2>1, RangeInduction
  <2> QED BY <1>1, <2>2
<1> QED BY <1>2, <1>4, <1>5, <1>6

LEMMA ReachIsUnique ==
  ASSUME NEW g, NEW S, NEW T, IsFiniteSet(DOMAIN g), IsReach(g, S, T)
  PROVE  Reach(g, S) = T
<1>1. /\ S \subseteq Reach(g, S) /\ Closed(g, Reach(g, S))
      /\ \A U : S \subseteq U /\ Closed(g, U) => Reach(g, S) \subseteq U
  BY ReachIsReach
<1>2. Reach(g, S) \subseteq T
  BY <1>1 DEF IsReach
<1> QED BY <1>1, <1>2 DEF IsReach

(* In a project whose calls are plain, a graph holds what runs.            *)
LEMMA GraphsAreFinite ==
  ASSUME TypeInv, NEW c \in DOMAIN graphs
  PROVE  IsFiniteSet(DOMAIN graphs[c]) /\ IsFiniteSet(DOMAIN RunEdges(c))
<1>1. IsFiniteSet(project.defs)
  BY RouterAssumption DEF TypeInv, TypeOK, project
<1>2. DOMAIN graphs[c] \in SUBSET project.defs /\ DOMAIN RunEdges(c) \in SUBSET project.defs
  BY DEF TypeInv, GraphTyped, RunEdges
<1> QED BY <1>1, <1>2, FS_Subset

LEMMA PlainCallsRun ==
  ASSUME TypeInv, GraphInv, AllPlain, NEW c \in DOMAIN graphs, NEW d \in DOMAIN graphs[c],
         NEW calls, calls \subseteq project.calls[d]
  PROVE  Resolved(project, c, routes[c], d, calls) = TargetsOf(c, d, calls)
<1>1. MayRunIn(project, c, d) /\ routes[c] = BuildRoutes(project, c)
  BY GraphsRunInTheirContracts
<1>2. IsProject(project) /\ IsDeployable(project, c)
  BY ProjectTyped DEF TypeInv, TypeOK, Deployable
<1>3. \A call \in calls : call.style # "external" => Plain(project, c, d, call)
  BY DEF AllPlain
<1> QED BY <1>1, <1>2, <1>3, ResolvedIsWhatRuns DEF TargetsOf

LEMMA GraphIsWhatRuns ==
  ASSUME TypeInv, GraphInv, AllPlain, NEW c \in DOMAIN graphs
  PROVE  /\ DOMAIN graphs[c] \subseteq DOMAIN RunEdges(c)
         /\ \A d \in DOMAIN graphs[c] : graphs[c][d] = RunEdges(c)[d]
         /\ RunsIn(c) = DOMAIN graphs[c]
<1> DEFINE D == DOMAIN graphs[c]
<1>1. IsGraphOf(graphs[c], c)
  BY DEF GraphInv, GraphsInv
<1>2. ASSUME NEW d \in D
      PROVE  d \in DOMAIN RunEdges(c) /\ graphs[c][d] = RunEdges(c)[d]
  <2>1. d \in DOMAIN RunEdges(c)
    BY GraphsRunInTheirContracts DEF RunEdges, MayRunIn, InLibrary, TypeInv, GraphTyped
  <2>2. graphs[c][d] = TargetsOf(c, d, project.calls[d])
    BY <1>1, PlainCallsRun DEF IsGraphOf, Callees
  <2> QED BY <2>1, <2>2 DEF RunEdges
<1>3. IsReach(RunEdges(c), EntryPoints(c), D)
  BY <1>1, <1>2 DEF IsGraphOf, IsReach, Closed
<1>4. RunsIn(c) = D
  BY <1>3, GraphsAreFinite, ReachIsUnique DEF RunsIn, EntryPoints
<1> QED BY <1>2, <1>4

(* The code of the entry points together reaches what is in a graph.       *)
LEMMA EveryNodeIsSeen ==
  ASSUME TypeInv, GraphInv, NEW c \in DOMAIN graphs, NEW d \in DOMAIN graphs[c]
  PROVE  \E e \in EntryPoints(c) : d \in SeenFrom(e)
<1> DEFINE U == {x \in DOMAIN graphs[c] : \E e \in EntryPoints(c) : x \in Reach(graphs[c], {e})}
<1>1. IsReach(graphs[c], EntryPoints(c), DOMAIN graphs[c])
  BY DEF GraphInv, GraphsInv, IsGraphOf
<1>2. \A e : {e} \subseteq Reach(graphs[c], {e}) /\ Closed(graphs[c], Reach(graphs[c], {e}))
  BY GraphsAreFinite, ReachIsReach
<1>3. EntryPoints(c) \subseteq U
  BY <1>1, <1>2 DEF IsReach
<1>4. Closed(graphs[c], U)
  BY <1>1, <1>2 DEF Closed, IsReach
<1>5. U = DOMAIN graphs[c]
  <2>1. U \in SUBSET DOMAIN graphs[c]
    OBVIOUS
  <2> HIDE DEF U
  <2> QED BY <1>1, <1>3, <1>4, <2>1 DEF IsReach
<1>6. PICK e \in EntryPoints(c) : d \in Reach(graphs[c], {e})
  BY <1>5
<1>7. c \in ContractsOf(e)
  BY <1>1 DEF ContractsOf, IsReach
<1> QED BY <1>6, <1>7 DEF SeenFrom

(* What a graph shows from one of its nodes is what runs from there.       *)
LEMMA ReachIsWhatRuns ==
  ASSUME TypeInv, GraphInv, AllPlain, NEW c \in DOMAIN graphs, NEW e \in DOMAIN graphs[c]
  PROVE  Reach(graphs[c], {e}) = Reach(RunEdges(c), {e})
<1> DEFINE D == DOMAIN graphs[c]
           T == Reach(graphs[c], {e})
<1>1. /\ {e} \subseteq T /\ Closed(graphs[c], T)
      /\ \A U : {e} \subseteq U /\ Closed(graphs[c], U) => T \subseteq U
  BY GraphsAreFinite, ReachIsReach
<1>2. Closed(graphs[c], D)
  BY DEF GraphInv, GraphsInv, IsGraphOf, IsReach
<1>3. T \subseteq D
  BY <1>1, <1>2
<1>4. D \subseteq DOMAIN RunEdges(c) /\ \A d \in D : graphs[c][d] = RunEdges(c)[d]
  BY GraphIsWhatRuns
<1> HIDE DEF T
<1>5. IsReach(RunEdges(c), {e}, T)
  BY <1>1, <1>3, <1>4 DEF IsReach, Closed
<1>6. Reach(RunEdges(c), {e}) = T
  BY <1>5, GraphsAreFinite, ReachIsUnique
<1> QED BY <1>6 DEF T

(* No code that runs in a contract said to lock its ether sends any        *)
(* (high/contract_locks_ether.rs).                                         *)
THEOREM LockedEther == Spec => []LockedEtherIsReal
<1>1. TypeInv /\ GraphInv => LockedEtherIsReal
  <2> SUFFICES ASSUME TypeInv, GraphInv, AllPlain, NEW c \in DOMAIN graphs, ContractLocksEther(c),
                      NEW d \in RunsIn(c)
               PROVE  "sends ether" \notin MarksOf(d)
    BY DEF LockedEtherIsReal
  <2>1. d \in DOMAIN graphs[c]
    BY GraphIsWhatRuns
  <2>2. PICK e \in EntryPoints(c) : d \in SeenFrom(e)
    BY <2>1, EveryNodeIsSeen
  <2> QED BY <2>2 DEF ContractLocksEther, EntryPoints
<1> QED BY <1>1, TypeInvariant, GraphInvariant, PTL

(* A contract that takes ether and is not said to lock it sends some, or   *)
(* another contract does from one of its entry points                      *)
(* (high/contract_locks_ether.rs).                                         *)
THEOREM UnlockedEther == Spec => []UnlockedEtherIsSent
<1>1. TypeInv /\ GraphInv => UnlockedEtherIsSent
  <2> SUFFICES ASSUME TypeInv, GraphInv, AllPlain, NEW c \in DOMAIN graphs,
                      \E e \in EntryPoints(c) : "payable" \in MarksOf(e), ~ContractLocksEther(c)
               PROVE  \/ SendsFrom(c, EntryPoints(c))
                      \/ \E b \in DOMAIN graphs \ {c} :
                           \E e \in EntryPoints(c) \cap RunsIn(b) : SendsFrom(b, {e})
    BY DEF UnlockedEtherIsSent, EntryPoints
  <2>1. PICK e \in EntryPoints(c) : \E d \in SeenFrom(e) : "sends ether" \in MarksOf(d)
    BY DEF ContractLocksEther, EntryPoints
  <2>2. PICK b \in ContractsOf(e) : \E d \in Reach(graphs[b], {e}) : "sends ether" \in MarksOf(d)
    BY <2>1 DEF SeenFrom
  <2>3. b \in DOMAIN graphs /\ e \in DOMAIN graphs[b]
    BY <2>2 DEF ContractsOf
  <2>4. e \in RunsIn(b) /\ SendsFrom(b, {e})
    BY <2>2, <2>3, GraphIsWhatRuns, ReachIsWhatRuns DEF SendsFrom
  <2>5. CASE b = c
    <3>1. Reach(RunEdges(c), {e}) \subseteq Reach(RunEdges(c), EntryPoints(c))
      <4>1. /\ EntryPoints(c) \subseteq Reach(RunEdges(c), EntryPoints(c))
            /\ Closed(RunEdges(c), Reach(RunEdges(c), EntryPoints(c)))
        BY GraphsAreFinite, ReachIsReach
      <4>2. {e} \subseteq Reach(RunEdges(c), EntryPoints(c))
        BY <4>1
      <4> QED BY <4>1, <4>2, GraphsAreFinite, ReachIsReach
    <3> QED BY <2>4, <2>5, <3>1 DEF SendsFrom
  <2>6. CASE b # c
    BY <2>3, <2>4, <2>6
  <2> QED BY <2>5, <2>6
<1> QED BY <1>1, TypeInvariant, GraphInvariant, PTL

-------------------------------------------------------------------------------
(* A spot is visited in every contract whose graph has the code it is in,  *)
(* and in no other.                                                        *)
SurroundedBy(s) == {c \in DOMAIN graphs : s.within \in DOMAIN graphs[c]}
BasesToVisit ==
  {r.base : r \in finished} \cup consumers \cup (IF vector = "entry" THEN {} ELSE {contract})
BasesInv ==
  /\ phase \in {"route", "graph", "pick"} => finished = {} /\ vector = "entry"
  /\ phase \in {"visit", "done"} =>
       /\ spot.node \in SpotsOf(project) /\ spot.legacy \in BOOLEAN
       /\ ~spot.legacy => BasesToVisit = SurroundedBy(spot.node)
  /\ phase = "done" => consumers = {} /\ vector = "entry"

LEMMA BasesInvNext == BasesInv /\ [Next]_vars => BasesInv'
<1> SUFFICES ASSUME BasesInv, [Next]_vars PROVE BasesInv'
  OBVIOUS
<1>1. CASE BuildRouter \/ AttachGraphs \/ (\E c \in project.contracts : StartContract(c))
           \/ (\E e \in entries : StartEntry(e))
           \/ (\E n \in pending : SkipNode(n) \/ ExpandNode(n)) \/ FinishContract
  BY <1>1 DEF BuildRouter, AttachGraphs, StartContract, StartEntry, SkipNode, ExpandNode,
              FinishContract, buildVars, visitVars, BasesInv
<1>2. ASSUME NEW s \in SpotsOf(project), NEW d \in Directions, NEW legacy \in BOOLEAN,
             PickSpot(s, d, legacy)
      PROVE  BasesInv'
  <2>1. /\ phase = "pick" /\ phase' = "visit" /\ project' = project
        /\ spot' = [legacy |-> legacy, node |-> s, direction |-> d]
        /\ consumers' = IF legacy THEN {NoContract} ELSE SurroundedBy(s)
        /\ UNCHANGED <<graphs, vector, finished>>
    BY <1>2 DEF PickSpot, buildVars, project, SurroundedBy
  <2>2. finished' = {} /\ vector' = "entry"
    BY <2>1 DEF BasesInv
  <2>3. BasesToVisit' = consumers'
    BY <2>2 DEF BasesToVisit
  <2> QED BY <2>1, <2>2, <2>3 DEF BasesInv, SurroundedBy
<1>3. ASSUME NEW c \in consumers, StartConsumer(c) PROVE BasesInv'
  <2>1. /\ phase = "visit" /\ phase' = phase /\ vector = "entry" /\ vector' = "inward"
        /\ contract' = c /\ consumers' = consumers \ {c} /\ project' = project
        /\ UNCHANGED <<graphs, spot, finished>>
    BY <1>3 DEF StartConsumer, buildVars, project
  <2>2. BasesToVisit' = BasesToVisit
    BY <1>3, <2>1 DEF BasesToVisit
  <2> QED BY <2>1, <2>2 DEF BasesInv, SurroundedBy
<1>4. CASE (\E d \in pending : PassBy(d) \/ Visit(d)) \/ TurnOutward \/ TurnToSideEffects
  <2>1. /\ phase = "visit" /\ phase' = phase /\ project' = project
        /\ vector # "entry" /\ vector' # "entry"
        /\ UNCHANGED <<graphs, spot, consumers, contract, finished>>
    BY <1>4 DEF PassBy, Visit, Visiting, TurnOutward, TurnToSideEffects, buildVars, visitVars, project
  <2>2. BasesToVisit' = BasesToVisit
    BY <2>1 DEF BasesToVisit
  <2> QED BY <2>1, <2>2 DEF BasesInv, SurroundedBy
<1>5. CASE FinishConsumer
  <2>1. /\ phase = "visit" /\ phase' = phase /\ project' = project
        /\ vector # "entry" /\ vector' = "entry"
        /\ UNCHANGED <<graphs, spot, consumers>>
    BY <1>5 DEF FinishConsumer, buildVars, project
  <2>2. {r.base : r \in finished'} = {r.base : r \in finished} \cup {contract}
    <3> DEFINE made == [base |-> contract, seen |-> seen, visits |-> visits]
    <3>1. finished' = finished \cup {made}
      BY <1>5 DEF FinishConsumer
    <3>2. made.base = contract
      OBVIOUS
    <3> HIDE DEF made
    <3> QED BY <3>1, <3>2
  <2>3. BasesToVisit' = BasesToVisit
    BY <2>1, <2>2 DEF BasesToVisit
  <2> QED BY <2>1, <2>3 DEF BasesInv, SurroundedBy
<1>6. CASE FinishSpot
  <2>1. /\ phase = "visit" /\ phase' = "done" /\ project' = project /\ consumers = {}
        /\ vector = "entry" /\ UNCHANGED <<graphs, spot, consumers, contract, vector, finished>>
    BY <1>6 DEF FinishSpot, buildVars, visitVars, project
  <2>2. BasesToVisit' = BasesToVisit
    BY <2>1 DEF BasesToVisit
  <2> QED BY <2>1, <2>2 DEF BasesInv, SurroundedBy
<1>7. CASE UNCHANGED vars
  BY <1>7 DEF vars, buildVars, visitVars, project, BasesInv, BasesToVisit, SurroundedBy
<1> QED BY <1>1, <1>2, <1>3, <1>4, <1>5, <1>6, <1>7 DEF Next

(* A spot is visited, or still to be visited, in exactly the contracts     *)
(* whose graph has the code that surrounds it.                             *)
THEOREM BasesInvariant == Spec => []BasesInv
<1>1. Init => BasesInv
  BY DEF Init, BasesInv
<1> QED BY <1>1, BasesInvNext, PTL DEF Spec

(* A visit inward shows what runs from the spot in its contract.           *)
LEMMA VisitShowsWhatRuns ==
  ASSUME TypeInv, GraphInv, VisitInv, BasesInv, AllPlain, phase = "done",
         ~spot.legacy, spot.direction = "inward", NEW r \in finished
  PROVE  /\ r.base \in DOMAIN graphs /\ spot.node.within \in RunsIn(r.base)
         /\ Visited(r) = RunsFrom(r.base, spot.node)
<1> DEFINE c == r.base
           s == spot.node
           T == r.seen["inward"]
           D == DOMAIN graphs[c]
<1>1. c \in DOMAIN graphs /\ s.within \in D
  BY DEF BasesInv, BasesToVisit, SurroundedBy
<1>2. s \in SpotType /\ s.calls \subseteq project.calls[s.within]
  BY CallGraphsAssumption DEF BasesInv, TypeInv, TypeOK, project
<1>3. InwardSurface(c) = TargetsOf(c, s.within, s.calls)
  BY <1>1, <1>2, PlainCallsRun DEF InwardSurface
<1>4. IsReach(graphs[c], InwardSurface(c), T)
  BY DEF VisitInv, ExactVisit, Goes
<1>5. /\ D \subseteq DOMAIN RunEdges(c) /\ RunsIn(c) = D
      /\ \A d \in D : graphs[c][d] = RunEdges(c)[d]
  BY <1>1, GraphIsWhatRuns
<1>6. Closed(graphs[c], D) /\ D \subseteq project.defs
  BY <1>1 DEF GraphInv, GraphsInv, IsGraphOf, IsReach, TypeInv, GraphTyped
<1>7. T \subseteq D
  <2>1. InwardSurface(c) \subseteq graphs[c][s.within]
    BY <1>1, <1>2 DEF GraphInv, GraphsInv, IsGraphOf, Callees, InwardSurface, Resolved
  <2>2. InwardSurface(c) \subseteq T \cap D /\ Closed(graphs[c], T \cap D)
    BY <1>1, <1>4, <1>6, <2>1 DEF IsReach, Closed
  <2>3. T \cap D \in SUBSET T
    OBVIOUS
  <2>4. T \cap D = T
    BY <1>4, <2>2, <2>3 DEF IsReach
  <2> QED BY <2>4
<1>8. IsReach(RunEdges(c), TargetsOf(c, s.within, s.calls), T)
  BY <1>3, <1>4, <1>5, <1>7 DEF IsReach, Closed
<1>9. Reach(RunEdges(c), TargetsOf(c, s.within, s.calls)) = T
  BY <1>1, <1>8, GraphsAreFinite, ReachIsUnique
<1>10. Visited(r) = T
  <2>1. DOMAIN r.visits["inward"] = T \cap project.defs
    BY DEF VisitInv, ExactVisit
  <2> QED BY <1>6, <1>7, <2>1 DEF Visited
<1> QED BY <1>1, <1>5, <1>9, <1>10 DEF RunsFrom

LEMMA EveryContractIsVisited ==
  ASSUME TypeInv, GraphInv, BasesInv, AllPlain, phase = "done", ~spot.legacy,
         NEW c \in DOMAIN graphs, spot.node.within \in RunsIn(c)
  PROVE  \E r \in finished : r.base = c
<1>1. c \in SurroundedBy(spot.node)
  BY GraphIsWhatRuns DEF SurroundedBy
<1> QED BY <1>1 DEF BasesInv, BasesToVisit

(* The detectors capture a node for what runs from it in some contract,    *)
(* for every project whose calls are plain (CallGraphConsumer, and the     *)
(* detectors that visit with a tracker for each contract).                 *)
THEOREM CapturesRun == Spec => []CapturesAreWhatRuns
<1>1. TypeInv /\ GraphInv /\ VisitInv /\ BasesInv => CapturesAreWhatRuns
  <2> SUFFICES ASSUME TypeInv, GraphInv, VisitInv, BasesInv, phase = "done", ~spot.legacy,
                      spot.direction = "inward", AllPlain,
                      NEW detector \in PerVisitDetectors \ LegacyDetectors
               PROVE  Captured(detector) <=>
                        /\ Examines(detector, spot.node)
                        /\ \E c \in DOMAIN graphs :
                             /\ spot.node.within \in RunsIn(c)
                             /\ Satisfied(detector, spot.node, Tracker(spot.node, RunsFrom(c, spot.node)))
    BY DEF CapturesAreWhatRuns
  <2> DEFINE Answers(ds) == Satisfied(detector, spot.node, Tracker(spot.node, ds))
  <2>1. Captured(detector) <=>
          Examines(detector, spot.node) /\ \E r \in finished : Answers(Visited(r))
    BY DEF Captured, BasesInv
  <2> HIDE DEF Answers
  <2>2. ASSUME NEW r \in finished, Answers(Visited(r))
        PROVE  \E c \in DOMAIN graphs : spot.node.within \in RunsIn(c) /\ Answers(RunsFrom(c, spot.node))
    BY <2>2, VisitShowsWhatRuns
  <2>3. ASSUME NEW c \in DOMAIN graphs, spot.node.within \in RunsIn(c), Answers(RunsFrom(c, spot.node))
        PROVE  \E r \in finished : Answers(Visited(r))
    BY <2>3, EveryContractIsVisited, VisitShowsWhatRuns
  <2>4. Captured(detector) <=>
          /\ Examines(detector, spot.node)
          /\ \E c \in DOMAIN graphs : spot.node.within \in RunsIn(c) /\ Answers(RunsFrom(c, spot.node))
    BY <2>1, <2>2, <2>3
  <2> QED BY <2>4 DEF Answers
<1> QED BY <1>1, TypeInvariant, GraphInvariant, VisitInvariant, BasesInvariant, PTL

(* A loop told to cache a length runs no code that changes the array, in   *)
(* any contract (low/storage_array_length_not_cached.rs).                  *)
THEOREM CachedLengths == Spec => []CachedLengthsDoNotChange
<1>1. TypeInv /\ GraphInv /\ VisitInv /\ BasesInv => CachedLengthsDoNotChange
  <2> SUFFICES ASSUME TypeInv, GraphInv, VisitInv, BasesInv, phase = "done", ~spot.legacy,
                      spot.direction = "inward", AllPlain, StorageArrayLengthNotCached,
                      NEW c \in DOMAIN graphs, spot.node.within \in RunsIn(c)
               PROVE  /\ spot.node.facts.lengths \cap spot.node.facts.writes = {}
                      /\ \A d \in RunsFrom(c, spot.node) :
                           spot.node.facts.lengths \cap project.facts[d].writes = {}
    BY DEF CachedLengthsDoNotChange
  <2> DEFINE lengths == spot.node.facts.lengths
             Unchanged(changes) == changes.pointers = {} /\ lengths \cap changes.direct = {}
  <2>1. AllChanges.pointers = {} /\ lengths \cap AllChanges.direct = {}
    BY DEF StorageArrayLengthNotCached, Verdict
  <2>2. PICK r \in finished : r.base = c
    BY EveryContractIsVisited
  <2>3. Visited(r) = RunsFrom(c, spot.node)
    BY <2>2, VisitShowsWhatRuns
  <2> DEFINE tracked == Tracker(spot.node, Visited(r)).changes
  <2>4. Unchanged(tracked)
    BY <2>1, <2>2 DEF AllChanges, SumOfChanges
  <2>5. Unchanged(ChangesOf(spot.node.facts))
    BY <2>4 DEF Tracker, AddChanges
  <2>6. ASSUME NEW d \in RunsFrom(c, spot.node) PROVE Unchanged(ChangesOf(project.facts[d]))
    <3> DEFINE all == {ChangesOf(project.facts[x]) : x \in Visited(r)}
    <3>1. Unchanged(SumOfChanges(all))
      BY <2>4 DEF Tracker, AddChanges
    <3>2. ChangesOf(project.facts[d]) \in all
      BY <2>3, <2>6
    <3> HIDE DEF all
    <3> QED BY <3>1, <3>2 DEF SumOfChanges
  <2>7. ASSUME NEW facts \in Facts, Unchanged(ChangesOf(facts)) PROVE lengths \cap facts.writes = {}
    BY <2>7, FactsAssumption DEF WritesAreNamed, ChangesOf
  <2>8. spot.node.facts \in Facts
    BY CallGraphsAssumption DEF BasesInv, TypeInv, TypeOK, project, SpotType
  <2>9. \A d \in RunsFrom(c, spot.node) : project.facts[d] \in Facts
    <3>1. Visited(r) \subseteq project.defs
      BY DEF Visited, VisitInv, ExactVisit
    <3> QED BY <2>3, <3>1, ProjectTyped DEF TypeInv, TypeOK, IsProject, ProjectType
  <2> QED BY <2>5, <2>6, <2>7, <2>8, <2>9
<1> QED BY <1>1, TypeInvariant, GraphInvariant, VisitInvariant, BasesInvariant, PTL
===============================================================================
