----------------------------- MODULE CfgReduction -----------------------------
(***************************************************************************)
(* How a control flow graph is made of a function's or a modifier's body   *)
(* (Cfg::from_function_body, aderyn_core/src/context/flow.rs). The graph   *)
(* starts with the body as one node. Statements wait in reduction_queue;   *)
(* each is replaced by the template of its kind, whose nodes may be        *)
(* statements to reduce in turn. Then continue, break and return, so far   *)
(* followed by the next statement, are connected to their destinations,    *)
(* which a search of the finished graph finds.                             *)
(***************************************************************************)
EXTENDS Naturals, Sequences, FiniteSets

CONSTANT Programs  \* the bodies considered, see IsProgram

(* A statement is a number; statement 1 is the body. "simple" stands for   *)
(* every primitive statement that does not jump (revert and try are among  *)
(* them) and "block" for unchecked blocks too. The header of a for says    *)
(* which of its three parts are there.                                     *)
Jumps == {"continue", "break", "return"}
Loops == {"while", "for", "doWhile"}
Reducible == {"block", "if"} \cup Loops
Kinds == {"simple"} \cup Jumps \cup Reducible

IsProgram(p) ==
  LET n == Len(p.kind) IN
    /\ n > 0 /\ p.kind \in Seq(Kinds) /\ p.kind[1] = "block"
    /\ p.children \in [1..n -> Seq(1..n)]
    /\ p.header \in [1..n -> SUBSET {"Init", "Cond", "Exp"}]
    /\ \A s \in 1..n :
         /\ p.kind[s] \in {"while", "for", "doWhile"} => Len(p.children[s]) = 1
         /\ p.kind[s] = "if" => Len(p.children[s]) \in {1, 2}
         /\ p.kind[s] = "doWhile" => p.kind[p.children[s][1]] = "block"
         /\ p.kind[s] \notin Reducible => p.children[s] = <<>>
         /\ \A i \in 1..Len(p.children[s]) : p.children[s][i] > s
    /\ \A s, t \in 1..n : \A i \in 1..Len(p.children[s]), j \in 1..Len(p.children[t]) :
         p.children[s][i] = p.children[t][j] => s = t /\ i = j
    /\ \A t \in 2..n : \E s \in 1..n : \E i \in 1..Len(p.children[s]) : p.children[s][i] = t

ASSUME ProgramsAssumption == \A p \in Programs : IsProgram(p)

VARIABLES
  program,          \* the body
  nodes,            \* of the graph: a role and the statement it plays it for
  adj_list,         \* the edges
  reduction_queue,  \* statements to reduce
  start_end_pairs,  \* of Start* nodes to End* nodes
  start_cond_pairs, \* of loops to their conditions' starts
  cond_start_pairs, \* and back, from the conditions' ends, for while and do
  start_loop_expr,  \* of for loops to their loop expressions' starts
  loop_expr_start,  \* and back, from the loop expressions' ends
  phase             \* "reduce", "done" or "panicked"

lookups == <<start_end_pairs, start_cond_pairs, cond_start_pairs, start_loop_expr, loop_expr_start>>
vars == <<program, nodes, adj_list, reduction_queue, start_end_pairs, start_cond_pairs,
          cond_start_pairs, start_loop_expr, loop_expr_start, phase>>

kind == program.kind
children == program.children
header == program.header
Statements == 1..Len(kind)

(* The voids of a template, and the primitives that are not statements:    *)
(* conditions, and the initialization and the expression of a for.         *)
StartRoles == {"Start", "StartCond", "StartBody", "StartTrue", "StartFalse", "StartInit", "StartExp"}
EndRoles == {"End", "EndCond", "EndBody", "EndTrue", "EndFalse", "EndInit", "EndExp"}
IsStart(n) == n[1] \in StartRoles
IsVoid(n) == n[1] \in StartRoles \cup EndRoles

Statement(s) == <<"Statement", s>>
BodyStart == <<"Start", 0>>
BodyEnd == <<"End", 0>>

Path(p) == {<<p[i], p[i + 1]>> : i \in 1..Len(p) - 1}
Roles(s, roles) == [i \in 1..Len(roles) |-> <<roles[i], s>>]
Child(s, i) == <<Statement(children[s][i])>>
Optional(s, part) == IF part \in header[s] THEN <<<<part, s>>>> ELSE <<>>

--------------------------------------------------------------------------------
(* The edges of the template that replaces a statement.                    *)

BlockEdges(s) ==
  Path(Roles(s, <<"Start">>) \o [i \in 1..Len(children[s]) |-> Statement(children[s][i])]
         \o Roles(s, <<"End">>))

IfEdges(s) ==
  LET else == IF Len(children[s]) = 2 THEN Child(s, 2) ELSE <<>> IN
    Path(Roles(s, <<"Start", "StartCond", "Cond", "EndCond", "StartTrue">>) \o Child(s, 1)
           \o Roles(s, <<"EndTrue", "End">>))
    \cup Path(Roles(s, <<"EndCond", "StartFalse">>) \o else \o Roles(s, <<"EndFalse", "End">>))

WhileEdges(s) ==
  Path(Roles(s, <<"Start", "StartCond", "Cond", "EndCond", "End">>))
  \cup Path(Roles(s, <<"EndCond", "StartBody">>) \o Child(s, 1) \o Roles(s, <<"EndBody", "StartCond">>))

ForEdges(s) ==
  Path(Roles(s, <<"Start", "StartInit">>) \o Optional(s, "Init") \o Roles(s, <<"EndInit", "StartCond">>)
         \o Optional(s, "Cond") \o Roles(s, <<"EndCond", "StartBody">>) \o Child(s, 1)
         \o Roles(s, <<"EndBody", "StartExp">>) \o Optional(s, "Exp")
         \o Roles(s, <<"EndExp", "StartCond">>))
  \cup Path(Roles(s, <<"EndCond", "End">>))

DoWhileEdges(s) ==
  Path(Roles(s, <<"Start", "StartBody">>) \o Child(s, 1)
         \o Roles(s, <<"EndBody", "StartCond", "Cond", "EndCond", "StartBody">>))
  \cup Path(Roles(s, <<"EndCond", "End">>))

TemplateEdges(s) ==
  CASE kind[s] = "block" -> BlockEdges(s)
    [] kind[s] = "if" -> IfEdges(s)
    [] kind[s] = "while" -> WhileEdges(s)
    [] kind[s] = "for" -> ForEdges(s)
    [] kind[s] = "doWhile" -> DoWhileEdges(s)

(* Mutant: no pair for the condition of a while, as for that of an if. *)
PairedPartsNoCond(s) ==
  CASE kind[s] = "block" -> {""}
    [] kind[s] = "if" -> {"", "True", "False"}
    [] kind[s] = "while" -> {"", "Body"}
    [] kind[s] = "for" -> {"", "Init", "Cond", "Body", "Exp"}
    [] kind[s] = "doWhile" -> {"", "Body", "Cond"}

(* The parts of a statement whose start is paired with its end. The        *)
(* condition of an if is not: its pair is overwritten by that of the if.   *)
PairedParts(s) ==
  CASE kind[s] = "block" -> {""}
    [] kind[s] = "if" -> {"", "True", "False"}
    [] kind[s] = "while" -> {"", "Cond", "Body"}
    [] kind[s] = "for" -> {"", "Init", "Cond", "Body", "Exp"}
    [] kind[s] = "doWhile" -> {"", "Body", "Cond"}

Pair(s, part) ==
  CASE part = "" -> <<<<"Start", s>>, <<"End", s>>>>
    [] part = "True" -> <<<<"StartTrue", s>>, <<"EndTrue", s>>>>
    [] part = "False" -> <<<<"StartFalse", s>>, <<"EndFalse", s>>>>
    [] part = "Init" -> <<<<"StartInit", s>>, <<"EndInit", s>>>>
    [] part = "Cond" -> <<<<"StartCond", s>>, <<"EndCond", s>>>>
    [] part = "Body" -> <<<<"StartBody", s>>, <<"EndBody", s>>>>
    [] part = "Exp" -> <<<<"StartExp", s>>, <<"EndExp", s>>>>

--------------------------------------------------------------------------------
Init ==
  /\ program \in Programs
  /\ nodes = {BodyStart, BodyEnd, Statement(1)}
  /\ adj_list = Path(<<BodyStart, Statement(1), BodyEnd>>)
  /\ reduction_queue = <<1>>
  /\ start_end_pairs = {<<BodyStart, BodyEnd>>}
  /\ start_cond_pairs = {} /\ cond_start_pairs = {}
  /\ start_loop_expr = {} /\ loop_expr_start = {}
  /\ phase = "reduce"

raw_predecessors(n) == {e[1] : e \in {f \in adj_list : f[2] = n}}
raw_successors(n) == {e[2] : e \in {f \in adj_list : f[1] = n}}

IsReducible(s) == kind[s] \in Reducible

(* add_node queues the children of a template that are to be reduced.      *)
ReducibleChildren(s) ==
  LET queued[i \in 0..Len(children[s])] ==
        IF i = 0 THEN <<>>
        ELSE IF IsReducible(children[s][i]) THEN Append(queued[i - 1], children[s][i])
        ELSE queued[i - 1]
  IN  queued[Len(children[s])]

(* Mutant: the template's end is not connected. *)
SpliceNoSuccessors(s) ==
  LET n == Statement(s) IN
    {e \in adj_list : n \notin {e[1], e[2]}} \cup TemplateEdges(s)
    \cup (raw_predecessors(n) \X {<<"Start", s>>})

(* Cfg::reduce: the node goes, its template comes, and its neighbours are  *)
(* connected to the template's start and end.                              *)
Splice(s) ==
  LET n == Statement(s) IN
    {e \in adj_list : n \notin {e[1], e[2]}} \cup TemplateEdges(s)
    \cup (raw_predecessors(n) \X {<<"Start", s>>}) \cup ({<<"End", s>>} \X raw_successors(n))

Reduce ==
  /\ phase = "reduce" /\ reduction_queue # <<>>
  /\ LET s == Head(reduction_queue) IN
       /\ nodes' = (nodes \ {Statement(s)})
                   \cup {e[1] : e \in TemplateEdges(s)} \cup {e[2] : e \in TemplateEdges(s)}
       /\ adj_list' = Splice(s)
       /\ reduction_queue' = Tail(reduction_queue) \o ReducibleChildren(s)
       /\ start_end_pairs' = start_end_pairs \cup {Pair(s, part) : part \in PairedParts(s)}
       /\ start_cond_pairs' = start_cond_pairs \cup
            (IF kind[s] \in Loops THEN {<<<<"Start", s>>, <<"StartCond", s>>>>} ELSE {})
       /\ cond_start_pairs' = cond_start_pairs \cup
            (IF kind[s] \in {"while", "doWhile"} THEN {<<<<"EndCond", s>>, <<"Start", s>>>>} ELSE {})
       /\ start_loop_expr' = start_loop_expr \cup
            (IF kind[s] = "for" THEN {<<<<"Start", s>>, <<"StartExp", s>>>>} ELSE {})
       /\ loop_expr_start' = loop_expr_start \cup
            (IF kind[s] = "for" THEN {<<<<"EndExp", s>>, <<"Start", s>>>>} ELSE {})
  /\ UNCHANGED <<program, phase>>

--------------------------------------------------------------------------------
(* The search for the loop a jump is in.                                   *)

(* What next leads to from a set of nodes, over and over. *)
Reach(from, next) ==
  LET reach[seen \in SUBSET nodes] ==
        LET new == (UNION {next[n] : n \in seen}) \ seen
        IN  IF new = {} THEN seen ELSE reach[seen \cup new]
  IN  reach[from]

successors == [n \in nodes |-> raw_successors(n)]
Values(lookup, n) == {e[2] : e \in {f \in lookup : f[1] = n}}

(* The ends where find_jump_dest stops: those of a while's, a do's         *)
(* condition and of a for's loop expression.                               *)
IsLoopEnd(n) ==
  \/ n[1] = "EndCond" /\ kind[n[2]] \in {"while", "doWhile"}
  \/ n[1] = "EndExp"

(* Mutant: the search goes into nested statements. *)
SearchStepInside(n) == IF IsLoopEnd(n) THEN {} ELSE raw_successors(n)

(* From a start the search skips to its end. *)
SearchStep(n) ==
  IF IsLoopEnd(n) THEN {}
  ELSE IF IsStart(n) THEN Values(start_end_pairs, n)
  ELSE raw_successors(n)

Searched(jump) == Reach({jump}, [n \in nodes |-> SearchStep(n)])

(* The loops a search may return: which of several it meets first depends  *)
(* on the order of the edges.                                              *)
JumpDestinations(jump) ==
  UNION {Values(cond_start_pairs \cup loop_expr_start, n) : n \in {m \in Searched(jump) : IsLoopEnd(m)}}

(* A jump in no loop goes to the body's end, and so does every return. *)
DefaultSite == <<"DefaultSite", 0>>
Found(jump) ==
  IF kind[jump[2]] = "return" \/ JumpDestinations(jump) = {} THEN {DefaultSite}
  ELSE JumpDestinations(jump)

IsJump(n) == n[1] = "Statement" /\ kind[n[2]] \in Jumps
discover_jump_sources == {n \in Reach({BodyStart}, successors) : IsJump(n)}

(* Mutant: continue goes to the condition of every kind of loop. *)
CalibratedToCondition(jump, dest) ==
  IF dest = DefaultSite THEN {BodyEnd}
  ELSE IF kind[jump[2]] = "break" THEN Values(start_end_pairs, dest)
  ELSE Values(start_cond_pairs, dest)

(* Where calibrate connects a jump to, if the search found dest. *)
Calibrated(jump, dest) ==
  IF dest = DefaultSite THEN {BodyEnd}
  ELSE IF kind[jump[2]] = "break" THEN Values(start_end_pairs, dest)
  ELSE IF kind[dest[2]] = "for" THEN Values(start_loop_expr, dest)
  ELSE Values(start_cond_pairs, dest)

(* Each get of a lookup is followed by expect. *)
SearchPanics(jump) ==
  \E n \in Searched(jump) :
    \/ IsStart(n) /\ Values(start_end_pairs, n) = {}
    \/ IsLoopEnd(n) /\ Values(cond_start_pairs \cup loop_expr_start, n) = {}
CalibrationPanics(jump) == \E dest \in Found(jump) : Calibrated(jump, dest) = {}

Calibrate ==
  /\ phase = "reduce" /\ reduction_queue = <<>>
  /\ \E found \in {[j \in discover_jump_sources |-> Found(j)]} :
       LET jumps == DOMAIN found IN
       \E dest \in [jumps -> UNION {found[j] : j \in jumps}] :
         /\ \A j \in jumps : dest[j] \in found[j]
         /\ adj_list' = {e \in adj_list : e[1] \notin jumps}
                        \cup UNION {{j} \X Calibrated(j, dest[j]) : j \in jumps}
         /\ phase' = IF \E j \in jumps : kind[j[2]] # "return" /\ (SearchPanics(j) \/ CalibrationPanics(j))
                     THEN "panicked" ELSE "done"
  /\ UNCHANGED <<program, nodes, reduction_queue, lookups>>

Next == Reduce \/ Calibrate

Spec == Init /\ [][Next]_vars

--------------------------------------------------------------------------------
(* The flow of the program itself, between points: its statements and the  *)
(* parts of its loops and conditions. Statements still to be reduced are   *)
(* taken as atoms.                                                         *)

IsAtom(s) == kind[s] \notin Reducible \/ \E i \in 1..Len(reduction_queue) : reduction_queue[i] = s

(* Whether a statement can complete without meeting any point, and the     *)
(* points it can meet first.                                               *)
Passes(s) ==
  LET passes[t \in Statements] ==
        /\ ~IsAtom(t)
        /\ \/ kind[t] = "block" /\ \A i \in 1..Len(children[t]) : passes[children[t][i]]
           \/ kind[t] = "for" /\ header[t] \cap {"Init", "Cond"} = {}
  IN  passes[s]

First(s) ==
  LET first[t \in Statements] ==
        LET child(i) == children[t][i]
            body == first[child(1)]
            part(p) == IF p \in header[t] THEN {<<p, t>>} ELSE {}
        IN CASE IsAtom(t) -> {Statement(t)}
             [] ~IsAtom(t) /\ kind[t] = "block" ->
                  UNION {first[child(i)] :
                           i \in {j \in 1..Len(children[t]) : \A h \in 1..j - 1 : Passes(child(h))}}
             [] ~IsAtom(t) /\ kind[t] \in {"if", "while"} -> {<<"Cond", t>>}
             [] ~IsAtom(t) /\ kind[t] = "doWhile" ->
                  body \cup (IF Passes(child(1)) THEN {<<"Cond", t>>} ELSE {})
             [] ~IsAtom(t) /\ kind[t] = "for" ->
                  IF "Init" \in header[t] THEN part("Init")
                  ELSE IF "Cond" \in header[t] THEN part("Cond")
                  ELSE body \cup (IF Passes(child(1)) THEN part("Exp") ELSE {})
  IN  first[s]

(* What comes of entering a statement that is followed by next. *)
Enter(s, next) == First(s) \cup (IF Passes(s) THEN next ELSE {})

Body(s) == children[s][1]

(* Of a for whose completion is followed by next: where its condition is.  *)
(* With no condition both ways are taken to be open.                       *)
ForTest(s, next) ==
  IF "Cond" \in header[s] THEN {<<"Cond", s>>}
  ELSE next \cup Enter(Body(s), IF "Exp" \in header[s] THEN {<<"Exp", s>>} ELSE {})

(* Where the body of a loop leads, and continue. *)
NextRound(s, next) ==
  IF kind[s] # "for" THEN {<<"Cond", s>>}
  ELSE IF "Exp" \in header[s] THEN {<<"Exp", s>>}
  ELSE ForTest(s, next)

ParentOf(s) == CHOOSE p \in Statements : \E i \in 1..Len(children[p]) : children[p][i] = s
IndexOf(s) == CHOOSE i \in 1..Len(children[ParentOf(s)]) : children[ParentOf(s)][i] = s

(* The points that can follow a statement that completes. *)
After(s) ==
  LET after[t \in Statements] ==
        IF t = 1 THEN {BodyEnd}
        ELSE LET p == ParentOf(t)
                 sibling(j) == children[p][j]
                 open == {j \in IndexOf(t) + 1..Len(children[p]) :
                            \A h \in IndexOf(t) + 1..j - 1 : Passes(sibling(h))}
                 last == \A h \in IndexOf(t) + 1..Len(children[p]) : Passes(sibling(h))
             IN CASE kind[p] = "block" ->
                       (UNION {First(sibling(j)) : j \in open}) \cup (IF last THEN after[p] ELSE {})
                  [] kind[p] = "if" -> after[p]
                  [] kind[p] \in Loops -> NextRound(p, after[p])
  IN  after[s]

(* The innermost loop around a statement, 0 if there is none. *)
LoopOf(s) ==
  LET loop[t \in Statements] ==
        IF t = 1 THEN 0
        ELSE IF kind[ParentOf(t)] \in Loops THEN ParentOf(t) ELSE loop[ParentOf(t)]
  IN  loop[s]

JumpsTo(s) ==
  LET loop == LoopOf(s)
  IN  IF kind[s] = "return" \/ loop = 0 THEN {BodyEnd}
      ELSE IF kind[s] = "break" THEN After(loop)
      ELSE NextRound(loop, After(loop))

(* What can follow a point. *)
ProgramFlow(n) ==
  LET s == n[2] IN
    CASE n = BodyStart -> Enter(1, {BodyEnd})
      [] n[1] = "Statement" -> IF kind[s] \in Jumps /\ phase = "done" THEN JumpsTo(s) ELSE After(s)
      [] n[1] \in {"Init", "Exp"} -> ForTest(s, After(s))
      [] n[1] = "Cond" /\ kind[s] = "if" ->
           Enter(Body(s), After(s))
           \cup (IF Len(children[s]) = 2 THEN Enter(children[s][2], After(s)) ELSE After(s))
      [] n[1] = "Cond" /\ kind[s] \in Loops ->
           After(s) \cup Enter(Body(s), IF kind[s] = "for" THEN NextRound(s, After(s)) ELSE {<<"Cond", s>>})

(* The same in the graph: what can follow with only voids in between. *)
IsPoint(n) == ~IsVoid(n) \/ n = BodyEnd
GraphFlow(n) ==
  LET pass == [m \in nodes |-> IF IsPoint(m) THEN {} ELSE raw_successors(m)]
  IN  {m \in Reach(raw_successors(n), pass) : IsPoint(m)}

(* The graph has the flow of the body: after every reduction, with the     *)
(* statements in the queue as atoms and jumps followed by the next         *)
(* statement, and in the end with jumps to the end, the condition or the   *)
(* loop expression of the innermost loop around them, or the body's end.   *)
GraphIsTheProgram ==
  phase # "panicked" =>
    \A n \in {m \in nodes : IsPoint(m) /\ m # BodyEnd} \cup {BodyStart} : GraphFlow(n) = ProgramFlow(n)

(* discover_jump_sources goes along the edges from the body's start: until *)
(* the jumps are connected, it meets every node, of unreachable code too,  *)
(* and at any time every node has a way to the body's end.                 *)
NothingIsDetached ==
  /\ phase = "reduce" => Reach({BodyStart}, successors) = nodes
  /\ Reach({BodyEnd}, [n \in nodes |-> raw_predecessors(n)]) = nodes

(* Every lookup the search and the calibration make succeeds, although the *)
(* start of an if's condition has no end in start_end_pairs; and the       *)
(* search of find_jump_dest meets the end of one loop only, so that what   *)
(* it returns does not depend on the order of the edges.                   *)
JumpsFindTheirLoop ==
  /\ phase # "panicked"
  /\ phase = "reduce" /\ reduction_queue = <<>> =>
       \A jump \in discover_jump_sources : Cardinality(Found(jump)) = 1
================================================================================
