--------------------------- MODULE CfgReductionProofs ---------------------------
(***************************************************************************)
(* The control flow graph of every body, of any size: it is the templates  *)
(* put together, nothing of it is detached, the search from a jump finds   *)
(* the innermost loop around it and never fails, the flow of the graph is  *)
(* the flow of the program, and the detectors that search the graph find   *)
(* what the program does.                                                  *)
(***************************************************************************)
EXTENDS CfgDetectors, DataInduction

(* What a search of the graph collects is the least set that has where it  *)
(* starts from and what follows each of its nodes.                         *)
LEMMA ReachIsLeast ==
  ASSUME IsFiniteSet(nodes), NEW from \in SUBSET nodes, NEW next \in [nodes -> SUBSET nodes]
  PROVE  /\ Reach(from, next) \in SUBSET nodes
         /\ from \subseteq Reach(from, next)
         /\ \A n \in Reach(from, next) : next[n] \subseteq Reach(from, next)
         /\ \A U \in SUBSET nodes :
              from \subseteq U /\ (\A n \in U : next[n] \subseteq U) => Reach(from, next) \subseteq U
<1> DEFINE new(seen) == (UNION {next[n] : n \in seen}) \ seen
           round(f) == [seen \in SUBSET nodes |->
                          IF new(seen) = {} THEN seen ELSE f[seen \cup new(seen)]]
           least(seen) == {x \in nodes : \A U \in SUBSET nodes :
                             seen \subseteq U /\ (\A n \in U : next[n] \subseteq U) => x \in U}
           reach == CHOOSE f : f = round(f)
<1>1. ASSUME NEW seen \in SUBSET nodes
      PROVE  /\ seen \cup new(seen) \in SUBSET nodes
             /\ new(seen) = {} => least(seen) = seen
             /\ least(seen \cup new(seen)) = least(seen)
  <2>1. \A n \in seen : next[n] \subseteq seen \cup new(seen)
    OBVIOUS
  <2>2. seen \cup new(seen) \in SUBSET nodes
    OBVIOUS
  <2>3. ASSUME new(seen) = {} PROVE least(seen) = seen
    BY <2>1, <2>3
  <2>4. ASSUME NEW U \in SUBSET nodes, \A n \in U : next[n] \subseteq U
        PROVE  seen \subseteq U <=> seen \cup new(seen) \subseteq U
    BY <2>4
  <2> QED BY <2>2, <2>3, <2>4
<1>2. [seen \in SUBSET nodes |-> least(seen)] = round([seen \in SUBSET nodes |-> least(seen)])
  <2> HIDE DEF new, least
  <2> QED BY <1>1
<1>3. reach = round(reach)
  BY <1>2
<1>4. Reach(from, next) = reach[from]
  BY DEF Reach
<1> DEFINE S == {n \in Nat : \A seen \in SUBSET nodes :
                               Cardinality(nodes \ seen) <= n => reach[seen] = least(seen)}
<1> HIDE DEF reach, least
<1>5. ASSUME NEW seen \in SUBSET nodes
      PROVE  reach[seen] = IF new(seen) = {} THEN seen ELSE reach[seen \cup new(seen)]
  <2> HIDE DEF new
  <2>1. reach = [t \in SUBSET nodes |-> IF new(t) = {} THEN t ELSE reach[t \cup new(t)]]
    BY <1>3
  <2> QED BY <2>1
<1>6. ASSUME NEW seen \in SUBSET nodes, new(seen) # {}
      PROVE  /\ Cardinality(nodes \ seen) \in Nat
             /\ Cardinality(nodes \ (seen \cup new(seen))) \in Nat
             /\ Cardinality(nodes \ (seen \cup new(seen))) < Cardinality(nodes \ seen)
  <2>1. PICK x \in new(seen) : TRUE
    BY <1>6
  <2>2. x \in nodes \ seen
    BY <2>1
  <2>3. IsFiniteSet(nodes \ seen) /\ IsFiniteSet(nodes \ (seen \cup new(seen)))
    BY FS_Subset, FS_Difference
  <2>4. IsFiniteSet((nodes \ seen) \ {x}) /\ Cardinality((nodes \ seen) \ {x}) = Cardinality(nodes \ seen) - 1
    BY <2>2, <2>3, FS_RemoveElement
  <2>5. nodes \ (seen \cup new(seen)) \subseteq (nodes \ seen) \ {x}
    BY <2>1
  <2>6. Cardinality(nodes \ (seen \cup new(seen))) <= Cardinality((nodes \ seen) \ {x})
    BY <2>4, <2>5, FS_Subset
  <2> QED BY <2>3, <2>4, <2>6, FS_CardinalityType
<1>7. 0 \in S
  <2> SUFFICES ASSUME NEW seen \in SUBSET nodes, Cardinality(nodes \ seen) <= 0
               PROVE  reach[seen] = least(seen)
    OBVIOUS
  <2>1. new(seen) = {}
    <3> HIDE DEF new
    <3>1. CASE new(seen) # {}
      <4>1. /\ Cardinality(nodes \ seen) \in Nat /\ Cardinality(nodes \ (seen \cup new(seen))) \in Nat
            /\ Cardinality(nodes \ (seen \cup new(seen))) < Cardinality(nodes \ seen)
        BY <3>1, <1>6
      <4> QED BY <4>1
    <3> QED BY <3>1
  <2> QED BY <2>1, <1>1, <1>5
<1>8. ASSUME NEW n \in Nat \cap S PROVE n + 1 \in S
  <2> SUFFICES ASSUME NEW seen \in SUBSET nodes, Cardinality(nodes \ seen) <= n + 1
               PROVE  reach[seen] = least(seen)
    OBVIOUS
  <2> HIDE DEF new
  <2>1. CASE new(seen) = {}
    BY <2>1, <1>1, <1>5
  <2>2. CASE new(seen) # {}
    <3>0. /\ Cardinality(nodes \ seen) \in Nat /\ Cardinality(nodes \ (seen \cup new(seen))) \in Nat
          /\ Cardinality(nodes \ (seen \cup new(seen))) < Cardinality(nodes \ seen)
      BY <2>2, <1>6
    <3>1. Cardinality(nodes \ (seen \cup new(seen))) <= n
      BY <3>0
    <3>2. seen \cup new(seen) \in SUBSET nodes
      BY <1>1
    <3>3. reach[seen \cup new(seen)] = least(seen \cup new(seen))
      BY <3>1, <3>2
    <3> QED BY <3>3, <2>2, <1>1, <1>5
  <2> QED BY <2>1, <2>2
<1>9. Nat \subseteq S
  <2> HIDE DEF S
  <2> QED BY <1>7, <1>8, SetInduction
<1>10. Reach(from, next) = least(from)
  <2>1. Cardinality(nodes \ from) \in Nat
    BY FS_CardinalityType, FS_Difference
  <2>2. Cardinality(nodes \ from) \in S
    <3> HIDE DEF S
    <3> QED BY <2>1, <1>9
  <2>3. \A seen \in SUBSET nodes : Cardinality(nodes \ seen) <= Cardinality(nodes \ from) => reach[seen] = least(seen)
    BY <2>2
  <2>4. Cardinality(nodes \ from) <= Cardinality(nodes \ from)
    BY <2>1
  <2>5. reach[from] = least(from)
    BY <2>3, <2>4
  <2> QED BY <2>5, <1>4
<1> QED BY <1>10 DEF least

-------------------------------------------------------------------------------
(* The edges of two paths, one after the other.                            *)
LEMMA PathJoins ==
  ASSUME NEW S, NEW p \in Seq(S), NEW q \in Seq(S), p # <<>>, q # <<>>
  PROVE  /\ Path(p \o q) = Path(p) \cup {<<p[Len(p)], q[1]>>} \cup Path(q)
         /\ p \o q \in Seq(S) /\ p \o q # <<>>
         /\ (p \o q)[1] = p[1] /\ (p \o q)[Len(p \o q)] = q[Len(q)]
<1>1. Len(p) \in Nat \ {0} /\ Len(q) \in Nat \ {0}
  OBVIOUS
<1>2. Len(p \o q) = Len(p) + Len(q)
  OBVIOUS
<1>3. ASSUME NEW i \in 1 .. Len(p) PROVE (p \o q)[i] = p[i]
  OBVIOUS
<1>4. ASSUME NEW i \in 1 .. Len(q) PROVE (p \o q)[Len(p) + i] = q[i]
  OBVIOUS
<1> DEFINE r == p \o q
<1> HIDE DEF r
<1>5. ASSUME NEW e \in Path(r) PROVE e \in Path(p) \cup {<<p[Len(p)], q[1]>>} \cup Path(q)
  <2>1. PICK i \in 1 .. Len(r) - 1 : e = <<r[i], r[i + 1]>>
    BY DEF Path
  <2>2. CASE i < Len(p)
    <3>1. i \in 1 .. Len(p) - 1 /\ i \in 1 .. Len(p) /\ i + 1 \in 1 .. Len(p)
      BY <1>1, <2>2
    <3>2. r[i] = p[i] /\ r[i + 1] = p[i + 1]
      BY <3>1, <1>3 DEF r
    <3> QED BY <2>1, <3>1, <3>2 DEF Path
  <2>3. CASE i = Len(p)
    <3>1. r[i] = p[i] /\ r[i + 1] = q[1]
      BY <1>1, <1>3, <1>4, <2>3 DEF r
    <3> QED BY <2>1, <2>3, <3>1
  <2>4. CASE i > Len(p)
    <3>1. /\ i - Len(p) \in 1 .. Len(q) - 1 /\ i - Len(p) \in 1 .. Len(q) /\ (i - Len(p)) + 1 \in 1 .. Len(q)
          /\ Len(p) + (i - Len(p)) = i /\ Len(p) + ((i - Len(p)) + 1) = i + 1
      BY <1>1, <1>2, <2>4 DEF r
    <3>2. r[i] = q[i - Len(p)] /\ r[i + 1] = q[(i - Len(p)) + 1]
      BY <3>1, <1>4 DEF r
    <3> QED BY <2>1, <3>1, <3>2 DEF Path
  <2> QED BY <1>1, <1>2, <2>2, <2>3, <2>4 DEF r
<1>6. ASSUME NEW i \in 1 .. Len(p) - 1 PROVE <<p[i], p[i + 1]>> \in Path(r)
  <2>1. i \in 1 .. Len(r) - 1 /\ i \in 1 .. Len(p) /\ i + 1 \in 1 .. Len(p)
    BY <1>1, <1>2 DEF r
  <2>2. r[i] = p[i] /\ r[i + 1] = p[i + 1]
    BY <2>1, <1>3 DEF r
  <2> QED BY <2>1, <2>2 DEF Path
<1>7. <<p[Len(p)], q[1]>> \in Path(r)
  <2>1. Len(p) \in 1 .. Len(r) - 1 /\ r[Len(p)] = p[Len(p)] /\ r[Len(p) + 1] = q[1]
    BY <1>1, <1>2, <1>3, <1>4 DEF r
  <2> QED BY <2>1 DEF Path
<1>8. ASSUME NEW i \in 1 .. Len(q) - 1 PROVE <<q[i], q[i + 1]>> \in Path(r)
  <2>1. /\ Len(p) + i \in 1 .. Len(r) - 1 /\ i \in 1 .. Len(q) /\ i + 1 \in 1 .. Len(q)
        /\ (Len(p) + i) + 1 = Len(p) + (i + 1)
    BY <1>1, <1>2 DEF r
  <2>2. r[Len(p) + i] = q[i] /\ r[(Len(p) + i) + 1] = q[i + 1]
    BY <2>1, <1>4 DEF r
  <2> QED BY <2>1, <2>2 DEF Path
<1>9. Path(r) = Path(p) \cup {<<p[Len(p)], q[1]>>} \cup Path(q)
  BY <1>5, <1>6, <1>7, <1>8 DEF Path
<1> QED BY <1>1, <1>2, <1>3, <1>4, <1>9 DEF r

(* A path by its edges, where it begins and where it ends.                 *)
AllNodes == (StartRoles \cup EndRoles \cup {"Statement", "Cond", "Init", "Exp"}) \X Nat
IsPath(r, E, a, z) ==
  r \in Seq(AllNodes) /\ r # <<>> /\ Path(r) = E /\ r[1] = a /\ r[Len(r)] = z

(* Two paths joined have the edges of both and the one between them.       *)
LEMMA PathsJoin ==
  ASSUME NEW p, NEW q, NEW E, NEW F, NEW a, NEW b, NEW c, NEW d,
         IsPath(p, E, a, b), IsPath(q, F, c, d)
  PROVE  IsPath(p \o q, E \cup {<<b, c>>} \cup F, a, d)
BY PathJoins DEF IsPath

(* A path of one node has no edges.                                        *)
LEMMA PathOfOne == ASSUME NEW n \in AllNodes PROVE IsPath(<<n>>, {}, n, n)
BY DEF IsPath, Path

(* A path of two nodes has one edge.                                       *)
LEMMA PathOfTwo == ASSUME NEW m \in AllNodes, NEW n \in AllNodes PROVE IsPath(<<m, n>>, {<<m, n>>}, m, n)
BY DEF IsPath, Path

(* Where a part of a for's header may be.                                  *)
Between(s, m, part, n) ==
  IF part \in header[s] THEN {<<m, <<part, s>>>>, <<<<part, s>>, n>>} ELSE {<<m, n>>}

(* Two paths with a part of a for's header between them, if it is there.   *)
LEMMA OptionalJoins ==
  ASSUME NEW s \in Nat, NEW part \in {"Init", "Cond", "Exp"}, NEW p, NEW q,
         NEW E, NEW F, NEW a, NEW b, NEW c, NEW d, IsPath(p, E, a, b), IsPath(q, F, c, d)
  PROVE  IsPath(p \o Optional(s, part) \o q, E \cup Between(s, b, part, c) \cup F, a, d)
<1>1. CASE part \in header[s]
  <2>1. IsPath(<<<<part, s>>>>, {}, <<part, s>>, <<part, s>>)
    BY PathOfOne DEF AllNodes
  <2>2. IsPath(p \o <<<<part, s>>>>, E \cup {<<b, <<part, s>>>>} \cup {}, a, <<part, s>>)
    BY <2>1, PathsJoin
  <2>3. IsPath((p \o <<<<part, s>>>>) \o q,
               (E \cup {<<b, <<part, s>>>>} \cup {}) \cup {<<<<part, s>>, c>>} \cup F, a, d)
    BY <2>2, PathsJoin
  <2>4. (E \cup {<<b, <<part, s>>>>} \cup {}) \cup {<<<<part, s>>, c>>} \cup F
        = E \cup Between(s, b, part, c) \cup F
    BY <1>1 DEF Between
  <2> QED BY <1>1, <2>3, <2>4 DEF Optional
<1>2. CASE part \notin header[s]
  <2>1. p \o Optional(s, part) = p
    BY <1>2 DEF Optional, IsPath
  <2> QED BY <1>2, <2>1, PathsJoin DEF Between
<1> QED BY <1>1, <1>2

(* A statement of a body, as IsProgram has it.                             *)
LEMMA StatementsAre ==
  ASSUME program \in Programs, NEW s \in Statements
  PROVE  /\ s \in Nat \ {0} /\ kind[s] \in Kinds /\ children[s] \in Seq(Statements)
         /\ header[s] \in SUBSET {"Init", "Cond", "Exp"}
         /\ kind[s] \in Loops => Len(children[s]) = 1
         /\ kind[s] = "if" => Len(children[s]) \in {1, 2}
         /\ kind[s] = "doWhile" => kind[children[s][1]] = "block"
         /\ kind[s] \notin Reducible => children[s] = <<>>
         /\ \A i \in 1 .. Len(children[s]) : children[s][i] \in Statements /\ children[s][i] > s
         /\ \A i \in 1 .. Len(children[s]) : Statement(children[s][i]) \in AllNodes
<1>1. IsProgram(program)
  BY ProgramsAssumption
<1>2. /\ Len(kind) \in Nat /\ kind \in Seq(Kinds) /\ children \in [Statements -> Seq(Statements)]
      /\ header \in [Statements -> SUBSET {"Init", "Cond", "Exp"}]
  BY <1>1 DEF IsProgram, kind, children, header, Statements
<1>3. s \in Nat \ {0} /\ kind[s] \in Kinds /\ children[s] \in Seq(Statements)
  BY <1>2 DEF Statements
<1>4. ASSUME NEW i \in 1 .. Len(children[s])
      PROVE  /\ children[s][i] \in Statements /\ children[s][i] > s
             /\ Statement(children[s][i]) \in AllNodes
  <2>1. children[s][i] \in Statements
    BY <1>3
  <2>2. children[s][i] > s
    BY <1>1 DEF IsProgram, children, kind, Statements
  <2> QED BY <2>1, <2>2 DEF Statement, AllNodes, Statements
<1> QED BY <1>1, <1>2, <1>3, <1>4 DEF IsProgram, kind, children, header, Statements, Loops

-------------------------------------------------------------------------------
(* The edges of each template.                                             *)
E(s, a, b) == <<<<a, s>>, <<b, s>>>>
ToChild(s, a, i) == <<<<a, s>>, Statement(children[s][i])>>
FromChild(s, i, b) == <<Statement(children[s][i]), <<b, s>>>>

(* The template of an if, without and with an else.                        *)
LEMMA IfTemplate ==
  ASSUME program \in Programs, NEW s \in Statements, kind[s] = "if"
  PROVE  TemplateEdges(s) =
           {E(s, "Start", "StartCond"), E(s, "StartCond", "Cond"), E(s, "Cond", "EndCond"),
            E(s, "EndCond", "StartTrue"), ToChild(s, "StartTrue", 1), FromChild(s, 1, "EndTrue"),
            E(s, "EndTrue", "End"), E(s, "EndCond", "StartFalse"), E(s, "EndFalse", "End")}
           \cup (IF Len(children[s]) = 2
                 THEN {ToChild(s, "StartFalse", 2), FromChild(s, 2, "EndFalse")}
                 ELSE {E(s, "StartFalse", "EndFalse")})
<1> USE DEF E, ToChild, FromChild
<1>1. /\ s \in Nat /\ Len(children[s]) \in {1, 2} /\ 1 \in 1 .. Len(children[s])
      /\ \A i \in 1 .. Len(children[s]) : Statement(children[s][i]) \in AllNodes
  BY StatementsAre
<1>2. \A r \in StartRoles \cup EndRoles \cup {"Cond"} : <<r, s>> \in AllNodes
  BY <1>1 DEF AllNodes
<1> DEFINE c == Statement(children[s][1])
           p1 == Roles(s, <<"Start", "StartCond", "Cond", "EndCond", "StartTrue">>)
           p2 == Roles(s, <<"EndTrue", "End">>)
           p3 == Roles(s, <<"EndCond", "StartFalse">>)
           p4 == Roles(s, <<"EndFalse", "End">>)
           else == IF Len(children[s]) = 2 THEN Child(s, 2) ELSE <<>>
<1>3. IsPath(p1, {E(s, "Start", "StartCond"), E(s, "StartCond", "Cond"), E(s, "Cond", "EndCond"),
                  E(s, "EndCond", "StartTrue")}, <<"Start", s>>, <<"StartTrue", s>>)
  <2>1. p1 = <<<<"Start", s>>, <<"StartCond", s>>, <<"Cond", s>>, <<"EndCond", s>>, <<"StartTrue", s>>>>
    BY DEF Roles
  <2> HIDE DEF p1
  <2> QED BY <1>2, <2>1 DEF IsPath, Path, StartRoles, EndRoles
<1>4. IsPath(p2, {E(s, "EndTrue", "End")}, <<"EndTrue", s>>, <<"End", s>>)
  <2>1. p2 = <<<<"EndTrue", s>>, <<"End", s>>>>
    BY DEF Roles
  <2> QED BY <1>2, <2>1, PathOfTwo DEF StartRoles, EndRoles
<1>5. IsPath(p3, {E(s, "EndCond", "StartFalse")}, <<"EndCond", s>>, <<"StartFalse", s>>)
  <2>1. p3 = <<<<"EndCond", s>>, <<"StartFalse", s>>>>
    BY DEF Roles
  <2> QED BY <1>2, <2>1, PathOfTwo DEF StartRoles, EndRoles
<1>6. IsPath(p4, {E(s, "EndFalse", "End")}, <<"EndFalse", s>>, <<"End", s>>)
  <2>1. p4 = <<<<"EndFalse", s>>, <<"End", s>>>>
    BY DEF Roles
  <2> QED BY <1>2, <2>1, PathOfTwo DEF StartRoles, EndRoles
<1>7. IsPath(Child(s, 1), {}, c, c)
  BY <1>1, PathOfOne DEF Child
<1> HIDE DEF p1, p2, p3, p4
<1>8. IsPath(p1 \o Child(s, 1) \o p2,
             ({E(s, "Start", "StartCond"), E(s, "StartCond", "Cond"), E(s, "Cond", "EndCond"),
               E(s, "EndCond", "StartTrue")} \cup {<<<<"StartTrue", s>>, c>>} \cup {})
             \cup {<<c, <<"EndTrue", s>>>>} \cup {E(s, "EndTrue", "End")}, <<"Start", s>>, <<"End", s>>)
  BY <1>3, <1>4, <1>7, PathsJoin
<1>9. CASE Len(children[s]) = 2
  <2> DEFINE d == Statement(children[s][2])
  <2>1. IsPath(Child(s, 2), {}, d, d)
    BY <1>1, <1>9, PathOfOne DEF Child
  <2>2. IsPath(p3 \o Child(s, 2) \o p4,
               ({E(s, "EndCond", "StartFalse")} \cup {<<<<"StartFalse", s>>, d>>} \cup {})
               \cup {<<d, <<"EndFalse", s>>>>} \cup {E(s, "EndFalse", "End")}, <<"EndCond", s>>, <<"End", s>>)
    BY <2>1, <1>5, <1>6, PathsJoin
  <2>3. TemplateEdges(s) = Path(p1 \o Child(s, 1) \o p2) \cup Path(p3 \o Child(s, 2) \o p4)
    BY <1>9 DEF TemplateEdges, IfEdges, p1, p2, p3, p4
  <2> QED BY <1>8, <1>9, <2>2, <2>3 DEF IsPath
<1>10. CASE Len(children[s]) # 2
  <2>1. p3 \o <<>> = p3
    BY <1>5 DEF IsPath
  <2>2. IsPath(p3 \o p4, {E(s, "EndCond", "StartFalse")} \cup {E(s, "StartFalse", "EndFalse")}
                         \cup {E(s, "EndFalse", "End")}, <<"EndCond", s>>, <<"End", s>>)
    BY <1>5, <1>6, PathsJoin
  <2>3. TemplateEdges(s) = Path(p1 \o Child(s, 1) \o p2) \cup Path(p3 \o p4)
    BY <1>10, <2>1 DEF TemplateEdges, IfEdges, p1, p2, p3, p4
  <2> QED BY <1>8, <1>10, <2>2, <2>3 DEF IsPath
<1> QED BY <1>9, <1>10

(* The template of a while.                                                *)
LEMMA WhileTemplate ==
  ASSUME program \in Programs, NEW s \in Statements, kind[s] = "while"
  PROVE  TemplateEdges(s) =
           {E(s, "Start", "StartCond"), E(s, "StartCond", "Cond"), E(s, "Cond", "EndCond"),
            E(s, "EndCond", "End"), E(s, "EndCond", "StartBody"), ToChild(s, "StartBody", 1),
            FromChild(s, 1, "EndBody"), E(s, "EndBody", "StartCond")}
<1> USE DEF E, ToChild, FromChild
<1>1. s \in Nat /\ Statement(children[s][1]) \in AllNodes
  BY StatementsAre DEF Loops
<1>2. \A r \in StartRoles \cup EndRoles \cup {"Cond"} : <<r, s>> \in AllNodes
  BY <1>1 DEF AllNodes
<1> DEFINE c == Statement(children[s][1])
           p1 == Roles(s, <<"Start", "StartCond", "Cond", "EndCond", "End">>)
           p2 == Roles(s, <<"EndCond", "StartBody">>)
           p3 == Roles(s, <<"EndBody", "StartCond">>)
<1>3. Path(p1) = {E(s, "Start", "StartCond"), E(s, "StartCond", "Cond"), E(s, "Cond", "EndCond"),
                  E(s, "EndCond", "End")}
  <2>1. p1 = <<<<"Start", s>>, <<"StartCond", s>>, <<"Cond", s>>, <<"EndCond", s>>, <<"End", s>>>>
    BY DEF Roles
  <2> HIDE DEF p1
  <2> QED BY <2>1 DEF Path
<1>4. IsPath(p2, {E(s, "EndCond", "StartBody")}, <<"EndCond", s>>, <<"StartBody", s>>)
  <2>1. p2 = <<<<"EndCond", s>>, <<"StartBody", s>>>>
    BY DEF Roles
  <2> QED BY <1>2, <2>1, PathOfTwo DEF StartRoles, EndRoles
<1>5. IsPath(p3, {E(s, "EndBody", "StartCond")}, <<"EndBody", s>>, <<"StartCond", s>>)
  <2>1. p3 = <<<<"EndBody", s>>, <<"StartCond", s>>>>
    BY DEF Roles
  <2> QED BY <1>2, <2>1, PathOfTwo DEF StartRoles, EndRoles
<1>6. IsPath(Child(s, 1), {}, c, c)
  BY <1>1, PathOfOne DEF Child
<1> HIDE DEF p1, p2, p3
<1>7. IsPath(p2 \o Child(s, 1) \o p3,
             ({E(s, "EndCond", "StartBody")} \cup {<<<<"StartBody", s>>, c>>} \cup {})
             \cup {<<c, <<"EndBody", s>>>>} \cup {E(s, "EndBody", "StartCond")},
             <<"EndCond", s>>, <<"StartCond", s>>)
  BY <1>4, <1>5, <1>6, PathsJoin
<1>8. TemplateEdges(s) = Path(p1) \cup Path(p2 \o Child(s, 1) \o p3)
  BY DEF TemplateEdges, WhileEdges, p1, p2, p3
<1> QED BY <1>3, <1>7, <1>8 DEF IsPath

(* The template of a do-while.                                             *)
LEMMA DoWhileTemplate ==
  ASSUME program \in Programs, NEW s \in Statements, kind[s] = "doWhile"
  PROVE  TemplateEdges(s) =
           {E(s, "Start", "StartBody"), ToChild(s, "StartBody", 1), FromChild(s, 1, "EndBody"),
            E(s, "EndBody", "StartCond"), E(s, "StartCond", "Cond"), E(s, "Cond", "EndCond"),
            E(s, "EndCond", "StartBody"), E(s, "EndCond", "End")}
<1> USE DEF E, ToChild, FromChild
<1>1. s \in Nat /\ Statement(children[s][1]) \in AllNodes
  BY StatementsAre DEF Loops
<1>2. \A r \in StartRoles \cup EndRoles \cup {"Cond"} : <<r, s>> \in AllNodes
  BY <1>1 DEF AllNodes
<1> DEFINE c == Statement(children[s][1])
           p1 == Roles(s, <<"Start", "StartBody">>)
           p2 == Roles(s, <<"EndBody", "StartCond", "Cond", "EndCond", "StartBody">>)
           p3 == Roles(s, <<"EndCond", "End">>)
<1>3. IsPath(p2, {E(s, "EndBody", "StartCond"), E(s, "StartCond", "Cond"), E(s, "Cond", "EndCond"),
                  E(s, "EndCond", "StartBody")}, <<"EndBody", s>>, <<"StartBody", s>>)
  <2>1. p2 = <<<<"EndBody", s>>, <<"StartCond", s>>, <<"Cond", s>>, <<"EndCond", s>>, <<"StartBody", s>>>>
    BY DEF Roles
  <2> HIDE DEF p2
  <2> QED BY <1>2, <2>1 DEF IsPath, Path, StartRoles, EndRoles
<1>4. IsPath(p1, {E(s, "Start", "StartBody")}, <<"Start", s>>, <<"StartBody", s>>)
  <2>1. p1 = <<<<"Start", s>>, <<"StartBody", s>>>>
    BY DEF Roles
  <2> QED BY <1>2, <2>1, PathOfTwo DEF StartRoles, EndRoles
<1>5. IsPath(p3, {E(s, "EndCond", "End")}, <<"EndCond", s>>, <<"End", s>>)
  <2>1. p3 = <<<<"EndCond", s>>, <<"End", s>>>>
    BY DEF Roles
  <2> QED BY <1>2, <2>1, PathOfTwo DEF StartRoles, EndRoles
<1>6. IsPath(Child(s, 1), {}, c, c)
  BY <1>1, PathOfOne DEF Child
<1> HIDE DEF p1, p2, p3
<1>7. IsPath(p1 \o Child(s, 1) \o p2,
             ({E(s, "Start", "StartBody")} \cup {<<<<"StartBody", s>>, c>>} \cup {})
             \cup {<<c, <<"EndBody", s>>>>}
             \cup {E(s, "EndBody", "StartCond"), E(s, "StartCond", "Cond"), E(s, "Cond", "EndCond"),
                   E(s, "EndCond", "StartBody")}, <<"Start", s>>, <<"StartBody", s>>)
  BY <1>3, <1>4, <1>6, PathsJoin
<1>8. TemplateEdges(s) = Path(p1 \o Child(s, 1) \o p2) \cup Path(p3)
  BY DEF TemplateEdges, DoWhileEdges, p1, p2, p3
<1> QED BY <1>5, <1>7, <1>8 DEF IsPath

(* The template of a for, whichever parts its header has.                  *)
LEMMA ForTemplate ==
  ASSUME program \in Programs, NEW s \in Statements, kind[s] = "for"
  PROVE  TemplateEdges(s) =
           {E(s, "Start", "StartInit"), E(s, "EndInit", "StartCond"), E(s, "EndCond", "StartBody"),
            ToChild(s, "StartBody", 1), FromChild(s, 1, "EndBody"), E(s, "EndBody", "StartExp"),
            E(s, "EndExp", "StartCond"), E(s, "EndCond", "End")}
           \cup Between(s, <<"StartInit", s>>, "Init", <<"EndInit", s>>)
           \cup Between(s, <<"StartCond", s>>, "Cond", <<"EndCond", s>>)
           \cup Between(s, <<"StartExp", s>>, "Exp", <<"EndExp", s>>)
<1> USE DEF E, ToChild, FromChild
<1>1. s \in Nat /\ Statement(children[s][1]) \in AllNodes
  BY StatementsAre DEF Loops
<1>2. \A r \in StartRoles \cup EndRoles : <<r, s>> \in AllNodes
  BY <1>1 DEF AllNodes
<1> DEFINE c == Statement(children[s][1])
           p1 == Roles(s, <<"Start", "StartInit">>)
           p2 == Roles(s, <<"EndInit", "StartCond">>)
           p3 == Roles(s, <<"EndCond", "StartBody">>)
           p4 == Roles(s, <<"EndBody", "StartExp">>)
           p5 == Roles(s, <<"EndExp", "StartCond">>)
           p6 == Roles(s, <<"EndCond", "End">>)
           between(m, part, n) == Between(s, <<m, s>>, part, <<n, s>>)
<1>3. ASSUME NEW m \in StartRoles \cup EndRoles, NEW n \in StartRoles \cup EndRoles
      PROVE  IsPath(Roles(s, <<m, n>>), {E(s, m, n)}, <<m, s>>, <<n, s>>)
  <2>1. Roles(s, <<m, n>>) = <<<<m, s>>, <<n, s>>>>
    BY DEF Roles
  <2> QED BY <1>2, <2>1, PathOfTwo
<1>4. /\ IsPath(p1, {E(s, "Start", "StartInit")}, <<"Start", s>>, <<"StartInit", s>>)
      /\ IsPath(p2, {E(s, "EndInit", "StartCond")}, <<"EndInit", s>>, <<"StartCond", s>>)
      /\ IsPath(p3, {E(s, "EndCond", "StartBody")}, <<"EndCond", s>>, <<"StartBody", s>>)
      /\ IsPath(p4, {E(s, "EndBody", "StartExp")}, <<"EndBody", s>>, <<"StartExp", s>>)
      /\ IsPath(p5, {E(s, "EndExp", "StartCond")}, <<"EndExp", s>>, <<"StartCond", s>>)
      /\ IsPath(p6, {E(s, "EndCond", "End")}, <<"EndCond", s>>, <<"End", s>>)
  <2> HIDE DEF E
  <2> QED BY <1>3 DEF StartRoles, EndRoles
<1>5. IsPath(Child(s, 1), {}, c, c)
  BY <1>1, PathOfOne DEF Child
<1> HIDE DEF p1, p2, p3, p4, p5, p6
<1> DEFINE F1 == {E(s, "Start", "StartInit")} \cup between("StartInit", "Init", "EndInit")
                 \cup {E(s, "EndInit", "StartCond")}
           F2 == F1 \cup between("StartCond", "Cond", "EndCond") \cup {E(s, "EndCond", "StartBody")}
           F3 == (F2 \cup {<<<<"StartBody", s>>, c>>} \cup {}) \cup {<<c, <<"EndBody", s>>>>}
                 \cup {E(s, "EndBody", "StartExp")}
           F4 == F3 \cup between("StartExp", "Exp", "EndExp") \cup {E(s, "EndExp", "StartCond")}
<1>6. IsPath(p1 \o Optional(s, "Init") \o p2, F1, <<"Start", s>>, <<"StartCond", s>>)
  BY <1>1, <1>4, OptionalJoins
<1> HIDE DEF F1
<1>7. IsPath(p1 \o Optional(s, "Init") \o p2 \o Optional(s, "Cond") \o p3, F2, <<"Start", s>>, <<"StartBody", s>>)
  BY <1>1, <1>4, <1>6, OptionalJoins
<1> HIDE DEF F2
<1>8. IsPath(p1 \o Optional(s, "Init") \o p2 \o Optional(s, "Cond") \o p3 \o Child(s, 1) \o p4,
             F3, <<"Start", s>>, <<"StartExp", s>>)
  BY <1>4, <1>5, <1>7, PathsJoin
<1> HIDE DEF F3
<1>9. IsPath(p1 \o Optional(s, "Init") \o p2 \o Optional(s, "Cond") \o p3 \o Child(s, 1) \o p4
               \o Optional(s, "Exp") \o p5, F4, <<"Start", s>>, <<"StartCond", s>>)
  BY <1>1, <1>4, <1>8, OptionalJoins
<1>10. Path(p6) = {E(s, "EndCond", "End")}
  BY <1>4 DEF IsPath
<1>11. TemplateEdges(s) = F4 \cup {E(s, "EndCond", "End")}
  <2>1. Roles(s, <<"EndInit", "StartCond">>) = p2 /\ Roles(s, <<"Start", "StartInit">>) = p1
    BY DEF p1, p2
  <2>2. ForEdges(s) =
          Path((p1 \o Optional(s, "Init") \o p2) \o Optional(s, "Cond")
            \o p3 \o Child(s, 1) \o p4 \o Optional(s, "Exp") \o p5) \cup Path(p6)
    BY DEF ForEdges, p1, p2, p3, p4, p5, p6
  <2>3. TemplateEdges(s) = ForEdges(s)
    BY DEF TemplateEdges
  <2> QED BY <2>2, <2>3, <1>9, <1>10 DEF IsPath
<1> QED BY <1>11 DEF F1, F2, F3

(* A sequence with one element more.                                       *)
LEMMA OneMore ==
  ASSUME NEW S, NEW q \in Seq(S), NEW x \in S
  PROVE  /\ Len(q \o <<x>>) = Len(q) + 1 /\ (q \o <<x>>)[Len(q) + 1] = x
         /\ \A i \in 1 .. Len(q) : (q \o <<x>>)[i] = q[i]
OBVIOUS

(* The template of a block: from its start through its statements to its   *)
(* end.                                                                    *)
LEMMA BlockTemplate ==
  ASSUME program \in Programs, NEW s \in Statements, kind[s] = "block"
  PROVE  LET n == Len(children[s])
             place(i) == IF i = 0 THEN <<"Start", s>>
                         ELSE IF i = n + 1 THEN <<"End", s>> ELSE Statement(children[s][i])
         IN  TemplateEdges(s) = {<<place(i), place(i + 1)>> : i \in 0 .. n}
<1> DEFINE n == Len(children[s])
           place(i) == IF i = 0 THEN <<"Start", s>>
                       ELSE IF i = n + 1 THEN <<"End", s>> ELSE Statement(children[s][i])
           inner == [i \in 1 .. n |-> Statement(children[s][i])]
           path == Roles(s, <<"Start">>) \o inner \o Roles(s, <<"End">>)
<1>1. /\ s \in Nat /\ children[s] \in Seq(Statements) /\ n \in Nat
      /\ \A i \in 1 .. n : Statement(children[s][i]) \in AllNodes
  BY StatementsAre
<1>2. Roles(s, <<"Start">>) = <<<<"Start", s>>>> /\ Roles(s, <<"End">>) = <<<<"End", s>>>>
  BY DEF Roles
<1>3. inner \in Seq(AllNodes) /\ Len(inner) = n
  BY <1>1
<1>4. <<<<"Start", s>>>> \in Seq(AllNodes) /\ <<<<"End", s>>>> \in Seq(AllNodes)
  BY <1>1 DEF AllNodes, StartRoles, EndRoles
<1> DEFINE q == <<<<"Start", s>>>> \o inner
<1>5. q \in Seq(AllNodes) /\ Len(q) = n + 1 /\ \A i \in 1 .. n + 1 : q[i] = place(i - 1)
  <2>1. q \in Seq(AllNodes) /\ Len(q) = n + 1 /\ q[1] = <<"Start", s>>
    BY <1>1, <1>3, <1>4
  <2>2. ASSUME NEW i \in 2 .. n + 1 PROVE q[i] = inner[i - 1] /\ i - 1 \in 1 .. n
    BY <1>1, <1>3, <1>4
  <2>3. ASSUME NEW i \in 2 .. n + 1 PROVE q[i] = place(i - 1)
    <3>1. inner[i - 1] = Statement(children[s][i - 1]) /\ i - 1 # 0 /\ i - 1 # n + 1
      BY <2>2, <1>1
    <3> QED BY <3>1, <2>2
  <2> HIDE DEF q
  <2>4. place(1 - 1) = <<"Start", s>>
    OBVIOUS
  <2>5. ASSUME NEW i \in 1 .. n + 1 PROVE q[i] = place(i - 1)
    <3> HIDE DEF place
    <3>1. i = 1 \/ i \in 2 .. n + 1
      BY <1>1
    <3> QED BY <3>1, <2>1, <2>3, <2>4
  <2> QED BY <2>1, <2>5
<1> HIDE DEF q
<1>6. path = q \o <<<<"End", s>>>>
  BY <1>2 DEF q
<1> HIDE DEF path
<1>7. Len(path) = n + 2 /\ \A i \in 1 .. n + 2 : path[i] = place(i - 1)
  <2>1. q \in Seq(AllNodes) /\ Len(q) = n + 1 /\ <<"End", s>> \in AllNodes
    BY <1>1, <1>5 DEF AllNodes, StartRoles, EndRoles
  <2>2. Len(path) = (n + 1) + 1 /\ path[(n + 1) + 1] = <<"End", s>> /\ \A i \in 1 .. n + 1 : path[i] = q[i]
    <3> HIDE DEF n
    <3> QED BY <2>1, <1>6, OneMore
  <2>5. place((n + 2) - 1) = <<"End", s>>
    BY <1>1
  <2> HIDE DEF place
  <2>6. (n + 1) + 1 = n + 2
    BY <1>1
  <2>7. ASSUME NEW i \in 1 .. n + 2 PROVE path[i] = place(i - 1)
    <3>1. CASE i = n + 2
      BY <3>1, <2>2, <2>5, <2>6
    <3>2. CASE i \in 1 .. n + 1
      BY <3>2, <2>2, <1>5
    <3> QED BY <3>1, <3>2, <1>1
  <2> QED BY <2>2, <2>6, <2>7
<1>8. TemplateEdges(s) = Path(path)
  BY DEF TemplateEdges, BlockEdges, path
<1> HIDE DEF place
<1>9. Path(path) = {<<path[i], path[i + 1]>> : i \in 1 .. n + 1}
  BY <1>1, <1>7 DEF Path
<1>10. ASSUME NEW i \in 0 .. n PROVE i + 1 \in 1 .. n + 1 /\ <<path[i + 1], path[(i + 1) + 1]>> = <<place(i), place(i + 1)>>
  BY <1>1, <1>7
<1>11. ASSUME NEW i \in 1 .. n + 1 PROVE i - 1 \in 0 .. n /\ <<path[i], path[i + 1]>> = <<place(i - 1), place((i - 1) + 1)>>
  <2>1. i - 1 \in 0 .. n /\ (i - 1) + 1 = i /\ i \in 1 .. n + 2 /\ i + 1 \in 1 .. n + 2 /\ (i + 1) - 1 = i
    BY <1>1
  <2> QED BY <2>1, <1>7
<1>12. Path(path) = {<<place(i), place(i + 1)>> : i \in 0 .. n}
  BY <1>9, <1>10, <1>11
<1> QED BY <1>8, <1>12 DEF place

-------------------------------------------------------------------------------
(* What the templates have in common.                                      *)
Ends(edges) == {e[1] : e \in edges} \cup {e[2] : e \in edges}
IsStatement(n) == n[1] = "Statement"
Places(s) == 1 .. Len(children[s])
ChildAt(s, i) == Statement(children[s][i])

(* What follows a child, and an end inside of the template.                *)
Follow(s, i) ==
  CASE kind[s] = "block" -> IF i = Len(children[s]) THEN <<"End", s>> ELSE ChildAt(s, i + 1)
    [] kind[s] = "if" -> IF i = 1 THEN <<"EndTrue", s>> ELSE <<"EndFalse", s>>
    [] OTHER -> <<"EndBody", s>>
AfterBody(s) == IF kind[s] = "for" THEN <<"StartExp", s>> ELSE <<"StartCond", s>>

(* Children are apart: of one statement at two places, and of two.         *)
LEMMA ChildrenDiffer ==
  ASSUME program \in Programs, NEW s \in Statements, NEW t \in Statements,
         NEW i \in Places(s), NEW j \in Places(t), children[s][i] = children[t][j]
  PROVE  s = t /\ i = j
<1>1. IsProgram(program)
  BY ProgramsAssumption
<1>2. \A x, y \in Statements : \A h \in 1 .. Len(children[x]), k \in 1 .. Len(children[y]) :
        children[x][h] = children[y][k] => x = y /\ h = k
  BY <1>1 DEF IsProgram, children, kind, Statements
<1> QED BY <1>2 DEF Places

TemplateShape(s) ==
  LET edges == TemplateEdges(s)
  IN  /\ edges \subseteq AllNodes \X AllNodes
      /\ <<"Start", s>> \in Ends(edges) /\ <<"End", s>> \in Ends(edges)
      /\ \A i \in Places(s) : ChildAt(s, i) \in Ends(edges)
      /\ \A n \in Ends(edges) : IF IsStatement(n) THEN \E i \in Places(s) : n = ChildAt(s, i) ELSE n[2] = s
      /\ \A i \in Places(s) : <<ChildAt(s, i), Follow(s, i)>> \in edges
      /\ \A e \in edges :
           /\ e[1] # <<"End", s>>
           /\ \A i \in Places(s) : e[1] = ChildAt(s, i) => e[2] = Follow(s, i)
           /\ e[1] \in {<<"EndTrue", s>>, <<"EndFalse", s>>} => e[2] = <<"End", s>>
           /\ e[1] = <<"EndBody", s>> => e[2] = AfterBody(s) /\ kind[s] \in Loops

(* Both ends of an edge are among the ends.                                *)
LEMMA EndsHave ==
  ASSUME NEW edges, NEW a, NEW b, <<a, b>> \in edges
  PROVE  a \in Ends(edges) /\ b \in Ends(edges)
<1>1. a = <<a, b>>[1] /\ b = <<a, b>>[2]
  OBVIOUS
<1> QED BY <1>1 DEF Ends

(* The templates of loops have what the templates have in common.          *)
LEMMA LoopShapes ==
  ASSUME program \in Programs, NEW s \in Statements, kind[s] \in Loops
  PROVE  TemplateShape(s)
<1> DEFINE c == ChildAt(s, 1)
           edges == TemplateEdges(s)
           after == AfterBody(s)
<1>1. /\ s \in Nat /\ Places(s) = {1} /\ c \in AllNodes /\ c[1] = "Statement" /\ c = Statement(children[s][1])
      /\ Follow(s, 1) = <<"EndBody", s>>
  BY StatementsAre DEF Places, ChildAt, Follow, Loops, Statement
<1>2. \A r \in {"Start", "StartCond", "StartBody", "StartInit", "StartExp",
                "End", "EndCond", "EndBody", "EndInit", "EndExp", "Cond", "Init", "Exp"} : <<r, s>> \in AllNodes
  BY <1>1 DEF AllNodes, StartRoles, EndRoles
<1>3. \A r : ToChild(s, r, 1) = <<<<r, s>>, c>> /\ FromChild(s, 1, r) = <<c, <<r, s>>>>
  BY DEF ToChild, FromChild, ChildAt
<1> SUFFICES /\ edges \subseteq AllNodes \X AllNodes
             /\ <<"Start", s>> \in Ends(edges) /\ <<"End", s>> \in Ends(edges) /\ c \in Ends(edges)
             /\ \A e \in edges : /\ e[1] = c \/ (e[1][1] # "Statement" /\ e[1][2] = s)
                                 /\ e[2] = c \/ (e[2][1] # "Statement" /\ e[2][2] = s)
             /\ <<c, <<"EndBody", s>>>> \in edges
             /\ \A e \in edges : e[1] # <<"End", s>> /\ (e[1] = c => e[2] = <<"EndBody", s>>)
             /\ \A e \in edges : /\ e[1] # <<"EndTrue", s>> /\ e[1] # <<"EndFalse", s>>
                                 /\ e[1] = <<"EndBody", s>> => e[2] = after
  <2> HIDE DEF c, edges, after
  <2>1. (\A e \in edges : /\ e[1] = c \/ (e[1][1] # "Statement" /\ e[1][2] = s)
                          /\ e[2] = c \/ (e[2][1] # "Statement" /\ e[2][2] = s))
        => \A n \in Ends(edges) : IF IsStatement(n) THEN n = c ELSE n[2] = s
    BY <1>1 DEF Ends, IsStatement
  <2> QED BY <1>1, <2>1 DEF TemplateShape, c, edges, after
<1> HIDE DEF c, after
<1>4. CASE kind[s] = "while"
  <2>1. after = <<"StartCond", s>>
    BY <1>4 DEF after, AfterBody
  <2>2. edges \subseteq AllNodes \X AllNodes
    BY <1>1, <1>2, <1>4, <1>3, WhileTemplate DEF E
  <2>3. <<"Start", s>> \in Ends(edges) /\ <<"End", s>> \in Ends(edges) /\ c \in Ends(edges)
    <3>1. <<<<"Start", s>>, <<"StartCond", s>>>> \in edges /\ <<<<"EndCond", s>>, <<"End", s>>>> \in edges /\ <<c, <<"EndBody", s>>>> \in edges
      BY <1>4, <1>3, WhileTemplate DEF E
    <3> QED BY <3>1, EndsHave
  <2>4. \A e \in edges : /\ e[1] = c \/ (e[1][1] # "Statement" /\ e[1][2] = s)
                         /\ e[2] = c \/ (e[2][1] # "Statement" /\ e[2][2] = s)
    BY <1>4, <1>3, WhileTemplate DEF E
  <2>5. <<c, <<"EndBody", s>>>> \in edges
    BY <1>4, <1>3, WhileTemplate DEF E
  <2>6. \A e \in edges : e[1] # <<"End", s>> /\ (e[1] = c => e[2] = <<"EndBody", s>>)
    BY <1>1, <1>4, <1>3, WhileTemplate DEF E
  <2>7. \A e \in edges : /\ e[1] # <<"EndTrue", s>> /\ e[1] # <<"EndFalse", s>>
                         /\ e[1] = <<"EndBody", s>> => e[2] = after
    BY <1>1, <1>4, <2>1, <1>3, WhileTemplate DEF E
  <2> HIDE DEF edges
  <2> QED BY <2>2, <2>3, <2>4, <2>5, <2>6, <2>7
<1>5. CASE kind[s] = "doWhile"
  <2>1. after = <<"StartCond", s>>
    BY <1>5 DEF after, AfterBody
  <2>2. edges \subseteq AllNodes \X AllNodes
    BY <1>1, <1>2, <1>5, <1>3, DoWhileTemplate DEF E
  <2>3. <<"Start", s>> \in Ends(edges) /\ <<"End", s>> \in Ends(edges) /\ c \in Ends(edges)
    <3>1. <<<<"Start", s>>, <<"StartBody", s>>>> \in edges /\ <<<<"EndCond", s>>, <<"End", s>>>> \in edges /\ <<c, <<"EndBody", s>>>> \in edges
      BY <1>5, <1>3, DoWhileTemplate DEF E
    <3> QED BY <3>1, EndsHave
  <2>4. \A e \in edges : /\ e[1] = c \/ (e[1][1] # "Statement" /\ e[1][2] = s)
                         /\ e[2] = c \/ (e[2][1] # "Statement" /\ e[2][2] = s)
    BY <1>5, <1>3, DoWhileTemplate DEF E
  <2>5. <<c, <<"EndBody", s>>>> \in edges
    BY <1>5, <1>3, DoWhileTemplate DEF E
  <2>6. \A e \in edges : e[1] # <<"End", s>> /\ (e[1] = c => e[2] = <<"EndBody", s>>)
    BY <1>1, <1>5, <1>3, DoWhileTemplate DEF E
  <2>7. \A e \in edges : /\ e[1] # <<"EndTrue", s>> /\ e[1] # <<"EndFalse", s>>
                         /\ e[1] = <<"EndBody", s>> => e[2] = after
    BY <1>1, <1>5, <2>1, <1>3, DoWhileTemplate DEF E
  <2> HIDE DEF edges
  <2> QED BY <2>2, <2>3, <2>4, <2>5, <2>6, <2>7
<1>6. CASE kind[s] = "for"
  <2>1. after = <<"StartExp", s>>
    BY <1>6 DEF after, AfterBody
  <2>2. edges \subseteq AllNodes \X AllNodes
    BY <1>1, <1>2, <1>6, <1>3, ForTemplate DEF E, Between
  <2>3. <<"Start", s>> \in Ends(edges) /\ <<"End", s>> \in Ends(edges) /\ c \in Ends(edges)
    <3>1. <<<<"Start", s>>, <<"StartInit", s>>>> \in edges /\ <<<<"EndCond", s>>, <<"End", s>>>> \in edges /\ <<c, <<"EndBody", s>>>> \in edges
      BY <1>6, <1>3, ForTemplate DEF E
    <3> QED BY <3>1, EndsHave
  <2>4. \A e \in edges : /\ e[1] = c \/ (e[1][1] # "Statement" /\ e[1][2] = s)
                         /\ e[2] = c \/ (e[2][1] # "Statement" /\ e[2][2] = s)
    BY <1>6, <1>3, ForTemplate DEF E, Between
  <2>5. <<c, <<"EndBody", s>>>> \in edges
    BY <1>6, <1>3, ForTemplate DEF E, Between
  <2>6. \A e \in edges : e[1] # <<"End", s>> /\ (e[1] = c => e[2] = <<"EndBody", s>>)
    BY <1>1, <1>6, <1>3, ForTemplate DEF E, Between
  <2>7. \A e \in edges : /\ e[1] # <<"EndTrue", s>> /\ e[1] # <<"EndFalse", s>>
                         /\ e[1] = <<"EndBody", s>> => e[2] = after
    BY <1>1, <1>6, <2>1, <1>3, ForTemplate DEF E, Between
  <2> HIDE DEF edges
  <2> QED BY <2>2, <2>3, <2>4, <2>5, <2>6, <2>7
<1> QED BY <1>4, <1>5, <1>6 DEF Loops

(* And so has that of an if.                                               *)
LEMMA IfShape ==
  ASSUME program \in Programs, NEW s \in Statements, kind[s] = "if"
  PROVE  TemplateShape(s)
<1> DEFINE c == ChildAt(s, 1)
           d == ChildAt(s, 2)
           two == Len(children[s]) = 2
           edges == TemplateEdges(s)
<1>1. /\ s \in Nat /\ Places(s) = IF two THEN {1, 2} ELSE {1}
      /\ c \in AllNodes /\ c[1] = "Statement" /\ d[1] = "Statement" /\ (two => d \in AllNodes /\ c # d)
  <2>1. /\ s \in Nat /\ Len(children[s]) \in {1, 2}
        /\ \A i \in 1 .. Len(children[s]) : Statement(children[s][i]) \in AllNodes
    BY StatementsAre
  <2>2. Places(s) = IF two THEN {1, 2} ELSE {1}
    BY <2>1 DEF Places
  <2>3. two => children[s][1] # children[s][2]
    BY <2>2, ChildrenDiffer
  <2> QED BY <2>1, <2>2, <2>3 DEF ChildAt, Statement
<1>2. \A r \in {"Start", "StartCond", "StartTrue", "StartFalse", "End", "EndCond", "EndTrue", "EndFalse", "Cond"} :
        <<r, s>> \in AllNodes
  BY <1>1 DEF AllNodes, StartRoles, EndRoles
<1>3. \A r : /\ ToChild(s, r, 1) = <<<<r, s>>, c>> /\ FromChild(s, 1, r) = <<c, <<r, s>>>>
             /\ ToChild(s, r, 2) = <<<<r, s>>, d>> /\ FromChild(s, 2, r) = <<d, <<r, s>>>>
  BY DEF ToChild, FromChild, ChildAt
<1>4. Follow(s, 1) = <<"EndTrue", s>> /\ Follow(s, 2) = <<"EndFalse", s>>
  BY DEF Follow
<1> SUFFICES /\ edges \subseteq AllNodes \X AllNodes
             /\ <<"Start", s>> \in Ends(edges) /\ <<"End", s>> \in Ends(edges) /\ c \in Ends(edges)
             /\ two => d \in Ends(edges) /\ <<d, <<"EndFalse", s>>>> \in edges
             /\ \A e \in edges : /\ e[1] = c \/ (two /\ e[1] = d) \/ (e[1][1] # "Statement" /\ e[1][2] = s)
                                 /\ e[2] = c \/ (two /\ e[2] = d) \/ (e[2][1] # "Statement" /\ e[2][2] = s)
             /\ <<c, <<"EndTrue", s>>>> \in edges
             /\ \A e \in edges : /\ e[1] # <<"End", s>>
                                 /\ e[1] = c => e[2] = <<"EndTrue", s>>
                                 /\ two /\ e[1] = d => e[2] = <<"EndFalse", s>>
             /\ \A e \in edges : /\ e[1] \in {<<"EndTrue", s>>, <<"EndFalse", s>>} => e[2] = <<"End", s>>
                                 /\ e[1] # <<"EndBody", s>>
  <2> HIDE DEF c, d, two, edges
  <2>1. (\A e \in edges : /\ e[1] = c \/ (two /\ e[1] = d) \/ (e[1][1] # "Statement" /\ e[1][2] = s)
                          /\ e[2] = c \/ (two /\ e[2] = d) \/ (e[2][1] # "Statement" /\ e[2][2] = s))
        => \A n \in Ends(edges) : IF IsStatement(n) THEN n = c \/ (two /\ n = d) ELSE n[2] = s
    BY <1>1 DEF Ends, IsStatement
  <2>2. \A i \in Places(s) : (i = 1 /\ ChildAt(s, i) = c) \/ (two /\ i = 2 /\ ChildAt(s, i) = d)
    BY <1>1 DEF c, d
  <2>3. 1 \in Places(s) /\ (two => 2 \in Places(s)) /\ ChildAt(s, 1) = c /\ ChildAt(s, 2) = d
    BY <1>1 DEF c, d
  <2> QED BY <1>4, <2>1, <2>2, <2>3 DEF TemplateShape, edges
<1> HIDE DEF c, d
<1>5. CASE two
  <2>1. edges \subseteq AllNodes \X AllNodes
    BY <1>1, <1>2, <1>5, <1>3, IfTemplate DEF E
  <2>2. <<"Start", s>> \in Ends(edges) /\ <<"End", s>> \in Ends(edges) /\ c \in Ends(edges) /\ d \in Ends(edges)
    <3>1. /\ <<<<"Start", s>>, <<"StartCond", s>>>> \in edges /\ <<<<"EndTrue", s>>, <<"End", s>>>> \in edges
          /\ <<c, <<"EndTrue", s>>>> \in edges /\ <<d, <<"EndFalse", s>>>> \in edges
      BY <1>5, <1>3, IfTemplate DEF E
    <3> QED BY <3>1, EndsHave
  <2>3. \A e \in edges : /\ e[1] = c \/ e[1] = d \/ (e[1][1] # "Statement" /\ e[1][2] = s)
                         /\ e[2] = c \/ e[2] = d \/ (e[2][1] # "Statement" /\ e[2][2] = s)
    BY <1>5, <1>3, IfTemplate DEF E
  <2>4. <<c, <<"EndTrue", s>>>> \in edges /\ <<d, <<"EndFalse", s>>>> \in edges
    BY <1>5, <1>3, IfTemplate DEF E
  <2>5. \A e \in edges : /\ e[1] # <<"End", s>>
                         /\ e[1] = c => e[2] = <<"EndTrue", s>>
                         /\ e[1] = d => e[2] = <<"EndFalse", s>>
    BY <1>1, <1>5, <1>3, IfTemplate DEF E
  <2>6. \A e \in edges : /\ e[1] \in {<<"EndTrue", s>>, <<"EndFalse", s>>} => e[2] = <<"End", s>>
                         /\ e[1] # <<"EndBody", s>>
    BY <1>1, <1>5, <1>3, IfTemplate DEF E
  <2> HIDE DEF edges
  <2> QED BY <1>5, <2>1, <2>2, <2>3, <2>4, <2>5, <2>6
<1>6. CASE ~two
  <2>1. edges \subseteq AllNodes \X AllNodes
    BY <1>1, <1>2, <1>6, <1>3, IfTemplate DEF E
  <2>2. <<"Start", s>> \in Ends(edges) /\ <<"End", s>> \in Ends(edges) /\ c \in Ends(edges)
    <3>1. /\ <<<<"Start", s>>, <<"StartCond", s>>>> \in edges /\ <<<<"EndTrue", s>>, <<"End", s>>>> \in edges
          /\ <<c, <<"EndTrue", s>>>> \in edges 
      BY <1>6, <1>3, IfTemplate DEF E
    <3> QED BY <3>1, EndsHave
  <2>3. \A e \in edges : /\ e[1] = c \/ (e[1][1] # "Statement" /\ e[1][2] = s)
                         /\ e[2] = c \/ (e[2][1] # "Statement" /\ e[2][2] = s)
    BY <1>6, <1>3, IfTemplate DEF E
  <2>4. <<c, <<"EndTrue", s>>>> \in edges
    BY <1>6, <1>3, IfTemplate DEF E
  <2>5. \A e \in edges : e[1] # <<"End", s>> /\ (e[1] = c => e[2] = <<"EndTrue", s>>)
    BY <1>1, <1>6, <1>3, IfTemplate DEF E
  <2>6. \A e \in edges : /\ e[1] \in {<<"EndTrue", s>>, <<"EndFalse", s>>} => e[2] = <<"End", s>>
                         /\ e[1] # <<"EndBody", s>>
    BY <1>1, <1>6, <1>3, IfTemplate DEF E
  <2> QED BY <1>6, <2>1, <2>2, <2>3, <2>4, <2>5, <2>6
<1> QED BY <1>5, <1>6

(* The nodes of a block's template, in order.                              *)
Place(s, i) ==
  IF i = 0 THEN <<"Start", s>> ELSE IF i = Len(children[s]) + 1 THEN <<"End", s>> ELSE ChildAt(s, i)

(* The edges of a block's template by the places of its nodes.             *)
LEMMA BlockEdgesAre ==
  ASSUME program \in Programs, NEW s \in Statements, kind[s] = "block"
  PROVE  /\ Len(children[s]) \in Nat
         /\ TemplateEdges(s) = {<<Place(s, i), Place(s, i + 1)>> : i \in 0 .. Len(children[s])}
         /\ Ends(TemplateEdges(s)) = {Place(s, i) : i \in 0 .. Len(children[s]) + 1}
<1>1. Len(children[s]) \in Nat
  BY StatementsAre
<1>2. TemplateEdges(s) = {<<Place(s, i), Place(s, i + 1)>> : i \in 0 .. Len(children[s])}
  BY BlockTemplate DEF Place, ChildAt
<1>3. \A i \in 0 .. Len(children[s]) + 1 :
        i \in 0 .. Len(children[s]) \/ (i - 1 \in 0 .. Len(children[s]) /\ (i - 1) + 1 = i)
  BY <1>1
<1>4. \A i \in 0 .. Len(children[s]) :
        i \in 0 .. Len(children[s]) + 1 /\ i + 1 \in 0 .. Len(children[s]) + 1
  BY <1>1
<1> DEFINE n == Len(children[s])
<1> HIDE DEF n
<1>5. Ends({<<Place(s, i), Place(s, i + 1)>> : i \in 0 .. n}) = {Place(s, i) : i \in 0 .. n + 1}
  <2>1. \A i \in 0 .. n : Place(s, i) \in Ends({<<Place(s, j), Place(s, j + 1)>> : j \in 0 .. n})
                        /\ Place(s, i + 1) \in Ends({<<Place(s, j), Place(s, j + 1)>> : j \in 0 .. n})
    <3>1. \A i \in 0 .. n : <<Place(s, i), Place(s, i + 1)>> \in {<<Place(s, j), Place(s, j + 1)>> : j \in 0 .. n}
      OBVIOUS
    <3> QED BY <3>1, EndsHave
  <2>2. ASSUME NEW i \in 0 .. n + 1 PROVE Place(s, i) \in Ends({<<Place(s, j), Place(s, j + 1)>> : j \in 0 .. n})
    <3>1. CASE i \in 0 .. n
      BY <2>1, <3>1
    <3>2. CASE i - 1 \in 0 .. n /\ (i - 1) + 1 = i
      <4>1. Place(s, (i - 1) + 1) \in Ends({<<Place(s, j), Place(s, j + 1)>> : j \in 0 .. n})
        BY <2>1, <3>2
      <4> QED BY <3>2, <4>1
    <3> QED BY <3>1, <3>2, <1>3 DEF n
  <2>3. ASSUME NEW m \in Ends({<<Place(s, j), Place(s, j + 1)>> : j \in 0 .. n}) PROVE m \in {Place(s, i) : i \in 0 .. n + 1}
    <3>1. PICK j \in 0 .. n : m = Place(s, j) \/ m = Place(s, j + 1)
      BY DEF Ends
    <3> QED BY <3>1, <1>4 DEF n
  <2> QED BY <2>2, <2>3
<1> QED BY <1>1, <1>2, <1>5 DEF n

(* And a block's template has it too.                                      *)
LEMMA BlockShape ==
  ASSUME program \in Programs, NEW s \in Statements, kind[s] = "block"
  PROVE  TemplateShape(s)
<1> DEFINE n == Len(children[s])
<1>1. /\ s \in Nat /\ n \in Nat
      /\ \A i \in 1 .. n : ChildAt(s, i) \in AllNodes /\ IsStatement(ChildAt(s, i)) /\ Place(s, i) = ChildAt(s, i)
  BY StatementsAre DEF ChildAt, Statement, IsStatement, Place
<1>2. Place(s, 0) = <<"Start", s>> /\ Place(s, n + 1) = <<"End", s>>
  BY <1>1 DEF Place
<1>3. <<"Start", s>> \in AllNodes /\ <<"End", s>> \in AllNodes
  BY <1>1 DEF AllNodes, StartRoles, EndRoles
<1>4. \A i \in 0 .. n + 1 : Place(s, i) \in AllNodes
  <2>1. \A i \in 0 .. n + 1 : i = 0 \/ i = n + 1 \/ i \in 1 .. n
    BY <1>1
  <2> QED BY <2>1, <1>1, <1>2, <1>3
<1>5. \A i \in 1 .. n : Follow(s, i) = Place(s, i + 1)
  <2>1. \A i \in 1 .. n : i + 1 # 0 /\ (i + 1 = n + 1 <=> i = n)
    BY <1>1
  <2> QED BY <2>1 DEF Follow, Place
<1>6. \A i \in 0 .. n, j \in 1 .. n : Place(s, i) = ChildAt(s, j) => i = j
  <2>1. ASSUME NEW i \in 0 .. n, NEW j \in 1 .. n, Place(s, i) = ChildAt(s, j) PROVE i = j
    <3>1. CASE i = 0
      BY <3>1, <2>1, <1>1, <1>2 DEF IsStatement
    <3>2. CASE i \in 1 .. n
      <4>0. ChildAt(s, i) = ChildAt(s, j)
        BY <3>2, <2>1, <1>1
      <4>1. children[s][i] = children[s][j]
        BY <4>0 DEF ChildAt, Statement
      <4> QED BY <3>2, <4>1, ChildrenDiffer DEF Places
    <3> QED BY <3>1, <3>2, <1>1
  <2> QED BY <2>1
<1>7. \A i \in 0 .. n : Place(s, i) # <<"End", s>> /\ Place(s, i)[1] \in {"Start", "Statement"}
  <2>1. \A i \in 0 .. n : i = 0 \/ i \in 1 .. n
    BY <1>1
  <2> QED BY <2>1, <1>1, <1>2 DEF IsStatement
<1>8. TemplateEdges(s) = {<<Place(s, i), Place(s, i + 1)>> : i \in 0 .. n}
      /\ Ends(TemplateEdges(s)) = {Place(s, i) : i \in 0 .. n + 1}
  BY BlockEdgesAre
<1>9. \A i \in 0 .. n : i \in 0 .. n + 1 /\ i + 1 \in 0 .. n + 1
  BY <1>1
<1>10. \A i \in 1 .. n : i \in 0 .. n
  BY <1>1
<1>11. 0 \in 0 .. n + 1 /\ n + 1 \in 0 .. n + 1 /\ \A i \in 0 .. n + 1 : i = 0 \/ i = n + 1 \/ i \in 1 .. n
  BY <1>1
<1> HIDE DEF n
<1>12. TemplateEdges(s) \subseteq AllNodes \X AllNodes
  BY <1>4, <1>8, <1>9
<1>13. <<"Start", s>> \in Ends(TemplateEdges(s)) /\ <<"End", s>> \in Ends(TemplateEdges(s))
  BY <1>2, <1>8, <1>11
<1>14. \A i \in 1 .. n : ChildAt(s, i) \in Ends(TemplateEdges(s)) /\ <<ChildAt(s, i), Follow(s, i)>> \in TemplateEdges(s)
  BY <1>1, <1>5, <1>8, <1>9, <1>10
<1>15. \A m \in Ends(TemplateEdges(s)) : IF IsStatement(m) THEN \E i \in 1 .. n : m = ChildAt(s, i) ELSE m[2] = s
  BY <1>1, <1>2, <1>8, <1>11 DEF IsStatement
<1>16. ASSUME NEW e \in TemplateEdges(s)
       PROVE  /\ e[1] # <<"End", s>> /\ e[1][1] \in {"Start", "Statement"}
              /\ \A i \in 1 .. n : e[1] = ChildAt(s, i) => e[2] = Follow(s, i)
  <2>1. PICK i \in 0 .. n : e = <<Place(s, i), Place(s, i + 1)>>
    BY <1>8
  <2> QED BY <2>1, <1>5, <1>6, <1>7
<1>17. Places(s) = 1 .. n
  BY DEF Places, n
<1>18. \A e \in TemplateEdges(s) :
         e[1] \notin {<<"EndTrue", s>>, <<"EndFalse", s>>} /\ e[1] # <<"EndBody", s>>
  BY <1>16
<1> QED BY <1>12, <1>13, <1>14, <1>15, <1>16, <1>17, <1>18 DEF TemplateShape

(* So every template has.                                                  *)
LEMMA TemplatesHaveShape ==
  ASSUME program \in Programs, NEW s \in Statements, IsReducible(s)
  PROVE  TemplateShape(s)
BY LoopShapes, IfShape, BlockShape DEF IsReducible, Reducible

(* From a template's start everything in it is reached.                    *)
LEMMA TemplateGoesForward ==
  ASSUME program \in Programs, NEW s \in Statements, IsReducible(s),
         NEW D, <<"Start", s>> \in D, \A e \in TemplateEdges(s) : e[1] \in D => e[2] \in D
  PROVE  Ends(TemplateEdges(s)) \subseteq D
<1> DEFINE edges == TemplateEdges(s)
<1>1. \A a, b : <<a, b>> \in edges /\ a \in D => b \in D
  OBVIOUS
<1> SUFFICES \A e \in edges : e[1] \in D /\ e[2] \in D
  BY DEF Ends
<1>2. CASE kind[s] = "block"
  <2> DEFINE n == Len(children[s])
             S == {i \in 0 .. n + 1 : Place(s, i) \in D}
  <2>1. n \in Nat /\ edges = {<<Place(s, i), Place(s, i + 1)>> : i \in 0 .. n}
    BY <1>2, BlockEdgesAre
  <2>2. 0 \in S
    BY <2>1 DEF Place
  <2>3. ASSUME NEW i \in 0 .. (n + 1) - 1, i \in S PROVE i + 1 \in S
    <3>1. i \in 0 .. n /\ i + 1 \in 0 .. n + 1
      BY <2>1
    <3> QED BY <2>1, <2>3, <3>1, <1>1
  <2>4. 0 .. n + 1 \subseteq S
    <3> HIDE DEF S, n
    <3>1. n + 1 \in Nat
      BY <2>1
    <3> QED BY <2>2, <2>3, <3>1, RangeInduction
  <2>5. \A i \in 0 .. n : i \in 0 .. n + 1 /\ i + 1 \in 0 .. n + 1
    BY <2>1
  <2>6. \A i \in 0 .. n : Place(s, i) \in D /\ Place(s, i + 1) \in D
    BY <2>4, <2>5
  <2> HIDE DEF n
  <2> QED BY <2>1, <2>6
<1> USE DEF E, ToChild, FromChild
<1>3. CASE kind[s] = "if"
  <2>1. /\ <<"StartCond", s>> \in D /\ <<"Cond", s>> \in D /\ <<"EndCond", s>> \in D
        /\ <<"StartTrue", s>> \in D /\ ChildAt(s, 1) \in D /\ <<"EndTrue", s>> \in D /\ <<"End", s>> \in D
        /\ <<"StartFalse", s>> \in D
    BY <1>1, <1>3, IfTemplate DEF ChildAt
  <2>2. IF Len(children[s]) = 2 THEN ChildAt(s, 2) \in D /\ <<"EndFalse", s>> \in D ELSE <<"EndFalse", s>> \in D
    BY <1>1, <1>3, <2>1, IfTemplate DEF ChildAt
  <2> QED BY <1>3, <2>1, <2>2, IfTemplate DEF ChildAt
<1>4. CASE kind[s] = "while"
  <2>1. /\ <<"StartCond", s>> \in D /\ <<"Cond", s>> \in D /\ <<"EndCond", s>> \in D /\ <<"End", s>> \in D
        /\ <<"StartBody", s>> \in D /\ ChildAt(s, 1) \in D /\ <<"EndBody", s>> \in D
    BY <1>1, <1>4, WhileTemplate DEF ChildAt
  <2> QED BY <1>4, <2>1, WhileTemplate DEF ChildAt
<1>5. CASE kind[s] = "doWhile"
  <2>1. /\ <<"StartBody", s>> \in D /\ ChildAt(s, 1) \in D /\ <<"EndBody", s>> \in D
        /\ <<"StartCond", s>> \in D /\ <<"Cond", s>> \in D /\ <<"EndCond", s>> \in D /\ <<"End", s>> \in D
    BY <1>1, <1>5, DoWhileTemplate DEF ChildAt
  <2> QED BY <1>5, <2>1, DoWhileTemplate DEF ChildAt
<1>6. CASE kind[s] = "for"
  <2>1. ASSUME NEW m, NEW part, NEW n, m \in D, Between(s, m, part, n) \subseteq edges
        PROVE  n \in D /\ (part \in header[s] => <<part, s>> \in D)
    BY <1>1, <2>1 DEF Between
  <2>2. <<"StartInit", s>> \in D
    BY <1>1, <1>6, ForTemplate
  <2>3. <<"EndInit", s>> \in D /\ ("Init" \in header[s] => <<"Init", s>> \in D)
    BY <1>6, <2>1, <2>2, ForTemplate
  <2>4. <<"StartCond", s>> \in D
    BY <1>1, <1>6, <2>3, ForTemplate
  <2>5. <<"EndCond", s>> \in D /\ ("Cond" \in header[s] => <<"Cond", s>> \in D)
    BY <1>6, <2>1, <2>4, ForTemplate
  <2>6. /\ <<"End", s>> \in D /\ <<"StartBody", s>> \in D /\ ChildAt(s, 1) \in D /\ <<"EndBody", s>> \in D
        /\ <<"StartExp", s>> \in D
    BY <1>1, <1>6, <2>5, ForTemplate DEF ChildAt
  <2>7. <<"EndExp", s>> \in D /\ ("Exp" \in header[s] => <<"Exp", s>> \in D)
    BY <1>6, <2>1, <2>6, ForTemplate
  <2> QED BY <1>6, <2>2, <2>3, <2>4, <2>5, <2>6, <2>7, ForTemplate DEF ChildAt, Between
<1> QED BY <1>2, <1>3, <1>4, <1>5, <1>6 DEF IsReducible, Reducible, Loops

(* From everything in it its end is reached; from a loop's condition and   *)
(* expression without its body.                                            *)
LEMMA TemplateGoesBackward ==
  ASSUME program \in Programs, NEW s \in Statements, IsReducible(s),
         NEW D, <<"End", s>> \in D,
         \A e \in TemplateEdges(s) : e[2] \in D /\ ~IsStatement(e[1]) => e[1] \in D
  PROVE  /\ kind[s] \in Loops => <<"StartCond", s>> \in D /\ AfterBody(s) \in D
         /\ (\A i \in Places(s) : Follow(s, i) \in D => ChildAt(s, i) \in D) => Ends(TemplateEdges(s)) \subseteq D
<1> DEFINE edges == TemplateEdges(s)
           inner == \A i \in Places(s) : Follow(s, i) \in D => ChildAt(s, i) \in D
<1>1. \A a, b : <<a, b>> \in edges /\ b \in D /\ a[1] # "Statement" => a \in D
  BY DEF IsStatement
<1>2. \A part \in {"Init", "Cond", "Exp"} : part # "Statement"
  OBVIOUS
<1>3. (\A e \in edges : e[1] \in D /\ e[2] \in D) => Ends(edges) \subseteq D
  BY DEF Ends
<1>4. CASE kind[s] = "block"
  <2> SUFFICES ASSUME inner PROVE Ends(edges) \subseteq D
    BY <1>4 DEF Loops
  <2> DEFINE n == Len(children[s])
             S == {i \in 0 .. n + 1 : Place(s, (n + 1) - i) \in D}
  <2>1. n \in Nat /\ edges = {<<Place(s, i), Place(s, i + 1)>> : i \in 0 .. n}
    BY <1>4, BlockEdgesAre
  <2>2. 0 \in S
    BY <2>1 DEF Place
  <2>3. ASSUME NEW i \in 0 .. n, Place(s, i + 1) \in D PROVE Place(s, i) \in D
    <3>1. <<Place(s, i), Place(s, i + 1)>> \in edges
      BY <2>1
    <3>2. CASE i = 0
      <4>1. Place(s, i) = <<"Start", s>>
        BY <3>2 DEF Place
      <4> QED BY <2>3, <3>1, <4>1, <1>1
    <3>3. CASE i \in 1 .. n
      <4>1. Place(s, i) = ChildAt(s, i) /\ Place(s, i + 1) = Follow(s, i) /\ i \in Places(s)
        BY <2>1, <3>3, <1>4 DEF Place, Follow, Places
      <4> QED BY <2>3, <4>1
    <3> QED BY <3>2, <3>3, <2>1
  <2>4. ASSUME NEW i \in 0 .. (n + 1) - 1, i \in S PROVE i + 1 \in S
    <3>1. /\ n - i \in 0 .. n /\ i + 1 \in 0 .. n + 1
          /\ (n + 1) - (i + 1) = n - i /\ (n - i) + 1 = (n + 1) - i
      BY <2>1
    <3>2. Place(s, (n - i) + 1) \in D
      BY <2>4, <3>1
    <3>3. Place(s, n - i) \in D
      BY <2>3, <3>1, <3>2
    <3> QED BY <3>1, <3>3
  <2>5. 0 .. n + 1 \subseteq S
    <3> HIDE DEF S, n
    <3>1. n + 1 \in Nat
      BY <2>1
    <3> QED BY <2>2, <2>4, <3>1, RangeInduction
  <2>6. ASSUME NEW i \in 0 .. n + 1 PROVE Place(s, i) \in D
    <3>1. (n + 1) - i \in 0 .. n + 1 /\ (n + 1) - ((n + 1) - i) = i
      BY <2>1
    <3>2. (n + 1) - i \in S
      BY <3>1, <2>5
    <3> QED BY <3>1, <3>2
  <2>7. \A i \in 0 .. n : i \in 0 .. n + 1 /\ i + 1 \in 0 .. n + 1
    BY <2>1
  <2>8. \A i \in 0 .. n : Place(s, i) \in D /\ Place(s, i + 1) \in D
    BY <2>6, <2>7
  <2> HIDE DEF n
  <2> QED BY <1>3, <2>1, <2>8
<1> USE DEF E, ToChild, FromChild
<1>5. CASE kind[s] = "if"
  <2> SUFFICES ASSUME inner PROVE \A e \in edges : e[1] \in D /\ e[2] \in D
    BY <1>3, <1>5 DEF Loops
  <2>1. <<"EndTrue", s>> \in D /\ <<"EndFalse", s>> \in D
    BY <1>1, <1>5, IfTemplate
  <2>2. ChildAt(s, 1) \in D /\ (Len(children[s]) = 2 => ChildAt(s, 2) \in D)
    <3>1. 1 \in Places(s) /\ (Len(children[s]) = 2 => 2 \in Places(s))
      BY <1>5, StatementsAre DEF Places
    <3>2. Follow(s, 1) \in D /\ Follow(s, 2) \in D
      BY <1>5, <2>1 DEF Follow
    <3> QED BY <3>1, <3>2
  <2>3. <<"StartTrue", s>> \in D /\ <<"StartFalse", s>> \in D
    BY <1>1, <1>5, <2>1, <2>2, IfTemplate DEF ChildAt
  <2>4. <<"EndCond", s>> \in D
    BY <1>1, <1>5, <2>3, IfTemplate
  <2>5. <<"Cond", s>> \in D
    BY <1>1, <1>5, <2>4, IfTemplate
  <2>6. <<"StartCond", s>> \in D
    BY <1>1, <1>5, <2>5, IfTemplate
  <2>7. <<"Start", s>> \in D
    BY <1>1, <1>5, <2>6, IfTemplate
  <2> QED BY <1>5, <2>1, <2>2, <2>3, <2>4, <2>5, <2>6, <2>7, IfTemplate DEF ChildAt
<1>6. kind[s] \in Loops => 1 \in Places(s) /\ Follow(s, 1) = <<"EndBody", s>>
  BY StatementsAre DEF Places, Follow, Loops
<1>7. CASE kind[s] = "while"
  <2>1. <<"EndCond", s>> \in D /\ <<"Cond", s>> \in D /\ <<"StartCond", s>> \in D /\ <<"EndBody", s>> \in D
        /\ <<"Start", s>> \in D
    BY <1>1, <1>7, WhileTemplate
  <2>2. inner => ChildAt(s, 1) \in D
    BY <1>6, <1>7, <2>1 DEF Loops
  <2>3. inner => <<"StartBody", s>> \in D
    BY <1>1, <1>7, <2>2, WhileTemplate DEF ChildAt
  <2>4. inner => \A e \in edges : e[1] \in D /\ e[2] \in D
    BY <1>7, <2>1, <2>2, <2>3, WhileTemplate DEF ChildAt
  <2> QED BY <1>3, <1>7, <2>1, <2>4 DEF AfterBody
<1>8. CASE kind[s] = "doWhile"
  <2>1. <<"EndCond", s>> \in D /\ <<"Cond", s>> \in D /\ <<"StartCond", s>> \in D /\ <<"EndBody", s>> \in D
    BY <1>1, <1>8, DoWhileTemplate
  <2>2. inner => ChildAt(s, 1) \in D
    BY <1>6, <1>8, <2>1 DEF Loops
  <2>3. inner => <<"StartBody", s>> \in D /\ <<"Start", s>> \in D
    BY <1>1, <1>8, <2>2, DoWhileTemplate DEF ChildAt
  <2>4. inner => \A e \in edges : e[1] \in D /\ e[2] \in D
    BY <1>8, <2>1, <2>2, <2>3, DoWhileTemplate DEF ChildAt
  <2> QED BY <1>3, <1>8, <2>1, <2>4 DEF AfterBody
<1>9. CASE kind[s] = "for"
  <2> DEFINE between(r, part, q) == Between(s, <<r, s>>, part, <<q, s>>)
  <2>0. /\ between("StartInit", "Init", "EndInit") \subseteq edges
        /\ between("StartCond", "Cond", "EndCond") \subseteq edges
        /\ between("StartExp", "Exp", "EndExp") \subseteq edges
    BY <1>9, ForTemplate
  <2>1. ASSUME NEW r \in {"StartInit", "StartCond", "StartExp"}, NEW part \in {"Init", "Cond", "Exp"}, NEW q,
               <<q, s>> \in D, between(r, part, q) \subseteq edges
        PROVE  <<r, s>> \in D /\ (part \in header[s] => <<part, s>> \in D)
    BY <1>1, <1>2, <2>1 DEF Between
  <2> HIDE DEF between
  <2>2. <<"EndCond", s>> \in D
    BY <1>1, <1>9, ForTemplate
  <2>3. <<"StartCond", s>> \in D /\ ("Cond" \in header[s] => <<"Cond", s>> \in D)
    BY <2>0, <2>1, <2>2
  <2>4. <<"EndExp", s>> \in D /\ <<"EndInit", s>> \in D
    BY <1>1, <1>9, <2>3, ForTemplate
  <2>5. <<"StartExp", s>> \in D /\ ("Exp" \in header[s] => <<"Exp", s>> \in D)
    BY <2>0, <2>1, <2>4
  <2>6. <<"StartInit", s>> \in D /\ ("Init" \in header[s] => <<"Init", s>> \in D)
    BY <2>0, <2>1, <2>4
  <2>7. <<"Start", s>> \in D /\ <<"EndBody", s>> \in D
    BY <1>1, <1>9, <2>5, <2>6, ForTemplate
  <2>8. inner => ChildAt(s, 1) \in D
    BY <1>6, <1>9, <2>7 DEF Loops
  <2>9. inner => <<"StartBody", s>> \in D
    BY <1>1, <1>9, <2>8, ForTemplate DEF ChildAt
  <2>10. inner => \A e \in edges : e[1] \in D /\ e[2] \in D
    BY <1>9, <2>2, <2>3, <2>4, <2>5, <2>6, <2>7, <2>8, <2>9, ForTemplate DEF ChildAt, Between
  <2> QED BY <1>3, <1>9, <2>3, <2>5, <2>10 DEF AfterBody
<1> QED BY <1>4, <1>5, <1>7, <1>8, <1>9 DEF IsReducible, Reducible, Loops

-------------------------------------------------------------------------------
Has(q, x) == \E i \in 1 .. Len(q) : q[i] = x
AllDiffer(q) == \A i, j \in 1 .. Len(q) : q[i] = q[j] => i = j

(* What a template puts in the queue: the children to reduce, once each.   *)
LEMMA QueuedAre ==
  ASSUME program \in Programs, NEW s \in Statements
  PROVE  /\ ReducibleChildren(s) \in Seq(Statements)
         /\ AllDiffer(ReducibleChildren(s))
         /\ \A t : Has(ReducibleChildren(s), t)
                   <=> (\E i \in Places(s) : children[s][i] = t /\ IsReducible(t))
<1> DEFINE top == Len(children[s])
           child == children[s]
           step == [z \in Seq(Statements) \X (1 .. top) |->
                      IF IsReducible(child[z[2]]) THEN Append(z[1], child[z[2]]) ELSE z[1]]
           Queued(g) == g = [i \in 0 .. top |->
                               IF i = 0 THEN <<>>
                               ELSE IF IsReducible(child[i]) THEN Append(g[i - 1], child[i])
                               ELSE g[i - 1]]
           Good(q, k) ==
             /\ q \in Seq(Statements)
             /\ \A i, j \in 1 .. Len(q) : q[i] = q[j] => i = j
             /\ \A t : (\E i \in 1 .. Len(q) : q[i] = t) <=> (\E i \in 1 .. k : child[i] = t /\ IsReducible(t))
<1>1. top \in Nat /\ \A i \in 1 .. top : child[i] \in Statements
  BY StatementsAre
<1>2. \A i, j \in 1 .. top : child[i] = child[j] => i = j
  BY ChildrenDiffer DEF Places
<1>3. \A q \in Seq(Statements), i \in 1 .. top :
        step[<<q, i>>] = IF IsReducible(child[i]) THEN Append(q, child[i]) ELSE q
  OBVIOUS
<1> HIDE DEF top, child, step
<1>4. PICK g : Follows(g, top, <<>>, step)
  BY <1>1, RecursionOnRange
<1>5. g[0] = <<>> /\ \A i \in 1 .. top : g[i] = step[<<g[i - 1], i>>]
  BY <1>1, <1>4 DEF Follows
<1>6. ASSUME NEW i \in Nat, i + 1 \in 1 .. top, NEW q, Good(q, i)
      PROVE  Good(IF IsReducible(child[i + 1]) THEN Append(q, child[i + 1]) ELSE q, i + 1)
  <2>0. 1 .. i + 1 = (1 .. i) \cup {i + 1} /\ child[i + 1] \in Statements
    BY <1>1, <1>6
  <2>1. CASE ~IsReducible(child[i + 1])
    BY <1>6, <2>0, <2>1
  <2>2. CASE IsReducible(child[i + 1])
    <3> DEFINE r == Append(q, child[i + 1])
    <3>1. /\ r \in Seq(Statements) /\ Len(r) = Len(q) + 1 /\ Len(q) \in Nat
          /\ \A k \in 1 .. Len(q) : r[k] = q[k] /\ k \in 1 .. Len(r)
          /\ r[Len(q) + 1] = child[i + 1]
          /\ \A k \in 1 .. Len(r) : k \in 1 .. Len(q) \/ k = Len(q) + 1
          /\ Len(q) + 1 \in 1 .. Len(r)
      BY <1>6, <2>0
    <3>2. \A k \in 1 .. Len(q) : q[k] # child[i + 1]
      <4> SUFFICES ASSUME NEW k \in 1 .. Len(q), q[k] = child[i + 1] PROVE FALSE
        OBVIOUS
      <4>1. PICK h \in 1 .. i : child[h] = child[i + 1]
        BY <1>6
      <4>2. h \in 1 .. top /\ h # i + 1
        BY <1>6, <1>1
      <4> QED BY <1>2, <1>6, <4>1, <4>2
    <3> HIDE DEF r
    <3>3. \A k, j \in 1 .. Len(r) : r[k] = r[j] => k = j
      BY <1>6, <3>1, <3>2
    <3>4. \A t : (\E k \in 1 .. Len(r) : r[k] = t) <=> (\E k \in 1 .. i + 1 : child[k] = t /\ IsReducible(t))
      <4>1. \A t : (\E k \in 1 .. Len(r) : r[k] = t) <=> ((\E k \in 1 .. Len(q) : q[k] = t) \/ t = child[i + 1])
        BY <3>1
      <4>2. \A t : (\E k \in 1 .. i + 1 : child[k] = t /\ IsReducible(t))
                   <=> ((\E k \in 1 .. i : child[k] = t /\ IsReducible(t)) \/ t = child[i + 1])
        BY <2>0, <2>2
      <4> QED BY <1>6, <4>1, <4>2
    <3> QED BY <2>2, <3>1, <3>3, <3>4 DEF r
  <2> QED BY <2>1, <2>2
<1>7. Good(<<>>, 0)
  OBVIOUS
<1> HIDE DEF Good
<1>8. \A q, k : Good(q, k) => q \in Seq(Statements)
  BY DEF Good
<1> DEFINE Steps(f) == f[0] = <<>> /\ \A i \in 1 .. top : f[i - 1] \in Seq(Statements) =>
                         f[i] = IF IsReducible(child[i]) THEN Append(f[i - 1], child[i]) ELSE f[i - 1]
<1>9. ASSUME NEW f, Steps(f)
      PROVE  \A i \in 0 .. top : Good(f[i], i)
  <2> DEFINE S == {i \in Nat : Good(f[i], i)}
  <2>1. 0 \in S
    BY <1>7, <1>9
  <2>2. ASSUME NEW i \in 0 .. top - 1, i \in S PROVE i + 1 \in S
    <3>1. i + 1 \in 1 .. top /\ (i + 1) - 1 = i
      BY <1>1
    <3>2. f[i + 1] = IF IsReducible(child[i + 1]) THEN Append(f[i], child[i + 1]) ELSE f[i]
      BY <1>8, <1>9, <2>2, <3>1
    <3> QED BY <1>6, <2>2, <3>1, <3>2
  <2>3. 0 .. top \subseteq S
    <3> HIDE DEF S
    <3> QED BY <1>1, <2>1, <2>2, RangeInduction
  <2> QED BY <2>3
<1>10. Steps(g)
  BY <1>3, <1>5
<1>11. Queued(g)
  <2>1. \A i \in 0 .. top : i # 0 => i \in 1 .. top /\ i - 1 \in 0 .. top
    BY <1>1
  <2>2. \A i \in 0 .. top : (IF i = 0 THEN <<>> ELSE step[<<g[i - 1], i>>])
                            = (IF i = 0 THEN <<>> ELSE IF IsReducible(child[i]) THEN Append(g[i - 1], child[i]) ELSE g[i - 1])
    BY <1>3, <1>8, <1>9, <1>10, <2>1
  <2> QED BY <1>4, <2>2 DEF Follows
<1> DEFINE queued == CHOOSE h : Queued(h)
<1>12. Queued(queued)
  <2> HIDE DEF Queued
  <2> QED BY <1>11
<1>13. ReducibleChildren(s) = queued[top]
  BY DEF ReducibleChildren, top, child
<1> HIDE DEF queued
<1>14. Steps(queued)
  <2>1. 0 \in 0 .. top /\ \A i \in 1 .. top : i \in 0 .. top /\ i # 0
    BY <1>1
  <2>2. queued[0] = <<>>
    BY <1>12, <2>1
  <2>3. \A i \in 1 .. top : queued[i] = IF IsReducible(child[i]) THEN Append(queued[i - 1], child[i]) ELSE queued[i - 1]
    BY <1>12, <2>1
  <2> QED BY <2>2, <2>3
<1>15. Good(ReducibleChildren(s), top)
  BY <1>1, <1>9, <1>13, <1>14
<1> QED BY <1>15 DEF Good, Places, top, child, Has, AllDiffer

-------------------------------------------------------------------------------
(* The graph that stands for the templates of the statements reduced so    *)
(* far: an edge to one of them goes to its start, an edge from it leaves   *)
(* its end.                                                                *)
Templates(R) ==
  {<<BodyStart, Statement(1)>>, <<Statement(1), BodyEnd>>} \cup UNION {TemplateEdges(s) : s \in R}
IsIn(R, n) == IsStatement(n) /\ n[2] \in R
Enters(R, n) == IF IsIn(R, n) THEN <<"Start", n[2]>> ELSE n
Leaves(R, n) == IF IsIn(R, n) THEN <<"End", n[2]>> ELSE n
NodesOf(R) == {n \in Ends(Templates(R)) : ~IsIn(R, n)}
EdgesOf(R) == {<<Leaves(R, e[1]), Enters(R, e[2])>> : e \in Templates(R)}

(* What was reduced: the body, and children of what was.                   *)
IsTree(R) ==
  /\ R \subseteq Statements
  /\ \A s \in R : IsReducible(s) /\ (s = 1 \/ \E r \in R : \E i \in Places(r) : children[r][i] = s)

(* What a child's edge in the template leads to.                           *)
LEMMA ChildIsFollowed ==
  ASSUME NEW s, TemplateShape(s), NEW f \in TemplateEdges(s), NEW i \in Places(s), f[1] = ChildAt(s, i)
  PROVE  f[2] = Follow(s, i)
BY DEF TemplateShape

(* The nodes of a template that are not children are of its statement.     *)
LEMMA OthersAreOfTheTemplate ==
  ASSUME NEW s, TemplateShape(s), NEW n \in Ends(TemplateEdges(s)), ~IsStatement(n)
  PROVE  n[2] = s
BY DEF TemplateShape

(* The edges of the templates are between nodes, and none between a        *)
(* statement and itself.                                                   *)
LEMMA TemplatesAre ==
  ASSUME program \in Programs, NEW R, IsTree(R)
  PROVE  /\ Templates(R) \subseteq AllNodes \X AllNodes
         /\ Ends(Templates(R)) \subseteq AllNodes
         /\ \A n \in AllNodes : n = <<n[1], n[2]>> /\ (IsStatement(n) => n = Statement(n[2]))
         /\ \A e \in Templates(R), t \in Statements : e[1] = Statement(t) => e[2] # Statement(t)
         /\ \A n \in Ends(Templates(R)) : IsStatement(n) => n[2] \in Statements
<1>1. 1 \in Statements /\ Statements \subseteq Nat
  <2>1. IsProgram(program)
    BY ProgramsAssumption
  <2> QED BY <2>1 DEF IsProgram, Statements, kind
<1>2. ASSUME NEW s \in R PROVE TemplateShape(s) /\ s \in Statements
  BY <1>2, TemplatesHaveShape DEF IsTree
<1>3. {<<BodyStart, Statement(1)>>, <<Statement(1), BodyEnd>>} \subseteq AllNodes \X AllNodes
  BY DEF BodyStart, BodyEnd, Statement, AllNodes, StartRoles, EndRoles
<1>4. Templates(R) \subseteq AllNodes \X AllNodes
  <2>1. \A s \in R : TemplateEdges(s) \subseteq AllNodes \X AllNodes
    BY <1>2 DEF TemplateShape
  <2> QED BY <1>3, <2>1 DEF Templates
<1>5. Ends(Templates(R)) \subseteq AllNodes
  BY <1>4 DEF Ends
<1>6. \A n \in AllNodes : n = <<n[1], n[2]>> /\ (IsStatement(n) => n = Statement(n[2]))
  BY DEF AllNodes, IsStatement, Statement
<1>7. ASSUME NEW e \in Templates(R), NEW t \in Statements, e[1] = Statement(t), e[2] = Statement(t) PROVE FALSE
  <2>1. CASE e \in {<<BodyStart, Statement(1)>>, <<Statement(1), BodyEnd>>}
    BY <1>7, <2>1 DEF BodyStart, BodyEnd, Statement
  <2>2. CASE \E s \in R : e \in TemplateEdges(s)
    <3>1. PICK s \in R : e \in TemplateEdges(s)
      BY <2>2
    <3>2. e[1] \in Ends(TemplateEdges(s)) /\ IsStatement(e[1])
      BY <3>1, <1>7 DEF Ends, IsStatement, Statement
    <3>3. PICK i \in Places(s) : e[1] = ChildAt(s, i)
      BY <1>2, <3>2 DEF TemplateShape
    <3>4. Follow(s, i) = ChildAt(s, i)
      <4>1. e[1] = ChildAt(s, i) /\ e[2] = ChildAt(s, i)
        BY <1>7, <3>3
      <4> QED BY <1>2, <3>1, <4>1, ChildIsFollowed
    <3>5. IsStatement(Follow(s, i))
      BY <1>7, <3>3, <3>4 DEF IsStatement, Statement
    <3>6. kind[s] = "block" /\ i # Len(children[s]) /\ ChildAt(s, i + 1) = ChildAt(s, i)
      BY <3>4, <3>5 DEF Follow, IsStatement
    <3>7. Len(children[s]) \in Nat /\ i + 1 \in Places(s) /\ i + 1 # i
      BY <1>2, <3>6, StatementsAre DEF Places
    <3>8. children[s][i + 1] = children[s][i]
      BY <3>6 DEF ChildAt, Statement
    <3> QED BY <1>2, <3>7, <3>8, ChildrenDiffer
  <2> QED BY <2>1, <2>2 DEF Templates
<1>8. ASSUME NEW n \in Ends(Templates(R)), IsStatement(n) PROVE n[2] \in Statements
  <2>1. PICK e \in Templates(R) : n = e[1] \/ n = e[2]
    BY DEF Ends
  <2>2. CASE e \in {<<BodyStart, Statement(1)>>, <<Statement(1), BodyEnd>>}
    BY <1>1, <1>8, <2>1, <2>2 DEF BodyStart, BodyEnd, Statement, IsStatement
  <2>3. CASE \E s \in R : e \in TemplateEdges(s)
    <3>1. PICK s \in R : e \in TemplateEdges(s)
      BY <2>3
    <3>2. n \in Ends(TemplateEdges(s))
      BY <2>1, <3>1 DEF Ends
    <3>3. PICK i \in Places(s) : n = ChildAt(s, i)
      BY <1>2, <1>8, <3>2 DEF TemplateShape
    <3> QED BY <1>2, <3>3, StatementsAre DEF Places, ChildAt, Statement
  <2> QED BY <2>2, <2>3 DEF Templates
<1> QED BY <1>4, <1>5, <1>6, <1>7, <1>8

(* A statement that waits has none of its children reduced.                *)
LEMMA WaitingIsUntouched ==
  ASSUME program \in Programs, NEW R, IsTree(R), NEW s \in Statements, s \notin R, IsReducible(s)
  PROVE  /\ \A n \in Ends(TemplateEdges(s)) : ~IsIn(R \cup {s}, n)
         /\ \A i \in Places(s) : children[s][i] \notin R \cup {s}
<1>1. TemplateShape(s)
  BY TemplatesHaveShape
<1>2. ASSUME NEW i \in Places(s), children[s][i] \in R \cup {s} PROVE FALSE
  <2>1. children[s][i] > s /\ s \in Nat \ {0} /\ children[s][i] \in Nat
    BY StatementsAre DEF Places, Statements
  <2>2. children[s][i] # s /\ children[s][i] # 1
    BY <2>1
  <2>3. PICK r \in R : \E j \in Places(r) : children[r][j] = children[s][i]
    BY <1>2, <2>2 DEF IsTree
  <2>4. r \in Statements
    BY DEF IsTree
  <2> QED BY <2>3, <2>4, ChildrenDiffer
<1>3. \A n \in Ends(TemplateEdges(s)) : IsStatement(n) => \E i \in Places(s) : n = ChildAt(s, i)
  BY <1>1 DEF TemplateShape
<1> QED BY <1>2, <1>3 DEF IsIn, ChildAt, Statement

(* A reduction puts one more template in.                                  *)
LEMMA ReductionExtends ==
  ASSUME program \in Programs, NEW R, IsTree(R), NEW s \in Statements, s \notin R, IsReducible(s),
         nodes = NodesOf(R), adj_list = EdgesOf(R)
  PROVE  /\ Splice(s) = EdgesOf(R \cup {s})
         /\ (nodes \ {Statement(s)}) \cup Ends(TemplateEdges(s)) = NodesOf(R \cup {s})
<1> DEFINE n == Statement(s)
           Q == R \cup {s}
           T == TemplateEdges(s)
<1>0. n[1] = "Statement" /\ n[2] = s
  BY DEF Statement
<1>1. Templates(Q) = Templates(R) \cup T
  BY DEF Templates
<1>2. /\ Templates(R) \subseteq AllNodes \X AllNodes
      /\ \A m \in AllNodes : m = <<m[1], m[2]>> /\ (IsStatement(m) => m = Statement(m[2]))
      /\ \A e \in Templates(R) : e[1] = n => e[2] # n
  BY TemplatesAre
<1>3. ASSUME NEW m \in AllNodes
      PROVE  /\ m = n => /\ Leaves(R, m) = n /\ Enters(R, m) = n
                         /\ Leaves(Q, m) = <<"End", s>> /\ Enters(Q, m) = <<"Start", s>>
             /\ m # n => /\ Leaves(R, m) # n /\ Enters(R, m) # n
                         /\ Leaves(Q, m) = Leaves(R, m) /\ Enters(Q, m) = Enters(R, m)
  <2>1. m = n => IsStatement(m) /\ m[2] = s
    BY <1>0 DEF IsStatement
  <2>2. m # n => ~(IsStatement(m) /\ m[2] = s)
    BY <1>2
  <2>3. IsIn(Q, m) <=> IsIn(R, m) \/ (IsStatement(m) /\ m[2] = s)
    BY DEF IsIn
  <2>4. m = n => ~IsIn(R, m) /\ IsIn(Q, m)
    BY <2>1 DEF IsIn
  <2>5. m # n => (IsIn(Q, m) <=> IsIn(R, m))
    BY <2>2, <2>3
  <2>6. ASSUME NEW t PROVE <<"Start", t>> # n /\ <<"End", t>> # n
    BY <1>0
  <2> HIDE DEF n, Q
  <2>7. m = n => /\ Leaves(R, m) = n /\ Enters(R, m) = n
                 /\ Leaves(Q, m) = <<"End", s>> /\ Enters(Q, m) = <<"Start", s>>
    BY <2>1, <2>4 DEF Leaves, Enters
  <2>8. m # n => /\ Leaves(R, m) # n /\ Enters(R, m) # n
                 /\ Leaves(Q, m) = Leaves(R, m) /\ Enters(Q, m) = Enters(R, m)
    BY <2>5, <2>6 DEF Leaves, Enters
  <2> QED BY <2>7, <2>8
<1>4. \A m \in Ends(T) : ~IsIn(Q, m)
  BY WaitingIsUntouched
<1>5. ASSUME NEW e \in T PROVE Leaves(Q, e[1]) = e[1] /\ Enters(Q, e[2]) = e[2] /\ e = <<e[1], e[2]>>
  <2>1. e[1] \in Ends(T) /\ e[2] \in Ends(T)
    BY DEF Ends
  <2>2. T \subseteq AllNodes \X AllNodes
    BY TemplatesHaveShape DEF TemplateShape
  <2>3. e = <<e[1], e[2]>>
    BY <2>2
  <2> HIDE DEF T, Q
  <2> QED BY <1>4, <2>1, <2>3 DEF Leaves, Enters
<1> HIDE DEF n, Q, T
<1>6. \A e \in Templates(R) : e[1] \in AllNodes /\ e[2] \in AllNodes
  BY <1>2
<1>7. ASSUME NEW x \in Splice(s) PROVE x \in EdgesOf(Q)
  <2>1. CASE x \in adj_list /\ n \notin {x[1], x[2]}
    <3>1. PICK e \in Templates(R) : x = <<Leaves(R, e[1]), Enters(R, e[2])>>
      BY <2>1 DEF EdgesOf
    <3>2. e[1] # n /\ e[2] # n
      BY <1>3, <1>6, <2>1, <3>1
    <3>3. x = <<Leaves(Q, e[1]), Enters(Q, e[2])>>
      BY <1>3, <1>6, <3>1, <3>2
    <3> QED BY <1>1, <3>3 DEF EdgesOf
  <2>2. CASE x \in T
    BY <1>1, <1>5, <2>2 DEF EdgesOf
  <2>3. CASE x \in raw_predecessors(n) \X {<<"Start", s>>}
    <3>1. PICK f \in adj_list : f[2] = n /\ x = <<f[1], <<"Start", s>>>>
      BY <2>3 DEF raw_predecessors
    <3>2. PICK e \in Templates(R) : f = <<Leaves(R, e[1]), Enters(R, e[2])>>
      BY DEF EdgesOf
    <3>3. e[2] = n /\ e[1] # n
      BY <1>2, <1>3, <1>6, <3>1, <3>2
    <3>4. x = <<Leaves(Q, e[1]), Enters(Q, e[2])>>
      BY <1>3, <1>6, <3>1, <3>2, <3>3
    <3> QED BY <1>1, <3>4 DEF EdgesOf
  <2>4. CASE x \in {<<"End", s>>} \X raw_successors(n)
    <3>1. PICK f \in adj_list : f[1] = n /\ x = <<<<"End", s>>, f[2]>>
      BY <2>4 DEF raw_successors
    <3>2. PICK e \in Templates(R) : f = <<Leaves(R, e[1]), Enters(R, e[2])>>
      BY DEF EdgesOf
    <3>3. e[1] = n /\ e[2] # n
      BY <1>2, <1>3, <1>6, <3>1, <3>2
    <3>4. x = <<Leaves(Q, e[1]), Enters(Q, e[2])>>
      BY <1>3, <1>6, <3>1, <3>2, <3>3
    <3> QED BY <1>1, <3>4 DEF EdgesOf
  <2> QED BY <2>1, <2>2, <2>3, <2>4 DEF Splice, n, T
<1>8. ASSUME NEW e \in Templates(Q) PROVE <<Leaves(Q, e[1]), Enters(Q, e[2])>> \in Splice(s)
  <2>1. CASE e \in T
    BY <1>5, <2>1 DEF Splice, T
  <2>2. CASE e \in Templates(R)
    <3> DEFINE f == <<Leaves(R, e[1]), Enters(R, e[2])>>
    <3>1. f \in adj_list /\ f[1] = Leaves(R, e[1]) /\ f[2] = Enters(R, e[2])
      BY <2>2 DEF EdgesOf
    <3> HIDE DEF f
    <3>2. CASE e[1] = n
      <4>1. f[1] = n /\ e[2] # n
        BY <1>2, <1>3, <1>6, <2>2, <3>1, <3>2
      <4>2. <<Leaves(Q, e[1]), Enters(Q, e[2])>> = <<<<"End", s>>, f[2]>>
        BY <1>3, <1>6, <2>2, <3>1, <3>2, <4>1
      <4> QED BY <3>1, <4>1, <4>2 DEF Splice, n, raw_successors
    <3>3. CASE e[2] = n
      <4>1. f[2] = n /\ e[1] # n
        BY <1>2, <1>3, <1>6, <2>2, <3>1, <3>3
      <4>2. <<Leaves(Q, e[1]), Enters(Q, e[2])>> = <<f[1], <<"Start", s>>>>
        BY <1>3, <1>6, <2>2, <3>1, <3>3, <4>1
      <4> QED BY <3>1, <4>1, <4>2 DEF Splice, n, raw_predecessors
    <3>4. CASE e[1] # n /\ e[2] # n
      <4>1. f[1] # n /\ f[2] # n
        BY <1>3, <1>6, <2>2, <3>1, <3>4
      <4>2. <<Leaves(Q, e[1]), Enters(Q, e[2])>> = f
        BY <1>3, <1>6, <2>2, <3>4 DEF f
      <4> QED BY <3>1, <4>1, <4>2 DEF Splice, n
    <3> QED BY <3>2, <3>3, <3>4
  <2> QED BY <1>1, <2>1, <2>2
<1>9. Splice(s) = EdgesOf(Q)
  BY <1>7, <1>8 DEF EdgesOf
<1>10. Ends(Templates(Q)) = Ends(Templates(R)) \cup Ends(T)
  BY <1>1 DEF Ends
<1>11. \A m \in Ends(Templates(R)) : IsIn(Q, m) <=> IsIn(R, m) \/ m = n
  <2>1. \A m \in Ends(Templates(R)) : IsStatement(m) /\ m[2] = s <=> m = n
    BY <1>0, TemplatesAre DEF n, IsStatement
  <2> QED BY <2>1 DEF IsIn, Q
<1>12. (nodes \ {n}) \cup Ends(T) = NodesOf(Q)
  BY <1>4, <1>10, <1>11 DEF NodesOf
<1> QED BY <1>9, <1>12 DEF n, Q, T

-------------------------------------------------------------------------------
(* Three things are finitely many.                                         *)
LEMMA ThreeAreFinite == ASSUME NEW a, NEW b, NEW c PROVE IsFiniteSet({a, b, c})
<1>1. IsFiniteSet({a} \cup {b}) /\ IsFiniteSet({c})
  BY FS_Singleton, FS_Union
<1>2. IsFiniteSet(({a} \cup {b}) \cup {c}) /\ {a, b, c} = ({a} \cup {b}) \cup {c}
  BY <1>1, FS_Union
<1> QED BY <1>2

(* The graph is one: finitely many nodes, and edges between them.          *)
LEMMA GraphIsFinite ==
  ASSUME program \in Programs, NEW R, IsTree(R)
  PROVE  /\ IsFiniteSet(NodesOf(R))
         /\ EdgesOf(R) \subseteq NodesOf(R) \X NodesOf(R)
         /\ BodyStart \in NodesOf(R) /\ BodyEnd \in NodesOf(R)
         /\ \A s \in R : /\ <<"Start", s>> \in NodesOf(R) /\ <<"End", s>> \in NodesOf(R)
                         /\ \A n \in Ends(TemplateEdges(s)) :
                              Enters(R, n) \in NodesOf(R) /\ Leaves(R, n) \in NodesOf(R)
<1> DEFINE roles == StartRoles \cup EndRoles \cup {"Statement", "Cond", "Init", "Exp"}
<1>1. \A s \in R : TemplateShape(s) /\ s \in Statements
  BY TemplatesHaveShape DEF IsTree
<1>2. Len(kind) \in Nat /\ 1 \in Statements
  <2>1. IsProgram(program)
    BY ProgramsAssumption
  <2> QED BY <2>1 DEF IsProgram, Statements, kind
<1>3. IsFiniteSet(roles)
  <2> DEFINE a == {"Start", "StartCond", "StartBody"}
             b == {"StartTrue", "StartFalse", "StartInit"}
             c == {"StartExp", "EndTrue", "EndFalse"}
             d == {"End", "EndCond", "EndBody"}
             e == {"EndInit", "EndExp", "Statement"}
             f == {"Cond", "Init", "Exp"}
  <2>1. IsFiniteSet(a) /\ IsFiniteSet(b) /\ IsFiniteSet(c) /\ IsFiniteSet(d) /\ IsFiniteSet(e) /\ IsFiniteSet(f)
    BY ThreeAreFinite
  <2>2. roles = ((a \cup b) \cup (c \cup d)) \cup (e \cup f)
    BY DEF StartRoles, EndRoles
  <2> HIDE DEF a, b, c, d, e, f, roles
  <2>3. IsFiniteSet(a \cup b) /\ IsFiniteSet(c \cup d) /\ IsFiniteSet(e \cup f)
    BY <2>1, FS_Union
  <2>4. IsFiniteSet((a \cup b) \cup (c \cup d))
    BY <2>3, FS_Union
  <2> QED BY <2>2, <2>3, <2>4, FS_Union
<1>4. IsFiniteSet(roles \X (0 .. Len(kind)))
  <2> HIDE DEF roles
  <2>1. IsFiniteSet(0 .. Len(kind))
    BY <1>2, FS_Interval
  <2> QED BY <1>3, <2>1, FS_Product
<1>5. \A n \in Ends(Templates(R)) : n[2] \in 0 .. Len(kind)
  <2> SUFFICES ASSUME NEW n \in Ends(Templates(R)) PROVE n[2] \in 0 .. Len(kind)
    OBVIOUS
  <2>1. PICK e \in Templates(R) : n = e[1] \/ n = e[2]
    BY DEF Ends
  <2>2. CASE e \in {<<BodyStart, Statement(1)>>, <<Statement(1), BodyEnd>>}
    BY <1>2, <2>1, <2>2 DEF BodyStart, BodyEnd, Statement, Statements
  <2>3. CASE \E s \in R : e \in TemplateEdges(s)
    <3>1. PICK s \in R : e \in TemplateEdges(s)
      BY <2>3
    <3>2. n \in Ends(TemplateEdges(s))
      BY <2>1, <3>1 DEF Ends
    <3>3. IsStatement(n) => n[2] \in Statements
      BY TemplatesAre
    <3>4. ~IsStatement(n) => n[2] = s
      BY <1>1, <3>2 DEF TemplateShape
    <3> QED BY <1>1, <1>2, <3>3, <3>4 DEF Statements
  <2> QED BY <2>2, <2>3 DEF Templates
<1>6. NodesOf(R) \subseteq roles \X (0 .. Len(kind))
  <2>1. Ends(Templates(R)) \subseteq AllNodes
    BY TemplatesAre
  <2> QED BY <1>5, <2>1 DEF NodesOf, AllNodes
<1>7. IsFiniteSet(NodesOf(R))
  <2> HIDE DEF roles
  <2> QED BY <1>4, <1>6, FS_Subset
<1>8. \A s \in R : /\ Ends(TemplateEdges(s)) \subseteq Ends(Templates(R))
                   /\ <<"Start", s>> \in Ends(Templates(R)) /\ <<"End", s>> \in Ends(Templates(R))
  <2>1. \A s \in R : Ends(TemplateEdges(s)) \subseteq Ends(Templates(R))
    BY DEF Ends, Templates
  <2>2. \A s \in R : <<"Start", s>> \in Ends(TemplateEdges(s)) /\ <<"End", s>> \in Ends(TemplateEdges(s))
    BY <1>1 DEF TemplateShape
  <2> QED BY <2>1, <2>2
<1>9. \A s : ~IsIn(R, <<"Start", s>>) /\ ~IsIn(R, <<"End", s>>)
  BY DEF IsIn, IsStatement
<1>10. \A s \in R : <<"Start", s>> \in NodesOf(R) /\ <<"End", s>> \in NodesOf(R)
  BY <1>8, <1>9 DEF NodesOf
<1>11. \A n \in Ends(Templates(R)) : Enters(R, n) \in NodesOf(R) /\ Leaves(R, n) \in NodesOf(R)
  <2>1. \A n \in Ends(Templates(R)) : IsIn(R, n) => n[2] \in R
    BY DEF IsIn
  <2>2. \A n \in Ends(Templates(R)) : ~IsIn(R, n) => n \in NodesOf(R)
    BY DEF NodesOf
  <2> QED BY <1>10, <2>1, <2>2 DEF Enters, Leaves
<1>12. EdgesOf(R) \subseteq NodesOf(R) \X NodesOf(R)
  BY <1>11 DEF EdgesOf, Ends
<1>13. BodyStart \in NodesOf(R) /\ BodyEnd \in NodesOf(R)
  <2>1. BodyStart \in Ends(Templates(R)) /\ BodyEnd \in Ends(Templates(R))
    <3>1. <<BodyStart, Statement(1)>> \in Templates(R) /\ <<Statement(1), BodyEnd>> \in Templates(R)
      BY DEF Templates
    <3> QED BY <3>1, EndsHave
  <2> QED BY <1>9, <2>1 DEF BodyStart, BodyEnd, NodesOf
<1> QED BY <1>7, <1>8, <1>10, <1>11, <1>12, <1>13

(* From the start every node, and from every node the end.                 *)
LeadsEverywhere(V, A) ==
  \A U \in SUBSET V : BodyStart \in U /\ (\A e \in A : e[1] \in U => e[2] \in U) => V \subseteq U
ComesFromEverywhere(V, A) ==
  \A U \in SUBSET V : BodyEnd \in U /\ (\A e \in A : e[2] \in U => e[1] \in U) => V \subseteq U

(* A reduction keeps every node on the way from the start and on the way   *)
(* to the end.                                                             *)
LEMMA NothingIsLost ==
  ASSUME program \in Programs, NEW R, IsTree(R), NEW s \in Statements, s \notin R, IsReducible(s),
         nodes = NodesOf(R), adj_list = EdgesOf(R), Statement(s) \in nodes
  PROVE  /\ LeadsEverywhere(nodes, adj_list) =>
              LeadsEverywhere(NodesOf(R \cup {s}), EdgesOf(R \cup {s}))
         /\ ComesFromEverywhere(nodes, adj_list) =>
              ComesFromEverywhere(NodesOf(R \cup {s}), EdgesOf(R \cup {s}))
<1> DEFINE n == Statement(s)
           Q == R \cup {s}
           T == TemplateEdges(s)
<1>1. EdgesOf(Q) = Splice(s) /\ NodesOf(Q) = (nodes \ {n}) \cup Ends(T)
  BY ReductionExtends
<1>2. n \notin NodesOf(Q)
  BY DEF NodesOf, IsIn, IsStatement, Statement
<1>3. BodyStart \in nodes /\ BodyEnd \in nodes /\ adj_list \subseteq nodes \X nodes
  BY GraphIsFinite
<1>4. T \subseteq EdgesOf(Q) /\ T \subseteq AllNodes \X AllNodes
  BY <1>1, TemplatesHaveShape DEF Splice, TemplateShape
<1>5. \A f \in adj_list : /\ f[1] = n => <<<<"End", s>>, f[2]>> \in EdgesOf(Q)
                          /\ f[2] = n => <<f[1], <<"Start", s>>>> \in EdgesOf(Q)
                          /\ f[1] # n /\ f[2] # n => f \in EdgesOf(Q)
  <2>1. \A f \in adj_list : f[1] = n => f[2] \in raw_successors(n)
    BY DEF raw_successors
  <2>2. \A f \in adj_list : f[2] = n => f[1] \in raw_predecessors(n)
    BY DEF raw_predecessors
  <2> QED BY <1>1, <2>1, <2>2 DEF Splice
<1>6. <<"Start", s>> \in Ends(T) /\ <<"End", s>> \in Ends(T)
  BY TemplatesHaveShape DEF TemplateShape
<1>7. \A i \in Places(s) : <<ChildAt(s, i), Follow(s, i)>> \in T
  BY TemplatesHaveShape DEF TemplateShape
<1> HIDE DEF n, Q, T
<1>8. ASSUME LeadsEverywhere(nodes, adj_list), NEW W \in SUBSET NodesOf(Q), BodyStart \in W,
             \A e \in EdgesOf(Q) : e[1] \in W => e[2] \in W
      PROVE  NodesOf(Q) \subseteq W
  <2> DEFINE U == (W \cap nodes) \cup {m \in {n} : <<"Start", s>> \in W}
  <2>1. <<"Start", s>> \in W => Ends(T) \subseteq W
    <3>1. \A e \in T : e[1] \in W => e[2] \in W
      BY <1>4, <1>8
    <3> QED BY <3>1, TemplateGoesForward DEF T
  <2>2. U \in SUBSET nodes /\ BodyStart \in U
    BY <1>3, <1>8 DEF n
  <2>3. ASSUME NEW f \in adj_list, f[1] \in U PROVE f[2] \in U
    <3>1. f[2] \in nodes
      BY <1>3
    <3>2. CASE f[1] = n
      <4>1. <<"End", s>> \in W
        BY <1>2, <1>6, <1>8, <2>1, <2>3, <3>2
      <4>2. f[2] \in W
        BY <1>5, <1>8, <3>2, <4>1
      <4> QED BY <3>1, <4>2
    <3>3. CASE f[1] # n /\ f[2] = n
      <4>1. f[1] \in W
        BY <2>3, <3>3
      <4>2. <<"Start", s>> \in W
        BY <1>5, <1>8, <3>3, <4>1
      <4> QED BY <3>3, <4>2
    <3>4. CASE f[1] # n /\ f[2] # n
      <4>1. f[1] \in W /\ f \in EdgesOf(Q)
        BY <1>5, <2>3, <3>4
      <4> QED BY <1>8, <3>1, <4>1
    <3> QED BY <3>2, <3>3, <3>4
  <2>4. nodes \subseteq U
    BY <1>8, <2>2, <2>3 DEF LeadsEverywhere
  <2>5. <<"Start", s>> \in W
    BY <1>2, <1>8, <2>4 DEF n
  <2>6. \A m \in nodes : m # n => m \in W
    BY <2>4
  <2> QED BY <1>1, <2>1, <2>5, <2>6
<1>9. ASSUME ComesFromEverywhere(nodes, adj_list), NEW W \in SUBSET NodesOf(Q), BodyEnd \in W,
             \A e \in EdgesOf(Q) : e[2] \in W => e[1] \in W
      PROVE  NodesOf(Q) \subseteq W
  <2> DEFINE U == (W \cap nodes) \cup {m \in {n} : <<"End", s>> \in W}
  <2>1. <<"End", s>> \in W => Ends(T) \subseteq W
    <3>1. \A e \in T : e[2] \in W => e[1] \in W
      BY <1>4, <1>9
    <3>2. \A i \in Places(s) : Follow(s, i) \in W => ChildAt(s, i) \in W
      BY <1>7, <3>1
    <3> QED BY <3>1, <3>2, TemplateGoesBackward DEF T
  <2>2. U \in SUBSET nodes /\ BodyEnd \in U
    BY <1>3, <1>9 DEF n
  <2>3. ASSUME NEW f \in adj_list, f[2] \in U PROVE f[1] \in U
    <3>1. f[1] \in nodes
      BY <1>3
    <3>2. CASE f[2] = n
      <4>1. <<"Start", s>> \in W
        BY <1>2, <1>6, <1>9, <2>1, <2>3, <3>2
      <4>2. f[1] \in W
        BY <1>5, <1>9, <3>2, <4>1
      <4> QED BY <3>1, <4>2
    <3>3. CASE f[2] # n /\ f[1] = n
      <4>1. f[2] \in W
        BY <2>3, <3>3
      <4>2. <<"End", s>> \in W
        BY <1>5, <1>9, <3>3, <4>1
      <4> QED BY <3>3, <4>2
    <3>4. CASE f[1] # n /\ f[2] # n
      <4>1. f[2] \in W /\ f \in EdgesOf(Q)
        BY <1>5, <2>3, <3>4
      <4> QED BY <1>9, <3>1, <4>1
    <3> QED BY <3>2, <3>3, <3>4
  <2>4. nodes \subseteq U
    BY <1>9, <2>2, <2>3 DEF ComesFromEverywhere
  <2>5. <<"End", s>> \in W
    BY <1>2, <1>9, <2>4 DEF n
  <2>6. \A m \in nodes : m # n => m \in W
    BY <2>4
  <2> QED BY <1>1, <2>1, <2>5, <2>6
<1> QED BY <1>8, <1>9 DEF LeadsEverywhere, ComesFromEverywhere, Q

-------------------------------------------------------------------------------
(* The statements reduced, those that wait, and the lookups.               *)
QueueIsWaiting ==
  /\ reduction_queue \in Seq(Statements)
  /\ AllDiffer(reduction_queue)
  /\ \A s \in Statements : Has(reduction_queue, s) <=> IsReducible(s) /\ Statement(s) \in nodes

PairsOf(R) == {<<BodyStart, BodyEnd>>} \cup UNION {{Pair(s, part) : part \in PairedParts(s)} : s \in R}
StartCondsOf(R) == {<<<<"Start", s>>, <<"StartCond", s>>>> : s \in {r \in R : kind[r] \in Loops}}
CondStartsOf(R) == {<<<<"EndCond", s>>, <<"Start", s>>>> : s \in {r \in R : kind[r] \in {"while", "doWhile"}}}
StartExpsOf(R) == {<<<<"Start", s>>, <<"StartExp", s>>>> : s \in {r \in R : kind[r] = "for"}}
ExpStartsOf(R) == {<<<<"EndExp", s>>, <<"Start", s>>>> : s \in {r \in R : kind[r] = "for"}}
LookupsOf(R) ==
  /\ start_end_pairs = PairsOf(R)
  /\ start_cond_pairs = StartCondsOf(R) /\ cond_start_pairs = CondStartsOf(R)
  /\ start_loop_expr = StartExpsOf(R) /\ loop_expr_start = ExpStartsOf(R)

GraphOf(R) ==
  /\ IsTree(R)
  /\ nodes = NodesOf(R) /\ adj_list = EdgesOf(R)
  /\ LookupsOf(R)
GraphIsTheTemplates ==
  /\ \E R \in SUBSET Statements : GraphOf(R)
  /\ QueueIsWaiting
  /\ LeadsEverywhere(nodes, adj_list) /\ ComesFromEverywhere(nodes, adj_list)

(* What calibrate connects a jump to: the body's end, or the end of the    *)
(* innermost loop around it, or what follows that loop's body.             *)
JumpNode(j) ==
  LET loop == LoopOf(j[2])
  IN  IF kind[j[2]] = "return" \/ loop = 0 THEN BodyEnd
      ELSE IF kind[j[2]] = "break" THEN <<"End", loop>> ELSE AfterBody(loop)

(* In the end: the same templates, with the edges of jumps replaced.       *)
JumpEdgesOf(R) == {<<j, JumpNode(j)>> : j \in {n \in NodesOf(R) : IsJump(n)}}
GraphWithJumps(R) ==
  /\ IsTree(R) /\ nodes = NodesOf(R)
  /\ adj_list = {e \in EdgesOf(R) : ~IsJump(e[1])} \cup JumpEdgesOf(R)
JumpsAreConnected ==
  /\ \E R \in SUBSET Statements : GraphWithJumps(R)
  /\ QueueIsWaiting /\ reduction_queue = <<>>
  /\ ComesFromEverywhere(nodes, adj_list)

IsGraph ==
  /\ IsFiniteSet(nodes) /\ BodyStart \in nodes /\ BodyEnd \in nodes
  /\ adj_list \subseteq nodes \X nodes

ReductionInv ==
  /\ program \in Programs /\ phase \in {"reduce", "done"}
  /\ phase = "reduce" => GraphIsTheTemplates
  /\ phase = "done" => IsGraph /\ JumpsAreConnected

(* The body stays, and with it all that is said of it.                     *)
LEMMA TemplatesStay ==
  ASSUME program' = program
  PROVE  \A s : TemplateEdges(s)' = TemplateEdges(s)
<1>1. kind' = kind /\ children' = children /\ header' = header
  BY DEF kind, children, header
<1>2. \A s : BlockEdges(s)' = BlockEdges(s)
  BY <1>1 DEF BlockEdges, Path, Roles, Statement
<1>3. \A s : IfEdges(s)' = IfEdges(s)
  BY <1>1 DEF IfEdges, Path, Roles, Statement, Child
<1>4. \A s : WhileEdges(s)' = WhileEdges(s)
  BY <1>1 DEF WhileEdges, Path, Roles, Statement, Child
<1>5. \A s : ForEdges(s)' = ForEdges(s)
  BY <1>1 DEF ForEdges, Path, Roles, Statement, Child, Optional
<1>6. \A s : DoWhileEdges(s)' = DoWhileEdges(s)
  BY <1>1 DEF DoWhileEdges, Path, Roles, Statement, Child
<1> QED BY <1>1, <1>2, <1>3, <1>4, <1>5, <1>6 DEF TemplateEdges, Pair

(* With the body the graph that the templates of a set of statements       *)
(* make stays, and so do the lookups.                                      *)
LEMMA GraphsStay ==
  ASSUME program' = program
  PROVE  /\ Statements' = Statements
         /\ \A R : /\ NodesOf(R)' = NodesOf(R) /\ EdgesOf(R)' = EdgesOf(R)
                   /\ IsTree(R)' <=> IsTree(R)
                   /\ PairsOf(R)' = PairsOf(R)
                   /\ StartCondsOf(R)' = StartCondsOf(R) /\ CondStartsOf(R)' = CondStartsOf(R)
                   /\ StartExpsOf(R)' = StartExpsOf(R) /\ ExpStartsOf(R)' = ExpStartsOf(R)
                   /\ JumpEdgesOf(R)' = JumpEdgesOf(R)
<1>1. kind' = kind /\ children' = children
  BY DEF kind, children
<1>2. \A R : Templates(R)' = Templates(R)
  BY TemplatesStay DEF Templates, BodyStart, BodyEnd, Statement
<1>3. \A R, n : Leaves(R, n)' = Leaves(R, n) /\ Enters(R, n)' = Enters(R, n) /\ (IsIn(R, n)' <=> IsIn(R, n))
  BY DEF Leaves, Enters, IsIn, IsStatement
<1>4. \A R : NodesOf(R)' = NodesOf(R)
  BY <1>2, <1>3 DEF NodesOf, Ends
<1>5. \A R : EdgesOf(R)' = EdgesOf(R)
  BY <1>2, <1>3 DEF EdgesOf
<1>6. \A R : IsTree(R)' <=> IsTree(R)
  BY <1>1 DEF IsTree, IsReducible, Places, Statements
<1>7. \A R : PairsOf(R)' = PairsOf(R)
  <2>1. \A s : PairedParts(s)' = PairedParts(s)
    BY <1>1 DEF PairedParts
  <2>2. \A s, part : Pair(s, part)' = Pair(s, part)
    BY DEF Pair
  <2> QED BY <2>1, <2>2 DEF PairsOf, BodyStart, BodyEnd
<1>8. \A R : /\ StartCondsOf(R)' = StartCondsOf(R) /\ CondStartsOf(R)' = CondStartsOf(R)
             /\ StartExpsOf(R)' = StartExpsOf(R) /\ ExpStartsOf(R)' = ExpStartsOf(R)
  BY <1>1 DEF StartCondsOf, CondStartsOf, StartExpsOf, ExpStartsOf
<1>9. \A R : JumpEdgesOf(R)' = JumpEdgesOf(R)
  <2>1. ASSUME NEW s PROVE LoopOf(s)' = LoopOf(s)
    BY DEF LoopOf, ParentOf, kind, children, Statements
  <2>2. ASSUME NEW j PROVE JumpNode(j)' = JumpNode(j) /\ (IsJump(j)' <=> IsJump(j))
    <3>1. \A s : AfterBody(s)' = AfterBody(s)
      BY <1>1 DEF AfterBody
    <3> QED BY <1>1, <2>1, <3>1 DEF JumpNode, IsJump, BodyEnd
  <2> QED BY <1>4, <2>2 DEF JumpEdgesOf
<1> QED BY <1>1, <1>4, <1>5, <1>6, <1>7, <1>8, <1>9 DEF Statements

(* A queue whose head is replaced by new elements at its end.              *)
LEMMA QueueTurns ==
  ASSUME NEW S, NEW q \in Seq(S), q # <<>>, NEW r \in Seq(S), AllDiffer(q), AllDiffer(r),
         \A x : Has(r, x) => ~Has(q, x),
         NEW p, p = Tail(q) \o r
  PROVE  /\ p \in Seq(S) /\ Head(q) \in S /\ Has(q, Head(q))
         /\ AllDiffer(p)
         /\ \A x : Has(p, x) <=> (x # Head(q) /\ Has(q, x)) \/ Has(r, x)
<1> DEFINE n == Len(q) - 1
<1>1. /\ Len(q) \in Nat /\ n \in Nat /\ Len(r) \in Nat /\ Len(q) = n + 1
      /\ Head(q) = q[1] /\ 1 \in 1 .. Len(q)
  OBVIOUS
<1>2. Tail(q) \in Seq(S) /\ Len(Tail(q)) = n /\ \A i \in 1 .. n : Tail(q)[i] = q[i + 1]
  OBVIOUS
<1>3. p \in Seq(S) /\ Len(p) = n + Len(r)
  BY <1>2
<1>4. \A i \in 1 .. n : p[i] = q[i + 1] /\ i + 1 \in 1 .. Len(q) /\ i \in 1 .. Len(p)
  BY <1>1, <1>2
<1>5. \A i \in 1 .. Len(p) : i > n => p[i] = r[i - n] /\ i - n \in 1 .. Len(r)
  BY <1>1, <1>2
<1>6. \A i \in 1 .. Len(r) : i + n \in 1 .. Len(p) /\ i + n > n /\ (i + n) - n = i
  BY <1>1, <1>3
<1>7. \A i \in 1 .. Len(p) : i \in 1 .. n \/ (i > n /\ i \in Nat)
  BY <1>1, <1>3
<1>0. \A i \in 1 .. Len(q), j \in 1 .. Len(r) : q[i] # r[j]
  BY DEF Has
<1>8. \A i \in 2 .. Len(q) : i - 1 \in 1 .. n /\ (i - 1) + 1 = i
  BY <1>1
<1> HIDE DEF n
<1>9. ASSUME NEW i \in 1 .. Len(p), NEW j \in 1 .. Len(p), p[i] = p[j] PROVE i = j
  <2>1. CASE i \in 1 .. n /\ j \in 1 .. n
    <3>1. i + 1 = j + 1
      BY <1>4, <1>9, <2>1 DEF AllDiffer
    <3> QED BY <2>1, <3>1
  <2>2. CASE i > n /\ j > n /\ i \in Nat /\ j \in Nat
    <3>1. i - n = j - n
      BY <1>5, <1>9, <2>2 DEF AllDiffer
    <3> QED BY <1>1, <2>2, <3>1
  <2>3. CASE i \in 1 .. n /\ j > n
    BY <1>0, <1>4, <1>5, <1>9, <2>3
  <2>4. CASE j \in 1 .. n /\ i > n
    BY <1>0, <1>4, <1>5, <1>9, <2>4
  <2> QED BY <1>7, <2>1, <2>2, <2>3, <2>4
<1>10. ASSUME NEW i \in 1 .. Len(p)
       PROVE  (p[i] # Head(q) /\ Has(q, p[i])) \/ Has(r, p[i])
  <2>1. CASE i \in 1 .. n
    <3>1. p[i] = q[i + 1] /\ i + 1 \in 1 .. Len(q) /\ i + 1 # 1
      BY <1>4, <2>1
    <3>2. q[i + 1] # q[1]
      BY <1>1, <3>1 DEF AllDiffer
    <3> QED BY <1>1, <3>1, <3>2 DEF Has
  <2>2. CASE i > n
    BY <1>5, <2>2 DEF Has
  <2> QED BY <1>7, <2>1, <2>2
<1>11. ASSUME NEW k \in 1 .. Len(q), q[k] # Head(q) PROVE Has(p, q[k])
  <2>1. k \in 2 .. Len(q)
    BY <1>1, <1>11
  <2>2. p[k - 1] = q[(k - 1) + 1] /\ k - 1 \in 1 .. Len(p)
    BY <1>4, <1>8, <2>1
  <2> QED BY <1>8, <2>1, <2>2 DEF Has
<1>12. ASSUME NEW k \in 1 .. Len(r) PROVE Has(p, r[k])
  <2>1. p[k + n] = r[(k + n) - n] /\ k + n \in 1 .. Len(p)
    BY <1>5, <1>6
  <2> QED BY <1>6, <2>1 DEF Has
<1>13. \A x : Has(p, x) <=> (x # Head(q) /\ Has(q, x)) \/ Has(r, x)
  <2>1. ASSUME NEW x, Has(p, x) PROVE (x # Head(q) /\ Has(q, x)) \/ Has(r, x)
    <3>1. PICK i \in 1 .. Len(p) : p[i] = x
      BY <2>1 DEF Has
    <3> QED BY <1>10, <3>1
  <2>2. ASSUME NEW x, x # Head(q), Has(q, x) PROVE Has(p, x)
    <3>1. PICK k \in 1 .. Len(q) : q[k] = x
      BY <2>2 DEF Has
    <3> QED BY <1>11, <2>2, <3>1
  <2>3. ASSUME NEW x, Has(r, x) PROVE Has(p, x)
    <3>1. PICK k \in 1 .. Len(r) : r[k] = x
      BY <2>3 DEF Has
    <3> QED BY <1>12, <3>1
  <2> QED BY <2>1, <2>2, <2>3
<1>14. AllDiffer(p)
  BY <1>9 DEF AllDiffer
<1>15. Head(q) \in S /\ Has(q, Head(q))
  BY <1>1 DEF Has
<1> QED BY <1>3, <1>13, <1>14, <1>15

(* The ends of two edges, one after the other.                             *)
LEMMA EndsOfTwo ==
  ASSUME NEW edges, NEW a, NEW b, NEW c, <<a, b>> \in edges, <<b, c>> \in edges,
         \A e \in edges : e[1] \in {a, b, c} /\ e[2] \in {a, b, c}
  PROVE  Ends(edges) = {a, b, c}
<1>1. a \in Ends(edges) /\ b \in Ends(edges) /\ c \in Ends(edges)
  BY EndsHave
<1> QED BY <1>1 DEF Ends

(* A body before any reduction.                                            *)
LEMMA InitIsTheTemplates == Init => ReductionInv
<1> SUFFICES ASSUME Init PROVE ReductionInv
  OBVIOUS
<1>1. program \in Programs /\ phase = "reduce"
  BY DEF Init
<1>2. IsProgram(program)
  BY <1>1, ProgramsAssumption
<1>3. 1 \in Statements /\ kind[1] = "block" /\ 1 \in Nat
  BY <1>2 DEF IsProgram, Statements, kind
<1>4. Templates({}) = {<<BodyStart, Statement(1)>>, <<Statement(1), BodyEnd>>}
  BY DEF Templates
<1>5. nodes = {BodyStart, BodyEnd, Statement(1)}
  BY DEF Init
<1>6. adj_list = {<<BodyStart, Statement(1)>>, <<Statement(1), BodyEnd>>}
  BY DEF Init, Path
<1>8. \A n : ~IsIn({}, n) /\ Enters({}, n) = n /\ Leaves({}, n) = n
  BY DEF IsIn, Enters, Leaves
<1>9. Ends(Templates({})) = {BodyStart, BodyEnd, Statement(1)}
  <2>1. /\ <<BodyStart, Statement(1)>> \in Templates({}) /\ <<Statement(1), BodyEnd>> \in Templates({})
        /\ \A e \in Templates({}) : /\ e[1] \in {BodyStart, Statement(1), BodyEnd}
                                    /\ e[2] \in {BodyStart, Statement(1), BodyEnd}
    BY <1>4
  <2>2. Ends(Templates({})) = {BodyStart, Statement(1), BodyEnd}
    BY <2>1, EndsOfTwo
  <2> QED BY <2>2
<1>10. nodes = NodesOf({}) /\ adj_list = EdgesOf({})
  BY <1>4, <1>5, <1>6, <1>8, <1>9 DEF NodesOf, EdgesOf
<1>11. IsTree({}) /\ LookupsOf({})
  BY DEF IsTree, LookupsOf, PairsOf, StartCondsOf, CondStartsOf, StartExpsOf, ExpStartsOf, Init
<1>12. QueueIsWaiting
  <2>1. reduction_queue = <<1>> /\ reduction_queue \in Seq(Statements)
    BY <1>3 DEF Init
  <2>2. AllDiffer(reduction_queue) /\ \A s : Has(reduction_queue, s) <=> s = 1
    BY <2>1 DEF AllDiffer, Has
  <2>3. \A s : Statement(s) \in nodes <=> s = 1
    BY <1>5 DEF BodyStart, BodyEnd, Statement
  <2> QED BY <1>3, <2>1, <2>2, <2>3 DEF QueueIsWaiting, IsReducible, Reducible
<1>13. LeadsEverywhere(nodes, adj_list) /\ ComesFromEverywhere(nodes, adj_list)
  BY <1>5, <1>6 DEF LeadsEverywhere, ComesFromEverywhere
<1> QED BY <1>1, <1>10, <1>11, <1>12, <1>13 DEF ReductionInv, GraphIsTheTemplates, GraphOf

(* A reduction.                                                            *)
LEMMA ReduceKeepsTheTemplates ==
  ASSUME ReductionInv, Reduce PROVE ReductionInv'
<1> DEFINE s == Head(reduction_queue)
           T == TemplateEdges(s)
<1>1. program \in Programs /\ phase = "reduce" /\ GraphIsTheTemplates /\ program' = program /\ phase' = phase
  BY DEF ReductionInv, Reduce
<1>2. QueueIsWaiting /\ reduction_queue # <<>>
  BY <1>1 DEF GraphIsTheTemplates, Reduce
<1>3. s \in Statements /\ Has(reduction_queue, s)
  <2>1. s = reduction_queue[1] /\ 1 \in 1 .. Len(reduction_queue) /\ s \in Statements
    BY <1>2 DEF QueueIsWaiting
  <2> QED BY <2>1 DEF Has
<1>4. IsReducible(s) /\ Statement(s) \in nodes
  BY <1>2, <1>3 DEF QueueIsWaiting
<1>0. PICK R \in SUBSET Statements : GraphOf(R)
  BY <1>1 DEF GraphIsTheTemplates
<1>5. nodes = NodesOf(R) /\ adj_list = EdgesOf(R) /\ IsTree(R) /\ LookupsOf(R)
  BY <1>0 DEF GraphOf
<1>10. PICK Q \in SUBSET Statements : Q = R \cup {s}
  BY <1>3
<1>6. s \notin R
  BY <1>4, <1>5 DEF NodesOf, IsIn, IsStatement, Statement
<1>7. nodes' = NodesOf(Q) /\ adj_list' = EdgesOf(Q)
  <2>1. Splice(s) = EdgesOf(Q) /\ (nodes \ {Statement(s)}) \cup Ends(T) = NodesOf(Q)
    BY <1>1, <1>3, <1>4, <1>5, <1>6, <1>10, ReductionExtends
  <2>2. nodes' = (nodes \ {Statement(s)}) \cup {e[1] : e \in T} \cup {e[2] : e \in T}
    BY DEF Reduce
  <2>3. (nodes \ {Statement(s)}) \cup {e[1] : e \in T} \cup {e[2] : e \in T} = (nodes \ {Statement(s)}) \cup Ends(T)
    BY DEF Ends
  <2>4. adj_list' = Splice(s)
    BY DEF Reduce
  <2> QED BY <2>1, <2>2, <2>3, <2>4
<1>8. TemplateShape(s)
  BY <1>1, <1>3, <1>4, TemplatesHaveShape
<1>9. nodes' = (nodes \ {Statement(s)}) \cup Ends(T)
  BY DEF Reduce, Ends
<1>11. \A n \in nodes : IsStatement(n) => n = Statement(1) \/ \E r \in R : \E i \in Places(r) : n = ChildAt(r, i)
  <2> SUFFICES ASSUME NEW n \in nodes, IsStatement(n)
               PROVE  n = Statement(1) \/ \E r \in R : \E i \in Places(r) : n = ChildAt(r, i)
    OBVIOUS
  <2>1. PICK e \in Templates(R) : n = e[1] \/ n = e[2]
    BY <1>5 DEF NodesOf, Ends
  <2>2. CASE e \in {<<BodyStart, Statement(1)>>, <<Statement(1), BodyEnd>>}
    BY <2>1, <2>2 DEF BodyStart, BodyEnd, Statement, IsStatement
  <2>3. CASE \E r \in R : e \in TemplateEdges(r)
    <3>1. PICK r \in R : e \in TemplateEdges(r)
      BY <2>3
    <3>2. n \in Ends(TemplateEdges(r))
      BY <2>1, <3>1 DEF Ends
    <3>3. TemplateShape(r)
      BY <1>1, <1>5, TemplatesHaveShape DEF IsTree
    <3> QED BY <3>2, <3>3 DEF TemplateShape
  <2> QED BY <2>1, <2>2, <2>3 DEF Templates
<1>12. IsTree(Q)
  <2>1. s = 1 \/ \E r \in R : \E i \in Places(r) : children[r][i] = s
    BY <1>4, <1>11 DEF IsStatement, Statement, ChildAt
  <2> QED BY <1>3, <1>4, <1>5, <1>10, <2>1 DEF IsTree
<1> USE DEF Places
<1>13. QueueIsWaiting'
  <2> DEFINE q == reduction_queue
             r == ReducibleChildren(s)
  <2>1. /\ r \in Seq(Statements) /\ AllDiffer(r)
        /\ \A t : Has(r, t) <=> (\E i \in Places(s) : children[s][i] = t /\ IsReducible(t))
    BY <1>1, <1>3, QueuedAre
  <2>2. q \in Seq(Statements) /\ q # <<>> /\ AllDiffer(q)
    BY <1>2 DEF QueueIsWaiting
  <2>3. \A i \in Places(s) : children[s][i] \in Statements /\ children[s][i] > s /\ s \in Nat \ {0}
    BY <1>1, <1>3, StatementsAre
  <2>4. ASSUME NEW i \in Places(s) PROVE Statement(children[s][i]) \notin nodes
    <3> SUFFICES ASSUME Statement(children[s][i]) \in nodes PROVE FALSE
      OBVIOUS
    <3>1. IsStatement(Statement(children[s][i])) /\ \A t, u : Statement(t) = Statement(u) => t = u
      BY DEF IsStatement, Statement
    <3>2. CASE Statement(children[s][i]) = Statement(1)
      <4>1. children[s][i] = 1
        BY <3>1, <3>2
      <4> QED BY <2>3, <4>1
    <3>3. CASE \E p \in R : \E j \in Places(p) : Statement(children[s][i]) = ChildAt(p, j)
      <4>1. PICK p \in R : \E j \in Places(p) : children[s][i] = children[p][j]
        BY <3>1, <3>3 DEF ChildAt
      <4>2. p \in Statements
        BY <1>5 DEF IsTree
      <4>3. p = s
        BY <1>1, <1>3, <4>1, <4>2, ChildrenDiffer
      <4> QED BY <1>6, <4>3
    <3> QED BY <1>11, <3>1, <3>2, <3>3
  <2>5. \A t : Has(r, t) => ~Has(q, t)
    BY <1>2, <2>1, <2>3, <2>4 DEF QueueIsWaiting
  <2>6. reduction_queue' = Tail(q) \o r
    BY DEF Reduce
  <2> HIDE DEF q, r
  <2>7. /\ reduction_queue' \in Seq(Statements) /\ AllDiffer(reduction_queue')
        /\ \A x : Has(reduction_queue', x) <=> (x # Head(q) /\ Has(q, x)) \/ Has(r, x)
    BY <2>1, <2>2, <2>5, <2>6, QueueTurns
  <2>8. ASSUME NEW t \in Statements PROVE Has(reduction_queue', t) <=> IsReducible(t) /\ Statement(t) \in nodes'
    <3>1. Statement(t) \in Ends(T) <=> \E i \in Places(s) : children[s][i] = t
      <4>1. IsStatement(Statement(t)) /\ \A u : Statement(t) = Statement(u) <=> t = u
        BY DEF IsStatement, Statement
      <4>2. Statement(t) \in Ends(T) <=> \E i \in Places(s) : Statement(t) = ChildAt(s, i)
        BY <1>8, <4>1 DEF TemplateShape
      <4> QED BY <4>1, <4>2 DEF ChildAt
    <3>2. Statement(t) \in nodes' <=> (t # s /\ Statement(t) \in nodes) \/ \E i \in Places(s) : children[s][i] = t
      <4>1. Statement(t) = Statement(s) <=> t = s
        BY DEF Statement
      <4> QED BY <1>9, <2>3, <3>1, <4>1
    <3>3. Has(q, t) <=> IsReducible(t) /\ Statement(t) \in nodes
      BY <1>2 DEF QueueIsWaiting, q
    <3>4. Has(r, t) <=> IsReducible(t) /\ \E i \in Places(s) : children[s][i] = t
      BY <2>1
    <3> QED BY <2>7, <3>2, <3>3, <3>4 DEF q
  <2>9. Statements' = Statements /\ \A t : (IsReducible(t)' <=> IsReducible(t)) /\ Statement(t)' = Statement(t)
    BY <1>1 DEF Statements, IsReducible, kind, Statement
  <2> QED BY <2>7, <2>8, <2>9 DEF QueueIsWaiting, Has, AllDiffer
<1>14. GraphOf(Q)'
  <2>1. start_end_pairs' = PairsOf(Q)
    BY <1>5, <1>10 DEF Reduce, LookupsOf, PairsOf
  <2>2. start_cond_pairs' = StartCondsOf(Q) /\ cond_start_pairs' = CondStartsOf(Q)
    BY <1>5, <1>10 DEF Reduce, LookupsOf, StartCondsOf, CondStartsOf
  <2>3. start_loop_expr' = StartExpsOf(Q) /\ loop_expr_start' = ExpStartsOf(Q)
    BY <1>5, <1>10 DEF Reduce, LookupsOf, StartExpsOf, ExpStartsOf
  <2> QED BY <1>1, <1>7, <1>12, <2>1, <2>2, <2>3, GraphsStay DEF GraphOf, LookupsOf
<1>15. LeadsEverywhere(nodes', adj_list') /\ ComesFromEverywhere(nodes', adj_list')
  <2>1. LeadsEverywhere(nodes, adj_list) /\ ComesFromEverywhere(nodes, adj_list)
    BY <1>1 DEF GraphIsTheTemplates
  <2> QED BY <1>1, <1>3, <1>4, <1>5, <1>6, <1>7, <1>10, <2>1, NothingIsLost
<1>16. LeadsEverywhere(nodes, adj_list)' /\ ComesFromEverywhere(nodes, adj_list)'
  BY <1>15 DEF LeadsEverywhere, ComesFromEverywhere, BodyStart, BodyEnd
<1>17. Statements' = Statements
  BY <1>1, GraphsStay
<1> QED BY <1>1, <1>13, <1>14, <1>16, <1>17 DEF ReductionInv, GraphIsTheTemplates

-------------------------------------------------------------------------------
(* What the searches along and against the edges meet.                     *)
LEMMA TemplatesMakeAGraph ==
  ASSUME program \in Programs, NEW R, GraphOf(R)
  PROVE  IsGraph
BY GraphIsFinite DEF GraphOf, IsGraph

(* The searches along and against the edges meet every node.               *)
LEMMA EverythingIsReached ==
  ASSUME IsGraph
  PROVE  /\ LeadsEverywhere(nodes, adj_list) => Reach({BodyStart}, successors) = nodes
         /\ ComesFromEverywhere(nodes, adj_list) =>
              Reach({BodyEnd}, [n \in nodes |-> raw_predecessors(n)]) = nodes
<1>1. /\ IsFiniteSet(nodes) /\ {BodyStart} \in SUBSET nodes /\ {BodyEnd} \in SUBSET nodes
      /\ \A e \in adj_list : e[1] \in nodes /\ e[2] \in nodes
  BY DEF IsGraph
<1>2. successors \in [nodes -> SUBSET nodes]
  BY <1>1 DEF successors, raw_successors
<1>3. [n \in nodes |-> raw_predecessors(n)] \in [nodes -> SUBSET nodes]
  BY <1>1 DEF raw_predecessors
<1>4. ASSUME LeadsEverywhere(nodes, adj_list) PROVE Reach({BodyStart}, successors) = nodes
  <2> DEFINE U == Reach({BodyStart}, successors)
  <2>1. /\ U \in SUBSET nodes /\ BodyStart \in U
        /\ \A n \in U : successors[n] \subseteq U
    BY <1>1, <1>2, ReachIsLeast
  <2> HIDE DEF U
  <2>2. \A e \in adj_list : e[1] \in U => e[2] \in U
    <3>1. \A e \in adj_list : e[2] \in successors[e[1]]
      BY <1>1 DEF successors, raw_successors
    <3> QED BY <2>1, <3>1
  <2> QED BY <1>4, <2>1, <2>2 DEF LeadsEverywhere, U
<1>5. ASSUME ComesFromEverywhere(nodes, adj_list)
      PROVE  Reach({BodyEnd}, [n \in nodes |-> raw_predecessors(n)]) = nodes
  <2> DEFINE before == [n \in nodes |-> raw_predecessors(n)]
             U == Reach({BodyEnd}, before)
  <2>1. /\ U \in SUBSET nodes /\ BodyEnd \in U
        /\ \A n \in U : before[n] \subseteq U
    <3> HIDE DEF before
    <3> QED BY <1>1, <1>3, ReachIsLeast DEF before
  <2> HIDE DEF U
  <2>2. \A e \in adj_list : e[2] \in U => e[1] \in U
    <3>1. \A e \in adj_list : e[1] \in before[e[2]]
      BY <1>1 DEF raw_predecessors
    <3> QED BY <2>1, <3>1
  <2> QED BY <1>5, <2>1, <2>2 DEF ComesFromEverywhere, U
<1> QED BY <1>4, <1>5

(* Where the edges go from the end of a statement, reduced or not, from    *)
(* the branches of an if and from the body of a loop.                      *)
LEMMA EdgesLeave ==
  ASSUME program \in Programs, NEW R, GraphOf(R)
  PROVE  /\ \A p \in R : \A i \in Places(p) :
              /\ raw_successors(Leaves(R, ChildAt(p, i))) = {Enters(R, Follow(p, i))}
              /\ <<Leaves(R, ChildAt(p, i)), Enters(R, Follow(p, i))>> \in adj_list
         /\ raw_successors(Leaves(R, Statement(1))) = {BodyEnd}
         /\ <<Leaves(R, Statement(1)), BodyEnd>> \in adj_list
         /\ <<BodyStart, Enters(R, Statement(1))>> \in adj_list
         /\ raw_successors(BodyEnd) = {}
         /\ \A p \in R : /\ kind[p] = "if" => /\ raw_successors(<<"EndTrue", p>>) = {<<"End", p>>}
                                             /\ raw_successors(<<"EndFalse", p>>) = {<<"End", p>>}
                         /\ kind[p] \in Loops => raw_successors(<<"EndBody", p>>) = {AfterBody(p)}
<1>1. IsTree(R) /\ adj_list = EdgesOf(R)
  BY DEF GraphOf
<1>2. \A r \in R : TemplateShape(r) /\ r \in Statements /\ r \in Nat \ {0}
  <2>1. \A r \in R : r \in Statements /\ IsReducible(r)
    BY <1>1 DEF IsTree
  <2> QED BY <2>1, TemplatesHaveShape, StatementsAre
<1>3. /\ Templates(R) \subseteq AllNodes \X AllNodes
      /\ \A n \in AllNodes : n = <<n[1], n[2]>> /\ (IsStatement(n) => n = Statement(n[2]))
  BY <1>1, TemplatesAre
<1>4. ASSUME NEW f \in adj_list
      PROVE  \E e \in Templates(R) : f = <<Leaves(R, e[1]), Enters(R, e[2])>>
  BY <1>1 DEF EdgesOf
<1>5. \A e \in Templates(R) : <<Leaves(R, e[1]), Enters(R, e[2])>> \in adj_list
  BY <1>1 DEF EdgesOf
<1>6. ASSUME NEW e \in Templates(R), NEW r \in R, e[1] = <<"End", r>> PROVE FALSE
  <2>1. CASE e \in {<<BodyStart, Statement(1)>>, <<Statement(1), BodyEnd>>}
    BY <1>6, <2>1 DEF BodyStart, Statement
  <2>2. CASE \E s \in R : e \in TemplateEdges(s)
    <3>1. PICK s \in R : e \in TemplateEdges(s)
      BY <2>2
    <3>2. e[1] \in Ends(TemplateEdges(s)) /\ ~IsStatement(e[1]) /\ e[1][2] = r
      BY <1>6, <3>1 DEF Ends, IsStatement
    <3>3. r = s
      BY <1>2, <3>2 DEF TemplateShape
    <3> QED BY <1>2, <1>6, <3>1, <3>3 DEF TemplateShape
  <2> QED BY <2>1, <2>2 DEF Templates
<1>7. ASSUME NEW e \in Templates(R), NEW t, Leaves(R, e[1]) = Leaves(R, Statement(t))
      PROVE  e[1] = Statement(t)
  <2>1. Statement(t)[1] = "Statement" /\ Statement(t)[2] = t
    BY DEF Statement
  <2>2. e[1] \in AllNodes
    BY <1>3
  <2>3. CASE t \in R
    <3>1. Leaves(R, Statement(t)) = <<"End", t>>
      BY <2>1, <2>3 DEF Leaves, IsIn, IsStatement
    <3>2. IsIn(R, e[1])
      BY <1>6, <1>7, <2>3, <3>1 DEF Leaves
    <3>3. e[1][2] = t
      BY <1>7, <3>1, <3>2 DEF Leaves
    <3> QED BY <1>3, <2>2, <3>2, <3>3 DEF IsIn
  <2>4. CASE t \notin R
    <3>1. Leaves(R, Statement(t)) = Statement(t)
      BY <2>1, <2>4 DEF Leaves, IsIn
    <3> QED BY <1>7, <2>1, <3>1 DEF Leaves
  <2> QED BY <2>3, <2>4
<1>8. ASSUME NEW p \in R, NEW i \in Places(p), NEW e \in Templates(R), e[1] = ChildAt(p, i)
      PROVE  e[2] = Follow(p, i)
  <2>1. ChildAt(p, i) = Statement(children[p][i]) /\ children[p][i] > p /\ children[p][i] \in Nat
    BY <1>2, StatementsAre DEF ChildAt, Places, Statements
  <2>2. CASE e \in {<<BodyStart, Statement(1)>>, <<Statement(1), BodyEnd>>}
    <3>1. children[p][i] = 1
      BY <1>8, <2>1, <2>2 DEF BodyStart, Statement
    <3> QED BY <1>2, <2>1, <3>1
  <2>3. CASE \E s \in R : e \in TemplateEdges(s)
    <3>1. PICK s \in R : e \in TemplateEdges(s)
      BY <2>3
    <3>2. e[1] \in Ends(TemplateEdges(s)) /\ IsStatement(e[1])
      BY <1>8, <2>1, <3>1 DEF Ends, IsStatement, Statement
    <3>3. PICK j \in Places(s) : e[1] = ChildAt(s, j)
      BY <1>2, <3>2 DEF TemplateShape
    <3>4. children[s][j] = children[p][i]
      BY <1>8, <3>3 DEF ChildAt, Statement
    <3>5. s = p /\ j = i
      BY <1>2, <3>4, ChildrenDiffer
    <3> QED BY <1>2, <1>8, <3>1, <3>5, ChildIsFollowed
  <2> QED BY <2>2, <2>3 DEF Templates
<1>9. ASSUME NEW p \in R, NEW i \in Places(p)
      PROVE  /\ raw_successors(Leaves(R, ChildAt(p, i))) = {Enters(R, Follow(p, i))}
             /\ <<Leaves(R, ChildAt(p, i)), Enters(R, Follow(p, i))>> \in adj_list
  <2>1. \A f \in adj_list : f[1] = Leaves(R, ChildAt(p, i)) => f[2] = Enters(R, Follow(p, i))
    <3> SUFFICES ASSUME NEW f \in adj_list, f[1] = Leaves(R, ChildAt(p, i)) PROVE f[2] = Enters(R, Follow(p, i))
      OBVIOUS
    <3>1. PICK e \in Templates(R) : f = <<Leaves(R, e[1]), Enters(R, e[2])>>
      BY <1>4
    <3>2. e[1] = ChildAt(p, i)
      BY <1>7, <3>1 DEF ChildAt
    <3> QED BY <1>8, <3>1, <3>2
  <2>2. PICK e \in TemplateEdges(p) : e[1] = ChildAt(p, i) /\ e[2] = Follow(p, i)
    <3>1. <<ChildAt(p, i), Follow(p, i)>> \in TemplateEdges(p)
      BY <1>2 DEF TemplateShape
    <3> QED BY <3>1
  <2>3. <<Leaves(R, ChildAt(p, i)), Enters(R, Follow(p, i))>> \in adj_list
    BY <1>5, <2>2 DEF Templates
  <2> QED BY <2>1, <2>3 DEF raw_successors
<1>10. ASSUME NEW e \in Templates(R), e[1] = Statement(1) PROVE e[2] = BodyEnd
  <2>1. CASE e \in {<<BodyStart, Statement(1)>>, <<Statement(1), BodyEnd>>}
    BY <1>10, <2>1 DEF BodyStart, Statement
  <2>2. CASE \E s \in R : e \in TemplateEdges(s)
    <3>1. PICK s \in R : e \in TemplateEdges(s)
      BY <2>2
    <3>2. e[1] \in Ends(TemplateEdges(s)) /\ IsStatement(e[1])
      BY <1>10, <3>1 DEF Ends, IsStatement, Statement
    <3>3. PICK j \in Places(s) : e[1] = ChildAt(s, j)
      BY <1>2, <3>2 DEF TemplateShape
    <3>4. children[s][j] = 1
      BY <1>10, <3>3 DEF ChildAt, Statement
    <3>5. children[s][j] > s
      BY <1>2, StatementsAre DEF Places
    <3> QED BY <1>2, <3>4, <3>5
  <2> QED BY <2>1, <2>2 DEF Templates
<1>11. Enters(R, BodyEnd) = BodyEnd /\ Leaves(R, BodyStart) = BodyStart
  BY DEF Enters, Leaves, IsIn, IsStatement, BodyEnd, BodyStart
<1>12. raw_successors(Leaves(R, Statement(1))) = {BodyEnd} /\ <<Leaves(R, Statement(1)), BodyEnd>> \in adj_list
  <2>1. \A f \in adj_list : f[1] = Leaves(R, Statement(1)) => f[2] = BodyEnd
    <3> SUFFICES ASSUME NEW f \in adj_list, f[1] = Leaves(R, Statement(1)) PROVE f[2] = BodyEnd
      OBVIOUS
    <3>1. PICK e \in Templates(R) : f = <<Leaves(R, e[1]), Enters(R, e[2])>>
      BY <1>4
    <3>2. e[1] = Statement(1)
      BY <1>7, <3>1
    <3> QED BY <1>10, <1>11, <3>1, <3>2
  <2>2. <<Statement(1), BodyEnd>> \in Templates(R)
    BY DEF Templates
  <2>3. <<Leaves(R, Statement(1)), BodyEnd>> \in adj_list
    BY <1>5, <1>11, <2>2
  <2> QED BY <2>1, <2>3 DEF raw_successors
<1>13. <<BodyStart, Enters(R, Statement(1))>> \in adj_list
  <2>1. <<BodyStart, Statement(1)>> \in Templates(R)
    BY DEF Templates
  <2> QED BY <1>5, <1>11, <2>1
<1>14. ASSUME NEW role \in EndRoles, NEW p, NEW f \in adj_list, f[1] = <<role, p>>, role # "End" \/ p \notin Statements
       PROVE  \E e \in TemplateEdges(p) : p \in R /\ e[1] = <<role, p>> /\ f[2] = Enters(R, e[2])
  <2>1. PICK e \in Templates(R) : f = <<Leaves(R, e[1]), Enters(R, e[2])>>
    BY <1>4
  <2>2. e[1] = <<role, p>>
    <3>1. ~IsIn(R, e[1])
      <4> SUFFICES ASSUME IsIn(R, e[1]) PROVE FALSE
        OBVIOUS
      <4>1. Leaves(R, e[1]) = <<"End", e[1][2]>> /\ e[1][2] \in R
        BY DEF Leaves, IsIn
      <4> QED BY <1>2, <1>14, <2>1, <4>1
    <3> QED BY <1>14, <2>1, <3>1 DEF Leaves
  <2>3. role \notin {"Start", "Statement"}
    BY DEF EndRoles
  <2>4. PICK s \in R : e \in TemplateEdges(s)
    BY <2>2, <2>3 DEF Templates, BodyStart, Statement
  <2>5. e[1] \in Ends(TemplateEdges(s)) /\ ~IsStatement(e[1])
    BY <2>2, <2>3, <2>4 DEF Ends, IsStatement
  <2>6. s = p
    <3>1. e[1][2] = p
      BY <2>2
    <3> QED BY <1>2, <2>5, <3>1, OthersAreOfTheTemplate
  <2> QED BY <2>1, <2>2, <2>4, <2>6
<1>15. raw_successors(BodyEnd) = {}
  <2>1. ASSUME NEW f \in adj_list, f[1] = BodyEnd PROVE FALSE
    <3>1. "End" \in EndRoles /\ 0 \notin Statements /\ BodyEnd = <<"End", 0>>
      BY DEF EndRoles, Statements, BodyEnd
    <3>2. 0 \in R
      BY <1>14, <2>1, <3>1
    <3> QED BY <1>2, <3>2
  <2> QED BY <2>1 DEF raw_successors
<1>16. ASSUME NEW p \in R
       PROVE  /\ kind[p] = "if" => /\ raw_successors(<<"EndTrue", p>>) = {<<"End", p>>}
                                   /\ raw_successors(<<"EndFalse", p>>) = {<<"End", p>>}
              /\ kind[p] \in Loops => raw_successors(<<"EndBody", p>>) = {AfterBody(p)}
  <2>1. Enters(R, <<"End", p>>) = <<"End", p>> /\ Enters(R, AfterBody(p)) = AfterBody(p)
    BY DEF Enters, IsIn, IsStatement, AfterBody
  <2>2. ASSUME NEW role \in {"EndTrue", "EndFalse"}, NEW f \in adj_list, f[1] = <<role, p>> PROVE f[2] = <<"End", p>>
    <3>1. role \in EndRoles /\ role # "End"
      BY DEF EndRoles
    <3>2. PICK e \in TemplateEdges(p) : e[1] = <<role, p>> /\ f[2] = Enters(R, e[2])
      BY <1>14, <2>2, <3>1
    <3>3. e[2] = <<"End", p>>
      BY <1>2, <3>2 DEF TemplateShape
    <3> QED BY <2>1, <3>2, <3>3
  <2>3. ASSUME NEW f \in adj_list, f[1] = <<"EndBody", p>> PROVE f[2] = AfterBody(p)
    <3>1. "EndBody" \in EndRoles
      BY DEF EndRoles
    <3>2. PICK e \in TemplateEdges(p) : e[1] = <<"EndBody", p>> /\ f[2] = Enters(R, e[2])
      BY <1>14, <2>3, <3>1
    <3>3. e[2] = AfterBody(p)
      BY <1>2, <3>2 DEF TemplateShape
    <3> QED BY <2>1, <3>2, <3>3
  <2>4. ASSUME NEW role, NEW m, role # "Statement", <<<<role, p>>, m>> \in TemplateEdges(p), Enters(R, m) = m
        PROVE  <<<<role, p>>, m>> \in adj_list
    <3>1. Leaves(R, <<role, p>>) = <<role, p>>
      BY <2>4 DEF Leaves, IsIn, IsStatement
    <3>2. <<<<role, p>>, m>> \in Templates(R)
      BY <2>4 DEF Templates
    <3>3. <<Leaves(R, <<<<role, p>>, m>>[1]), Enters(R, <<<<role, p>>, m>>[2])>> \in adj_list
      BY <1>5, <3>2, Zenon
    <3> QED BY <2>4, <3>1, <3>3
  <2>5. p \in Statements
    BY <1>2
  <2>6. ASSUME kind[p] = "if"
        PROVE  <<<<"EndTrue", p>>, <<"End", p>>>> \in adj_list /\ <<<<"EndFalse", p>>, <<"End", p>>>> \in adj_list
    <3>1. E(p, "EndTrue", "End") \in TemplateEdges(p) /\ E(p, "EndFalse", "End") \in TemplateEdges(p)
      BY <2>5, <2>6, IfTemplate
    <3> QED BY <2>1, <2>4, <3>1 DEF E
  <2>7. ASSUME kind[p] \in Loops PROVE <<<<"EndBody", p>>, AfterBody(p)>> \in adj_list
    <3>1. <<<<"EndBody", p>>, AfterBody(p)>> \in TemplateEdges(p)
      <4>1. CASE kind[p] = "while"
        <5>1. E(p, "EndBody", "StartCond") \in TemplateEdges(p)
          BY <2>5, <4>1, WhileTemplate
        <5> QED BY <4>1, <5>1 DEF E, AfterBody
      <4>2. CASE kind[p] = "doWhile"
        <5>1. E(p, "EndBody", "StartCond") \in TemplateEdges(p)
          BY <2>5, <4>2, DoWhileTemplate
        <5> QED BY <4>2, <5>1 DEF E, AfterBody
      <4>3. CASE kind[p] = "for"
        <5>1. E(p, "EndBody", "StartExp") \in TemplateEdges(p)
          BY <2>5, <4>3, ForTemplate
        <5> QED BY <4>3, <5>1 DEF E, AfterBody
      <4> QED BY <2>7, <4>1, <4>2, <4>3 DEF Loops
    <3> QED BY <2>1, <2>4, <3>1
  <2>8. ASSUME NEW n, NEW m, <<n, m>> \in adj_list, \A f \in adj_list : f[1] = n => f[2] = m
        PROVE  raw_successors(n) = {m}
    BY <2>8 DEF raw_successors
  <2>9. kind[p] = "if" => /\ raw_successors(<<"EndTrue", p>>) = {<<"End", p>>}
                          /\ raw_successors(<<"EndFalse", p>>) = {<<"End", p>>}
    BY <2>2, <2>6, <2>8
  <2>10. kind[p] \in Loops => raw_successors(<<"EndBody", p>>) = {AfterBody(p)}
    BY <2>3, <2>7, <2>8
  <2> QED BY <2>9, <2>10
<1> QED BY <1>9, <1>12, <1>13, <1>15, <1>16

-------------------------------------------------------------------------------
(* The search from a node meets the loop ends of A and no other, and no    *)
(* lookup it makes fails.                                                  *)
Searches(n, A) ==
  n \in nodes /\ ~SearchPanics(n) /\ {m \in Searched(n) : IsLoopEnd(m)} = A

(* What the search collects is the least set closed under its steps.       *)
LEMMA SearchedIsLeast ==
  ASSUME IsGraph, start_end_pairs \subseteq nodes \X nodes, NEW n \in nodes
  PROVE  /\ Searched(n) \in SUBSET nodes /\ n \in Searched(n)
         /\ \A m \in Searched(n) : SearchStep(m) \subseteq Searched(n)
         /\ \A U \in SUBSET nodes :
              n \in U /\ (\A m \in U : SearchStep(m) \subseteq U) => Searched(n) \subseteq U
<1> DEFINE next == [m \in nodes |-> SearchStep(m)]
<1>1. next \in [nodes -> SUBSET nodes]
  <2>1. \A e \in adj_list \cup start_end_pairs : e[2] \in nodes
    BY DEF IsGraph
  <2>2. \A m \in nodes : SearchStep(m) \subseteq nodes
    BY <2>1 DEF SearchStep, Values, raw_successors
  <2> QED BY <2>2
<1>2. IsFiniteSet(nodes) /\ {n} \in SUBSET nodes
  BY DEF IsGraph
<1>3. Searched(n) = Reach({n}, next)
  BY DEF Searched
<1>4. \A m \in nodes : next[m] = SearchStep(m)
  OBVIOUS
<1> HIDE DEF next
<1>5. /\ Reach({n}, next) \in SUBSET nodes
      /\ {n} \subseteq Reach({n}, next)
      /\ \A m \in Reach({n}, next) : next[m] \subseteq Reach({n}, next)
      /\ \A U \in SUBSET nodes :
           {n} \subseteq U /\ (\A m \in U : next[m] \subseteq U) => Reach({n}, next) \subseteq U
  BY <1>1, <1>2, ReachIsLeast
<1>6. ASSUME NEW U \in SUBSET nodes, n \in U, \A m \in U : SearchStep(m) \subseteq U
      PROVE  Searched(n) \subseteq U
  <2>1. {n} \subseteq U /\ \A m \in U : next[m] \subseteq U
    BY <1>4, <1>6
  <2> QED BY <1>3, <1>5, <2>1
<1>7. \A m \in Searched(n) : SearchStep(m) \subseteq Searched(n)
  BY <1>3, <1>4, <1>5
<1> QED BY <1>3, <1>5, <1>6, <1>7

(* A step of the search that is no end of a loop leaves it to the next.    *)
LEMMA SearchPasses ==
  ASSUME IsGraph, start_end_pairs \subseteq nodes \X nodes,
         NEW n \in nodes, NEW m, NEW A, Searches(m, A), SearchStep(n) = {m}, ~IsLoopEnd(n),
         IsStart(n) => Values(start_end_pairs, n) # {}
  PROVE  Searches(n, A)
<1> DEFINE U == {n} \cup Searched(m)
<1>1. m \in nodes /\ ~SearchPanics(m) /\ {x \in Searched(m) : IsLoopEnd(x)} = A
  BY DEF Searches
<1>2. /\ Searched(m) \in SUBSET nodes /\ m \in Searched(m)
      /\ \A x \in Searched(m) : SearchStep(x) \subseteq Searched(m)
  BY <1>1, SearchedIsLeast
<1>3. U \in SUBSET nodes /\ n \in U /\ \A x \in U : SearchStep(x) \subseteq U
  BY <1>2
<1>4. Searched(n) \subseteq U
  <2> HIDE DEF U
  <2> QED BY <1>3, SearchedIsLeast
<1>5. \A x \in Searched(n) : x = n \/ x \in Searched(m)
  BY <1>4
<1>6. \A x \in Searched(m) : /\ IsStart(x) => Values(start_end_pairs, x) # {}
                             /\ IsLoopEnd(x) => Values(cond_start_pairs \cup loop_expr_start, x) # {}
  BY <1>1 DEF SearchPanics
<1>7. ~SearchPanics(n)
  BY <1>5, <1>6 DEF SearchPanics
<1>8. Searched(m) \subseteq Searched(n)
  <2>1. /\ Searched(n) \in SUBSET nodes /\ n \in Searched(n)
        /\ \A x \in Searched(n) : SearchStep(x) \subseteq Searched(n)
    BY SearchedIsLeast
  <2>2. m \in Searched(n)
    BY <2>1
  <2>3. \A W \in SUBSET nodes : m \in W /\ (\A x \in W : SearchStep(x) \subseteq W) => Searched(m) \subseteq W
    BY <1>1, SearchedIsLeast
  <2> QED BY <2>1, <2>2, <2>3
<1>9. {x \in Searched(n) : IsLoopEnd(x)} = A
  BY <1>1, <1>5, <1>8
<1> QED BY <1>7, <1>9 DEF Searches

(* A node with no step of the search after it ends the search.             *)
LEMMA SearchStops ==
  ASSUME IsGraph, start_end_pairs \subseteq nodes \X nodes, NEW n \in nodes, SearchStep(n) = {}, ~IsStart(n),
         IsLoopEnd(n) => Values(cond_start_pairs \cup loop_expr_start, n) # {}
  PROVE  Searches(n, IF IsLoopEnd(n) THEN {n} ELSE {})
<1>1. {n} \in SUBSET nodes /\ n \in {n} /\ \A x \in {n} : SearchStep(x) \subseteq {n}
  OBVIOUS
<1>2. Searched(n) \subseteq {n}
  BY <1>1, SearchedIsLeast
<1>3. Searched(n) = {n}
  BY <1>2, SearchedIsLeast
<1>4. ~SearchPanics(n)
  BY <1>3 DEF SearchPanics
<1>5. {x \in Searched(n) : IsLoopEnd(x)} = IF IsLoopEnd(n) THEN {n} ELSE {}
  BY <1>3
<1> QED BY <1>4, <1>5 DEF Searches

(* Where the search of a loop's body ends.                                 *)
LoopEnd(p) == IF kind[p] = "for" THEN <<"EndExp", p>> ELSE <<"EndCond", p>>

Parts == {"", "True", "False", "Init", "Cond", "Body", "Exp"}

(* The starts of statements, conditions and loop expressions are paired    *)
(* with their own ends.                                                    *)
LEMMA PairsMatch ==
  ASSUME NEW r, NEW part \in Parts
  PROVE  LET f == Pair(r, part)
         IN  /\ f[1][1] = "Start" => f = <<<<"Start", r>>, <<"End", r>>>>
             /\ f[1][1] = "StartCond" => f = <<<<"StartCond", r>>, <<"EndCond", r>>>>
             /\ f[1][1] = "StartExp" => f = <<<<"StartExp", r>>, <<"EndExp", r>>>>
             /\ part = "" => f = <<<<"Start", r>>, <<"End", r>>>>
             /\ part = "Cond" => f = <<<<"StartCond", r>>, <<"EndCond", r>>>>
             /\ part = "Exp" => f = <<<<"StartExp", r>>, <<"EndExp", r>>>>
<1>1. CASE part \in {"", "Cond", "Exp"}
  BY <1>1 DEF Pair
<1>2. CASE part \in {"True", "False", "Init", "Body"}
  BY <1>2 DEF Pair
<1> QED BY <1>1, <1>2 DEF Parts

(* The starts and the ends that are paired are of the template.            *)
LEMMA PairsAreInTemplates ==
  ASSUME program \in Programs, NEW s \in Statements, IsReducible(s), NEW part \in PairedParts(s)
  PROVE  \E a, b \in Ends(TemplateEdges(s)) : Pair(s, part) = <<a, b>> /\ ~IsStatement(a) /\ ~IsStatement(b)
<1> DEFINE In(r) == <<r, s>> \in Ends(TemplateEdges(s))
<1>1. In("Start") /\ In("End")
  BY TemplatesHaveShape DEF TemplateShape
<1>2. ASSUME NEW a, NEW b, E(s, a, b) \in TemplateEdges(s) PROVE In(a) /\ In(b)
  BY <1>2, EndsHave DEF E
<1>3. /\ kind[s] = "if" => In("StartTrue") /\ In("EndTrue") /\ In("StartFalse") /\ In("EndFalse")
      /\ kind[s] \in Loops => In("StartCond") /\ In("EndCond") /\ In("StartBody") /\ In("EndBody")
      /\ kind[s] = "for" => In("StartInit") /\ In("EndInit") /\ In("StartExp") /\ In("EndExp")
  <2>1. CASE kind[s] = "if"
    <3>1. /\ E(s, "EndCond", "StartTrue") \in TemplateEdges(s) /\ E(s, "EndTrue", "End") \in TemplateEdges(s)
          /\ E(s, "EndCond", "StartFalse") \in TemplateEdges(s) /\ E(s, "EndFalse", "End") \in TemplateEdges(s)
      BY <2>1, IfTemplate
    <3> HIDE DEF In
    <3> QED BY <1>2, <2>1, <3>1 DEF Loops
  <2>2. CASE kind[s] = "while"
    <3>1. /\ E(s, "Start", "StartCond") \in TemplateEdges(s) /\ E(s, "EndCond", "StartBody") \in TemplateEdges(s)
          /\ E(s, "EndBody", "StartCond") \in TemplateEdges(s)
      BY <2>2, WhileTemplate
    <3> HIDE DEF In
    <3> QED BY <1>2, <2>2, <3>1
  <2>3. CASE kind[s] = "doWhile"
    <3>1. /\ E(s, "Start", "StartBody") \in TemplateEdges(s) /\ E(s, "EndBody", "StartCond") \in TemplateEdges(s)
          /\ E(s, "EndCond", "End") \in TemplateEdges(s)
      BY <2>3, DoWhileTemplate
    <3> HIDE DEF In
    <3> QED BY <1>2, <2>3, <3>1
  <2>4. CASE kind[s] = "for"
    <3>1. /\ E(s, "Start", "StartInit") \in TemplateEdges(s) /\ E(s, "EndInit", "StartCond") \in TemplateEdges(s)
          /\ E(s, "EndCond", "StartBody") \in TemplateEdges(s) /\ E(s, "EndBody", "StartExp") \in TemplateEdges(s)
          /\ E(s, "EndExp", "StartCond") \in TemplateEdges(s)
      BY <2>4, ForTemplate
    <3> HIDE DEF In
    <3> QED BY <1>2, <2>4, <3>1
  <2> QED BY <2>1, <2>2, <2>3, <2>4 DEF Loops
<1>4. \A a, b : Pair(s, part) = <<<<a, s>>, <<b, s>>>> /\ In(a) /\ In(b) /\ a # "Statement" /\ b # "Statement"
                => \E x, y \in Ends(TemplateEdges(s)) : Pair(s, part) = <<x, y>> /\ ~IsStatement(x) /\ ~IsStatement(y)
  BY DEF IsStatement
<1> HIDE DEF In
<1>5. CASE part = ""
  BY <1>1, <1>4, <1>5 DEF Pair
<1>6. CASE part = "True" /\ kind[s] = "if"
  BY <1>3, <1>4, <1>6 DEF Pair
<1>7. CASE part = "False" /\ kind[s] = "if"
  BY <1>3, <1>4, <1>7 DEF Pair
<1>8. CASE part = "Init" /\ kind[s] = "for"
  BY <1>3, <1>4, <1>8 DEF Pair
<1>9. CASE part = "Cond" /\ kind[s] \in Loops
  BY <1>3, <1>4, <1>9 DEF Pair
<1>10. CASE part = "Body" /\ kind[s] \in Loops
  BY <1>3, <1>4, <1>10 DEF Pair
<1>11. CASE part = "Exp" /\ kind[s] = "for"
  BY <1>3, <1>4, <1>11 DEF Pair
<1> QED BY <1>5, <1>6, <1>7, <1>8, <1>9, <1>10, <1>11 DEF PairedParts, IsReducible, Reducible, Loops

(* What the lookups answer.                                                *)
LEMMA LookupsAnswer ==
  ASSUME program \in Programs, NEW R, GraphOf(R)
  PROVE  /\ start_end_pairs \subseteq nodes \X nodes
         /\ \A p \in R : Values(start_end_pairs, <<"Start", p>>) = {<<"End", p>>}
         /\ \A p \in R : kind[p] \in Loops =>
              /\ Values(start_end_pairs, AfterBody(p)) = {LoopEnd(p)}
              /\ Values(cond_start_pairs \cup loop_expr_start, LoopEnd(p)) = {<<"Start", p>>}
              /\ kind[p] = "for" => Values(start_loop_expr, <<"Start", p>>) = {AfterBody(p)}
              /\ kind[p] # "for" => Values(start_cond_pairs, <<"Start", p>>) = {AfterBody(p)}
<1>1. IsTree(R) /\ LookupsOf(R) /\ nodes = NodesOf(R)
  BY DEF GraphOf
<1>2. \A r \in R : r \in Statements /\ r \in Nat \ {0} /\ kind[r] \in Reducible /\ IsReducible(r)
  <2>1. \A r \in R : r \in Statements /\ IsReducible(r)
    BY <1>1 DEF IsTree
  <2> QED BY <2>1, StatementsAre DEF IsReducible
<1>3. \A r \in R : PairedParts(r) \subseteq Parts /\ "" \in PairedParts(r)
  BY <1>2 DEF PairedParts, Reducible, Loops, Parts
<1>4. \A r \in R : /\ kind[r] \in {"while", "doWhile"} => "Cond" \in PairedParts(r)
                   /\ kind[r] = "for" => "Exp" \in PairedParts(r)
  BY DEF PairedParts
<1>5. /\ \A f \in start_end_pairs :
           f = <<BodyStart, BodyEnd>> \/ \E r \in R : \E part \in PairedParts(r) : f = Pair(r, part)
      /\ \A r \in R : \A part \in PairedParts(r) : Pair(r, part) \in start_end_pairs
  BY <1>1 DEF LookupsOf, PairsOf
<1>6. ASSUME NEW f \in start_end_pairs, NEW p \in R
      PROVE  /\ f[1] = <<"Start", p>> => f[2] = <<"End", p>>
             /\ f[1] = <<"StartCond", p>> => f[2] = <<"EndCond", p>>
             /\ f[1] = <<"StartExp", p>> => f[2] = <<"EndExp", p>>
  <2>1. CASE f = <<BodyStart, BodyEnd>>
    BY <1>2, <2>1 DEF BodyStart
  <2>2. CASE \E r \in R : \E part \in PairedParts(r) : f = Pair(r, part)
    <3>1. PICK r \in R : \E part \in PairedParts(r) : f = Pair(r, part)
      BY <2>2
    <3>2. PICK part \in Parts : f = Pair(r, part)
      BY <1>3, <3>1
    <3>3. /\ f[1][1] = "Start" => f = <<<<"Start", r>>, <<"End", r>>>>
          /\ f[1][1] = "StartCond" => f = <<<<"StartCond", r>>, <<"EndCond", r>>>>
          /\ f[1][1] = "StartExp" => f = <<<<"StartExp", r>>, <<"EndExp", r>>>>
      BY <3>2, PairsMatch
    <3>4. f[1] = <<"Start", p>> => f[2] = <<"End", p>>
      BY <3>3
    <3>5. f[1] = <<"StartCond", p>> => f[2] = <<"EndCond", p>>
      BY <3>3
    <3>6. f[1] = <<"StartExp", p>> => f[2] = <<"EndExp", p>>
      BY <3>3
    <3> QED BY <3>4, <3>5, <3>6
  <2> QED BY <1>5, <2>1, <2>2
<1>7. ASSUME NEW p \in R
      PROVE  /\ <<<<"Start", p>>, <<"End", p>>>> \in start_end_pairs
             /\ kind[p] \in {"while", "doWhile"} => <<<<"StartCond", p>>, <<"EndCond", p>>>> \in start_end_pairs
             /\ kind[p] = "for" => <<<<"StartExp", p>>, <<"EndExp", p>>>> \in start_end_pairs
  <2>1. /\ Pair(p, "") = <<<<"Start", p>>, <<"End", p>>>>
        /\ Pair(p, "Cond") = <<<<"StartCond", p>>, <<"EndCond", p>>>>
        /\ Pair(p, "Exp") = <<<<"StartExp", p>>, <<"EndExp", p>>>>
    BY DEF Pair
  <2>2. Pair(p, "") \in start_end_pairs
    BY <1>3, <1>5
  <2>3. kind[p] \in {"while", "doWhile"} => Pair(p, "Cond") \in start_end_pairs
    BY <1>4, <1>5
  <2>4. kind[p] = "for" => Pair(p, "Exp") \in start_end_pairs
    BY <1>4, <1>5
  <2> QED BY <2>1, <2>2, <2>3, <2>4
<1>8. ASSUME NEW p \in R PROVE Values(start_end_pairs, <<"Start", p>>) = {<<"End", p>>}
  BY <1>6, <1>7 DEF Values
<1>9. ASSUME NEW p \in R, kind[p] \in Loops PROVE Values(start_end_pairs, AfterBody(p)) = {LoopEnd(p)}
  <2>1. <<AfterBody(p), LoopEnd(p)>> \in start_end_pairs
    BY <1>7, <1>9 DEF AfterBody, LoopEnd, Loops
  <2>2. \A f \in start_end_pairs : f[1] = AfterBody(p) => f[2] = LoopEnd(p)
    BY <1>6 DEF AfterBody, LoopEnd
  <2> QED BY <2>1, <2>2 DEF Values
<1>10. /\ cond_start_pairs = CondStartsOf(R) /\ loop_expr_start = ExpStartsOf(R)
       /\ start_cond_pairs = StartCondsOf(R) /\ start_loop_expr = StartExpsOf(R)
  BY <1>1 DEF LookupsOf
<1>11. ASSUME NEW p \in R, kind[p] \in Loops
       PROVE  Values(cond_start_pairs \cup loop_expr_start, LoopEnd(p)) = {<<"Start", p>>}
  <2>1. <<LoopEnd(p), <<"Start", p>>>> \in cond_start_pairs \cup loop_expr_start
    BY <1>10, <1>11 DEF CondStartsOf, ExpStartsOf, LoopEnd, Loops
  <2>2. \A f \in cond_start_pairs \cup loop_expr_start : f[1] = LoopEnd(p) => f[2] = <<"Start", p>>
    BY <1>10 DEF CondStartsOf, ExpStartsOf, LoopEnd
  <2> QED BY <2>1, <2>2 DEF Values
<1>12. ASSUME NEW p \in R, kind[p] = "for" PROVE Values(start_loop_expr, <<"Start", p>>) = {AfterBody(p)}
  <2>1. <<<<"Start", p>>, AfterBody(p)>> \in start_loop_expr
    BY <1>10, <1>12 DEF StartExpsOf, AfterBody
  <2>2. \A f \in start_loop_expr : f[1] = <<"Start", p>> => f[2] = AfterBody(p)
    BY <1>10, <1>12 DEF StartExpsOf, AfterBody
  <2> QED BY <2>1, <2>2 DEF Values
<1>13. ASSUME NEW p \in R, kind[p] \in Loops, kind[p] # "for"
       PROVE  Values(start_cond_pairs, <<"Start", p>>) = {AfterBody(p)}
  <2>1. <<<<"Start", p>>, AfterBody(p)>> \in start_cond_pairs
    BY <1>10, <1>13 DEF StartCondsOf, AfterBody
  <2>2. \A f \in start_cond_pairs : f[1] = <<"Start", p>> => f[2] = AfterBody(p)
    BY <1>10, <1>13 DEF StartCondsOf, AfterBody
  <2> QED BY <2>1, <2>2 DEF Values
<1>14. start_end_pairs \subseteq nodes \X nodes
  <2>1. BodyStart \in nodes /\ BodyEnd \in nodes
    BY <1>1, GraphIsFinite
  <2>2. ASSUME NEW r \in R, NEW part \in PairedParts(r) PROVE Pair(r, part) \in nodes \X nodes
    <3>1. PICK a, b \in Ends(TemplateEdges(r)) : Pair(r, part) = <<a, b>> /\ ~IsStatement(a) /\ ~IsStatement(b)
      BY <1>2, PairsAreInTemplates
    <3>2. Ends(TemplateEdges(r)) \subseteq Ends(Templates(R))
      BY DEF Ends, Templates
    <3>3. a \in nodes /\ b \in nodes
      BY <1>1, <3>1, <3>2 DEF NodesOf, IsIn
    <3> QED BY <3>1, <3>3
  <2> QED BY <1>5, <2>1, <2>2
<1> QED BY <1>8, <1>9, <1>11, <1>12, <1>13, <1>14

(* Along the edge that leaves a child, and over the whole of a statement.  *)
LEMMA ReducedAre ==
  ASSUME program \in Programs, NEW R, GraphOf(R)
  PROVE  /\ IsGraph /\ start_end_pairs \subseteq nodes \X nodes
         /\ \A p \in R :
              /\ p \in Statements /\ p \in Nat \ {0} /\ kind[p] \in Reducible /\ TemplateShape(p)
              /\ <<"Start", p>> \in nodes /\ <<"End", p>> \in nodes
              /\ \A n \in Ends(TemplateEdges(p)) : Enters(R, n) \in nodes /\ Leaves(R, n) \in nodes
              /\ \A i \in Places(p) : /\ ChildAt(p, i) \in Ends(TemplateEdges(p))
                                      /\ Enters(R, ChildAt(p, i)) \in nodes
                                      /\ Leaves(R, ChildAt(p, i)) \in nodes
                                      /\ <<ChildAt(p, i), Follow(p, i)>> \in TemplateEdges(p)
                                      /\ Follow(p, i) \in Ends(TemplateEdges(p))
<1>1. IsTree(R) /\ nodes = NodesOf(R)
  BY DEF GraphOf
<1>2. IsGraph /\ start_end_pairs \subseteq nodes \X nodes
  BY TemplatesMakeAGraph, LookupsAnswer
<1>3. ASSUME NEW p \in R
      PROVE  p \in Statements /\ p \in Nat \ {0} /\ kind[p] \in Reducible /\ TemplateShape(p)
  <2>1. p \in Statements /\ IsReducible(p)
    BY <1>1 DEF IsTree
  <2> QED BY <2>1, TemplatesHaveShape, StatementsAre DEF IsReducible
<1>4. ASSUME NEW p \in R
      PROVE  /\ <<"Start", p>> \in nodes /\ <<"End", p>> \in nodes
             /\ \A n \in Ends(TemplateEdges(p)) : Enters(R, n) \in nodes /\ Leaves(R, n) \in nodes
  BY <1>1, GraphIsFinite
<1>5. ASSUME NEW p \in R, NEW i \in Places(p)
      PROVE  /\ ChildAt(p, i) \in Ends(TemplateEdges(p)) /\ <<ChildAt(p, i), Follow(p, i)>> \in TemplateEdges(p)
             /\ Follow(p, i) \in Ends(TemplateEdges(p))
  <2>1. <<ChildAt(p, i), Follow(p, i)>> \in TemplateEdges(p)
    BY <1>3 DEF TemplateShape
  <2> QED BY <2>1, EndsHave
<1> QED BY <1>2, <1>3, <1>4, <1>5

(* From the end of a child the search goes on as from what follows it.     *)
LEMMA SearchLeaves ==
  ASSUME program \in Programs, NEW R, GraphOf(R), NEW p \in R, NEW i \in Places(p),
         NEW A, Searches(Enters(R, Follow(p, i)), A)
  PROVE  Searches(Leaves(R, ChildAt(p, i)), A)
<1> DEFINE n == Leaves(R, ChildAt(p, i))
<1>1. n \in nodes /\ IsGraph /\ start_end_pairs \subseteq nodes \X nodes
  BY ReducedAre
<1>2. n[1] \in {"End", "Statement"}
  BY DEF Leaves, ChildAt, Statement
<1>3. raw_successors(n) = {Enters(R, Follow(p, i))}
  <2>1. \A q \in R : \A j \in Places(q) :
          /\ raw_successors(Leaves(R, ChildAt(q, j))) = {Enters(R, Follow(q, j))}
          /\ <<Leaves(R, ChildAt(q, j)), Enters(R, Follow(q, j))>> \in adj_list
    BY EdgesLeave, Zenon
  <2> QED BY <2>1
<1> HIDE DEF n
<1>4. ~IsLoopEnd(n) /\ ~IsStart(n)
  BY <1>2 DEF IsLoopEnd, IsStart, StartRoles
<1>5. SearchStep(n) = {Enters(R, Follow(p, i))}
  BY <1>3, <1>4 DEF SearchStep
<1>6. Searches(n, A)
  BY <1>1, <1>4, <1>5, SearchPasses
<1> QED BY <1>6 DEF n

(* From the start of a statement the search goes on as from its end.       *)
LEMMA SearchEnters ==
  ASSUME program \in Programs, NEW R, GraphOf(R), NEW n, NEW A, Searches(Leaves(R, n), A)
  PROVE  Searches(Enters(R, n), A)
<1>1. CASE ~IsIn(R, n)
  BY <1>1 DEF Enters, Leaves
<1>2. CASE IsIn(R, n)
  <2> DEFINE t == n[2]
  <2>1. t \in R /\ Enters(R, n) = <<"Start", t>> /\ Leaves(R, n) = <<"End", t>>
    BY <1>2 DEF Enters, Leaves, IsIn
  <2> HIDE DEF t
  <2>2. <<"Start", t>> \in nodes /\ IsGraph /\ start_end_pairs \subseteq nodes \X nodes
    BY <2>1, ReducedAre
  <2>3. IsStart(<<"Start", t>>) /\ ~IsLoopEnd(<<"Start", t>>)
    BY DEF IsLoopEnd, IsStart, StartRoles
  <2>4. Values(start_end_pairs, <<"Start", t>>) = {<<"End", t>>}
    BY <2>1, LookupsAnswer
  <2>5. SearchStep(<<"Start", t>>) = {<<"End", t>>}
    BY <2>3, <2>4 DEF SearchStep
  <2> QED BY <2>1, <2>2, <2>3, <2>4, <2>5, SearchPasses
<1> QED BY <1>1, <1>2

(* From a loop's body the search gets no further than the loop's end.      *)
LEMMA SearchOfALoop ==
  ASSUME program \in Programs, NEW R, GraphOf(R), NEW p \in R, kind[p] \in Loops,
         <<"EndBody", p>> \in nodes
  PROVE  Searches(<<"EndBody", p>>, {LoopEnd(p)})
<1>1. IsGraph /\ start_end_pairs \subseteq nodes \X nodes
  BY ReducedAre
<1>2. /\ Values(start_end_pairs, AfterBody(p)) = {LoopEnd(p)}
      /\ Values(cond_start_pairs \cup loop_expr_start, LoopEnd(p)) = {<<"Start", p>>}
  BY LookupsAnswer
<1>3. AfterBody(p) \in nodes /\ LoopEnd(p) \in nodes
  <2>1. PICK f \in start_end_pairs : f[1] = AfterBody(p) /\ f[2] = LoopEnd(p)
    BY <1>2 DEF Values
  <2> QED BY <1>1, <2>1
<1>4. IsLoopEnd(LoopEnd(p)) /\ ~IsStart(LoopEnd(p))
  BY DEF IsLoopEnd, LoopEnd, IsStart, StartRoles, Loops
<1>5. Searches(LoopEnd(p), {LoopEnd(p)})
  <2>1. SearchStep(LoopEnd(p)) = {}
    BY <1>4 DEF SearchStep
  <2>2. Searches(LoopEnd(p), IF IsLoopEnd(LoopEnd(p)) THEN {LoopEnd(p)} ELSE {})
    BY <1>1, <1>2, <1>3, <1>4, <2>1, SearchStops
  <2> QED BY <1>4, <2>2
<1>6. IsStart(AfterBody(p)) /\ ~IsLoopEnd(AfterBody(p))
  BY DEF IsLoopEnd, AfterBody, IsStart, StartRoles
<1>7. Searches(AfterBody(p), {LoopEnd(p)})
  <2>1. SearchStep(AfterBody(p)) = {LoopEnd(p)}
    BY <1>2, <1>6 DEF SearchStep
  <2> QED BY <1>1, <1>2, <1>3, <1>5, <1>6, <2>1, SearchPasses
<1>8. ~IsStart(<<"EndBody", p>>) /\ ~IsLoopEnd(<<"EndBody", p>>)
  BY DEF IsLoopEnd, IsStart, StartRoles
<1>9. SearchStep(<<"EndBody", p>>) = {AfterBody(p)}
  <2>1. raw_successors(<<"EndBody", p>>) = {AfterBody(p)}
    BY EdgesLeave
  <2> QED BY <1>8, <2>1 DEF SearchStep
<1> QED BY <1>1, <1>7, <1>8, <1>9, SearchPasses

(* From a child of a block the search goes on to the next and to the end.  *)
LEMMA SearchOfABlock ==
  ASSUME program \in Programs, NEW R, GraphOf(R), NEW p \in R, kind[p] = "block",
         NEW A, Searches(<<"End", p>>, A)
  PROVE  \A i \in Places(p) : Searches(Leaves(R, ChildAt(p, i)), A)
<1> DEFINE n == Len(children[p])
           S == {k \in Nat : \A i \in Places(p) : i + k >= n => Searches(Leaves(R, ChildAt(p, i)), A)}
<1>1. n \in Nat /\ Places(p) = 1 .. n
  BY ReducedAre, StatementsAre DEF Places
<1> HIDE DEF n
<1>2. \A i \in Places(p) : Follow(p, i) = IF i = n THEN <<"End", p>> ELSE ChildAt(p, i + 1)
  BY DEF Follow, n
<1>3. Enters(R, <<"End", p>>) = <<"End", p>>
  BY DEF Enters, IsIn, IsStatement
<1>4. 0 \in S
  <2> SUFFICES ASSUME NEW i \in Places(p), i >= n PROVE Searches(Leaves(R, ChildAt(p, i)), A)
    BY <1>1
  <2>1. Follow(p, i) = <<"End", p>>
    BY <1>1, <1>2
  <2> QED BY <1>3, <2>1, SearchLeaves
<1>5. ASSUME NEW k \in Nat \cap S PROVE k + 1 \in S
  <2> SUFFICES ASSUME NEW i \in Places(p), i + (k + 1) >= n PROVE Searches(Leaves(R, ChildAt(p, i)), A)
    OBVIOUS
  <2>1. CASE i = n
    <3>1. Follow(p, i) = <<"End", p>>
      BY <1>2, <2>1
    <3> QED BY <1>3, <3>1, SearchLeaves
  <2>2. CASE i # n
    <3>1. i + 1 \in Places(p) /\ (i + 1) + k >= n
      BY <1>1, <2>2
    <3>2. Searches(Leaves(R, ChildAt(p, i + 1)), A)
      BY <1>5, <3>1
    <3>3. Searches(Enters(R, ChildAt(p, i + 1)), A)
      BY <3>2, SearchEnters
    <3>4. Follow(p, i) = ChildAt(p, i + 1)
      BY <1>2, <2>2
    <3> QED BY <3>3, <3>4, SearchLeaves
  <2> QED BY <2>1, <2>2
<1>6. n \in S
  <2> HIDE DEF S
  <2> QED BY <1>1, <1>4, <1>5, SetInduction
<1>7. \A i \in Places(p) : i + n >= n
  BY <1>1
<1> QED BY <1>6, <1>7

(* From the branches of an if the search goes on from its end.             *)
LEMMA SearchOfAnIf ==
  ASSUME program \in Programs, NEW R, GraphOf(R), NEW p \in R, kind[p] = "if",
         NEW A, Searches(<<"End", p>>, A), NEW i \in Places(p)
  PROVE  Searches(Leaves(R, ChildAt(p, i)), A)
<1> DEFINE n == Follow(p, i)
<1>1. n \in {<<"EndTrue", p>>, <<"EndFalse", p>>}
  BY DEF Follow
<1>2. IsGraph /\ start_end_pairs \subseteq nodes \X nodes /\ Enters(R, n) \in nodes
  BY ReducedAre
<1> HIDE DEF n
<1>3. Enters(R, n) = n /\ ~IsStart(n) /\ ~IsLoopEnd(n)
  BY <1>1 DEF Enters, IsIn, IsStatement, IsStart, IsLoopEnd, StartRoles
<1>4. SearchStep(n) = {<<"End", p>>}
  <2>1. raw_successors(n) = {<<"End", p>>}
    BY <1>1, EdgesLeave
  <2> QED BY <1>3, <2>1 DEF SearchStep
<1>5. Searches(n, A)
  BY <1>2, <1>3, <1>4, SearchPasses
<1> QED BY <1>3, <1>5, SearchLeaves DEF n

(* From within a statement the search goes to the end of the loop it is,   *)
(* or on from its end.                                                     *)
LEMMA SearchInside ==
  ASSUME program \in Programs, NEW R, GraphOf(R), NEW p \in R,
         NEW A, Searches(<<"End", p>>, A), NEW i \in Places(p)
  PROVE  Searches(Leaves(R, ChildAt(p, i)), IF kind[p] \in Loops THEN {LoopEnd(p)} ELSE A)
<1>1. kind[p] \in Reducible
  BY ReducedAre
<1>2. CASE kind[p] = "block"
  BY <1>2, SearchOfABlock DEF Loops
<1>3. CASE kind[p] = "if"
  BY <1>3, SearchOfAnIf DEF Loops
<1>4. CASE kind[p] \in Loops
  <2>1. Follow(p, i) = <<"EndBody", p>>
    BY <1>4 DEF Follow, Loops
  <2>2. Enters(R, <<"EndBody", p>>) = <<"EndBody", p>>
    BY DEF Enters, IsIn, IsStatement
  <2>3. <<"EndBody", p>> \in nodes
    <3>1. Enters(R, Follow(p, i)) \in nodes
      BY ReducedAre
    <3> QED BY <2>1, <2>2, <3>1
  <2>4. Searches(<<"EndBody", p>>, {LoopEnd(p)})
    BY <1>4, <2>3, SearchOfALoop
  <2> QED BY <1>4, <2>1, <2>2, <2>4, SearchLeaves
<1> QED BY <1>1, <1>2, <1>3, <1>4 DEF Reducible

-------------------------------------------------------------------------------
(* What the program's flow is made of: each of its recursive definitions   *)
(* says what it computes, statement by statement.                          *)

(* The numbers of the statements, and the ranks by which what a statement  *)
(* does follows from its parts (below), or from what is around it (above). *)
LEMMA NumbersAre ==
  ASSUME program \in Programs
  PROVE  /\ Len(kind) \in Nat \ {0} /\ Statements \subseteq Nat \ {0} /\ 1 \in Statements
         /\ kind[1] = "block"
         /\ [t \in Statements |-> Len(kind) - t] \in [Statements -> 0 .. Len(kind)]
         /\ [t \in Statements |-> t] \in [Statements -> 0 .. Len(kind)]
         /\ \A t \in Statements : t # 1 => \E s \in Statements : \E i \in Places(s) : children[s][i] = t
<1>1. IsProgram(program)
  BY ProgramsAssumption
<1>2. Len(kind) \in Nat \ {0}
  <2>1. Len(kind) > 0 /\ kind \in Seq(Kinds)
    BY <1>1 DEF IsProgram, kind
  <2> QED BY <2>1
<1>3. \A t \in 2 .. Len(kind) : \E s \in Statements : \E i \in Places(s) : children[s][i] = t
  BY <1>1 DEF IsProgram, kind, children, Statements, Places
<1>4. kind[1] = "block"
  BY <1>1 DEF IsProgram, kind
<1> HIDE DEF kind
<1> QED BY <1>2, <1>3, <1>4 DEF Statements

(* The equations of the recursive definitions of the program's own flow.   *)
LEMMA PassesAre ==
  ASSUME program \in Programs, NEW s \in Statements
  PROVE  Passes(s) <=> /\ ~IsAtom(s)
                       /\ \/ kind[s] = "block" /\ \A i \in Places(s) : Passes(children[s][i])
                          \/ kind[s] = "for" /\ header[s] \cap {"Init", "Cond"} = {}
<1> DEFINE does(f, t) == /\ ~IsAtom(t)
                         /\ \/ kind[t] = "block" /\ \A i \in 1 .. Len(children[t]) : f[children[t][i]]
                            \/ kind[t] = "for" /\ header[t] \cap {"Init", "Cond"} = {}
           step == [w \in [Statements -> BOOLEAN] \X Statements |-> does(w[1], w[2])]
           rank == [t \in Statements |-> Len(kind) - t]
           passes == CHOOSE f : f = [t \in Statements |-> does(f, t)]
<1>1. \A t \in Statements : \A i \in 1 .. Len(children[t]) :
        children[t][i] \in Statements /\ rank[children[t][i]] < rank[t]
  <2> SUFFICES ASSUME NEW t \in Statements, NEW i \in 1 .. Len(children[t])
               PROVE  children[t][i] \in Statements /\ rank[children[t][i]] < rank[t]
    OBVIOUS
  <2>1. children[t][i] \in Statements /\ children[t][i] > t
    BY StatementsAre
  <2>2. t \in Nat /\ children[t][i] \in Nat /\ Len(kind) \in Nat
    BY <2>1, NumbersAre
  <2>3. Len(kind) - children[t][i] < Len(kind) - t
    BY <2>1, <2>2
  <2> QED BY <2>1, <2>3
<1>2. \E f : IsGivenBy(f, Statements, BOOLEAN, step)
  <2>1. step \in [[Statements -> BOOLEAN] \X Statements -> BOOLEAN]
    OBVIOUS
  <2>2. ASSUME NEW t \in Statements, NEW g \in [Statements -> BOOLEAN], NEW h \in [Statements -> BOOLEAN],
               \A u \in Statements : rank[u] < rank[t] => g[u] = h[u]
        PROVE  step[<<g, t>>] = step[<<h, t>>]
    <3>1. \A i \in 1 .. Len(children[t]) : g[children[t][i]] = h[children[t][i]]
      BY <2>2, <1>1
    <3>2. does(g, t) = does(h, t)
      BY <3>1
    <3>3. step[<<g, t>>] = does(g, t) /\ step[<<h, t>>] = does(h, t)
      OBVIOUS
    <3> QED BY <3>2, <3>3
  <2>3. rank \in [Statements -> 0 .. Len(kind)] /\ Len(kind) \in Nat /\ TRUE \in BOOLEAN
    BY NumbersAre
  <2> HIDE DEF step, rank, does, passes
  <2>4. Descends(Statements, BOOLEAN, Len(kind), rank, step)
    BY <2>1, <2>2, <2>3 DEF Descends
  <2> QED BY <2>3, <2>4, CourseOfValues
<1>3. passes = [t \in Statements |-> does(passes, t)]
  <2>1. PICK f : f \in [Statements -> BOOLEAN] /\ f = [t \in Statements |-> step[<<f, t>>]]
    BY <1>2 DEF IsGivenBy
  <2>2. \A t \in Statements : step[<<f, t>>] = does(f, t)
    BY <2>1
  <2>3. f = [t \in Statements |-> does(f, t)]
    BY <2>1, <2>2
  <2> QED BY <2>3
<1>4. \A t \in Statements : Passes(t) = passes[t]
  BY DEF Passes
<1> HIDE DEF passes
<1>5. passes[s] = does(passes, s)
  BY <1>3
<1>6. \A i \in Places(s) : Passes(children[s][i]) = passes[children[s][i]]
  BY <1>1, <1>4 DEF Places
<1> QED BY <1>4, <1>5, <1>6 DEF Places

(* The points that a sequence of statements, the children of s after the   *)
(* i-th, can meet first, and then next.                                    *)
Rest(s, i, next) ==
  LET child(j) == children[s][j] IN
    (UNION {First(child(j)) : j \in {k \in i + 1 .. Len(children[s]) : \A h \in i + 1 .. k - 1 : Passes(child(h))}})
    \cup (IF \A h \in i + 1 .. Len(children[s]) : Passes(child(h)) THEN next ELSE {})

PartOf(s, p) == IF p \in header[s] THEN {<<p, s>>} ELSE {}

(* What a statement meets first, from what its children do. *)
Firsts(f, t) ==
  LET child(i) == children[t][i]
      body == f[child(1)]
      part(p) == IF p \in header[t] THEN {<<p, t>>} ELSE {}
  IN CASE IsAtom(t) -> {Statement(t)}
       [] ~IsAtom(t) /\ kind[t] = "block" ->
            UNION {f[child(i)] : i \in {j \in 1..Len(children[t]) : \A h \in 1..j - 1 : Passes(child(h))}}
       [] ~IsAtom(t) /\ kind[t] \in {"if", "while"} -> {<<"Cond", t>>}
       [] ~IsAtom(t) /\ kind[t] = "doWhile" ->
            body \cup (IF Passes(child(1)) THEN {<<"Cond", t>>} ELSE {})
       [] ~IsAtom(t) /\ kind[t] = "for" ->
            IF "Init" \in header[t] THEN part("Init")
            ELSE IF "Cond" \in header[t] THEN part("Cond")
            ELSE body \cup (IF Passes(child(1)) THEN part("Exp") ELSE {})

(* A loop has one child, its body.                                         *)
LEMMA LoopsHaveABody ==
  ASSUME program \in Programs, NEW s \in Statements, kind[s] \in Loops
  PROVE  /\ Places(s) = {1} /\ Len(children[s]) = 1 /\ Body(s) \in Statements /\ Body(s) > s
         /\ kind[s] \notin {"block", "if"}
<1>1. Len(children[s]) = 1
  BY StatementsAre
<1>2. Places(s) = {1} /\ 1 \in 1 .. Len(children[s])
  BY <1>1 DEF Places
<1> QED BY <1>1, <1>2, StatementsAre DEF Body, Loops

(* What is not an atom is a block, an if or a loop, and children have      *)
(* larger numbers.                                                         *)
LEMMA KindsAre ==
  ASSUME program \in Programs, NEW s \in Statements
  PROVE  /\ s \in Nat \ {0}
         /\ IsAtom(s) \/ kind[s] \in {"block", "if", "while", "doWhile", "for"}
         /\ kind[s] \in {"while", "doWhile", "for"} <=> kind[s] \in Loops
         /\ \A i \in Places(s) : children[s][i] \in Statements /\ children[s][i] > s
<1>1. s \in Nat \ {0} /\ kind[s] \in Kinds /\ \A i \in Places(s) : children[s][i] \in Statements /\ children[s][i] > s
  BY StatementsAre DEF Places
<1>2. kind[s] \notin Reducible => IsAtom(s)
  BY DEF IsAtom
<1> QED BY <1>1, <1>2 DEF Reducible, Loops

(* What a statement meets first, from what its children do. *)
LEMMA FirstsAre ==
  ASSUME program \in Programs, NEW t \in Statements, NEW f
  PROVE  /\ IsAtom(t) => Firsts(f, t) = {Statement(t)}
         /\ ~IsAtom(t) /\ kind[t] = "block" =>
              Firsts(f, t) = UNION {f[children[t][i]] :
                i \in {j \in Places(t) : \A h \in 1 .. j - 1 : Passes(children[t][h])}}
         /\ ~IsAtom(t) /\ kind[t] \in {"if", "while"} => Firsts(f, t) = {<<"Cond", t>>}
         /\ ~IsAtom(t) /\ kind[t] = "doWhile" =>
              Firsts(f, t) = f[Body(t)] \cup (IF Passes(Body(t)) THEN {<<"Cond", t>>} ELSE {})
         /\ ~IsAtom(t) /\ kind[t] = "for" =>
              Firsts(f, t) = IF "Init" \in header[t] THEN {<<"Init", t>>}
                             ELSE IF "Cond" \in header[t] THEN {<<"Cond", t>>}
                             ELSE f[Body(t)] \cup (IF Passes(Body(t)) THEN PartOf(t, "Exp") ELSE {})
<1>3. CASE IsAtom(t)
  BY <1>3 DEF Firsts
<1>4. CASE ~IsAtom(t) /\ kind[t] = "block"
  BY <1>4 DEF Firsts, Places
<1>5. CASE ~IsAtom(t) /\ kind[t] \in {"if", "while"}
  BY <1>5 DEF Firsts
<1>6. CASE ~IsAtom(t) /\ kind[t] = "doWhile"
  BY <1>6 DEF Firsts, Body
<1>7. CASE ~IsAtom(t) /\ kind[t] = "for"
  BY <1>7 DEF Firsts, Body, PartOf
<1> QED BY <1>3, <1>4, <1>5, <1>6, <1>7, KindsAre

(* The points met first, computed from nodes, are nodes.                   *)
LEMMA FirstsAreNodes ==
  ASSUME program \in Programs, NEW t \in Statements, NEW f \in [Statements -> SUBSET AllNodes]
  PROVE  Firsts(f, t) \in SUBSET AllNodes
<1>2. \A s \in Nat : /\ Statement(s) \in AllNodes /\ <<"Cond", s>> \in AllNodes
                     /\ <<"Init", s>> \in AllNodes /\ <<"Exp", s>> \in AllNodes
  BY DEF AllNodes, Statement
<1>3. \A i \in Places(t) : f[children[t][i]] \in SUBSET AllNodes
  BY KindsAre
<1>4. kind[t] \in Loops => f[Body(t)] \in SUBSET AllNodes
  BY LoopsHaveABody
<1>5. t \in Nat /\ (kind[t] \in {"doWhile", "for"} => kind[t] \in Loops)
      /\ (IsAtom(t) \/ kind[t] \in {"block", "if", "while", "doWhile", "for"})
  BY KindsAre
<1>6. PartOf(t, "Exp") \in SUBSET AllNodes
  BY <1>2, <1>5 DEF PartOf
<1>7. CASE IsAtom(t)
  BY <1>2, <1>5, <1>7, FirstsAre
<1>8. CASE ~IsAtom(t) /\ kind[t] = "block"
  <2>1. Firsts(f, t) = UNION {f[children[t][i]] :
                i \in {j \in Places(t) : \A h \in 1 .. j - 1 : Passes(children[t][h])}}
    BY <1>8, FirstsAre, Zenon
  <2> QED BY <1>3, <2>1
<1>9. CASE ~IsAtom(t) /\ kind[t] \in {"if", "while"}
  <2>1. Firsts(f, t) = {<<"Cond", t>>}
    BY <1>9, FirstsAre, Zenon
  <2> QED BY <1>2, <1>5, <2>1
<1>10. CASE ~IsAtom(t) /\ kind[t] = "doWhile"
  <2>1. Firsts(f, t) = f[Body(t)] \cup (IF Passes(Body(t)) THEN {<<"Cond", t>>} ELSE {})
    BY <1>10, FirstsAre, Zenon
  <2> QED BY <1>2, <1>4, <1>5, <1>10, <2>1
<1>11. CASE ~IsAtom(t) /\ kind[t] = "for"
  <2>1. Firsts(f, t) = IF "Init" \in header[t] THEN {<<"Init", t>>}
                        ELSE IF "Cond" \in header[t] THEN {<<"Cond", t>>}
                        ELSE f[Body(t)] \cup (IF Passes(Body(t)) THEN PartOf(t, "Exp") ELSE {})
    BY <1>11, FirstsAre, Zenon
  <2>2. kind[t] \in Loops /\ <<"Cond", t>> \in AllNodes /\ <<"Init", t>> \in AllNodes
    BY <1>2, <1>5, <1>11
  <2>3. f[Body(t)] \in SUBSET AllNodes
    BY <1>4, <2>2
  <2> QED BY <1>6, <2>1, <2>2, <2>3
<1> QED BY <1>5, <1>7, <1>8, <1>9, <1>10, <1>11

(* First is what its recursive definition says, as one function of the     *)
(* statements.                                                             *)
LEMMA FirstIs ==
  ASSUME program \in Programs
  PROVE  \E f : \A s \in Statements : First(s) = f[s] /\ f[s] = Firsts(f, s)
<1> DEFINE step == [w \in [Statements -> SUBSET AllNodes] \X Statements |-> Firsts(w[1], w[2])]
           rank == [t \in Statements |-> Len(kind) - t]
           first == CHOOSE f : f = [t \in Statements |-> Firsts(f, t)]
<1>1. \A t \in Statements : \A i \in 1 .. Len(children[t]) :
        children[t][i] \in Statements /\ rank[children[t][i]] < rank[t]
  <2> SUFFICES ASSUME NEW t \in Statements, NEW i \in 1 .. Len(children[t])
               PROVE  children[t][i] \in Statements /\ rank[children[t][i]] < rank[t]
    OBVIOUS
  <2>1. children[t][i] \in Statements /\ children[t][i] > t
    BY StatementsAre
  <2>2. t \in Nat /\ children[t][i] \in Nat /\ Len(kind) \in Nat
    BY <2>1, NumbersAre
  <2>3. Len(kind) - children[t][i] < Len(kind) - t
    BY <2>1, <2>2
  <2> QED BY <2>1, <2>3
<1>2. \E f : IsGivenBy(f, Statements, SUBSET AllNodes, step)
  <2>1. step \in [[Statements -> SUBSET AllNodes] \X Statements -> SUBSET AllNodes]
    <3>1. \A w \in [Statements -> SUBSET AllNodes] \X Statements : Firsts(w[1], w[2]) \in SUBSET AllNodes
      BY FirstsAreNodes
    <3> QED BY <3>1
  <2>2. ASSUME NEW t \in Statements, NEW g \in [Statements -> SUBSET AllNodes],
               NEW h \in [Statements -> SUBSET AllNodes],
               \A u \in Statements : rank[u] < rank[t] => g[u] = h[u]
        PROVE  step[<<g, t>>] = step[<<h, t>>]
    <3>1. \A i \in 1 .. Len(children[t]) : g[children[t][i]] = h[children[t][i]]
      BY <2>2, <1>1
    <3>2. Firsts(g, t) = Firsts(h, t)
      <4>1. kind[t] \in Loops => g[Body(t)] = h[Body(t)]
        BY <3>1, LoopsHaveABody DEF Body
      <4>2. \A i \in Places(t) : g[children[t][i]] = h[children[t][i]]
        BY <3>1 DEF Places
      <4>3. CASE IsAtom(t)
        BY <4>3, FirstsAre
      <4>4. CASE ~IsAtom(t) /\ kind[t] = "block"
        <5>1. Firsts(g, t) = UNION {g[children[t][i]] :
                i \in {j \in Places(t) : \A k \in 1 .. j - 1 : Passes(children[t][k])}}
          BY <4>4, FirstsAre, Zenon
        <5>2. Firsts(h, t) = UNION {h[children[t][i]] :
                i \in {j \in Places(t) : \A k \in 1 .. j - 1 : Passes(children[t][k])}}
          BY <4>4, FirstsAre, Zenon
        <5> QED BY <4>2, <5>1, <5>2
      <4>5. CASE ~IsAtom(t) /\ kind[t] \in {"if", "while"}
        BY <4>5, FirstsAre
      <4>6. CASE ~IsAtom(t) /\ kind[t] = "doWhile"
        <5>1. kind[t] \in Loops
          BY <4>6, KindsAre
        <5>2. Firsts(g, t) = g[Body(t)] \cup (IF Passes(Body(t)) THEN {<<"Cond", t>>} ELSE {})
          BY <4>6, FirstsAre, Zenon
        <5>3. Firsts(h, t) = h[Body(t)] \cup (IF Passes(Body(t)) THEN {<<"Cond", t>>} ELSE {})
          BY <4>6, FirstsAre, Zenon
        <5> QED BY <4>1, <5>1, <5>2, <5>3
      <4>7. CASE ~IsAtom(t) /\ kind[t] = "for"
        <5>1. kind[t] \in Loops
          BY <4>7, KindsAre
        <5>2. Firsts(g, t) = IF "Init" \in header[t] THEN {<<"Init", t>>}
                        ELSE IF "Cond" \in header[t] THEN {<<"Cond", t>>}
                        ELSE g[Body(t)] \cup (IF Passes(Body(t)) THEN PartOf(t, "Exp") ELSE {})
          BY <4>7, FirstsAre, Zenon
        <5>3. Firsts(h, t) = IF "Init" \in header[t] THEN {<<"Init", t>>}
                        ELSE IF "Cond" \in header[t] THEN {<<"Cond", t>>}
                        ELSE h[Body(t)] \cup (IF Passes(Body(t)) THEN PartOf(t, "Exp") ELSE {})
          BY <4>7, FirstsAre, Zenon
        <5> QED BY <4>1, <5>1, <5>2, <5>3
      <4> QED BY <4>3, <4>4, <4>5, <4>6, <4>7, KindsAre
    <3>3. step[<<g, t>>] = Firsts(g, t) /\ step[<<h, t>>] = Firsts(h, t)
      OBVIOUS
    <3> QED BY <3>2, <3>3
  <2>3. rank \in [Statements -> 0 .. Len(kind)] /\ Len(kind) \in Nat /\ {} \in SUBSET AllNodes
    BY NumbersAre
  <2> HIDE DEF step, rank, first
  <2>4. Descends(Statements, SUBSET AllNodes, Len(kind), rank, step)
    BY <2>1, <2>2, <2>3 DEF Descends
  <2> QED BY <2>3, <2>4, CourseOfValues
<1>3. PICK g : g \in [Statements -> SUBSET AllNodes] /\ g = [t \in Statements |-> Firsts(g, t)]
  <2>1. PICK f : f \in [Statements -> SUBSET AllNodes] /\ f = [t \in Statements |-> step[<<f, t>>]]
    BY <1>2 DEF IsGivenBy
  <2>2. \A t \in Statements : step[<<f, t>>] = Firsts(f, t)
    BY <2>1
  <2> QED BY <2>1, <2>2
<1>4. first = [t \in Statements |-> Firsts(first, t)]
  BY <1>3
<1>5. \A t \in Statements : First(t) = first[t]
  BY DEF First, Firsts
<1> HIDE DEF first
<1> QED BY <1>4, <1>5

(* What entering a statement meets, kind by kind.                          *)
LEMMA EnterIs ==
  ASSUME program \in Programs, NEW s \in Statements, NEW X
  PROVE  /\ IsAtom(s) => Enter(s, X) = {Statement(s)}
         /\ ~IsAtom(s) /\ kind[s] = "block" => Enter(s, X) = Rest(s, 0, X)
         /\ ~IsAtom(s) /\ kind[s] \in {"if", "while"} => Enter(s, X) = {<<"Cond", s>>}
         /\ ~IsAtom(s) /\ kind[s] = "doWhile" => Enter(s, X) = Enter(Body(s), {<<"Cond", s>>})
         /\ ~IsAtom(s) /\ kind[s] = "for" =>
              Enter(s, X) = IF "Init" \in header[s] THEN {<<"Init", s>>} ELSE ForTest(s, X)
<1>1. PICK f : \A t \in Statements : First(t) = f[t] /\ f[t] = Firsts(f, t)
  BY FirstIs
<1>2. First(s) = Firsts(f, s) /\ \A i \in Places(s) : f[children[s][i]] = First(children[s][i])
  BY <1>1, KindsAre
<1>3. CASE IsAtom(s)
  <2>1. Firsts(f, s) = {Statement(s)} /\ ~Passes(s)
    BY <1>3, FirstsAre, PassesAre, Zenon
  <2> QED BY <1>2, <1>3, <2>1 DEF Enter
<1>4. CASE ~IsAtom(s) /\ kind[s] = "block"
  <2>1. Firsts(f, s) = UNION {f[children[s][i]] :
                i \in {j \in Places(s) : \A h \in 1 .. j - 1 : Passes(children[s][h])}}
    BY <1>4, FirstsAre, Zenon
  <2>2. First(s) = UNION {First(children[s][i]) :
                i \in {j \in Places(s) : \A h \in 1 .. j - 1 : Passes(children[s][h])}}
    BY <1>2, <2>1
  <2>3. Passes(s) <=> \A i \in Places(s) : Passes(children[s][i])
    BY <1>4, PassesAre
  <2>4. 0 + 1 = 1
    OBVIOUS
  <2> QED BY <1>4, <2>2, <2>3, <2>4 DEF Enter, Rest, Places
<1>5. CASE ~IsAtom(s) /\ kind[s] \in {"if", "while"}
  <2>1. Firsts(f, s) = {<<"Cond", s>>}
    BY <1>5, FirstsAre, Zenon
  <2>2. ~Passes(s)
    BY <1>5, PassesAre
  <2> QED BY <1>2, <1>5, <2>1, <2>2 DEF Enter
<1>6. CASE ~IsAtom(s) /\ kind[s] = "doWhile"
  <2>1. Firsts(f, s) = f[Body(s)] \cup (IF Passes(Body(s)) THEN {<<"Cond", s>>} ELSE {})
    BY <1>6, FirstsAre, Zenon
  <2>2. ~Passes(s)
    BY <1>6, PassesAre
  <2>3. f[Body(s)] = First(Body(s))
    BY <1>1, <1>6, LoopsHaveABody, KindsAre
  <2> QED BY <1>2, <1>6, <2>1, <2>2, <2>3 DEF Enter
<1>7. CASE ~IsAtom(s) /\ kind[s] = "for"
  <2>1. Firsts(f, s) = IF "Init" \in header[s] THEN {<<"Init", s>>}
                        ELSE IF "Cond" \in header[s] THEN {<<"Cond", s>>}
                        ELSE f[Body(s)] \cup (IF Passes(Body(s)) THEN PartOf(s, "Exp") ELSE {})
    BY <1>7, FirstsAre, Zenon
  <2>2. Passes(s) <=> "Init" \notin header[s] /\ "Cond" \notin header[s]
    BY <1>7, PassesAre
  <2>3. f[Body(s)] = First(Body(s))
    BY <1>1, <1>7, LoopsHaveABody, KindsAre
  <2> QED BY <1>2, <1>7, <2>1, <2>2, <2>3 DEF Enter, ForTest, PartOf
<1> QED BY <1>3, <1>4, <1>5, <1>6, <1>7

(* The rest of a block after its i-th statement: the next is entered, and  *)
(* followed by what is left.                                               *)
LEMMA RestIs ==
  ASSUME program \in Programs, NEW s \in Statements, NEW i \in 0 .. Len(children[s]), NEW X
  PROVE  Rest(s, i, X) = IF i = Len(children[s]) THEN X
                         ELSE Enter(children[s][i + 1], Rest(s, i + 1, X))
<1>1. Len(children[s]) \in Nat
  BY StatementsAre
<1> DEFINE n == Len(children[s])
           child(j) == children[s][j]
           open(k) == {j \in k + 1 .. n : \A h \in k + 1 .. j - 1 : Passes(child(h))}
           all(k) == \A h \in k + 1 .. n : Passes(child(h))
           firsts(k) == UNION {First(child(j)) : j \in open(k)}
<1>2. \A k : Rest(s, k, X) = firsts(k) \cup (IF all(k) THEN X ELSE {})
  BY DEF Rest
<1>3. CASE i = n
  <2>1. i + 1 .. n = {}
    BY <1>1, <1>3
  <2> QED BY <1>2, <1>3, <2>1
<1>4. CASE i # n
  <2>0. i + 1 \in 1 .. n /\ i \in Nat /\ n \in Nat
    BY <1>1, <1>4
  <2>1. all(i) <=> Passes(child(i + 1)) /\ all(i + 1)
    <3>1. \A h \in i + 1 .. n : h = i + 1 \/ h \in (i + 1) + 1 .. n
      BY <2>0
    <3>2. \A h \in (i + 1) + 1 .. n : h \in i + 1 .. n
      BY <2>0
    <3>3. i + 1 \in i + 1 .. n
      BY <2>0
    <3> QED BY <3>1, <3>2, <3>3
  <2>2. open(i) = {i + 1} \cup (IF Passes(child(i + 1)) THEN open(i + 1) ELSE {})
    <3>1. \A j \in i + 1 .. n : j = i + 1 \/ j \in (i + 1) + 1 .. n
      BY <2>0
    <3>2. \A j \in (i + 1) + 1 .. n : j \in i + 1 .. n /\ i + 1 \in i + 1 .. j - 1
      BY <2>0
    <3>3. i + 1 \in i + 1 .. n /\ \A h \in i + 1 .. (i + 1) - 1 : FALSE
      BY <2>0
    <3>4. ASSUME NEW j \in (i + 1) + 1 .. n
          PROVE  (\A h \in i + 1 .. j - 1 : Passes(child(h)))
                   <=> Passes(child(i + 1)) /\ \A h \in (i + 1) + 1 .. j - 1 : Passes(child(h))
      <4>1. \A h \in i + 1 .. j - 1 : h = i + 1 \/ h \in (i + 1) + 1 .. j - 1
        BY <2>0
      <4>2. \A h \in (i + 1) + 1 .. j - 1 : h \in i + 1 .. j - 1
        BY <2>0
      <4> HIDE DEF child, n
      <4> QED BY <3>2, <4>1, <4>2
    <3>5. i + 1 \in open(i)
      BY <3>3
    <3>6. \A j : j \in open(i) /\ j # i + 1 <=> Passes(child(i + 1)) /\ j \in open(i + 1)
      <4> SUFFICES ASSUME NEW j PROVE j \in open(i) /\ j # i + 1 <=> Passes(child(i + 1)) /\ j \in open(i + 1)
        OBVIOUS
      <4>1. CASE j \in (i + 1) + 1 .. n
        <5>1. j # i + 1
          BY <4>1, <2>0
        <5> HIDE DEF child, n
        <5> QED BY <4>1, <5>1, <3>2, <3>4
      <4>2. CASE j \notin (i + 1) + 1 .. n
        <5> HIDE DEF child, n
        <5> QED BY <4>2, <3>1
      <4> QED BY <4>1, <4>2
    <3> HIDE DEF open, child
    <3> QED BY <3>5, <3>6
  <2>3. firsts(i) = First(child(i + 1)) \cup (IF Passes(child(i + 1)) THEN firsts(i + 1) ELSE {})
    <3> HIDE DEF open, child
    <3> QED BY <2>2
  <2>4. Rest(s, i, X) = First(child(i + 1)) \cup (IF Passes(child(i + 1)) THEN Rest(s, i + 1, X) ELSE {})
    <3> HIDE DEF firsts, all
    <3> QED BY <1>2, <2>1, <2>3
  <2> QED BY <2>4, <1>4 DEF Enter
<1> QED BY <1>3, <1>4

(* A child has one parent and one place in it.                             *)
LEMMA ParentsAre ==
  ASSUME program \in Programs, NEW p \in Statements, NEW i \in Places(p)
  PROVE  /\ ParentOf(children[p][i]) = p /\ IndexOf(children[p][i]) = i
         /\ children[p][i] \in Statements /\ children[p][i] # 1 /\ children[p][i] > p
         /\ kind[p] \in {"block", "if"} \cup Loops
<1> DEFINE c == children[p][i]
           o == ParentOf(c)
<1>1. c \in Statements /\ c > p /\ p \in Nat \ {0} /\ kind[p] \in Reducible
  <2>1. p \in Nat \ {0} /\ children[p][i] \in Statements /\ children[p][i] > p
    BY KindsAre
  <2>2. kind[p] \notin Reducible => children[p] = <<>>
    BY StatementsAre
  <2>3. Len(<<>>) = 0 /\ \A x \in 1 .. 0 : FALSE
    OBVIOUS
  <2> QED BY <2>1, <2>2, <2>3 DEF Places
<1>2. o \in Statements /\ \E j \in Places(o) : children[o][j] = c
  BY DEF ParentOf, Places
<1>3. o = p
  BY <1>2, ChildrenDiffer
<1>4. IndexOf(c) \in Places(p) /\ children[p][IndexOf(c)] = c
  BY <1>3 DEF IndexOf, Places
<1>5. IndexOf(c) = i
  BY <1>4, ChildrenDiffer
<1>6. c # 1
  <2>1. p \in Nat /\ p # 0 /\ c \in Nat
    BY <1>1, KindsAre
  <2> QED BY <1>1, <2>1
<1> QED BY <1>1, <1>3, <1>5, <1>6 DEF Reducible

(* The points that follow a statement, from those that follow what it is   *)
(* in.                                                                     *)
Afters(f, t) ==
  IF t = 1 THEN {BodyEnd}
  ELSE LET p == ParentOf(t)
           sibling(j) == children[p][j]
           open == {j \in IndexOf(t) + 1..Len(children[p]) :
                      \A h \in IndexOf(t) + 1..j - 1 : Passes(sibling(h))}
           last == \A h \in IndexOf(t) + 1..Len(children[p]) : Passes(sibling(h))
       IN CASE kind[p] = "block" ->
                 (UNION {First(sibling(j)) : j \in open}) \cup (IF last THEN f[p] ELSE {})
            [] kind[p] = "if" -> f[p]
            [] kind[p] \in Loops -> NextRound(p, f[p])

(* What follows a child, by the kind of its parent.                        *)
LEMMA AftersAre ==
  ASSUME program \in Programs, NEW p \in Statements, NEW i \in Places(p), NEW f
  PROVE  Afters(f, children[p][i]) = CASE kind[p] = "block" -> Rest(p, i, f[p])
                                       [] kind[p] = "if" -> f[p]
                                       [] kind[p] \in Loops -> NextRound(p, f[p])
<1>1. /\ ParentOf(children[p][i]) = p /\ IndexOf(children[p][i]) = i /\ children[p][i] # 1
      /\ kind[p] \in {"block", "if"} \cup Loops
  BY ParentsAre
<1>2. CASE kind[p] = "block"
  BY <1>1, <1>2 DEF Afters, Rest
<1>3. CASE kind[p] = "if"
  BY <1>1, <1>3 DEF Afters
<1>4. CASE kind[p] \in Loops
  <2>1. kind[p] \notin {"block", "if"}
    BY <1>4 DEF Loops
  <2> QED BY <1>1, <1>4, <2>1 DEF Afters
<1> QED BY <1>1, <1>2, <1>3, <1>4

(* Points that may follow others. *)
PointsMet == AllNodes \cup UNION {First(s) : s \in Statements}

(* What entering a statement meets is among the points, if what follows it *)
(* is.                                                                     *)
LEMMA EntersAreMet ==
  ASSUME NEW s \in Statements, NEW X \in SUBSET PointsMet
  PROVE  Enter(s, X) \in SUBSET PointsMet
BY DEF Enter, PointsMet

(* The points that follow a statement, computed from points, are points.   *)
LEMMA AftersAreMet ==
  ASSUME program \in Programs, NEW f \in [Statements -> SUBSET PointsMet], NEW t \in Statements
  PROVE  Afters(f, t) \in SUBSET PointsMet
<1>0. \A s \in Nat : /\ <<"Cond", s>> \in PointsMet /\ <<"Init", s>> \in PointsMet /\ <<"Exp", s>> \in PointsMet /\ BodyEnd \in PointsMet
  BY DEF PointsMet, AllNodes, BodyEnd, EndRoles
<1>1. CASE t = 1
  BY <1>0, <1>1, KindsAre DEF Afters
<1>2. CASE t # 1
  <2>1. PICK p \in Statements : \E i \in Places(p) : children[p][i] = t
    BY <1>2, NumbersAre
  <2>2. PICK i \in Places(p) : children[p][i] = t
    BY <2>1
  <2>3. /\ Afters(f, t) = CASE kind[p] = "block" -> Rest(p, i, f[p])
                            [] kind[p] = "if" -> f[p]
                            [] kind[p] \in Loops -> NextRound(p, f[p])
    BY <2>2, AftersAre
  <2>4. kind[p] \in {"block", "if"} \cup Loops
    BY ParentsAre
  <2>5. Rest(p, i, f[p]) \in SUBSET PointsMet
    <3>1. \A j \in 1 .. Len(children[p]) : First(children[p][j]) \in SUBSET PointsMet
      BY KindsAre DEF PointsMet, Places
    <3>2. \A j \in i + 1 .. Len(children[p]) : j \in 1 .. Len(children[p])
      BY DEF Places
    <3>3. f[p] \in SUBSET PointsMet
      OBVIOUS
    <3> QED BY <3>1, <3>2, <3>3 DEF Rest
  <2>6. kind[p] \in Loops => NextRound(p, f[p]) \in SUBSET PointsMet
    <3> SUFFICES ASSUME kind[p] \in Loops PROVE NextRound(p, f[p]) \in SUBSET PointsMet
      OBVIOUS
    <3>1. p \in Nat /\ Body(p) \in Statements
      BY KindsAre, LoopsHaveABody
    <3>2. (IF "Exp" \in header[p] THEN {<<"Exp", p>>} ELSE {}) \in SUBSET PointsMet
      BY <1>0, <3>1
    <3>3. Enter(Body(p), IF "Exp" \in header[p] THEN {<<"Exp", p>>} ELSE {}) \in SUBSET PointsMet
      BY <3>1, <3>2, EntersAreMet
    <3>4. ForTest(p, f[p]) \in SUBSET PointsMet
      BY <1>0, <3>1, <3>3 DEF ForTest
    <3> QED BY <1>0, <3>1, <3>4 DEF NextRound
  <2>7. CASE kind[p] = "block"
    BY <2>3, <2>5, <2>7 DEF Loops
  <2>8. CASE kind[p] = "if"
    BY <2>3, <2>8 DEF Loops
  <2>9. CASE kind[p] \in Loops
    <3>1. kind[p] \notin {"block", "if"}
      BY <2>9 DEF Loops
    <3> QED BY <2>3, <2>6, <2>9, <3>1
  <2> QED BY <2>4, <2>7, <2>8, <2>9
<1> QED BY <1>1, <1>2

(* After is what its recursive definition says.                            *)
LEMMA AfterIs ==
  ASSUME program \in Programs
  PROVE  /\ After(1) = {BodyEnd}
         /\ \A p \in Statements : \A i \in Places(p) :
              /\ kind[p] = "block" => After(children[p][i]) = Rest(p, i, After(p))
              /\ kind[p] = "if" => After(children[p][i]) = After(p)
              /\ kind[p] \in Loops => After(children[p][i]) = NextRound(p, After(p))
<1> DEFINE step == [w \in [Statements -> SUBSET PointsMet] \X Statements |-> Afters(w[1], w[2])]
           rank == [t \in Statements |-> t]
           after == CHOOSE f : f = [t \in Statements |-> Afters(f, t)]
<1>2. \E f : IsGivenBy(f, Statements, SUBSET PointsMet, step)
  <2>1. step \in [[Statements -> SUBSET PointsMet] \X Statements -> SUBSET PointsMet]
    <3>1. \A w \in [Statements -> SUBSET PointsMet] \X Statements : Afters(w[1], w[2]) \in SUBSET PointsMet
      BY AftersAreMet
    <3> QED BY <3>1
  <2>2. ASSUME NEW t \in Statements, NEW g \in [Statements -> SUBSET PointsMet],
               NEW h \in [Statements -> SUBSET PointsMet],
               \A u \in Statements : rank[u] < rank[t] => g[u] = h[u]
        PROVE  step[<<g, t>>] = step[<<h, t>>]
    <3>1. CASE t = 1
      BY <3>1 DEF Afters
    <3>2. CASE t # 1
      <4>1. PICK p \in Statements : \E i \in Places(p) : children[p][i] = t
        BY <3>2, NumbersAre
      <4>2. PICK i \in Places(p) : children[p][i] = t
        BY <4>1
      <4>3. p < t
        <5>1. t > p /\ p \in Nat /\ t \in Nat
          BY <4>2, KindsAre
        <5> QED BY <5>1
      <4>4. g[p] = h[p]
        BY <2>2, <4>3
      <4>5. Afters(g, t) = Afters(h, t)
        BY <4>2, <4>4, AftersAre
      <4> QED BY <4>5
    <3> QED BY <3>1, <3>2
  <2>3. rank \in [Statements -> 0 .. Len(kind)] /\ Len(kind) \in Nat /\ {} \in SUBSET PointsMet
    BY NumbersAre
  <2> HIDE DEF step, rank, after
  <2>4. Descends(Statements, SUBSET PointsMet, Len(kind), rank, step)
    BY <2>1, <2>2, <2>3 DEF Descends
  <2> QED BY <2>3, <2>4, CourseOfValues
<1>3. PICK g : g \in [Statements -> SUBSET PointsMet] /\ g = [t \in Statements |-> Afters(g, t)]
  <2>1. PICK f : f \in [Statements -> SUBSET PointsMet] /\ f = [t \in Statements |-> step[<<f, t>>]]
    BY <1>2 DEF IsGivenBy
  <2>2. \A t \in Statements : step[<<f, t>>] = Afters(f, t)
    BY <2>1
  <2> QED BY <2>1, <2>2
<1>4. after = [t \in Statements |-> Afters(after, t)]
  BY <1>3
<1>5. \A t \in Statements : After(t) = after[t]
  BY DEF After, Afters
<1> HIDE DEF after
<1>6. \A t \in Statements : After(t) = Afters(after, t)
  BY <1>4, <1>5
<1>7. After(1) = {BodyEnd}
  BY <1>6, NumbersAre DEF Afters
<1>8. ASSUME NEW p \in Statements, NEW i \in Places(p)
      PROVE  /\ kind[p] = "block" => After(children[p][i]) = Rest(p, i, After(p))
             /\ kind[p] = "if" => After(children[p][i]) = After(p)
             /\ kind[p] \in Loops => After(children[p][i]) = NextRound(p, After(p))
  <2>1. After(children[p][i]) = Afters(after, children[p][i]) /\ after[p] = After(p)
    BY <1>5, <1>6, KindsAre
  <2>2. Afters(after, children[p][i]) = CASE kind[p] = "block" -> Rest(p, i, after[p])
                                       [] kind[p] = "if" -> after[p]
                                       [] kind[p] \in Loops -> NextRound(p, after[p])
    BY AftersAre, Zenon
  <2>3. kind[p] \in Loops => kind[p] # "block" /\ kind[p] # "if"
    BY DEF Loops
  <2> QED BY <2>1, <2>2, <2>3
<1> QED BY <1>7, <1>8

(* The innermost loop around a child is its parent, if that is a loop, or  *)
(* the one around its parent.                                              *)
LEMMA LoopOfIs ==
  ASSUME program \in Programs
  PROVE  /\ LoopOf(1) = 0
         /\ \A p \in Statements : \A i \in Places(p) :
              LoopOf(children[p][i]) = IF kind[p] \in Loops THEN p ELSE LoopOf(p)
<1> DEFINE is(f, t) == IF t = 1 THEN 0
                       ELSE IF kind[ParentOf(t)] \in Loops THEN ParentOf(t) ELSE f[ParentOf(t)]
           step == [w \in [Statements -> Nat] \X Statements |-> is(w[1], w[2])]
           rank == [t \in Statements |-> t]
           loop == CHOOSE f : f = [t \in Statements |-> is(f, t)]
<1>1. \A t \in Statements : t # 1 => ParentOf(t) \in Statements /\ ParentOf(t) < t /\ ParentOf(t) \in Nat
  <2> SUFFICES ASSUME NEW t \in Statements, t # 1
               PROVE  ParentOf(t) \in Statements /\ ParentOf(t) < t /\ ParentOf(t) \in Nat
    OBVIOUS
  <2>1. PICK p \in Statements : \E i \in Places(p) : children[p][i] = t
    BY NumbersAre
  <2>2. ParentOf(t) = p /\ t > p
    BY <2>1, ParentsAre
  <2>3. p \in Nat /\ t \in Nat
    BY KindsAre
  <2> QED BY <2>2, <2>3
<1>2. \E f : IsGivenBy(f, Statements, Nat, step)
  <2>1. step \in [[Statements -> Nat] \X Statements -> Nat]
    <3>1. ASSUME NEW f \in [Statements -> Nat], NEW t \in Statements PROVE is(f, t) \in Nat
      BY <1>1
    <3> HIDE DEF is
    <3>2. \A w \in [Statements -> Nat] \X Statements : is(w[1], w[2]) \in Nat
      BY <3>1
    <3> QED BY <3>2
  <2>2. ASSUME NEW t \in Statements, NEW g \in [Statements -> Nat], NEW h \in [Statements -> Nat],
               \A u \in Statements : rank[u] < rank[t] => g[u] = h[u]
        PROVE  step[<<g, t>>] = step[<<h, t>>]
    <3>1. t # 1 => g[ParentOf(t)] = h[ParentOf(t)]
      BY <1>1, <2>2
    <3>2. is(g, t) = is(h, t)
      BY <3>1
    <3> QED BY <3>2
  <2>3. rank \in [Statements -> 0 .. Len(kind)] /\ Len(kind) \in Nat /\ 0 \in Nat
    BY NumbersAre
  <2> HIDE DEF step, rank, loop, is
  <2>4. Descends(Statements, Nat, Len(kind), rank, step)
    BY <2>1, <2>2, <2>3 DEF Descends
  <2> QED BY <2>3, <2>4, CourseOfValues
<1>3. PICK g : g \in [Statements -> Nat] /\ g = [t \in Statements |-> is(g, t)]
  <2>1. PICK f : f \in [Statements -> Nat] /\ f = [t \in Statements |-> step[<<f, t>>]]
    BY <1>2 DEF IsGivenBy
  <2>2. \A t \in Statements : step[<<f, t>>] = is(f, t)
    BY <2>1
  <2> HIDE DEF is
  <2> QED BY <2>1, <2>2
<1>4. loop = [t \in Statements |-> is(loop, t)]
  BY <1>3
<1>5. \A t \in Statements : LoopOf(t) = loop[t]
  BY DEF LoopOf
<1> HIDE DEF loop
<1>6. \A t \in Statements : LoopOf(t) = is(loop, t)
  <2> HIDE DEF is
  <2> QED BY <1>4, <1>5
<1>7. 1 \in Statements
  BY NumbersAre
<1>8. ASSUME NEW p \in Statements, NEW i \in Places(p)
      PROVE  LoopOf(children[p][i]) = IF kind[p] \in Loops THEN p ELSE LoopOf(p)
  <2>1. ParentOf(children[p][i]) = p /\ children[p][i] # 1 /\ children[p][i] \in Statements
    BY ParentsAre
  <2> QED BY <1>5, <1>6, <2>1
<1> QED BY <1>6, <1>7, <1>8

-------------------------------------------------------------------------------
(* What is met first from a node of the graph on, in the program's terms,  *)
(* and what comes after it. Along every edge of a graph of templates the   *)
(* one is part of the other.                                               *)

Test(s) == ForTest(s, After(s))
Round(s) == NextRound(s, After(s))
OtherBranch(s) == IF Len(children[s]) = 2 THEN Enter(children[s][2], After(s)) ELSE After(s)
Tested(s) ==
  IF kind[s] = "if" THEN Enter(Body(s), After(s)) \cup OtherBranch(s)
  ELSE After(s) \cup Enter(Body(s), Round(s))

(* The points met first from a node on, by its role. *)
MetFrom(role, s) ==
  CASE role \in {"Statement", "Start"} -> Enter(s, After(s))
    [] role \in {"End", "EndTrue", "EndFalse"} -> After(s)
    [] role = "StartTrue" -> Enter(Body(s), After(s))
    [] role = "StartFalse" -> OtherBranch(s)
    [] role = "StartInit" -> IF "Init" \in header[s] THEN {<<"Init", s>>} ELSE Test(s)
    [] role \in {"EndInit", "EndExp"} -> Test(s)
    [] role = "StartCond" -> IF kind[s] = "for" THEN Test(s) ELSE {<<"Cond", s>>}
    [] role = "EndCond" -> Tested(s)
    [] role = "StartBody" -> Enter(Body(s), Round(s))
    [] role \in {"EndBody", "StartExp"} -> Round(s)
    [] role \in {"Cond", "Init", "Exp"} -> {<<role, s>>}

(* And from what comes after it on. *)
LedTo(role, s) ==
  CASE role = "Statement" -> After(s)
    [] role = "Cond" -> Tested(s)
    [] role \in {"Init", "Exp"} -> Test(s)
    [] role \in StartRoles \cup EndRoles -> MetFrom(role, s)

Meets(n) ==
  IF n = BodyEnd THEN {BodyEnd} ELSE IF n = BodyStart THEN Enter(1, {BodyEnd}) ELSE MetFrom(n[1], n[2])
Leads(n) == IF n \in {BodyStart, BodyEnd} THEN Meets(n) ELSE LedTo(n[1], n[2])

(* MetFrom, role by role.                                                  *)
LEMMA MetFromAre ==
  ASSUME NEW s
  PROVE  /\ MetFrom("Statement", s) = Enter(s, After(s)) /\ MetFrom("Start", s) = Enter(s, After(s))
         /\ MetFrom("End", s) = After(s) /\ MetFrom("EndTrue", s) = After(s) /\ MetFrom("EndFalse", s) = After(s)
         /\ MetFrom("StartTrue", s) = Enter(Body(s), After(s))
         /\ MetFrom("StartFalse", s) = OtherBranch(s)
         /\ MetFrom("StartInit", s) = IF "Init" \in header[s] THEN {<<"Init", s>>} ELSE Test(s)
         /\ MetFrom("EndInit", s) = Test(s) /\ MetFrom("EndExp", s) = Test(s)
         /\ MetFrom("StartCond", s) = IF kind[s] = "for" THEN Test(s) ELSE {<<"Cond", s>>}
         /\ MetFrom("EndCond", s) = Tested(s)
         /\ MetFrom("StartBody", s) = Enter(Body(s), Round(s))
         /\ MetFrom("EndBody", s) = Round(s) /\ MetFrom("StartExp", s) = Round(s)
         /\ MetFrom("Cond", s) = {<<"Cond", s>>} /\ MetFrom("Init", s) = {<<"Init", s>>}
         /\ MetFrom("Exp", s) = {<<"Exp", s>>}
BY DEF MetFrom

(* LedTo, role by role: from a void it is what is met there.               *)
LEMMA LedToAre ==
  ASSUME NEW s
  PROVE  /\ LedTo("Statement", s) = After(s) /\ LedTo("Cond", s) = Tested(s)
         /\ LedTo("Init", s) = Test(s) /\ LedTo("Exp", s) = Test(s)
         /\ \A role \in StartRoles \cup EndRoles : LedTo(role, s) = MetFrom(role, s)
BY DEF LedTo, StartRoles, EndRoles

(* Along the edges of an if's template: what is met at an edge's end is    *)
(* met after its beginning.                                                *)
LEMMA IfMeets ==
  ASSUME program \in Programs, NEW s \in Statements, kind[s] = "if", ~IsAtom(s)
  PROVE  \A e \in TemplateEdges(s) : MetFrom(e[2][1], e[2][2]) \subseteq LedTo(e[1][1], e[1][2])
<1>1. Len(children[s]) \in {1, 2} /\ Places(s) = 1 .. Len(children[s])
  BY StatementsAre DEF Places
<1>2. Enter(s, After(s)) = {<<"Cond", s>>}
  BY EnterIs
<1>3. \A i \in Places(s) : After(children[s][i]) = After(s)
  BY AfterIs
<1>4. After(Body(s)) = After(s)
  BY <1>1, <1>3 DEF Body
<1>5. Len(children[s]) = 2 => After(children[s][2]) = After(s)
  BY <1>1, <1>3
<1>6. \A role \in {"Start", "StartCond", "EndCond", "StartTrue", "EndTrue", "StartFalse", "EndFalse", "End"} :
        LedTo(role, s) = MetFrom(role, s)
  BY LedToAre DEF StartRoles, EndRoles
<1> DEFINE OK(e) == MetFrom(e[2][1], e[2][2]) \subseteq LedTo(e[1][1], e[1][2])
<1>7. /\ OK(E(s, "Start", "StartCond")) /\ OK(E(s, "StartCond", "Cond")) /\ OK(E(s, "Cond", "EndCond"))
      /\ OK(E(s, "EndCond", "StartTrue")) /\ OK(E(s, "EndTrue", "End"))
      /\ OK(E(s, "EndCond", "StartFalse")) /\ OK(E(s, "EndFalse", "End"))
  BY <1>2, <1>6, MetFromAre, LedToAre DEF E, Tested
<1>8. OK(ToChild(s, "StartTrue", 1)) /\ OK(FromChild(s, 1, "EndTrue"))
  BY <1>4, <1>6, MetFromAre, LedToAre DEF ToChild, FromChild, Statement, Body
<1>9. Len(children[s]) = 2 => OK(ToChild(s, "StartFalse", 2)) /\ OK(FromChild(s, 2, "EndFalse"))
  BY <1>5, <1>6, MetFromAre, LedToAre DEF ToChild, FromChild, Statement, OtherBranch
<1>10. Len(children[s]) # 2 => OK(E(s, "StartFalse", "EndFalse"))
  BY <1>6, MetFromAre, LedToAre DEF E, OtherBranch
<1> HIDE DEF OK
<1>11. \A e \in TemplateEdges(s) : OK(e)
  BY <1>7, <1>8, <1>9, <1>10, IfTemplate
<1> QED BY <1>11 DEF OK

(* Where a loop's body leads, and its condition, by what its header has.   *)
LEMMA RoundIs ==
  ASSUME program \in Programs, NEW s \in Statements, kind[s] \in Loops, NEW X
  PROVE  /\ kind[s] # "for" => NextRound(s, X) = {<<"Cond", s>>}
         /\ kind[s] = "for" =>
              NextRound(s, X) = IF "Exp" \in header[s] THEN {<<"Exp", s>>} ELSE ForTest(s, X)
         /\ "Cond" \in header[s] => ForTest(s, X) = {<<"Cond", s>>}
         /\ "Cond" \notin header[s] =>
              ForTest(s, X) = X \cup Enter(Body(s), IF "Exp" \in header[s] THEN {<<"Exp", s>>} ELSE {})
BY DEF NextRound, ForTest

(* The same along the edges of a while's and of a do's template.           *)
LEMMA WhileMeets ==
  ASSUME program \in Programs, NEW s \in Statements, kind[s] \in {"while", "doWhile"}, ~IsAtom(s)
  PROVE  \A e \in TemplateEdges(s) : MetFrom(e[2][1], e[2][2]) \subseteq LedTo(e[1][1], e[1][2])
<1>1. kind[s] \in Loops /\ kind[s] # "for" /\ kind[s] # "if" /\ 1 \in Places(s)
  BY LoopsHaveABody DEF Loops
<1>2. Enter(s, After(s)) = IF kind[s] = "while" THEN {<<"Cond", s>>} ELSE Enter(Body(s), {<<"Cond", s>>})
  BY EnterIs
<1>3. Round(s) = {<<"Cond", s>>}
  BY <1>1, RoundIs DEF Round
<1>4. After(Body(s)) = Round(s)
  BY <1>1, AfterIs DEF Body, Round
<1>6. \A role \in {"Start", "StartCond", "EndCond", "StartBody", "EndBody", "End"} :
        LedTo(role, s) = MetFrom(role, s)
  BY LedToAre DEF StartRoles, EndRoles
<1> DEFINE OK(e) == MetFrom(e[2][1], e[2][2]) \subseteq LedTo(e[1][1], e[1][2])
<1>5. Tested(s) = After(s) \cup Enter(Body(s), Round(s))
  BY <1>1 DEF Tested
<1>14. MetFrom("StartBody", s) = Enter(Body(s), {<<"Cond", s>>}) /\ MetFrom("StartBody", s) \subseteq Tested(s)
  <2>1. MetFrom("StartBody", s) = Enter(Body(s), Round(s))
    BY MetFromAre
  <2> QED BY <1>3, <1>5, <2>1, Zenon
<1>12. kind[s] = "while" => OK(E(s, "Start", "StartCond"))
  BY <1>1, <1>2, <1>6, MetFromAre DEF E
<1>13. kind[s] = "doWhile" => OK(E(s, "Start", "StartBody"))
  <2> SUFFICES ASSUME kind[s] = "doWhile" PROVE OK(E(s, "Start", "StartBody"))
    OBVIOUS
  <2>1. MetFrom("Start", s) = Enter(Body(s), {<<"Cond", s>>}) /\ LedTo("Start", s) = MetFrom("Start", s)
    BY <1>2, <1>6, MetFromAre
  <2>2. MetFrom("StartBody", s) \subseteq LedTo("Start", s)
    BY <2>1, <1>14
  <2> QED BY <2>2 DEF E
<1>7. /\ OK(E(s, "StartCond", "Cond")) /\ OK(E(s, "Cond", "EndCond"))
      /\ OK(E(s, "EndCond", "StartBody")) /\ OK(E(s, "EndBody", "StartCond"))
      /\ OK(E(s, "EndCond", "End"))
  <2>1. /\ MetFrom("StartCond", s) = {<<"Cond", s>>} /\ MetFrom("EndBody", s) = {<<"Cond", s>>}
        /\ MetFrom("Cond", s) = {<<"Cond", s>>} /\ LedTo("Cond", s) = Tested(s)
        /\ MetFrom("EndCond", s) = Tested(s) /\ MetFrom("End", s) = After(s)
    BY <1>1, <1>3, MetFromAre, LedToAre
  <2> QED BY <1>5, <1>6, <1>14, <2>1 DEF E
<1>8. OK(ToChild(s, "StartBody", 1)) /\ OK(FromChild(s, 1, "EndBody"))
  BY <1>4, <1>6, MetFromAre, LedToAre DEF ToChild, FromChild, Statement, Body
<1> HIDE DEF OK
<1>9. CASE kind[s] = "while"
  <2>1. \A e \in TemplateEdges(s) : OK(e)
    BY <1>7, <1>8, <1>9, <1>12, WhileTemplate
  <2> QED BY <2>1 DEF OK
<1>10. CASE kind[s] = "doWhile"
  <2>1. \A e \in TemplateEdges(s) : OK(e)
    BY <1>7, <1>8, <1>10, <1>13, DoWhileTemplate
  <2> QED BY <2>1 DEF OK
<1> QED BY <1>9, <1>10

(* With neither a condition nor an expression, a body that can be passed   *)
(* leads around the loop.                                                  *)
LEMMA TestIsReached ==
  ASSUME program \in Programs, NEW s \in Statements, kind[s] = "for", "Cond" \notin header[s]
  PROVE  Tested(s) \subseteq Test(s)
<1>1. /\ kind[s] \in Loops /\ kind[s] # "if"
      /\ Test(s) = After(s) \cup Enter(Body(s), IF "Exp" \in header[s] THEN {<<"Exp", s>>} ELSE {})
      /\ Round(s) = IF "Exp" \in header[s] THEN {<<"Exp", s>>} ELSE Test(s)
  BY RoundIs DEF Loops, Test, Round
<1> QED BY <1>1 DEF Tested, Enter

(* The edges by way of an optional part are two or one.                    *)
LEMMA BetweenAre ==
  ASSUME NEW s, NEW m, NEW part, NEW n, NEW e \in Between(s, m, part, n)
  PROVE  \/ part \in header[s] /\ e \in {<<m, <<part, s>>>>, <<<<part, s>>, n>>}
         \/ part \notin header[s] /\ e = <<m, n>>
BY DEF Between

(* The same along the edges of a for's template.                           *)
LEMMA ForMeets ==
  ASSUME program \in Programs, NEW s \in Statements, kind[s] = "for", ~IsAtom(s)
  PROVE  \A e \in TemplateEdges(s) : MetFrom(e[2][1], e[2][2]) \subseteq LedTo(e[1][1], e[1][2])
<1>1. kind[s] \in Loops /\ kind[s] # "if" /\ 1 \in Places(s)
  BY LoopsHaveABody DEF Loops
<1>2. Enter(s, After(s)) = IF "Init" \in header[s] THEN {<<"Init", s>>} ELSE Test(s)
  BY EnterIs DEF Test
<1>3. /\ Round(s) = IF "Exp" \in header[s] THEN {<<"Exp", s>>} ELSE Test(s)
      /\ "Cond" \in header[s] => Test(s) = {<<"Cond", s>>}
      /\ "Cond" \notin header[s] => Tested(s) \subseteq Test(s)
  BY <1>1, RoundIs, TestIsReached DEF Round, Test
<1>4. After(Body(s)) = Round(s)
  BY <1>1, AfterIs DEF Body, Round
<1>5. After(s) \subseteq Tested(s) /\ Enter(Body(s), Round(s)) \subseteq Tested(s)
  BY <1>1 DEF Tested
<1>6. \A role \in {"Start", "StartInit", "EndInit", "StartCond", "EndCond", "StartBody", "EndBody",
                   "StartExp", "EndExp", "End"} : LedTo(role, s) = MetFrom(role, s)
  BY LedToAre DEF StartRoles, EndRoles
<1> DEFINE OK(e) == MetFrom(e[2][1], e[2][2]) \subseteq LedTo(e[1][1], e[1][2])
<1>7. /\ OK(E(s, "Start", "StartInit")) /\ OK(E(s, "EndInit", "StartCond"))
      /\ OK(E(s, "EndCond", "StartBody")) /\ OK(E(s, "EndBody", "StartExp"))
      /\ OK(E(s, "EndExp", "StartCond")) /\ OK(E(s, "EndCond", "End"))
  BY <1>1, <1>2, <1>5, <1>6, MetFromAre DEF E
<1>8. OK(ToChild(s, "StartBody", 1)) /\ OK(FromChild(s, 1, "EndBody"))
  BY <1>4, <1>6, MetFromAre, LedToAre DEF ToChild, FromChild, Statement, Body
<1>9. \A e \in Between(s, <<"StartInit", s>>, "Init", <<"EndInit", s>>) : OK(e)
  <2> SUFFICES ASSUME NEW e \in Between(s, <<"StartInit", s>>, "Init", <<"EndInit", s>>) PROVE OK(e)
    OBVIOUS
  <2>1. \/ "Init" \in header[s] /\ e \in {E(s, "StartInit", "Init"), E(s, "Init", "EndInit")}
        \/ "Init" \notin header[s] /\ e = E(s, "StartInit", "EndInit")
    BY BetweenAre DEF E
  <2> QED BY <2>1, <1>6, MetFromAre, LedToAre DEF E
<1>10. \A e \in Between(s, <<"StartCond", s>>, "Cond", <<"EndCond", s>>) : OK(e)
  <2> SUFFICES ASSUME NEW e \in Between(s, <<"StartCond", s>>, "Cond", <<"EndCond", s>>) PROVE OK(e)
    OBVIOUS
  <2>1. \/ "Cond" \in header[s] /\ e \in {E(s, "StartCond", "Cond"), E(s, "Cond", "EndCond")}
        \/ "Cond" \notin header[s] /\ e = E(s, "StartCond", "EndCond")
    BY BetweenAre DEF E
  <2> QED BY <2>1, <1>3, <1>6, MetFromAre, LedToAre DEF E
<1>11. \A e \in Between(s, <<"StartExp", s>>, "Exp", <<"EndExp", s>>) : OK(e)
  <2> SUFFICES ASSUME NEW e \in Between(s, <<"StartExp", s>>, "Exp", <<"EndExp", s>>) PROVE OK(e)
    OBVIOUS
  <2>1. \/ "Exp" \in header[s] /\ e \in {E(s, "StartExp", "Exp"), E(s, "Exp", "EndExp")}
        \/ "Exp" \notin header[s] /\ e = E(s, "StartExp", "EndExp")
    BY BetweenAre DEF E
  <2> QED BY <2>1, <1>3, <1>6, MetFromAre, LedToAre DEF E
<1> HIDE DEF OK
<1>12. \A e \in TemplateEdges(s) : OK(e)
  BY <1>7, <1>8, <1>9, <1>10, <1>11, ForTemplate
<1> QED BY <1>12 DEF OK

(* The same along the edges of a block's template.                         *)
LEMMA BlockMeets ==
  ASSUME program \in Programs, NEW s \in Statements, kind[s] = "block", ~IsAtom(s)
  PROVE  \A e \in TemplateEdges(s) : MetFrom(e[2][1], e[2][2]) \subseteq LedTo(e[1][1], e[1][2])
<1> DEFINE n == Len(children[s])
           rest(i) == Rest(s, i, After(s))
<1>1. n \in Nat
  BY BlockEdgesAre
<1>2. Enter(s, After(s)) = rest(0)
  BY EnterIs
<1>3. \A i \in 1 .. n : After(children[s][i]) = rest(i)
  BY AfterIs DEF Places
<1>4. ASSUME NEW i \in 0 .. n
      PROVE  MetFrom(Place(s, i + 1)[1], Place(s, i + 1)[2]) = rest(i)
  <2>1. rest(i) = IF i = n THEN After(s) ELSE Enter(children[s][i + 1], rest(i + 1))
    BY RestIs
  <2>2. CASE i = n
    <3>1. Place(s, i + 1) = <<"End", s>>
      BY <2>2, <1>1 DEF Place
    <3> QED BY <2>1, <2>2, <3>1, MetFromAre
  <2>3. CASE i # n
    <3>1. i + 1 \in 1 .. n /\ i + 1 # 0 /\ i + 1 # n + 1
      BY <2>3, <1>1
    <3>2. Place(s, i + 1) = <<"Statement", children[s][i + 1]>>
      BY <3>1 DEF Place, ChildAt, Statement
    <3> QED BY <2>1, <2>3, <3>1, <3>2, <1>3, MetFromAre
  <2> QED BY <2>2, <2>3
<1>5. ASSUME NEW i \in 0 .. n
      PROVE  LedTo(Place(s, i)[1], Place(s, i)[2]) = rest(i)
  <2>1. CASE i = 0
    <3>1. Place(s, i) = <<"Start", s>> /\ "Start" \in StartRoles \cup EndRoles
      BY <2>1 DEF Place, StartRoles
    <3> QED BY <2>1, <3>1, <1>2, LedToAre, MetFromAre
  <2>2. CASE i # 0
    <3>1. i \in 1 .. n /\ i # n + 1
      BY <2>2, <1>1
    <3>2. Place(s, i) = <<"Statement", children[s][i]>>
      BY <2>2, <3>1 DEF Place, ChildAt, Statement
    <3> QED BY <3>1, <3>2, <1>3, LedToAre
  <2> QED BY <2>1, <2>2
<1> SUFFICES ASSUME NEW e \in TemplateEdges(s)
             PROVE  MetFrom(e[2][1], e[2][2]) \subseteq LedTo(e[1][1], e[1][2])
  OBVIOUS
<1>6. PICK i \in 0 .. n : e = <<Place(s, i), Place(s, i + 1)>>
  BY BlockEdgesAre
<1>7. e[1] = Place(s, i) /\ e[2] = Place(s, i + 1)
  BY <1>6
<1> HIDE DEF rest, n
<1> QED BY <1>4, <1>5, <1>7

(* So it is along the edges of every template.                             *)
LEMMA TemplateMeets ==
  ASSUME program \in Programs, NEW s \in Statements, ~IsAtom(s)
  PROVE  \A e \in TemplateEdges(s) : MetFrom(e[2][1], e[2][2]) \subseteq LedTo(e[1][1], e[1][2])
<1>1. kind[s] \in {"block", "if", "while", "doWhile", "for"}
  BY KindsAre
<1> QED BY <1>1, BlockMeets, IfMeets, WhileMeets, ForMeets

(* The statements taken as atoms are those of the graph that are not       *)
(* reduced.                                                                *)
IsMet(R, s) == s = 1 \/ \E p \in R : \E i \in Places(p) : children[p][i] = s
AtomsAre(R) == \A s \in Statements : IsMet(R, s) => (IsAtom(s) <=> s \notin R)

(* What was reduced is not taken as an atom.                               *)
LEMMA ReducedAreNoAtoms ==
  ASSUME program \in Programs, NEW R, IsTree(R), AtomsAre(R), NEW s \in R
  PROVE  s \in Statements /\ ~IsAtom(s) /\ IsReducible(s) /\ IsMet(R, s) /\ s # 0
<1>1. s \in Statements /\ IsReducible(s) /\ IsMet(R, s)
  BY DEF IsTree, IsMet
<1> QED BY <1>1, KindsAre DEF AtomsAre

(* A reduced statement's start and end stand for it.                       *)
LEMMA MeetsThrough ==
  ASSUME NEW R, NEW n \in AllNodes, n[2] # 0
  PROVE  Meets(Enters(R, n)) = MetFrom(n[1], n[2]) /\ Leads(Leaves(R, n)) = LedTo(n[1], n[2])
<1>1. \A role : <<role, n[2]>> # BodyStart /\ <<role, n[2]>> # BodyEnd
  BY DEF BodyStart, BodyEnd
<1>2. n = <<n[1], n[2]>>
  BY DEF AllNodes
<1>3. CASE IsIn(R, n)
  <2>1. n[1] = "Statement" /\ Enters(R, n) = <<"Start", n[2]>> /\ Leaves(R, n) = <<"End", n[2]>>
    BY <1>3 DEF IsIn, IsStatement, Enters, Leaves
  <2>2. Meets(<<"Start", n[2]>>) = MetFrom("Start", n[2]) /\ Leads(<<"End", n[2]>>) = LedTo("End", n[2])
    BY <1>1 DEF Meets, Leads
  <2>3. "End" \in StartRoles \cup EndRoles
    BY DEF EndRoles
  <2> QED BY <2>1, <2>2, <2>3, MetFromAre, LedToAre
<1>4. CASE ~IsIn(R, n)
  <2>1. Enters(R, n) = n /\ Leaves(R, n) = n
    BY <1>4 DEF Enters, Leaves
  <2>2. n # BodyStart /\ n # BodyEnd
    BY <1>1, <1>2
  <2> QED BY <2>1, <2>2 DEF Meets, Leads
<1> QED BY <1>3, <1>4

(* The nodes of a template belong to statements; 0 is for the whole        *)
(* body's.                                                                 *)
LEMMA TemplateEndsAre ==
  ASSUME program \in Programs, NEW s \in Statements, IsReducible(s), NEW f \in TemplateEdges(s)
  PROVE  f = <<f[1], f[2]>> /\ f[1] \in AllNodes /\ f[2] \in AllNodes /\ f[1][2] # 0 /\ f[2][2] # 0
<1>1. TemplateShape(s)
  BY TemplatesHaveShape
<1>2. f \in AllNodes \X AllNodes
  BY <1>1 DEF TemplateShape
<1>3. f[1] \in Ends(TemplateEdges(s)) /\ f[2] \in Ends(TemplateEdges(s))
  BY DEF Ends
<1>4. ASSUME NEW n \in Ends(TemplateEdges(s)) PROVE n[2] # 0
  <2>1. CASE IsStatement(n)
    <3>1. PICK i \in Places(s) : n = ChildAt(s, i)
      BY <1>1, <2>1 DEF TemplateShape
    <3>2. children[s][i] # 0
      BY KindsAre
    <3> QED BY <3>1, <3>2 DEF ChildAt, Statement
  <2>2. CASE ~IsStatement(n)
    <3>1. n[2] = s
      BY <1>1, <2>2, OthersAreOfTheTemplate
    <3> QED BY <3>1, KindsAre
  <2> QED BY <2>1, <2>2
<1> QED BY <1>2, <1>3, <1>4

(* What is met at the end of an edge is met by following it.               *)
LEMMA GraphMeets ==
  ASSUME program \in Programs, NEW R, IsTree(R), AtomsAre(R)
  PROVE  \A e \in EdgesOf(R) : Meets(e[2]) \subseteq Leads(e[1])
<1> SUFFICES ASSUME NEW f \in Templates(R)
             PROVE  Meets(Enters(R, f[2])) \subseteq Leads(Leaves(R, f[1]))
  BY DEF EdgesOf
<1>1. After(1) = {BodyEnd} /\ 1 \in Statements
  BY AfterIs, NumbersAre
<1>2. Statement(1) \in AllNodes /\ Statement(1)[1] = "Statement" /\ Statement(1)[2] = 1 /\ 1 # 0
  BY DEF AllNodes, Statement
<1>3. /\ Meets(Enters(R, Statement(1))) = Enter(1, {BodyEnd})
      /\ Leads(Leaves(R, Statement(1))) = {BodyEnd}
  <2>1. /\ Meets(Enters(R, Statement(1))) = MetFrom("Statement", 1)
        /\ Leads(Leaves(R, Statement(1))) = LedTo("Statement", 1)
    BY <1>2, MeetsThrough
  <2> QED BY <1>1, <2>1, MetFromAre, LedToAre
<1>4. /\ Enters(R, BodyEnd) = BodyEnd /\ Leaves(R, BodyStart) = BodyStart
      /\ Meets(BodyEnd) = {BodyEnd} /\ Leads(BodyStart) = Enter(1, {BodyEnd})
  BY DEF Enters, Leaves, IsIn, IsStatement, BodyStart, BodyEnd, Meets, Leads
<1>5. CASE f = <<BodyStart, Statement(1)>>
  BY <1>3, <1>4, <1>5
<1>6. CASE f = <<Statement(1), BodyEnd>>
  BY <1>3, <1>4, <1>6
<1>7. CASE f \in UNION {TemplateEdges(s) : s \in R}
  <2>1. PICK s \in R : f \in TemplateEdges(s)
    BY <1>7
  <2>2. s \in Statements /\ ~IsAtom(s) /\ IsReducible(s)
    BY ReducedAreNoAtoms
  <2>3. MetFrom(f[2][1], f[2][2]) \subseteq LedTo(f[1][1], f[1][2])
    BY <2>1, <2>2, TemplateMeets
  <2>4. f[1] \in AllNodes /\ f[2] \in AllNodes /\ f[1][2] # 0 /\ f[2][2] # 0
    BY <2>1, <2>2, TemplateEndsAre
  <2> QED BY <2>3, <2>4, MeetsThrough
<1> QED BY <1>5, <1>6, <1>7 DEF Templates

-------------------------------------------------------------------------------
(* Against it: a set of nodes that has what follows each void in it has    *)
(* all that the program says is met.                                       *)

(* A set of nodes that has what follows each void in it, and its points.   *)
Onward(R, D) == \A e \in EdgesOf(R) : e[1] \in D /\ ~IsPoint(e[1]) => e[2] \in D
PointsIn(D) == {m \in D : IsPoint(m)}

(* How such a set goes through the template of s.                          *)
Roads(R, D, s) ==
  /\ \A a \in StartRoles \cup EndRoles, b \in StartRoles \cup EndRoles \cup {"Cond", "Init", "Exp"} :
       E(s, a, b) \in TemplateEdges(s) /\ <<a, s>> \in D => <<b, s>> \in D
  /\ \A a \in StartRoles \cup EndRoles : \A i \in Places(s) :
       ToChild(s, a, i) \in TemplateEdges(s) /\ <<a, s>> \in D => Enters(R, ChildAt(s, i)) \in D
  /\ \A i \in Places(s) : children[s][i] \in R /\ <<"End", children[s][i]>> \in D => Enters(R, Follow(s, i)) \in D

(* An onward set goes through the template of everything reduced.          *)
LEMMA RoadsAre ==
  ASSUME program \in Programs, NEW R, IsTree(R), NEW D, Onward(R, D), NEW s \in R
  PROVE  Roads(R, D, s)
<1>1. s \in Statements /\ IsReducible(s) /\ TemplateShape(s) /\ s # 0
  BY TemplatesHaveShape, KindsAre DEF IsTree
<1>2. ASSUME NEW f \in TemplateEdges(s), Leaves(R, f[1]) \in D, IsVoid(Leaves(R, f[1])), Leaves(R, f[1]) # BodyEnd
      PROVE  Enters(R, f[2]) \in D
  <2>1. f \in Templates(R)
    BY DEF Templates
  <2>2. <<Leaves(R, f[1]), Enters(R, f[2])>> \in EdgesOf(R)
    BY <2>1 DEF EdgesOf
  <2> QED BY <1>2, <2>2 DEF Onward, IsPoint
<1>3. \A a : <<a, s>> # BodyEnd
  BY <1>1 DEF BodyEnd
<1>4. \A a \in StartRoles \cup EndRoles \cup {"Cond", "Init", "Exp"} :
        Leaves(R, <<a, s>>) = <<a, s>> /\ Enters(R, <<a, s>>) = <<a, s>>
  BY DEF Leaves, Enters, IsIn, IsStatement, StartRoles, EndRoles
<1>5. \A a \in StartRoles \cup EndRoles : IsVoid(<<a, s>>)
  BY DEF IsVoid
<1>6. ASSUME NEW a \in StartRoles \cup EndRoles, NEW b \in StartRoles \cup EndRoles \cup {"Cond", "Init", "Exp"},
             E(s, a, b) \in TemplateEdges(s), <<a, s>> \in D
      PROVE  <<b, s>> \in D
  <2>1. E(s, a, b)[1] = <<a, s>> /\ E(s, a, b)[2] = <<b, s>>
    BY DEF E
  <2> QED BY <1>2, <1>3, <1>4, <1>5, <1>6, <2>1
<1>7. ASSUME NEW a \in StartRoles \cup EndRoles, NEW i \in Places(s),
             ToChild(s, a, i) \in TemplateEdges(s), <<a, s>> \in D
      PROVE  Enters(R, ChildAt(s, i)) \in D
  <2>1. ToChild(s, a, i)[1] = <<a, s>> /\ ToChild(s, a, i)[2] = ChildAt(s, i)
    BY DEF ToChild, ChildAt
  <2> QED BY <1>2, <1>3, <1>4, <1>5, <1>7, <2>1
<1>8. ASSUME NEW i \in Places(s), children[s][i] \in R, <<"End", children[s][i]>> \in D
      PROVE  Enters(R, Follow(s, i)) \in D
  <2>1. <<ChildAt(s, i), Follow(s, i)>> \in TemplateEdges(s)
    BY <1>1 DEF TemplateShape
  <2>2. Leaves(R, ChildAt(s, i)) = <<"End", children[s][i]>>
    BY <1>8 DEF ChildAt, Statement, Leaves, IsIn, IsStatement
  <2>3. children[s][i] # 0
    BY <1>1, KindsAre
  <2>4. IsVoid(<<"End", children[s][i]>>) /\ <<"End", children[s][i]>> # BodyEnd
    BY <2>3 DEF IsVoid, EndRoles, BodyEnd
  <2>5. <<ChildAt(s, i), Follow(s, i)>>[1] = ChildAt(s, i) /\ <<ChildAt(s, i), Follow(s, i)>>[2] = Follow(s, i)
    OBVIOUS
  <2> QED BY <1>2, <1>8, <2>1, <2>2, <2>4, <2>5
<1> QED BY <1>6, <1>7, <1>8 DEF Roads

(* The points met first in s, and from its end on, are in the set.         *)
Passable(R, D, s) ==
  \A X : Enters(R, Statement(s)) \in D /\ (s \in R /\ <<"End", s>> \in D => X \subseteq PointsIn(D))
           => Enter(s, X) \subseteq PointsIn(D)
ChildrenPassable(R, D, s) == \A i \in Places(s) : Passable(R, D, children[s][i])

(* Conditions, initializations and loop expressions are points.            *)
LEMMA PartsArePoints ==
  ASSUME NEW D, NEW s, NEW part \in {"Cond", "Init", "Exp"}, <<part, s>> \in D
  PROVE  {<<part, s>>} \subseteq PointsIn(D)
BY DEF PointsIn, IsPoint, IsVoid, StartRoles, EndRoles

(* Whoever meets an atom meets its point, and nothing has to come of it.   *)
LEMMA AtomsArePassable ==
  ASSUME program \in Programs, NEW R, NEW D, NEW s \in Statements, IsAtom(s), s \notin R
  PROVE  Passable(R, D, s)
<1>1. Enters(R, Statement(s)) = Statement(s) /\ IsPoint(Statement(s))
  BY DEF Enters, IsIn, IsStatement, Statement, IsPoint, IsVoid, StartRoles, EndRoles
<1>2. \A X : Enter(s, X) = {Statement(s)}
  BY EnterIs
<1> QED BY <1>1, <1>2 DEF Passable, PointsIn

(* Along a block.                                                          *)
LEMMA BlockGoesOn ==
  ASSUME program \in Programs, NEW R, NEW D, NEW s \in Statements, kind[s] = "block",
         Roads(R, D, s), ChildrenPassable(R, D, s),
         NEW X, <<"End", s>> \in D => X \subseteq PointsIn(D)
  PROVE  \A i \in 0 .. Len(children[s]) :
           Enters(R, Place(s, i + 1)) \in D => Rest(s, i, X) \subseteq PointsIn(D)
<1> DEFINE n == Len(children[s])
           Goes(i) == Enters(R, Place(s, i + 1)) \in D => Rest(s, i, X) \subseteq PointsIn(D)
           S == {k \in 0 .. n : Goes(n - k)}
<1>1. n \in Nat
  BY BlockEdgesAre
<1>2. 0 \in S
  <2>1. Place(s, n + 1) = <<"End", s>> /\ Enters(R, <<"End", s>>) = <<"End", s>>
    BY <1>1 DEF Place, Enters, IsIn, IsStatement
  <2>2. Rest(s, n, X) = X
    BY <1>1, RestIs
  <2>3. Goes(n)
    BY <2>1, <2>2
  <2>4. n - 0 = n /\ 0 \in 0 .. n
    BY <1>1
  <2> QED BY <2>3, <2>4
<1>3. ASSUME NEW k \in 0 .. n - 1, k \in S PROVE k + 1 \in S
  <2> DEFINE i == n - (k + 1)
  <2>1. i \in 0 .. n /\ i # n /\ i + 1 = n - k /\ i + 1 \in 1 .. n /\ k + 1 \in 0 .. n /\ i + 1 # 0 /\ i + 1 # n + 1
    BY <1>1
  <2>2. Goes(i + 1)
    <3>1. Goes(n - k)
      BY <1>3
    <3> QED BY <2>1, <3>1
  <2> HIDE DEF i
  <2>3. Rest(s, i, X) = Enter(children[s][i + 1], Rest(s, i + 1, X))
    BY <2>1, RestIs
  <2>4. Place(s, i + 1) = Statement(children[s][i + 1])
    BY <2>1 DEF Place, ChildAt
  <2>5. i + 1 \in Places(s) /\ Follow(s, i + 1) = Place(s, (i + 1) + 1)
    <3>1. (i + 1 = n <=> (i + 1) + 1 = n + 1) /\ (i + 1) + 1 # 0 /\ i + 1 \in 1 .. n
      BY <1>1, <2>1
    <3>2. Follow(s, i + 1) = IF i + 1 = Len(children[s]) THEN <<"End", s>> ELSE ChildAt(s, (i + 1) + 1)
      BY DEF Follow
    <3> QED BY <3>1, <3>2 DEF Place, Places
  <2>6. children[s][i + 1] \in R /\ <<"End", children[s][i + 1]>> \in D => Rest(s, i + 1, X) \subseteq PointsIn(D)
    BY <2>2, <2>5 DEF Roads
  <2>7. Passable(R, D, children[s][i + 1])
    BY <2>5 DEF ChildrenPassable
  <2>8. Goes(i)
    BY <2>3, <2>4, <2>6, <2>7 DEF Passable
  <2> QED BY <2>1, <2>8 DEF i
<1>4. 0 .. n \subseteq S
  <2> HIDE DEF S
  <2> QED BY <1>1, <1>2, <1>3, RangeInduction
<1>5. ASSUME NEW i \in 0 .. n PROVE Goes(i)
  <2>1. n - i \in 0 .. n /\ n - (n - i) = i
    BY <1>1
  <2>2. n - i \in S
    <3> HIDE DEF S
    <3> QED BY <1>4, <2>1
  <2>3. Goes(n - (n - i))
    BY <2>2
  <2> QED BY <2>1, <2>3
<1> QED BY <1>5

(* The roads of a template, one kind of edge at a time.                    *)
LEMMA RoadsTaken ==
  ASSUME NEW R, NEW D, NEW s, Roads(R, D, s)
  PROVE  /\ \A a \in StartRoles \cup EndRoles, b \in StartRoles \cup EndRoles \cup {"Cond", "Init", "Exp"} :
              E(s, a, b) \in TemplateEdges(s) /\ <<a, s>> \in D => <<b, s>> \in D
         /\ \A a \in StartRoles \cup EndRoles, i \in Places(s) :
              ToChild(s, a, i) \in TemplateEdges(s) /\ <<a, s>> \in D => Enters(R, ChildAt(s, i)) \in D
BY DEF Roads

(* Through the body of a loop.                                             *)
LEMMA BodyGoesOn ==
  ASSUME program \in Programs, NEW R, NEW D, NEW s \in Statements, kind[s] \in Loops,
         Roads(R, D, s), ChildrenPassable(R, D, s), <<"StartBody", s>> \in D,
         NEW X, <<"EndBody", s>> \in D => X \subseteq PointsIn(D)
  PROVE  Enter(Body(s), X) \subseteq PointsIn(D)
<1>1. 1 \in Places(s) /\ Places(s) = {1} /\ kind[s] \notin {"block", "if"}
  BY LoopsHaveABody
<1>2. ToChild(s, "StartBody", 1) \in TemplateEdges(s)
  <2>1. kind[s] \in {"while", "doWhile", "for"}
    BY KindsAre
  <2> QED BY <2>1, WhileTemplate, DoWhileTemplate, ForTemplate
<1>3. Enters(R, ChildAt(s, 1)) \in D
  BY <1>1, <1>2, RoadsTaken DEF StartRoles
<1>4. Enters(R, Follow(s, 1)) = <<"EndBody", s>>
  BY <1>1 DEF Follow, Enters, IsIn, IsStatement
<1>5. children[s][1] \in R /\ <<"End", children[s][1]>> \in D => X \subseteq PointsIn(D)
  BY <1>1, <1>4 DEF Roads
<1>6. Passable(R, D, Body(s))
  BY <1>1 DEF ChildrenPassable, Body
<1> QED BY <1>3, <1>5, <1>6 DEF Passable, ChildAt, Body

(* From the nodes of a loop's template, if what its end leads to is X.     *)
LEMMA WhileGoesOn ==
  ASSUME program \in Programs, NEW R, NEW D, NEW s \in Statements, kind[s] \in {"while", "doWhile"},
         Roads(R, D, s), ChildrenPassable(R, D, s),
         NEW X, <<"End", s>> \in D => X \subseteq PointsIn(D)
  PROVE  /\ <<"StartCond", s>> \in D => {<<"Cond", s>>} \subseteq PointsIn(D)
         /\ <<"StartBody", s>> \in D => Enter(Body(s), {<<"Cond", s>>}) \subseteq PointsIn(D)
         /\ <<"EndCond", s>> \in D => X \cup Enter(Body(s), {<<"Cond", s>>}) \subseteq PointsIn(D)
<1>1. kind[s] \in Loops
  BY KindsAre
<1>2. /\ E(s, "StartCond", "Cond") \in TemplateEdges(s) /\ E(s, "EndBody", "StartCond") \in TemplateEdges(s)
      /\ E(s, "EndCond", "StartBody") \in TemplateEdges(s) /\ E(s, "EndCond", "End") \in TemplateEdges(s)
  BY WhileTemplate, DoWhileTemplate
<1>3. /\ <<"StartCond", s>> \in D => <<"Cond", s>> \in D
      /\ <<"EndBody", s>> \in D => <<"StartCond", s>> \in D
      /\ <<"EndCond", s>> \in D => <<"StartBody", s>> \in D /\ <<"End", s>> \in D
  BY <1>2, RoadsTaken DEF StartRoles, EndRoles
<1>4. <<"StartCond", s>> \in D => {<<"Cond", s>>} \subseteq PointsIn(D)
  BY <1>3, PartsArePoints
<1>5. <<"EndBody", s>> \in D => {<<"Cond", s>>} \subseteq PointsIn(D)
  BY <1>3, <1>4
<1>6. <<"StartBody", s>> \in D => Enter(Body(s), {<<"Cond", s>>}) \subseteq PointsIn(D)
  BY <1>1, <1>5, BodyGoesOn
<1> QED BY <1>3, <1>4, <1>6

(* The roads through the template of a for, part by part.                  *)
LEMMA ForRoads ==
  ASSUME program \in Programs, NEW R, NEW D, NEW s \in Statements, kind[s] = "for", Roads(R, D, s)
  PROVE  /\ <<"Start", s>> \in D => <<"StartInit", s>> \in D
         /\ <<"StartInit", s>> \in D => IF "Init" \in header[s] THEN <<"Init", s>> \in D ELSE <<"EndInit", s>> \in D
         /\ <<"EndInit", s>> \in D => <<"StartCond", s>> \in D
         /\ <<"StartCond", s>> \in D => IF "Cond" \in header[s] THEN <<"Cond", s>> \in D ELSE <<"EndCond", s>> \in D
         /\ <<"EndCond", s>> \in D => <<"StartBody", s>> \in D /\ <<"End", s>> \in D
         /\ <<"EndBody", s>> \in D => <<"StartExp", s>> \in D
         /\ <<"StartExp", s>> \in D => IF "Exp" \in header[s] THEN <<"Exp", s>> \in D ELSE <<"EndExp", s>> \in D
         /\ <<"EndExp", s>> \in D => <<"StartCond", s>> \in D
<1>1. /\ E(s, "Start", "StartInit") \in TemplateEdges(s) /\ E(s, "EndInit", "StartCond") \in TemplateEdges(s)
      /\ E(s, "EndCond", "StartBody") \in TemplateEdges(s) /\ E(s, "EndCond", "End") \in TemplateEdges(s)
      /\ E(s, "EndBody", "StartExp") \in TemplateEdges(s) /\ E(s, "EndExp", "StartCond") \in TemplateEdges(s)
      /\ Between(s, <<"StartInit", s>>, "Init", <<"EndInit", s>>) \subseteq TemplateEdges(s)
      /\ Between(s, <<"StartCond", s>>, "Cond", <<"EndCond", s>>) \subseteq TemplateEdges(s)
      /\ Between(s, <<"StartExp", s>>, "Exp", <<"EndExp", s>>) \subseteq TemplateEdges(s)
  BY ForTemplate
<1>2. /\ IF "Init" \in header[s] THEN E(s, "StartInit", "Init") \in TemplateEdges(s)
                                 ELSE E(s, "StartInit", "EndInit") \in TemplateEdges(s)
      /\ IF "Cond" \in header[s] THEN E(s, "StartCond", "Cond") \in TemplateEdges(s)
                                 ELSE E(s, "StartCond", "EndCond") \in TemplateEdges(s)
      /\ IF "Exp" \in header[s] THEN E(s, "StartExp", "Exp") \in TemplateEdges(s)
                                ELSE E(s, "StartExp", "EndExp") \in TemplateEdges(s)
  BY <1>1 DEF Between, E
<1>3. /\ "Start" \in StartRoles /\ "StartInit" \in StartRoles /\ "StartCond" \in StartRoles
      /\ "StartBody" \in StartRoles /\ "StartExp" \in StartRoles
      /\ "End" \in EndRoles /\ "EndInit" \in EndRoles /\ "EndCond" \in EndRoles
      /\ "EndBody" \in EndRoles /\ "EndExp" \in EndRoles
  BY DEF StartRoles, EndRoles
<1>4. /\ <<"Start", s>> \in D => <<"StartInit", s>> \in D
      /\ <<"EndInit", s>> \in D => <<"StartCond", s>> \in D
      /\ <<"EndCond", s>> \in D => <<"StartBody", s>> \in D /\ <<"End", s>> \in D
      /\ <<"EndBody", s>> \in D => <<"StartExp", s>> \in D
      /\ <<"EndExp", s>> \in D => <<"StartCond", s>> \in D
  BY <1>1, <1>3, RoadsTaken
<1>5. <<"StartInit", s>> \in D => IF "Init" \in header[s] THEN <<"Init", s>> \in D ELSE <<"EndInit", s>> \in D
  BY <1>2, <1>3, RoadsTaken
<1>6. <<"StartCond", s>> \in D => IF "Cond" \in header[s] THEN <<"Cond", s>> \in D ELSE <<"EndCond", s>> \in D
  BY <1>2, <1>3, RoadsTaken
<1>7. <<"StartExp", s>> \in D => IF "Exp" \in header[s] THEN <<"Exp", s>> \in D ELSE <<"EndExp", s>> \in D
  BY <1>2, <1>3, RoadsTaken
<1> QED BY <1>4, <1>5, <1>6, <1>7

(* An onward set has what each part of a for leads to.                     *)
LEMMA ForGoesOn ==
  ASSUME program \in Programs, NEW R, NEW D, NEW s \in Statements, kind[s] = "for",
         Roads(R, D, s), ChildrenPassable(R, D, s),
         NEW X, <<"End", s>> \in D => X \subseteq PointsIn(D)
  PROVE  /\ <<"StartCond", s>> \in D => ForTest(s, X) \subseteq PointsIn(D)
         /\ <<"StartExp", s>> \in D => NextRound(s, X) \subseteq PointsIn(D)
         /\ <<"StartBody", s>> \in D => Enter(Body(s), NextRound(s, X)) \subseteq PointsIn(D)
         /\ <<"EndCond", s>> \in D => X \cup Enter(Body(s), NextRound(s, X)) \subseteq PointsIn(D)
         /\ <<"StartInit", s>> \in D =>
              (IF "Init" \in header[s] THEN {<<"Init", s>>} ELSE ForTest(s, X)) \subseteq PointsIn(D)
<1>1. kind[s] \in Loops
  BY DEF Loops
<1>2. \A part \in {"Cond", "Init", "Exp"} : <<part, s>> \in D => {<<part, s>>} \subseteq PointsIn(D)
  BY PartsArePoints
<1> DEFINE exp == IF "Exp" \in header[s] THEN {<<"Exp", s>>} ELSE {}
<1>3. <<"StartBody", s>> \in D => Enter(Body(s), exp) \subseteq PointsIn(D)
  <2>1. <<"EndBody", s>> \in D => exp \subseteq PointsIn(D)
    BY <1>2, ForRoads
  <2> HIDE DEF exp
  <2> QED BY <1>1, <2>1, BodyGoesOn
<1>4. <<"StartCond", s>> \in D => ForTest(s, X) \subseteq PointsIn(D)
  <2>1. CASE "Cond" \in header[s]
    <3>1. ForTest(s, X) = {<<"Cond", s>>}
      BY <2>1 DEF ForTest
    <3>2. <<"StartCond", s>> \in D => <<"Cond", s>> \in D
      BY <2>1, ForRoads
    <3> QED BY <3>1, <3>2, <1>2
  <2>2. CASE "Cond" \notin header[s]
    <3>1. ForTest(s, X) = X \cup Enter(Body(s), exp)
      BY <2>2 DEF ForTest
    <3>2. <<"StartCond", s>> \in D => <<"StartBody", s>> \in D /\ <<"End", s>> \in D
      BY <2>2, ForRoads
    <3> HIDE DEF exp
    <3> QED BY <3>1, <3>2, <1>3
  <2> QED BY <2>1, <2>2
<1>5. <<"StartExp", s>> \in D => NextRound(s, X) \subseteq PointsIn(D)
  <2>1. NextRound(s, X) = IF "Exp" \in header[s] THEN {<<"Exp", s>>} ELSE ForTest(s, X)
    BY DEF NextRound
  <2>2. <<"StartExp", s>> \in D => IF "Exp" \in header[s] THEN <<"Exp", s>> \in D ELSE <<"StartCond", s>> \in D
    BY ForRoads
  <2> QED BY <1>2, <1>4, <2>1, <2>2
<1>6. <<"StartBody", s>> \in D => Enter(Body(s), NextRound(s, X)) \subseteq PointsIn(D)
  <2>1. <<"EndBody", s>> \in D => NextRound(s, X) \subseteq PointsIn(D)
    BY <1>5, ForRoads
  <2> QED BY <1>1, <2>1, BodyGoesOn
<1>7. <<"EndCond", s>> \in D => X \cup Enter(Body(s), NextRound(s, X)) \subseteq PointsIn(D)
  <2>1. <<"EndCond", s>> \in D => <<"StartBody", s>> \in D /\ <<"End", s>> \in D
    BY ForRoads
  <2> QED BY <1>6, <2>1
<1>8. <<"StartInit", s>> \in D =>
        (IF "Init" \in header[s] THEN {<<"Init", s>>} ELSE ForTest(s, X)) \subseteq PointsIn(D)
  <2>1. <<"StartInit", s>> \in D => IF "Init" \in header[s] THEN <<"Init", s>> \in D ELSE <<"StartCond", s>> \in D
    BY ForRoads
  <2> QED BY <1>2, <1>4, <2>1
<1> QED BY <1>4, <1>5, <1>6, <1>7, <1>8

(* What has passable children, and was reduced, is passable.               *)
LEMMA StatementsArePassable ==
  ASSUME program \in Programs, NEW R, NEW D, NEW s \in R, s \in Statements, ~IsAtom(s),
         Roads(R, D, s), ChildrenPassable(R, D, s)
  PROVE  Passable(R, D, s)
<1> SUFFICES ASSUME NEW X, Enters(R, Statement(s)) \in D, <<"End", s>> \in D => X \subseteq PointsIn(D)
             PROVE  Enter(s, X) \subseteq PointsIn(D)
  BY DEF Passable
<1>1. <<"Start", s>> \in D
  BY DEF Enters, IsIn, IsStatement, Statement
<1>2. kind[s] \in {"block", "if", "while", "doWhile", "for"}
  BY KindsAre
<1>3. CASE kind[s] = "block"
  <2>1. Enter(s, X) = Rest(s, 0, X)
    BY <1>3, EnterIs, Zenon
  <2>2. Len(children[s]) \in Nat /\ 0 \in 0 .. Len(children[s]) /\ 0 + 1 = 1 /\ 0 + 1 \in 0 .. Len(children[s]) + 1
    BY <1>3, BlockEdgesAre
  <2>3. Enters(R, Place(s, 1)) \in D
    <3>1. CASE Len(children[s]) = 0
      <4>1. TemplateEdges(s) = {<<Place(s, i), Place(s, i + 1)>> : i \in 0 .. 0}
        BY <1>3, <3>1, BlockEdgesAre
      <4>2. Place(s, 0) = <<"Start", s>> /\ Place(s, 1) = <<"End", s>> /\ 0 \in 0 .. 0 /\ 0 + 1 = 1
        BY <3>1 DEF Place
      <4>3. E(s, "Start", "End") \in TemplateEdges(s)
        BY <4>1, <4>2 DEF E
      <4>4. <<"End", s>> \in D
        BY <1>1, <4>3, RoadsTaken DEF StartRoles, EndRoles
      <4> QED BY <4>2, <4>4 DEF Enters, IsIn, IsStatement
    <3>2. CASE Len(children[s]) # 0
      <4>1. 1 \in Places(s) /\ 1 # Len(children[s]) + 1 /\ 0 \in 0 .. Len(children[s])
        BY <2>2, <3>2 DEF Places
      <4>2. Place(s, 0) = <<"Start", s>> /\ Place(s, 1) = ChildAt(s, 1)
        BY <4>1 DEF Place
      <4>3. ToChild(s, "Start", 1) \in TemplateEdges(s)
        BY <1>3, <2>2, <4>2, BlockEdgesAre DEF ToChild, ChildAt
      <4>4. "Start" \in StartRoles \cup EndRoles
        BY DEF StartRoles
      <4> QED BY <1>1, <4>1, <4>2, <4>3, <4>4, RoadsTaken
    <3> QED BY <3>1, <3>2
  <2>4. \A i \in 0 .. Len(children[s]) :
           Enters(R, Place(s, i + 1)) \in D => Rest(s, i, X) \subseteq PointsIn(D)
    BY <1>3, BlockGoesOn
  <2> QED BY <2>1, <2>2, <2>3, <2>4
<1>4. CASE kind[s] \in {"if", "while"}
  <2>1. Enter(s, X) = {<<"Cond", s>>}
    BY <1>4, EnterIs, Zenon
  <2>2. E(s, "Start", "StartCond") \in TemplateEdges(s) /\ E(s, "StartCond", "Cond") \in TemplateEdges(s)
    BY <1>4, IfTemplate, WhileTemplate
  <2>3. <<"Cond", s>> \in D
    BY <1>1, <2>2, RoadsTaken DEF StartRoles
  <2> QED BY <2>1, <2>3, PartsArePoints
<1>5. CASE kind[s] = "doWhile"
  <2>1. Enter(s, X) = Enter(Body(s), {<<"Cond", s>>})
    BY <1>5, EnterIs, Zenon
  <2>2. E(s, "Start", "StartBody") \in TemplateEdges(s)
    BY <1>5, DoWhileTemplate
  <2>3. <<"StartBody", s>> \in D
    BY <1>1, <2>2, RoadsTaken DEF StartRoles
  <2>4. Enter(Body(s), {<<"Cond", s>>}) \subseteq PointsIn(D)
    BY <1>5, <2>3, WhileGoesOn
  <2> QED BY <2>1, <2>4
<1>6. CASE kind[s] = "for"
  <2>1. Enter(s, X) = IF "Init" \in header[s] THEN {<<"Init", s>>} ELSE ForTest(s, X)
    BY <1>6, EnterIs, Zenon
  <2>2. <<"StartInit", s>> \in D
    BY <1>1, <1>6, ForRoads
  <2>3. (IF "Init" \in header[s] THEN {<<"Init", s>>} ELSE ForTest(s, X)) \subseteq PointsIn(D)
    BY <1>6, <2>2, ForGoesOn
  <2> QED BY <2>1, <2>3
<1> QED BY <1>2, <1>3, <1>4, <1>5, <1>6

(* So is everything met, the innermost first.                              *)
LEMMA AllArePassable ==
  ASSUME program \in Programs, NEW R, IsTree(R), AtomsAre(R), NEW D, Onward(R, D)
  PROVE  \A s \in Statements : IsMet(R, s) => Passable(R, D, s)
<1> DEFINE top == Len(kind)
           S == {k \in 0 .. top : \A s \in Statements : IsMet(R, s) /\ s > top - k => Passable(R, D, s)}
<1>1. top \in Nat /\ \A s \in Statements : s \in Nat /\ s > 0 /\ ~(s > top)
  BY NumbersAre DEF Statements
<1>2. 0 \in S
  <2>1. top - 0 = top /\ 0 \in 0 .. top
    BY <1>1
  <2> QED BY <1>1, <2>1
<1>3. ASSUME NEW k \in 0 .. top - 1, k \in S PROVE k + 1 \in S
  <2> SUFFICES ASSUME NEW s \in Statements, IsMet(R, s), s > top - (k + 1) PROVE Passable(R, D, s)
    BY <1>1
  <2>1. s > top - k \/ s = top - k
    BY <1>1
  <2>2. CASE s > top - k
    BY <1>3, <2>2
  <2>3. CASE s = top - k
    <3>1. CASE s \in R
      <4>1. ~IsAtom(s)
        BY <3>1, ReducedAreNoAtoms
      <4>2. Roads(R, D, s)
        BY <3>1, RoadsAre
      <4>3. ASSUME NEW i \in Places(s) PROVE Passable(R, D, children[s][i])
        <5>1. children[s][i] \in Statements /\ children[s][i] > s
          BY KindsAre
        <5>2. IsMet(R, children[s][i])
          BY <3>1 DEF IsMet
        <5> QED BY <1>3, <2>3, <5>1, <5>2
      <4>4. ChildrenPassable(R, D, s)
        BY <4>3 DEF ChildrenPassable
      <4> QED BY <3>1, <4>1, <4>2, <4>4, StatementsArePassable
    <3>2. CASE s \notin R
      <4>1. IsAtom(s)
        BY <3>2 DEF AtomsAre
      <4> QED BY <3>2, <4>1, AtomsArePassable
    <3> QED BY <3>1, <3>2
  <2> QED BY <2>1, <2>2, <2>3
<1>4. 0 .. top \subseteq S
  <2> HIDE DEF S
  <2> QED BY <1>1, <1>2, <1>3, RangeInduction
<1>5. top \in S
  <2> HIDE DEF S
  <2> QED BY <1>1, <1>4
<1>6. \A s \in Statements : s > top - top
  BY <1>1
<1> QED BY <1>5, <1>6

(* What follows a statement is in the set, if what follows the statement   *)
(* around it is.                                                           *)
LEMMA ChildGoesOn ==
  ASSUME program \in Programs, NEW R, NEW D, NEW s \in Statements, Roads(R, D, s), ChildrenPassable(R, D, s),
         <<"End", s>> \in D => After(s) \subseteq PointsIn(D),
         NEW i \in Places(s), Enters(R, Follow(s, i)) \in D
  PROVE  After(children[s][i]) \subseteq PointsIn(D)
<1>1. kind[s] \in {"block", "if"} \cup Loops
  BY ParentsAre
<1>2. CASE kind[s] = "block"
  <2>1. After(children[s][i]) = Rest(s, i, After(s))
    BY <1>2, AfterIs
  <2>2. Len(children[s]) \in Nat /\ i \in 0 .. Len(children[s]) /\ Follow(s, i) = Place(s, i + 1)
    <3>1. Len(children[s]) \in Nat /\ i \in 1 .. Len(children[s])
      BY <1>2, BlockEdgesAre DEF Places
    <3>2. Follow(s, i) = IF i = Len(children[s]) THEN <<"End", s>> ELSE ChildAt(s, i + 1)
      BY <1>2 DEF Follow
    <3>3. i + 1 # 0 /\ (i = Len(children[s]) <=> i + 1 = Len(children[s]) + 1)
      BY <3>1
    <3> QED BY <3>1, <3>2, <3>3 DEF Place
  <2>3. \A j \in 0 .. Len(children[s]) :
           Enters(R, Place(s, j + 1)) \in D => Rest(s, j, After(s)) \subseteq PointsIn(D)
    BY <1>2, BlockGoesOn
  <2> QED BY <2>1, <2>2, <2>3
<1>3. CASE kind[s] = "if"
  <2>1. After(children[s][i]) = After(s)
    BY <1>3, AfterIs
  <2>2. Follow(s, i) \in {<<"EndTrue", s>>, <<"EndFalse", s>>}
    BY <1>3 DEF Follow
  <2>3. Enters(R, Follow(s, i)) = Follow(s, i)
    BY <2>2 DEF Enters, IsIn, IsStatement
  <2>4. E(s, "EndTrue", "End") \in TemplateEdges(s) /\ E(s, "EndFalse", "End") \in TemplateEdges(s)
    BY <1>3, IfTemplate
  <2>5. <<"End", s>> \in D
    BY <2>2, <2>3, <2>4, RoadsTaken DEF EndRoles
  <2> QED BY <2>1, <2>5
<1>4. CASE kind[s] \in Loops
  <2>1. After(children[s][i]) = NextRound(s, After(s))
    BY <1>4, AfterIs
  <2>2. <<"EndBody", s>> \in D
    <3>1. Follow(s, i) = <<"EndBody", s>>
      BY <1>4, LoopsHaveABody DEF Follow
    <3> QED BY <3>1 DEF Enters, IsIn, IsStatement
  <2>3. CASE kind[s] = "for"
    <3>1. <<"StartExp", s>> \in D
      BY <2>2, <2>3, ForRoads
    <3> QED BY <2>1, <2>3, <3>1, ForGoesOn
  <2>4. CASE kind[s] # "for"
    <3>1. kind[s] \in {"while", "doWhile"}
      BY <1>4, <2>4 DEF Loops
    <3>2. E(s, "EndBody", "StartCond") \in TemplateEdges(s)
      BY <3>1, WhileTemplate, DoWhileTemplate
    <3>3. <<"StartCond", s>> \in D
      BY <2>2, <3>2, RoadsTaken DEF StartRoles, EndRoles
    <3>4. {<<"Cond", s>>} \subseteq PointsIn(D)
      BY <3>1, <3>3, WhileGoesOn
    <3>5. NextRound(s, After(s)) = {<<"Cond", s>>}
      BY <2>4 DEF NextRound
    <3> QED BY <2>1, <3>4, <3>5
  <2> QED BY <2>3, <2>4
<1> QED BY <1>1, <1>2, <1>3, <1>4

(* From the end of what was reduced an onward set goes on to what follows  *)
(* it, the outermost first.                                                *)
LEMMA EndsGoOn ==
  ASSUME program \in Programs, NEW R, IsTree(R), AtomsAre(R), NEW D, Onward(R, D)
  PROVE  \A s \in R : <<"End", s>> \in D => After(s) \subseteq PointsIn(D)
<1> DEFINE top == Len(kind)
           S == {k \in 0 .. top : \A s \in R : s <= k /\ <<"End", s>> \in D => After(s) \subseteq PointsIn(D)}
<1>1. top \in Nat /\ \A s \in Statements : s \in Nat /\ s > 0 /\ s <= top
  BY NumbersAre DEF Statements
<1>2. 0 \in S
  BY <1>1 DEF IsTree
<1>3. ASSUME NEW k \in 0 .. top - 1, k \in S PROVE k + 1 \in S
  <2> SUFFICES ASSUME NEW s \in R, s <= k + 1, <<"End", s>> \in D PROVE After(s) \subseteq PointsIn(D)
    BY <1>1
  <2>1. s \in Statements /\ IsMet(R, s)
    BY ReducedAreNoAtoms
  <2>2. CASE s = 1
    <3>1. <<Statement(1), BodyEnd>> \in Templates(R)
      BY DEF Templates
    <3>2. <<Leaves(R, Statement(1)), Enters(R, BodyEnd)>> \in EdgesOf(R)
      BY <3>1 DEF EdgesOf
    <3>3. Leaves(R, Statement(1)) = <<"End", 1>> /\ Enters(R, BodyEnd) = BodyEnd
      BY <2>2 DEF Leaves, Enters, IsIn, IsStatement, Statement, BodyEnd
    <3>4. IsPoint(BodyEnd) /\ ~IsPoint(<<"End", 1>>)
      BY DEF IsPoint, IsVoid, BodyEnd, EndRoles
    <3>5. BodyEnd \in PointsIn(D)
      BY <2>2, <3>2, <3>3, <3>4 DEF Onward, PointsIn
    <3> QED BY <2>2, <3>5, AfterIs
  <2>3. CASE s # 1
    <3>1. PICK p \in R : \E i \in Places(p) : children[p][i] = s
      BY <2>1, <2>3 DEF IsMet
    <3>2. PICK i \in Places(p) : children[p][i] = s
      BY <3>1
    <3>3. p \in Statements
      BY DEF IsTree
    <3>4. p <= k
      <4>1. s > p /\ p \in Nat /\ s \in Nat
        BY <3>2, <3>3, KindsAre
      <4> QED BY <4>1
    <3>5. <<"End", p>> \in D => After(p) \subseteq PointsIn(D)
      BY <1>3, <3>4
    <3>6. Roads(R, D, p)
      BY RoadsAre
    <3>7. Enters(R, Follow(p, i)) \in D
      BY <3>2, <3>6 DEF Roads
    <3>8. ChildrenPassable(R, D, p)
      <4>1. \A j \in Places(p) : children[p][j] \in Statements /\ IsMet(R, children[p][j])
        BY <3>3, KindsAre DEF IsMet
      <4> QED BY <4>1, AllArePassable DEF ChildrenPassable
    <3> QED BY <3>2, <3>3, <3>5, <3>6, <3>7, <3>8, ChildGoesOn
  <2> QED BY <2>2, <2>3
<1>4. 0 .. top \subseteq S
  <2> HIDE DEF S
  <2> QED BY <1>1, <1>2, <1>3, RangeInduction
<1>5. top \in S
  <2> HIDE DEF S
  <2> QED BY <1>1, <1>4
<1>6. \A s \in R : s <= top
  BY <1>1 DEF IsTree
<1> QED BY <1>5, <1>6

(* What the primitive parts of a template lead to.                         *)
LEMMA PartsLead ==
  ASSUME program \in Programs, NEW s \in Statements, IsReducible(s),
         NEW part \in {"Cond", "Init", "Exp"}, <<part, s>> \in Ends(TemplateEdges(s))
  PROVE  /\ part = "Cond" => E(s, "Cond", "EndCond") \in TemplateEdges(s) /\ kind[s] \in {"if"} \cup Loops
         /\ part = "Init" => E(s, "Init", "EndInit") \in TemplateEdges(s) /\ kind[s] = "for"
         /\ part = "Exp" => E(s, "Exp", "EndExp") \in TemplateEdges(s) /\ kind[s] = "for"
<1>1. PICK e \in TemplateEdges(s) : <<part, s>> = e[1] \/ <<part, s>> = e[2]
  BY DEF Ends
<1>2. kind[s] \in {"block", "if", "while", "doWhile", "for"}
  BY DEF IsReducible, Reducible, Loops
<1>3. CASE kind[s] = "block"
  <2>1. PICK i \in 0 .. Len(children[s]) : e = <<Place(s, i), Place(s, i + 1)>>
    BY <1>3, BlockEdgesAre
  <2>2. \A j : Place(s, j) # <<part, s>>
    BY DEF Place, ChildAt, Statement
  <2> QED BY <1>1, <2>1, <2>2
<1>4. CASE kind[s] = "if"
  <2>1. part = "Cond"
    BY <1>1, <1>4, IfTemplate DEF E, ToChild, FromChild, Statement
  <2> QED BY <1>4, <2>1, IfTemplate
<1>5. CASE kind[s] = "while"
  <2>1. part = "Cond"
    BY <1>1, <1>5, WhileTemplate DEF E, ToChild, FromChild, Statement
  <2> QED BY <1>5, <2>1, WhileTemplate DEF Loops
<1>6. CASE kind[s] = "doWhile"
  <2>1. part = "Cond"
    BY <1>1, <1>6, DoWhileTemplate DEF E, ToChild, FromChild, Statement
  <2> QED BY <1>6, <2>1, DoWhileTemplate DEF Loops
<1>7. CASE kind[s] = "for"
  <2>1. e \in {E(s, "Start", "StartInit"), E(s, "EndInit", "StartCond"), E(s, "EndCond", "StartBody"),
               ToChild(s, "StartBody", 1), FromChild(s, 1, "EndBody"), E(s, "EndBody", "StartExp"),
               E(s, "EndExp", "StartCond"), E(s, "EndCond", "End")}
           \cup Between(s, <<"StartInit", s>>, "Init", <<"EndInit", s>>)
           \cup Between(s, <<"StartCond", s>>, "Cond", <<"EndCond", s>>)
           \cup Between(s, <<"StartExp", s>>, "Exp", <<"EndExp", s>>)
    BY <1>7, ForTemplate
  <2>2. e \in Between(s, <<"StartInit", s>>, "Init", <<"EndInit", s>>)
           \cup Between(s, <<"StartCond", s>>, "Cond", <<"EndCond", s>>)
           \cup Between(s, <<"StartExp", s>>, "Exp", <<"EndExp", s>>)
    BY <1>1, <2>1 DEF E, ToChild, FromChild, Statement
  <2>3. part \in header[s]
    BY <1>1, <2>2 DEF Between
  <2>4. \A p \in {"Cond", "Init", "Exp"} : \A a, b : p \in header[s] => <<<<p, s>>, b>> \in Between(s, a, p, b)
    BY DEF Between
  <2>5. /\ part = "Cond" => E(s, "Cond", "EndCond") \in Between(s, <<"StartCond", s>>, "Cond", <<"EndCond", s>>)
        /\ part = "Init" => E(s, "Init", "EndInit") \in Between(s, <<"StartInit", s>>, "Init", <<"EndInit", s>>)
        /\ part = "Exp" => E(s, "Exp", "EndExp") \in Between(s, <<"StartExp", s>>, "Exp", <<"EndExp", s>>)
    BY <2>3, <2>4 DEF E
  <2> QED BY <1>7, <2>5, ForTemplate DEF Loops
<1> QED BY <1>2, <1>3, <1>4, <1>5, <1>6, <1>7

(* The points of a graph.                                                  *)
LEMMA PointsAre ==
  ASSUME program \in Programs, NEW R, IsTree(R), NEW n \in NodesOf(R), IsPoint(n), n # BodyEnd
  PROVE  \/ \E s \in Statements \ R : IsMet(R, s) /\ n = Statement(s)
         \/ \E s \in R : \E part \in {"Cond", "Init", "Exp"} :
              n = <<part, s>> /\ n \in Ends(TemplateEdges(s))
<1>1. n \in Ends(Templates(R)) /\ ~IsIn(R, n) /\ n \in AllNodes /\ ~IsVoid(n)
  BY TemplatesAre DEF NodesOf, IsPoint
<1>2. n = <<n[1], n[2]>> /\ n[1] \in {"Statement", "Cond", "Init", "Exp"}
  BY <1>1 DEF AllNodes, IsVoid
<1>3. PICK f \in Templates(R) : n = f[1] \/ n = f[2]
  BY <1>1 DEF Ends
<1>4. CASE f \in {<<BodyStart, Statement(1)>>, <<Statement(1), BodyEnd>>}
  <2>1. n = Statement(1)
    BY <1>1, <1>3, <1>4 DEF BodyStart, BodyEnd, IsVoid, StartRoles, EndRoles
  <2>2. 1 \in Statements \ R /\ IsMet(R, 1)
    BY <1>1, <2>1, NumbersAre DEF IsIn, IsStatement, Statement, IsMet
  <2> QED BY <2>1, <2>2
<1>5. CASE f \in UNION {TemplateEdges(s) : s \in R}
  <2>1. PICK s \in R : f \in TemplateEdges(s)
    BY <1>5
  <2>2. n \in Ends(TemplateEdges(s)) /\ s \in Statements /\ TemplateShape(s)
    BY <1>3, <2>1, TemplatesHaveShape DEF Ends, IsTree
  <2>3. CASE IsStatement(n)
    <3>1. PICK i \in Places(s) : n = ChildAt(s, i)
      BY <2>2, <2>3 DEF TemplateShape
    <3>2. children[s][i] \in Statements \ R /\ IsMet(R, children[s][i])
      BY <1>1, <2>2, <3>1, KindsAre DEF IsIn, IsStatement, ChildAt, Statement, IsMet
    <3> QED BY <3>1, <3>2 DEF ChildAt
  <2>4. CASE ~IsStatement(n)
    <3>1. n[2] = s
      BY <2>2, <2>4, OthersAreOfTheTemplate
    <3> QED BY <1>2, <2>2, <2>4, <3>1 DEF IsStatement
  <2> QED BY <2>3, <2>4
<1> QED BY <1>3, <1>4, <1>5 DEF Templates

(* From the end of a condition an onward set goes on to both branches.     *)
LEMMA ConditionsGoOn ==
  ASSUME program \in Programs, NEW R, IsTree(R), AtomsAre(R), NEW D, Onward(R, D),
         NEW s \in R, kind[s] \in {"if"} \cup Loops, <<"EndCond", s>> \in D
  PROVE  Tested(s) \subseteq PointsIn(D)
<1>1. s \in Statements /\ ~IsAtom(s) /\ Roads(R, D, s)
  BY ReducedAreNoAtoms, RoadsAre
<1>2. \A i \in Places(s) : children[s][i] \in Statements /\ IsMet(R, children[s][i])
  BY <1>1, KindsAre DEF IsMet
<1>3. ChildrenPassable(R, D, s)
  BY <1>2, AllArePassable DEF ChildrenPassable
<1>4. <<"End", s>> \in D => After(s) \subseteq PointsIn(D)
  BY EndsGoOn
<1>5. CASE kind[s] = "if"
  <2>1. Len(children[s]) \in {1, 2} /\ Places(s) = 1 .. Len(children[s])
    BY <1>1, <1>5, StatementsAre DEF Places
  <2>2. ASSUME NEW i \in Places(s), Enters(R, ChildAt(s, i)) \in D
        PROVE  Enter(children[s][i], After(s)) \subseteq PointsIn(D)
    <3>1. After(children[s][i]) = After(s)
      BY <1>1, <1>5, AfterIs
    <3>2. children[s][i] \in R /\ <<"End", children[s][i]>> \in D => After(s) \subseteq PointsIn(D)
      BY <3>1, EndsGoOn
    <3>3. Passable(R, D, children[s][i])
      BY <1>3 DEF ChildrenPassable
    <3> QED BY <2>2, <3>2, <3>3 DEF Passable, ChildAt
  <2>3. /\ E(s, "EndCond", "StartTrue") \in TemplateEdges(s) /\ E(s, "EndCond", "StartFalse") \in TemplateEdges(s)
        /\ ToChild(s, "StartTrue", 1) \in TemplateEdges(s) /\ E(s, "EndFalse", "End") \in TemplateEdges(s)
    BY <1>1, <1>5, IfTemplate
  <2>4. <<"StartTrue", s>> \in D /\ <<"StartFalse", s>> \in D
    BY <1>1, <2>3, RoadsTaken DEF StartRoles, EndRoles
  <2>5. 1 \in Places(s) /\ Enters(R, ChildAt(s, 1)) \in D
    BY <1>1, <2>1, <2>3, <2>4, RoadsTaken DEF StartRoles
  <2>6. Enter(Body(s), After(s)) \subseteq PointsIn(D)
    BY <2>2, <2>5 DEF Body
  <2>7. CASE Len(children[s]) = 2
    <3>1. ToChild(s, "StartFalse", 2) \in TemplateEdges(s) /\ 2 \in Places(s)
      BY <1>1, <1>5, <2>1, <2>7, IfTemplate
    <3>2. Enters(R, ChildAt(s, 2)) \in D
      BY <1>1, <2>4, <3>1, RoadsTaken DEF StartRoles
    <3> QED BY <1>5, <2>2, <2>6, <2>7, <3>1, <3>2 DEF Tested, OtherBranch
  <2>8. CASE Len(children[s]) # 2
    <3>1. E(s, "StartFalse", "EndFalse") \in TemplateEdges(s)
      BY <1>1, <1>5, <2>8, IfTemplate
    <3>2. <<"EndFalse", s>> \in D
      BY <1>1, <2>4, <3>1, RoadsTaken DEF StartRoles, EndRoles
    <3>3. <<"End", s>> \in D
      BY <1>1, <2>3, <3>2, RoadsTaken DEF EndRoles
    <3> QED BY <1>4, <1>5, <2>6, <2>8, <3>3 DEF Tested, OtherBranch
  <2> QED BY <2>7, <2>8
<1>6. CASE kind[s] \in {"while", "doWhile"}
  <2>1. Round(s) = {<<"Cond", s>>}
    BY <1>6 DEF Round, NextRound
  <2>2. After(s) \cup Enter(Body(s), {<<"Cond", s>>}) \subseteq PointsIn(D)
    BY <1>1, <1>3, <1>4, <1>6, WhileGoesOn
  <2>3. Tested(s) = After(s) \cup Enter(Body(s), Round(s))
    BY <1>6 DEF Tested
  <2> QED BY <2>1, <2>2, <2>3
<1>7. CASE kind[s] = "for"
  <2>1. After(s) \cup Enter(Body(s), NextRound(s, After(s))) \subseteq PointsIn(D)
    BY <1>1, <1>3, <1>4, <1>7, ForGoesOn
  <2> QED BY <1>7, <2>1 DEF Tested, Round
<1> QED BY <1>5, <1>6, <1>7 DEF Loops

(* From every point of the graph, and from a loop's end or its next round. *)
LEMMA PointsGoOn ==
  ASSUME program \in Programs, NEW R, IsTree(R), AtomsAre(R), NEW D, Onward(R, D),
         NEW n \in NodesOf(R) \cup {BodyStart}, n = BodyStart \/ IsPoint(n), n # BodyEnd,
         \A e \in EdgesOf(R) : e[1] = n => e[2] \in D
  PROVE  Leads(n) \subseteq PointsIn(D)
<1>1. CASE n = BodyStart
  <2>1. <<BodyStart, Statement(1)>> \in Templates(R) /\ <<Statement(1), BodyEnd>> \in Templates(R)
    BY DEF Templates
  <2>2. Leaves(R, BodyStart) = BodyStart /\ Enters(R, BodyEnd) = BodyEnd
    BY DEF Leaves, Enters, IsIn, IsStatement, BodyStart, BodyEnd
  <2>3. <<BodyStart, Enters(R, Statement(1))>> \in EdgesOf(R) /\ <<Leaves(R, Statement(1)), BodyEnd>> \in EdgesOf(R)
    BY <2>1, <2>2 DEF EdgesOf
  <2>4. Enters(R, Statement(1)) \in D
    BY <1>1, <2>3
  <2>5. 1 \in R /\ <<"End", 1>> \in D => {BodyEnd} \subseteq PointsIn(D)
    BY EndsGoOn, AfterIs
  <2>6. Passable(R, D, 1)
    BY AllArePassable, NumbersAre DEF IsMet
  <2>7. Leads(n) = Enter(1, {BodyEnd})
    BY <1>1 DEF Leads, Meets, BodyStart, BodyEnd
  <2> QED BY <2>4, <2>5, <2>6, <2>7 DEF Passable
<1>2. ASSUME NEW s \in Statements \ R, IsMet(R, s), n = Statement(s)
      PROVE  Leads(n) \subseteq PointsIn(D)
  <2>1. Leads(n) = After(s)
    BY <1>2, LedToAre DEF Leads, Statement, BodyStart, BodyEnd
  <2>2. Leaves(R, Statement(s)) = Statement(s)
    BY DEF Leaves, IsIn, IsStatement, Statement
  <2>3. CASE s = 1
    <3>1. <<Statement(1), BodyEnd>> \in Templates(R) /\ Enters(R, BodyEnd) = BodyEnd
      BY DEF Templates, Enters, IsIn, IsStatement, BodyEnd
    <3>2. <<Statement(1), BodyEnd>> \in EdgesOf(R)
      BY <2>2, <2>3, <3>1 DEF EdgesOf
    <3>3. BodyEnd \in D /\ IsPoint(BodyEnd)
      BY <1>2, <2>3, <3>2 DEF IsPoint
    <3> QED BY <2>1, <2>3, <3>3, AfterIs DEF PointsIn
  <2>4. CASE s # 1
    <3>1. PICK p \in R : \E i \in Places(p) : children[p][i] = s
      BY <1>2, <2>4 DEF IsMet
    <3>2. PICK i \in Places(p) : children[p][i] = s
      BY <3>1
    <3>3. p \in Statements /\ TemplateShape(p)
      BY TemplatesHaveShape DEF IsTree
    <3>4. <<ChildAt(p, i), Follow(p, i)>> \in TemplateEdges(p)
      BY <3>3 DEF TemplateShape
    <3>5. <<Leaves(R, ChildAt(p, i)), Enters(R, Follow(p, i))>> \in EdgesOf(R)
      BY <3>4 DEF EdgesOf, Templates
    <3>6. Enters(R, Follow(p, i)) \in D
      BY <1>2, <2>2, <3>2, <3>5 DEF ChildAt
    <3>7. <<"End", p>> \in D => After(p) \subseteq PointsIn(D)
      BY EndsGoOn
    <3>8. ChildrenPassable(R, D, p)
      <4>1. \A j \in Places(p) : children[p][j] \in Statements /\ IsMet(R, children[p][j])
        BY <3>3, KindsAre DEF IsMet
      <4> QED BY <4>1, AllArePassable DEF ChildrenPassable
    <3>9. Roads(R, D, p)
      BY RoadsAre
    <3> QED BY <2>1, <3>2, <3>3, <3>6, <3>7, <3>8, <3>9, ChildGoesOn
  <2> QED BY <2>3, <2>4
<1>3. ASSUME NEW s \in R, NEW part \in {"Cond", "Init", "Exp"}, n = <<part, s>>, n \in Ends(TemplateEdges(s))
      PROVE  Leads(n) \subseteq PointsIn(D)
  <2>1. s \in Statements /\ ~IsAtom(s) /\ IsReducible(s) /\ Roads(R, D, s)
    BY ReducedAreNoAtoms, RoadsAre
  <2>2. Leads(n) = LedTo(part, s)
    BY <1>3 DEF Leads, BodyStart, BodyEnd
  <2>3. ASSUME NEW b \in EndRoles, E(s, part, b) \in TemplateEdges(s) PROVE <<b, s>> \in D
    <3>1. Leaves(R, n) = n /\ Enters(R, <<b, s>>) = <<b, s>>
      BY <1>3 DEF Leaves, Enters, IsIn, IsStatement, EndRoles
    <3>2. E(s, part, b) \in Templates(R) /\ E(s, part, b)[1] = n /\ E(s, part, b)[2] = <<b, s>>
      BY <1>3, <2>3 DEF Templates, E
    <3>3. <<n, <<b, s>>>> \in EdgesOf(R)
      BY <3>1, <3>2 DEF EdgesOf
    <3> QED BY <3>3
  <2>4. CASE part = "Cond"
    <3>1. E(s, "Cond", "EndCond") \in TemplateEdges(s) /\ kind[s] \in {"if"} \cup Loops
      BY <1>3, <2>1, <2>4, PartsLead
    <3>2. <<"EndCond", s>> \in D
      BY <2>3, <2>4, <3>1 DEF EndRoles
    <3> QED BY <2>2, <2>4, <3>1, <3>2, ConditionsGoOn, LedToAre
  <2>5. CASE part \in {"Init", "Exp"}
    <3>1. kind[s] = "for" /\ (E(s, part, "EndInit") \in TemplateEdges(s) \/ E(s, part, "EndExp") \in TemplateEdges(s))
      BY <1>3, <2>1, <2>5, PartsLead
    <3>2. <<"StartCond", s>> \in D
      BY <2>1, <2>3, <3>1, ForRoads DEF EndRoles
    <3>3. ChildrenPassable(R, D, s)
      <4>1. \A j \in Places(s) : children[s][j] \in Statements /\ IsMet(R, children[s][j])
        BY <2>1, KindsAre DEF IsMet
      <4> QED BY <4>1, AllArePassable DEF ChildrenPassable
    <3>4. <<"End", s>> \in D => After(s) \subseteq PointsIn(D)
      BY EndsGoOn
    <3>5. ForTest(s, After(s)) \subseteq PointsIn(D)
      BY <2>1, <3>1, <3>2, <3>3, <3>4, ForGoesOn
    <3> QED BY <2>2, <2>5, <3>5, LedToAre DEF Test
  <2> QED BY <2>4, <2>5
<1> QED BY <1>1, <1>2, <1>3, PointsAre

-------------------------------------------------------------------------------
(* Together: the graph's flow and the program's are the same.              *)

(* A graph with the templates' edges, but for those of jumps.              *)
HasTheFlow(R) ==
  /\ IsTree(R) /\ AtomsAre(R) /\ nodes = NodesOf(R) /\ IsGraph
  /\ \A m \in nodes, n \in nodes : ~IsJump(m) => (<<m, n>> \in adj_list <=> <<m, n>> \in EdgesOf(R))
  /\ EdgesOf(R) \subseteq nodes \X nodes

Passed == [m \in nodes |-> IF IsPoint(m) THEN {} ELSE raw_successors(m)]

(* A node's successors are those its edges lead to.                        *)
LEMMA SuccessorsAre ==
  ASSUME IsGraph, NEW n
  PROVE  raw_successors(n) = {m \in nodes : <<n, m>> \in adj_list}
<1>1. ASSUME NEW e \in adj_list PROVE e = <<e[1], e[2]>> /\ e[1] \in nodes /\ e[2] \in nodes
  BY DEF IsGraph
<1>2. ASSUME NEW m, <<n, m>> \in adj_list PROVE m \in raw_successors(n) /\ m \in nodes
  <2>1. <<n, m>>[1] = n /\ <<n, m>>[2] = m
    OBVIOUS
  <2> QED BY <1>1, <1>2, <2>1 DEF raw_successors
<1>3. ASSUME NEW m \in raw_successors(n) PROVE m \in nodes /\ <<n, m>> \in adj_list
  <2>1. PICK e \in adj_list : e[1] = n /\ e[2] = m
    BY DEF raw_successors
  <2> QED BY <1>1, <2>1
<1> QED BY <1>2, <1>3

(* What comes after a void is what is met there.                           *)
LEMMA VoidsLead ==
  ASSUME NEW n, ~IsPoint(n)
  PROVE  Leads(n) = Meets(n) /\ ~IsJump(n)
<1>1. n[1] \in StartRoles \cup EndRoles /\ n # BodyEnd
  BY DEF IsPoint, IsVoid
<1>2. ~IsJump(n)
  BY <1>1 DEF IsJump, StartRoles, EndRoles
<1> QED BY <1>1, <1>2, LedToAre DEF Leads, Meets

(* What is met at a point is this point.                                   *)
LEMMA PointsMeetThemselves ==
  ASSUME program \in Programs, NEW R, IsTree(R), AtomsAre(R), NEW n \in NodesOf(R), IsPoint(n)
  PROVE  n \in Meets(n)
<1>1. CASE n = BodyEnd
  BY <1>1 DEF Meets
<1>2. ASSUME NEW s \in Statements \ R, IsMet(R, s), n = Statement(s)
      PROVE  n \in Meets(n)
  <2>1. Meets(n) = Enter(s, After(s))
    BY <1>2, MetFromAre DEF Meets, Statement, BodyStart, BodyEnd
  <2>2. IsAtom(s)
    BY <1>2 DEF AtomsAre
  <2>3. Enter(s, After(s)) = {Statement(s)}
    BY <2>2, EnterIs
  <2> QED BY <1>2, <2>1, <2>3
<1>3. ASSUME NEW s \in R, NEW part \in {"Cond", "Init", "Exp"}, n = <<part, s>>
      PROVE  n \in Meets(n)
  <2>1. Meets(n) = MetFrom(part, s)
    BY <1>3 DEF Meets, BodyStart, BodyEnd
  <2>2. MetFrom(part, s) = {<<part, s>>}
    BY MetFromAre
  <2> QED BY <1>3, <2>1, <2>2
<1> QED BY <1>1, <1>2, <1>3, PointsAre

(* The closure that GraphFlow takes: it is onward, and no larger than what *)
(* is met from where it starts.                                            *)
LEMMA FlowIsLeast ==
  ASSUME program \in Programs, NEW R, HasTheFlow(R), NEW from \in SUBSET nodes
  PROVE  /\ from \subseteq Reach(from, Passed) /\ Onward(R, Reach(from, Passed))
         /\ \A F : (\A m \in from : Meets(m) \subseteq F) => PointsIn(Reach(from, Passed)) \subseteq F
<1>1. IsFiniteSet(nodes) /\ IsTree(R) /\ AtomsAre(R) /\ nodes = NodesOf(R) /\ IsGraph
      /\ EdgesOf(R) \subseteq nodes \X nodes
  BY DEF HasTheFlow, IsGraph
<1>2. \A m : raw_successors(m) \in SUBSET nodes
  BY <1>1, SuccessorsAre
<1>3. Passed \in [nodes -> SUBSET nodes]
  BY <1>2 DEF Passed
<1> DEFINE D == Reach(from, Passed)
<1>4. /\ D \in SUBSET nodes /\ from \subseteq D
      /\ \A n \in D : Passed[n] \subseteq D
      /\ \A U \in SUBSET nodes : from \subseteq U /\ (\A n \in U : Passed[n] \subseteq U) => D \subseteq U
  BY <1>1, <1>3, ReachIsLeast
<1> HIDE DEF D
<1>5. ASSUME NEW m \in nodes, ~IsPoint(m)
      PROVE  Passed[m] = {n \in nodes : <<m, n>> \in EdgesOf(R)}
  <2>1. Passed[m] = raw_successors(m) /\ ~IsJump(m)
    BY <1>5, VoidsLead DEF Passed
  <2> QED BY <1>1, <2>1, SuccessorsAre DEF HasTheFlow
<1>6. Onward(R, D)
  <2> SUFFICES ASSUME NEW e \in EdgesOf(R), e[1] \in D, ~IsPoint(e[1]) PROVE e[2] \in D
    BY DEF Onward
  <2>1. e = <<e[1], e[2]>> /\ e[1] \in nodes /\ e[2] \in nodes
    BY <1>1
  <2>2. e[2] \in Passed[e[1]]
    BY <1>5, <2>1
  <2> QED BY <1>4, <2>2
<1>7. ASSUME NEW F, \A m \in from : Meets(m) \subseteq F
      PROVE  PointsIn(D) \subseteq F
  <2> DEFINE U == {m \in nodes : Meets(m) \subseteq F}
  <2>1. U \in SUBSET nodes /\ from \subseteq U
    BY <1>7
  <2>2. ASSUME NEW m \in U PROVE Passed[m] \subseteq U
    <3>1. CASE IsPoint(m)
      BY <3>1 DEF Passed
    <3>2. CASE ~IsPoint(m)
      <4> SUFFICES ASSUME NEW n \in nodes, <<m, n>> \in EdgesOf(R) PROVE Meets(n) \subseteq F
        BY <1>5, <3>2
      <4>1. Meets(<<m, n>>[2]) \subseteq Leads(<<m, n>>[1])
        BY <1>1, GraphMeets
      <4>2. Meets(n) \subseteq Leads(m)
        BY <4>1
      <4>3. Leads(m) = Meets(m)
        BY <3>2, VoidsLead
      <4> QED BY <4>2, <4>3
    <3> QED BY <3>1, <3>2
  <2>3. D \subseteq U
    <3> HIDE DEF U
    <3> QED BY <1>4, <2>1, <2>2
  <2> SUFFICES ASSUME NEW m \in D, IsPoint(m) PROVE m \in F
    BY DEF PointsIn
  <2>4. m \in nodes /\ Meets(m) \subseteq F
    BY <2>3
  <2>5. m \in Meets(m)
    BY <1>1, <2>4, PointsMeetThemselves
  <2> QED BY <2>4, <2>5
<1> QED BY <1>4, <1>6, <1>7 DEF D

(* GraphFlow is the points of that closure.                                *)
LEMMA FlowsAre ==
  ASSUME NEW n
  PROVE  GraphFlow(n) = PointsIn(Reach(raw_successors(n), Passed))
BY DEF GraphFlow, PointsIn, Passed

(* The graph leads from a point, or from the body's start, to exactly what *)
(* comes after it, if its edges are those of the templates.                *)
LEMMA FlowFromAPoint ==
  ASSUME program \in Programs, NEW R, HasTheFlow(R),
         NEW n \in nodes, n = BodyStart \/ IsPoint(n), n # BodyEnd,
         \A m \in nodes : <<n, m>> \in adj_list <=> <<n, m>> \in EdgesOf(R)
  PROVE  GraphFlow(n) = Leads(n)
<1>1. IsTree(R) /\ AtomsAre(R) /\ nodes = NodesOf(R) /\ IsGraph /\ EdgesOf(R) \subseteq nodes \X nodes
  BY DEF HasTheFlow
<1>2. raw_successors(n) = {m \in nodes : <<n, m>> \in EdgesOf(R)}
  BY <1>1, SuccessorsAre
<1> DEFINE D == Reach(raw_successors(n), Passed)
<1>3. /\ raw_successors(n) \subseteq D /\ Onward(R, D)
      /\ \A F : (\A m \in raw_successors(n) : Meets(m) \subseteq F) => PointsIn(D) \subseteq F
  BY <1>2, FlowIsLeast
<1> HIDE DEF D
<1>4. PointsIn(D) \subseteq Leads(n)
  <2>1. ASSUME NEW m \in raw_successors(n) PROVE Meets(m) \subseteq Leads(n)
    <3>1. Meets(<<n, m>>[2]) \subseteq Leads(<<n, m>>[1])
      BY <1>1, <1>2, GraphMeets
    <3> QED BY <3>1
  <2> QED BY <1>3, <2>1
<1>5. Leads(n) \subseteq PointsIn(D)
  <2>1. ASSUME NEW e \in EdgesOf(R), e[1] = n PROVE e[2] \in D
    <3>1. e = <<e[1], e[2]>> /\ e[2] \in nodes
      BY <1>1
    <3>2. e[2] \in raw_successors(n)
      BY <1>2, <2>1, <3>1
    <3> QED BY <1>3, <3>2
  <2> QED BY <1>1, <1>3, <2>1, PointsGoOn
<1> QED BY <1>4, <1>5, FlowsAre DEF D

(* The flow of a jump that is connected to the end of a loop, or to where  *)
(* its body leads.                                                         *)
LEMMA FlowOfAJump ==
  ASSUME program \in Programs, NEW R, HasTheFlow(R), NEW n, NEW m \in nodes, raw_successors(n) = {m}
  PROVE  /\ m = BodyEnd => GraphFlow(n) = {BodyEnd}
         /\ \A s \in R : kind[s] \in Loops =>
              /\ m = <<"End", s>> => GraphFlow(n) = After(s)
              /\ m = AfterBody(s) => GraphFlow(n) = Round(s)
<1>1. IsTree(R) /\ AtomsAre(R)
  BY DEF HasTheFlow
<1> DEFINE D == Reach(raw_successors(n), Passed)
<1>2. /\ raw_successors(n) \subseteq D /\ Onward(R, D)
      /\ \A F : (\A k \in raw_successors(n) : Meets(k) \subseteq F) => PointsIn(D) \subseteq F
  <2>1. raw_successors(n) \in SUBSET nodes
    OBVIOUS
  <2> QED BY <2>1, FlowIsLeast
<1> HIDE DEF D
<1>3. m \in D /\ PointsIn(D) \subseteq Meets(m)
  BY <1>2
<1>4. m = BodyEnd => PointsIn(D) = {BodyEnd}
  BY <1>3 DEF Meets, PointsIn, IsPoint
<1>5. ASSUME NEW s \in R, kind[s] \in Loops, m = <<"End", s>>
      PROVE  PointsIn(D) = After(s)
  <2>1. After(s) \subseteq PointsIn(D)
    BY <1>1, <1>2, <1>3, <1>5, EndsGoOn
  <2>2. s # 0
    BY <1>1, ReducedAreNoAtoms
  <2>3. Meets(m) = After(s)
    BY <1>5, <2>2, MetFromAre DEF Meets, BodyStart, BodyEnd
  <2> QED BY <1>3, <2>1, <2>3
<1>6. ASSUME NEW s \in R, kind[s] \in Loops, m = AfterBody(s)
      PROVE  PointsIn(D) = Round(s)
  <2>1. s \in Statements /\ s # 0 /\ Roads(R, D, s)
    BY <1>1, <1>2, ReducedAreNoAtoms, RoadsAre
  <2>2. ChildrenPassable(R, D, s)
    <3>1. \A j \in Places(s) : children[s][j] \in Statements /\ IsMet(R, children[s][j])
      BY <2>1, KindsAre DEF IsMet
    <3> QED BY <1>1, <1>2, <3>1, AllArePassable DEF ChildrenPassable
  <2>3. <<"End", s>> \in D => After(s) \subseteq PointsIn(D)
    BY <1>1, <1>2, EndsGoOn
  <2>4. CASE kind[s] = "for"
    <3>1. m = <<"StartExp", s>>
      BY <1>6, <2>4 DEF AfterBody
    <3>2. Round(s) \subseteq PointsIn(D)
      BY <1>3, <2>1, <2>2, <2>3, <2>4, <3>1, ForGoesOn DEF Round
    <3>3. Meets(m) = Round(s)
      BY <2>1, <3>1, MetFromAre DEF Meets, BodyStart, BodyEnd
    <3> QED BY <1>3, <3>2, <3>3
  <2>5. CASE kind[s] # "for"
    <3>1. m = <<"StartCond", s>> /\ kind[s] \in {"while", "doWhile"}
      BY <1>6, <2>5 DEF AfterBody, Loops
    <3>2. Round(s) = {<<"Cond", s>>}
      BY <2>5 DEF Round, NextRound
    <3>3. {<<"Cond", s>>} \subseteq PointsIn(D)
      BY <1>3, <2>1, <2>2, <2>3, <3>1, WhileGoesOn
    <3>4. Meets(m) = {<<"Cond", s>>}
      BY <2>1, <2>5, <3>1, MetFromAre DEF Meets, BodyStart, BodyEnd
    <3> QED BY <1>3, <3>2, <3>3, <3>4
  <2> QED BY <2>4, <2>5
<1> QED BY <1>4, <1>5, <1>6, FlowsAre DEF D

(* The program leads from there to the same, unless a connected jump is    *)
(* there.                                                                  *)
LEMMA ProgramFlows ==
  ASSUME program \in Programs, NEW R, IsTree(R), AtomsAre(R),
         NEW n \in NodesOf(R) \cup {BodyStart}, n = BodyStart \/ IsPoint(n), n # BodyEnd
  PROVE  ProgramFlow(n) = IF IsJump(n) /\ phase = "done" THEN JumpsTo(n[2]) ELSE Leads(n)
<1>1. CASE n = BodyStart
  BY <1>1 DEF ProgramFlow, IsJump, Leads, Meets, BodyStart, BodyEnd
<1>2. ASSUME NEW s \in Statements \ R, IsMet(R, s), n = Statement(s)
      PROVE  ProgramFlow(n) = IF IsJump(n) /\ phase = "done" THEN JumpsTo(n[2]) ELSE Leads(n)
  <2>1. Leads(n) = After(s)
    BY <1>2, LedToAre DEF Leads, Statement, BodyStart, BodyEnd
  <2> QED BY <1>2, <2>1 DEF ProgramFlow, IsJump, Statement, BodyStart
<1>3. ASSUME NEW s \in R, NEW part \in {"Cond", "Init", "Exp"}, n = <<part, s>>, n \in Ends(TemplateEdges(s))
      PROVE  ProgramFlow(n) = IF IsJump(n) /\ phase = "done" THEN JumpsTo(n[2]) ELSE Leads(n)
  <2>1. s \in Statements /\ ~IsAtom(s) /\ IsReducible(s)
    BY ReducedAreNoAtoms
  <2>2. Leads(n) = LedTo(part, s) /\ ~IsJump(n) /\ n # BodyStart /\ n[1] = part /\ n[2] = s
    BY <1>3 DEF Leads, BodyStart, BodyEnd, IsJump
  <2>3. CASE part = "Cond"
    <3>1. kind[s] \in {"if"} \cup Loops /\ ("if" \notin Loops)
      BY <1>3, <2>1, <2>3, PartsLead DEF Loops
    <3>2. Leads(n) = Tested(s)
      BY <2>2, <2>3, LedToAre
    <3>3. CASE kind[s] = "if"
      <4>1. ProgramFlow(n) = Enter(Body(s), After(s))
           \cup (IF Len(children[s]) = 2 THEN Enter(children[s][2], After(s)) ELSE After(s))
        BY <2>2, <2>3, <3>1, <3>3 DEF ProgramFlow
      <4> QED BY <2>2, <3>2, <3>3, <4>1 DEF Tested, OtherBranch
    <3>4. CASE kind[s] \in Loops
      <4>1. ProgramFlow(n) =
              After(s) \cup Enter(Body(s), IF kind[s] = "for" THEN NextRound(s, After(s)) ELSE {<<"Cond", s>>})
        BY <2>2, <2>3, <3>1, <3>4 DEF ProgramFlow
      <4>2. Tested(s) = After(s) \cup Enter(Body(s), Round(s))
        BY <3>1, <3>4 DEF Tested
      <4>3. Round(s) = IF kind[s] = "for" THEN NextRound(s, After(s)) ELSE {<<"Cond", s>>}
        BY DEF Round, NextRound
      <4>4. ProgramFlow(n) = Tested(s)
        BY <4>1, <4>2, <4>3, Zenon
      <4> QED BY <2>2, <3>2, <4>4
    <3> QED BY <3>1, <3>3, <3>4
  <2>4. CASE part \in {"Init", "Exp"}
    <3>1. ProgramFlow(n) = ForTest(s, After(s))
      BY <2>2, <2>4 DEF ProgramFlow
    <3> QED BY <2>2, <2>4, <3>1, LedToAre DEF Test
  <2> QED BY <2>3, <2>4
<1> QED BY <1>1, <1>2, <1>3, PointsAre

-------------------------------------------------------------------------------
(* Where a search from within a loop ends.                                 *)
LoopEnds(loop) == IF loop = 0 THEN {} ELSE {LoopEnd(loop)}

(* From the end of the whole body the search meets no loop.                *)
LEMMA SearchOfTheBody ==
  ASSUME program \in Programs, NEW R, GraphOf(R), 1 \in R
  PROVE  Searches(<<"End", 1>>, {})
<1>1. IsGraph /\ start_end_pairs \subseteq nodes \X nodes /\ <<"End", 1>> \in nodes /\ BodyEnd \in nodes
  BY ReducedAre DEF IsGraph
<1>2. Leaves(R, Statement(1)) = <<"End", 1>>
  BY DEF Leaves, IsIn, IsStatement, Statement
<1>3. raw_successors(<<"End", 1>>) = {BodyEnd} /\ raw_successors(BodyEnd) = {}
  <2>1. raw_successors(Leaves(R, Statement(1))) = {BodyEnd} /\ raw_successors(BodyEnd) = {}
    BY EdgesLeave
  <2> QED BY <1>2, <2>1
<1>4. /\ ~IsStart(<<"End", 1>>) /\ ~IsLoopEnd(<<"End", 1>>)
      /\ ~IsStart(BodyEnd) /\ ~IsLoopEnd(BodyEnd)
  BY DEF IsStart, IsLoopEnd, StartRoles, BodyEnd
<1>5. Searches(BodyEnd, {})
  <2>1. SearchStep(BodyEnd) = {}
    BY <1>3, <1>4 DEF SearchStep
  <2>2. Searches(BodyEnd, IF IsLoopEnd(BodyEnd) THEN {BodyEnd} ELSE {})
    BY <1>1, <1>4, <2>1, SearchStops
  <2> QED BY <1>4, <2>2
<1>6. Searches(<<"End", 1>>, {})
  <2>1. SearchStep(<<"End", 1>>) = {BodyEnd}
    BY <1>3, <1>4 DEF SearchStep
  <2> QED BY <1>1, <1>4, <1>5, <2>1, SearchPasses
<1> QED BY <1>6

(* The innermost loop around what was met was reduced, if there is one: by *)
(* induction from the body inwards.                                        *)
LEMMA LoopsAreReduced ==
  ASSUME program \in Programs, NEW R, IsTree(R)
  PROVE  \A s \in Statements : IsMet(R, s) =>
           LoopOf(s) = 0 \/ (LoopOf(s) \in R /\ kind[LoopOf(s)] \in Loops)
<1> DEFINE IsLoop(loop) == loop = 0 \/ (loop \in R /\ kind[loop] \in Loops)
           S == {n \in Nat : \A s \in Statements : IsMet(R, s) /\ s <= n => IsLoop(LoopOf(s))}
<1>1. \A s \in Statements : s \in Nat \ {0}
  BY KindsAre
<1>2. \A r \in R : r \in Statements /\ IsMet(R, r)
  BY DEF IsTree, IsMet
<1>3. ASSUME NEW r \in R, IsLoop(LoopOf(r)), NEW i \in Places(r)
      PROVE  IsLoop(LoopOf(children[r][i]))
  <2>1. LoopOf(children[r][i]) = IF kind[r] \in Loops THEN r ELSE LoopOf(r)
    BY <1>2, LoopOfIs
  <2> QED BY <1>3, <2>1
<1>4. IsLoop(LoopOf(1))
  BY LoopOfIs
<1> HIDE DEF IsLoop
<1>5. 0 \in S
  BY <1>1
<1>6. ASSUME NEW n \in Nat \cap S PROVE n + 1 \in S
  <2> SUFFICES ASSUME NEW s \in Statements, IsMet(R, s), s <= n + 1 PROVE IsLoop(LoopOf(s))
    OBVIOUS
  <2>1. CASE s = 1
    BY <1>4, <2>1
  <2>2. CASE \E r \in R : \E i \in Places(r) : children[r][i] = s
    <3>0. PICK r \in R : \E i \in Places(r) : children[r][i] = s
      BY <2>2
    <3>1. PICK i \in Places(r) : children[r][i] = s
      BY <3>0
    <3>2. s > r
      BY <1>2, <3>1, StatementsAre DEF Places
    <3>3. r <= n
      BY <1>1, <1>2, <3>2
    <3>4. IsLoop(LoopOf(r))
      BY <1>2, <1>6, <3>3
    <3> QED BY <1>3, <3>1, <3>4
  <2> QED BY <2>1, <2>2 DEF IsMet
<1>7. Nat \subseteq S
  <2> HIDE DEF S
  <2> QED BY <1>5, <1>6, SetInduction
<1>8. \A s \in Statements : s \in S /\ s <= s
  <2> HIDE DEF S
  <2> QED BY <1>1, <1>7
<1> QED BY <1>8 DEF IsLoop

(* From the end of what was reduced, and of its children, the search meets *)
(* the end of the innermost loop around it, and no other.                  *)
LEMMA SearchFindsTheLoop ==
  ASSUME program \in Programs, NEW R, GraphOf(R)
  PROVE  \A p \in R : \A i \in Places(p) :
           Searches(Leaves(R, ChildAt(p, i)), LoopEnds(LoopOf(children[p][i])))
<1> DEFINE Finds(s) == Searches(<<"End", s>>, LoopEnds(LoopOf(s)))
           S == {n \in Nat : \A s \in R : s <= n => Finds(s)}
<1>1. \A s \in R : s \in Nat \ {0} /\ s \in Statements
  BY ReducedAre
<1>2. \A s \in R : s = 1 \/ \E r \in R : \E i \in Places(r) : children[r][i] = s
  BY DEF GraphOf, IsTree
<1>3. ASSUME 1 \in R PROVE Finds(1)
  <2>1. LoopOf(1) = 0
    BY LoopOfIs
  <2> QED BY <1>3, <2>1, SearchOfTheBody DEF LoopEnds
<1>4. ASSUME NEW r \in R, Finds(r), NEW i \in Places(r)
      PROVE  Searches(Leaves(R, ChildAt(r, i)), LoopEnds(LoopOf(children[r][i])))
  <2>1. LoopOf(children[r][i]) = IF kind[r] \in Loops THEN r ELSE LoopOf(r)
    BY <1>1, LoopOfIs
  <2>2. Searches(Leaves(R, ChildAt(r, i)), IF kind[r] \in Loops THEN {LoopEnd(r)} ELSE LoopEnds(LoopOf(r)))
    BY <1>4, SearchInside
  <2>3. LoopEnds(LoopOf(children[r][i])) = IF kind[r] \in Loops THEN {LoopEnd(r)} ELSE LoopEnds(LoopOf(r))
    BY <1>1, <2>1 DEF LoopEnds
  <2> QED BY <2>2, <2>3
<1>5. ASSUME NEW r \in R, Finds(r), NEW i \in Places(r), children[r][i] \in R
      PROVE  Finds(children[r][i])
  <2>1. Leaves(R, ChildAt(r, i)) = <<"End", children[r][i]>>
    BY <1>5 DEF Leaves, IsIn, IsStatement, ChildAt, Statement
  <2> QED BY <1>4, <1>5, <2>1
<1> HIDE DEF Finds
<1>6. 0 \in S
  BY <1>1
<1>7. ASSUME NEW n \in Nat \cap S PROVE n + 1 \in S
  <2> SUFFICES ASSUME NEW s \in R, s <= n + 1 PROVE Finds(s)
    OBVIOUS
  <2>1. CASE s = 1
    BY <1>3, <2>1
  <2>2. CASE \E r \in R : \E i \in Places(r) : children[r][i] = s
    <3>0. PICK r \in R : \E i \in Places(r) : children[r][i] = s
      BY <2>2
    <3>1. PICK i \in Places(r) : children[r][i] = s
      BY <3>0
    <3>2. s > r
      BY <1>1, <3>1, StatementsAre DEF Places
    <3>3. r <= n
      BY <1>1, <3>2
    <3>4. Finds(r)
      BY <1>7, <3>3
    <3> QED BY <1>5, <3>1, <3>4
  <2> QED BY <1>2, <2>1, <2>2
<1>8. Nat \subseteq S
  <2> HIDE DEF S
  <2> QED BY <1>6, <1>7, SetInduction
<1>9. \A s \in R : s \in S /\ s <= s
  <2> HIDE DEF S
  <2> QED BY <1>1, <1>8
<1>10. \A s \in R : Finds(s)
  BY <1>9
<1> QED BY <1>4, <1>10

(* The statements in the graph are children of what was reduced.           *)
LEMMA StatementsAreChildren ==
  ASSUME program \in Programs, NEW R, GraphOf(R), NEW n \in nodes, IsStatement(n), n # Statement(1)
  PROVE  \E p \in R : \E i \in Places(p) : n = ChildAt(p, i)
<1>1. n \in Ends(Templates(R))
  BY DEF GraphOf, NodesOf
<1>2. PICK e \in Templates(R) : n = e[1] \/ n = e[2]
  BY <1>1 DEF Ends
<1>3. CASE e \in {<<BodyStart, Statement(1)>>, <<Statement(1), BodyEnd>>}
  BY <1>2, <1>3 DEF BodyStart, BodyEnd, Statement, IsStatement
<1>4. CASE \E s \in R : e \in TemplateEdges(s)
  <2>1. PICK s \in R : e \in TemplateEdges(s)
    BY <1>4
  <2>2. n \in Ends(TemplateEdges(s)) /\ TemplateShape(s)
    BY <1>2, <2>1, ReducedAre DEF Ends
  <2> QED BY <2>2 DEF TemplateShape
<1> QED BY <1>3, <1>4 DEF Templates

(* Jumps find the innermost loop around them, or none.                     *)
LEMMA JumpsAreFound ==
  ASSUME program \in Programs, NEW R, GraphOf(R), NEW n \in nodes, IsJump(n)
  PROVE  LET loop == LoopOf(n[2])
         IN  /\ loop = 0 \/ (loop \in R /\ kind[loop] \in Loops)
             /\ Searches(n, LoopEnds(loop))
<1>1. n # Statement(1)
  <2>1. IsProgram(program)
    BY ProgramsAssumption
  <2>2. kind[1] = "block"
    BY <2>1 DEF IsProgram, kind
  <2> QED BY <2>2 DEF IsJump, Jumps, Statement
<1>2. PICK p \in R : \E i \in Places(p) : n = ChildAt(p, i)
  BY <1>1, StatementsAreChildren DEF IsJump, IsStatement
<1>3. PICK i \in Places(p) : n = ChildAt(p, i)
  BY <1>2
<1>4. Leaves(R, n) = n
  BY DEF GraphOf, NodesOf, Leaves
<1>5. n[2] = children[p][i]
  BY <1>3 DEF ChildAt, Statement
<1>6. Searches(Leaves(R, ChildAt(p, i)), LoopEnds(LoopOf(children[p][i])))
  BY SearchFindsTheLoop
<1>7. IsTree(R) /\ children[p][i] \in Statements /\ IsMet(R, children[p][i])
  BY ReducedAre, KindsAre DEF GraphOf, IsMet
<1>8. LoopOf(n[2]) = 0 \/ (LoopOf(n[2]) \in R /\ kind[LoopOf(n[2])] \in Loops)
  BY <1>5, <1>7, LoopsAreReduced
<1> QED BY <1>3, <1>4, <1>5, <1>6, <1>8

(* A jump is connected to that loop's end, or to what follows its body,    *)
(* and to nothing else.                                                    *)
LEMMA JumpsHaveOneDestination ==
  ASSUME program \in Programs, NEW R, GraphOf(R), NEW j \in nodes, IsJump(j)
  PROVE  /\ ~SearchPanics(j)
         /\ \E d : Found(j) = {d} /\ Calibrated(j, d) = {JumpNode(j)}
<1> DEFINE loop == LoopOf(j[2])
<1>1. Searches(j, LoopEnds(loop)) /\ (loop = 0 \/ (loop \in R /\ kind[loop] \in Loops))
  BY JumpsAreFound
<1> HIDE DEF loop
<1>2. ~SearchPanics(j) /\ {m \in Searched(j) : IsLoopEnd(m)} = LoopEnds(loop)
  BY <1>1 DEF Searches
<1>3. JumpNode(j) = IF kind[j[2]] = "return" \/ loop = 0 THEN BodyEnd
                    ELSE IF kind[j[2]] = "break" THEN <<"End", loop>> ELSE AfterBody(loop)
  BY DEF JumpNode, loop
<1>4. CASE kind[j[2]] = "return" \/ loop = 0
  <2>1. Found(j) = {DefaultSite}
    <3>1. loop = 0 => JumpDestinations(j) = {}
      BY <1>2 DEF LoopEnds, JumpDestinations
    <3> QED BY <1>4, <3>1 DEF Found
  <2>2. Calibrated(j, DefaultSite) = {BodyEnd}
    BY DEF Calibrated
  <2> QED BY <1>2, <1>3, <1>4, <2>1, <2>2
<1>5. CASE ~(kind[j[2]] = "return" \/ loop = 0)
  <2>1. loop \in R /\ kind[loop] \in Loops /\ LoopEnds(loop) = {LoopEnd(loop)}
    BY <1>1, <1>5 DEF LoopEnds
  <2>2. Values(cond_start_pairs \cup loop_expr_start, LoopEnd(loop)) = {<<"Start", loop>>}
    BY <2>1, LookupsAnswer
  <2>3. JumpDestinations(j) = {<<"Start", loop>>}
    BY <1>2, <2>1, <2>2 DEF JumpDestinations
  <2>4. Found(j) = {<<"Start", loop>>}
    BY <1>5, <2>3 DEF Found
  <2>5. /\ Values(start_end_pairs, <<"Start", loop>>) = {<<"End", loop>>}
        /\ kind[loop] = "for" => Values(start_loop_expr, <<"Start", loop>>) = {AfterBody(loop)}
        /\ kind[loop] # "for" => Values(start_cond_pairs, <<"Start", loop>>) = {AfterBody(loop)}
    BY <2>1, LookupsAnswer
  <2>6. <<"Start", loop>> # DefaultSite /\ <<"Start", loop>>[2] = loop
    BY DEF DefaultSite
  <2>7. Calibrated(j, <<"Start", loop>>) = {JumpNode(j)}
    BY <1>3, <1>5, <2>5, <2>6 DEF Calibrated
  <2> QED BY <1>2, <2>4, <2>7
<1> QED BY <1>4, <1>5

(* It is a node of the graph.                                              *)
LEMMA JumpNodesAreNodes ==
  ASSUME program \in Programs, NEW R, GraphOf(R), NEW j \in nodes, IsJump(j)
  PROVE  JumpNode(j) \in nodes
<1>1. IsGraph /\ start_end_pairs \subseteq nodes \X nodes
  BY ReducedAre
<1>2. BodyEnd \in nodes /\ \A p \in R : <<"End", p>> \in nodes
  BY <1>1, ReducedAre DEF IsGraph
<1>3. ASSUME NEW p \in R, kind[p] \in Loops PROVE AfterBody(p) \in nodes
  <2>1. Values(start_end_pairs, AfterBody(p)) = {LoopEnd(p)}
    BY <1>3, LookupsAnswer
  <2>2. PICK f \in start_end_pairs : f[1] = AfterBody(p)
    BY <2>1 DEF Values
  <2> QED BY <1>1, <2>2
<1>4. LoopOf(j[2]) = 0 \/ (LoopOf(j[2]) \in R /\ kind[LoopOf(j[2])] \in Loops)
  BY JumpsAreFound
<1> QED BY <1>2, <1>3, <1>4 DEF JumpNode

-------------------------------------------------------------------------------
(* Against the edges once the jumps are connected: a set of nodes that     *)
(* every edge leads back into, if not from a jump, and every jump whose    *)
(* loop's end, and what follows its body, are in it.                       *)
Around(D, A) == \A a \in A : <<"End", a[2]>> \in D /\ AfterBody(a[2]) \in D
LeadsBack(D) ==
  /\ BodyEnd \in D
  /\ \A e \in adj_list : e[2] \in D /\ ~IsJump(e[1]) => e[1] \in D
  /\ \A j \in nodes : IsJump(j) => \A A : Searches(j, A) /\ Around(D, A) => j \in D

(* If the end of a statement is in such a set, so is all of its            *)
(* template, given the same of its children.                               *)
LEMMA BackThroughAStatement ==
  ASSUME program \in Programs, NEW R, GraphOf(R), NEW D, LeadsBack(D),
         NEW s \in R, NEW A, Searches(<<"End", s>>, A), Around(D, A), <<"End", s>> \in D,
         \A i \in Places(s) : children[s][i] \in R =>
           \A B : Searches(<<"End", children[s][i]>>, B) /\ Around(D, B) /\ <<"End", children[s][i]>> \in D
                    => <<"Start", children[s][i]>> \in D
  PROVE  /\ kind[s] \in Loops => AfterBody(s) \in D
         /\ \A n \in Ends(TemplateEdges(s)) : Enters(R, n) \in D /\ Leaves(R, n) \in D
<1> DEFINE C == {n \in Ends(TemplateEdges(s)) : Enters(R, n) \in D /\ Leaves(R, n) \in D}
           B == IF kind[s] \in Loops THEN {LoopEnd(s)} ELSE A
<1>1. /\ s \in Statements /\ IsReducible(s) /\ TemplateShape(s)
      /\ \A n \in Ends(TemplateEdges(s)) : Enters(R, n) \in nodes /\ Leaves(R, n) \in nodes
      /\ \A i \in Places(s) : /\ ChildAt(s, i) \in Ends(TemplateEdges(s))
                              /\ <<ChildAt(s, i), Follow(s, i)>> \in TemplateEdges(s)
  BY ReducedAre DEF IsReducible
<1>2. \A n : ~IsStatement(n) => Enters(R, n) = n /\ Leaves(R, n) = n /\ ~IsJump(n)
  BY DEF Enters, Leaves, IsIn, IsStatement, IsJump
<1>3. <<"End", s>> \in C
  <2>1. ~IsStatement(<<"End", s>>) /\ <<"End", s>> \in Ends(TemplateEdges(s))
    BY <1>1 DEF IsStatement, TemplateShape
  <2> QED BY <1>2, <2>1
<1>4. ASSUME NEW e \in TemplateEdges(s), e[2] \in C, ~IsStatement(e[1]) PROVE e[1] \in C
  <2>1. e[1] \in Ends(TemplateEdges(s))
    BY DEF Ends
  <2>2. <<Leaves(R, e[1]), Enters(R, e[2])>> \in adj_list
    BY DEF GraphOf, EdgesOf, Templates
  <2>3. <<e[1], Enters(R, e[2])>> \in adj_list
    BY <1>2, <1>4, <2>2
  <2>4. \A f \in adj_list : f[2] \in D /\ ~IsJump(f[1]) => f[1] \in D
    BY DEF LeadsBack
  <2>5. Enters(R, e[2]) \in D /\ ~IsJump(e[1])
    BY <1>2, <1>4
  <2>6. e[1] \in D
    BY <2>3, <2>4, <2>5
  <2> QED BY <1>2, <1>4, <2>1, <2>6
<1> HIDE DEF C
<1>5. /\ kind[s] \in Loops => <<"StartCond", s>> \in C /\ AfterBody(s) \in C
      /\ (\A i \in Places(s) : Follow(s, i) \in C => ChildAt(s, i) \in C) => Ends(TemplateEdges(s)) \subseteq C
  BY <1>1, <1>3, <1>4, TemplateGoesBackward
<1>6. kind[s] \in Loops => AfterBody(s) \in D
  <2>1. ~IsStatement(AfterBody(s))
    BY DEF IsStatement, AfterBody
  <2> QED BY <1>2, <1>5, <2>1 DEF C
<1>7. Around(D, B)
  <2>1. CASE kind[s] \in Loops
    <3>1. B = {LoopEnd(s)} /\ LoopEnd(s)[2] = s
      BY <2>1 DEF LoopEnd
    <3> HIDE DEF B
    <3> QED BY <1>6, <2>1, <3>1 DEF Around
  <2>2. CASE kind[s] \notin Loops
    BY <2>2
  <2> QED BY <2>1, <2>2
<1>8. ASSUME NEW i \in Places(s), Follow(s, i) \in C PROVE ChildAt(s, i) \in C
  <2> DEFINE n == ChildAt(s, i)
  <2>1. Searches(Leaves(R, n), B)
    BY SearchInside
  <2>2. Enters(R, Follow(s, i)) \in D
    BY <1>8 DEF C
  <2>3. <<Leaves(R, n), Enters(R, Follow(s, i))>> \in adj_list
    <3>1. \A q \in R : \A j \in Places(q) :
            /\ raw_successors(Leaves(R, ChildAt(q, j))) = {Enters(R, Follow(q, j))}
            /\ <<Leaves(R, ChildAt(q, j)), Enters(R, Follow(q, j))>> \in adj_list
      BY EdgesLeave, Zenon
    <3> QED BY <3>1
  <2>4. ~IsJump(Leaves(R, n)) => Leaves(R, n) \in D
    <3>1. \A f \in adj_list : f[2] \in D /\ ~IsJump(f[1]) => f[1] \in D
      BY DEF LeadsBack
    <3> QED BY <2>2, <2>3, <3>1
  <2>5. n \in Ends(TemplateEdges(s)) /\ n[1] = "Statement" /\ n[2] = children[s][i] /\ Leaves(R, n) \in nodes
    BY <1>1 DEF ChildAt, Statement
  <2> HIDE DEF n, B
  <2>6. CASE children[s][i] \in R
    <3>1. Leaves(R, n) = <<"End", children[s][i]>> /\ Enters(R, n) = <<"Start", children[s][i]>>
      BY <2>5, <2>6 DEF Leaves, Enters, IsIn, IsStatement
    <3>2. Leaves(R, n) \in D
      BY <2>4, <3>1 DEF IsJump
    <3>3. <<"Start", children[s][i]>> \in D
      BY <1>7, <2>1, <2>6, <3>1, <3>2
    <3> QED BY <2>5, <3>1, <3>2, <3>3 DEF C, n
  <2>7. CASE children[s][i] \notin R
    <3>1. Leaves(R, n) = n /\ Enters(R, n) = n
      BY <2>5, <2>7 DEF Leaves, Enters, IsIn
    <3>2. CASE IsJump(n)
      BY <1>7, <2>1, <2>5, <3>1, <3>2 DEF LeadsBack, C, n
    <3>3. CASE ~IsJump(n)
      BY <2>4, <2>5, <3>1, <3>3 DEF C, n
    <3> QED BY <3>2, <3>3
  <2> QED BY <2>6, <2>7
<1>9. Ends(TemplateEdges(s)) \subseteq C
  BY <1>5, <1>8
<1> QED BY <1>6, <1>9 DEF C

(* So for all that was reduced, the innermost first.                       *)
LEMMA BackThroughAll ==
  ASSUME program \in Programs, NEW R, GraphOf(R), NEW D, LeadsBack(D), NEW s \in R,
         NEW A, Searches(<<"End", s>>, A), Around(D, A), <<"End", s>> \in D
  PROVE  /\ kind[s] \in Loops => AfterBody(s) \in D
         /\ \A n \in Ends(TemplateEdges(s)) : Enters(R, n) \in D /\ Leaves(R, n) \in D
<1> DEFINE Goes(r) == \A B : Searches(<<"End", r>>, B) /\ Around(D, B) /\ <<"End", r>> \in D =>
                        /\ kind[r] \in Loops => AfterBody(r) \in D
                        /\ \A n \in Ends(TemplateEdges(r)) : Enters(R, n) \in D /\ Leaves(R, n) \in D
           S == {k \in Nat : \A r \in R : r + k > Len(kind) => Goes(r)}
<1>1. Len(kind) \in Nat /\ \A r \in R : r \in Statements /\ r \in 1 .. Len(kind)
  <2>1. Len(kind) \in Nat
    <3>1. IsProgram(program)
      BY ProgramsAssumption
    <3> QED BY <3>1 DEF IsProgram, kind
  <2>2. \A r \in R : r \in Statements
    BY ReducedAre
  <2> QED BY <2>1, <2>2 DEF Statements
<1>2. ASSUME NEW r \in R, \A t \in R : t > r => Goes(t) PROVE Goes(r)
  <2> SUFFICES ASSUME NEW B, Searches(<<"End", r>>, B), Around(D, B), <<"End", r>> \in D
               PROVE  /\ kind[r] \in Loops => AfterBody(r) \in D
                      /\ \A n \in Ends(TemplateEdges(r)) : Enters(R, n) \in D /\ Leaves(R, n) \in D
    OBVIOUS
  <2>1. ASSUME NEW i \in Places(r), children[r][i] \in R, NEW F,
               Searches(<<"End", children[r][i]>>, F), Around(D, F), <<"End", children[r][i]>> \in D
        PROVE  <<"Start", children[r][i]>> \in D
    <3> DEFINE t == children[r][i]
    <3>1. t \in R /\ t > r
      BY <1>1, <2>1, StatementsAre DEF Places
    <3> HIDE DEF t
    <3>2. Goes(t)
      BY <1>2, <3>1
    <3>3. <<"Start", t>> \in Ends(TemplateEdges(t)) /\ ~IsStatement(<<"Start", t>>)
      BY <3>1, ReducedAre DEF TemplateShape, IsStatement
    <3>4. Enters(R, <<"Start", t>>) = <<"Start", t>>
      BY <3>3 DEF Enters, IsIn
    <3>5. Searches(<<"End", t>>, F) /\ Around(D, F) /\ <<"End", t>> \in D
      BY <2>1 DEF t
    <3>6. Enters(R, <<"Start", t>>) \in D
      BY <3>2, <3>3, <3>5
    <3> QED BY <3>4, <3>6 DEF t
  <2> QED BY <2>1, BackThroughAStatement
<1> HIDE DEF Goes
<1>3. 0 \in S
  BY <1>1
<1>4. ASSUME NEW k \in Nat \cap S PROVE k + 1 \in S
  <2> SUFFICES ASSUME NEW r \in R, r + (k + 1) > Len(kind) PROVE Goes(r)
    OBVIOUS
  <2>1. \A t \in R : t > r => t + k > Len(kind)
    BY <1>1
  <2>2. \A t \in R : t > r => Goes(t)
    BY <1>4, <2>1
  <2> QED BY <1>2, <2>2
<1>5. Len(kind) \in S /\ s + Len(kind) > Len(kind)
  <2> HIDE DEF S
  <2> QED BY <1>1, <1>3, <1>4, SetInduction
<1>6. Goes(s)
  BY <1>5
<1> QED BY <1>6 DEF Goes

(* And the end of everything reduced is met, the outermost first.          *)
LEMMA EveryEndIsMet ==
  ASSUME program \in Programs, NEW R, GraphOf(R), NEW D, LeadsBack(D)
  PROVE  \A s \in R : <<"End", s>> \in D /\ \E A : Searches(<<"End", s>>, A) /\ Around(D, A)
<1> DEFINE Met(s) == <<"End", s>> \in D /\ \E A : Searches(<<"End", s>>, A) /\ Around(D, A)
           S == {n \in Nat : \A s \in R : s <= n => Met(s)}
<1>1. \A s \in R : s \in Nat \ {0} /\ s \in Statements
  BY ReducedAre
<1>2. \A s \in R : s = 1 \/ \E r \in R : \E i \in Places(r) : children[r][i] = s
  BY DEF GraphOf, IsTree
<1>3. ASSUME 1 \in R PROVE Met(1)
  <2>1. Searches(<<"End", 1>>, {}) /\ Around(D, {})
    BY <1>3, SearchOfTheBody DEF Around
  <2>2. <<<<"End", 1>>, BodyEnd>> \in adj_list
    <3>1. Leaves(R, Statement(1)) = <<"End", 1>>
      BY <1>3 DEF Leaves, IsIn, IsStatement, Statement
    <3>2. <<Leaves(R, Statement(1)), BodyEnd>> \in adj_list
      BY EdgesLeave
    <3> QED BY <3>1, <3>2
  <2>3. BodyEnd \in D /\ \A e \in adj_list : e[2] \in D /\ ~IsJump(e[1]) => e[1] \in D
    BY DEF LeadsBack
  <2>4. ~IsJump(<<"End", 1>>)
    BY DEF IsJump
  <2> QED BY <2>1, <2>2, <2>3, <2>4
<1>4. ASSUME NEW r \in R, Met(r), NEW i \in Places(r), children[r][i] \in R
      PROVE  Met(children[r][i])
  <2>1. PICK A : Searches(<<"End", r>>, A) /\ Around(D, A)
    BY <1>4
  <2> DEFINE B == IF kind[r] \in Loops THEN {LoopEnd(r)} ELSE A
  <2>2. /\ kind[r] \in Loops => AfterBody(r) \in D
        /\ \A n \in Ends(TemplateEdges(r)) : Enters(R, n) \in D /\ Leaves(R, n) \in D
    BY <1>4, <2>1, BackThroughAll
  <2>3. Around(D, B)
    <3>1. CASE kind[r] \in Loops
      <4>1. B = {LoopEnd(r)} /\ LoopEnd(r)[2] = r
        BY <3>1 DEF LoopEnd
      <4> HIDE DEF B
      <4> QED BY <1>4, <2>2, <3>1, <4>1 DEF Around
    <3>2. CASE kind[r] \notin Loops
      BY <2>1, <3>2
    <3> QED BY <3>1, <3>2
  <2>4. Searches(Leaves(R, ChildAt(r, i)), B)
    BY <2>1, SearchInside
  <2>5. Leaves(R, ChildAt(r, i)) = <<"End", children[r][i]>>
    BY <1>4 DEF Leaves, IsIn, IsStatement, ChildAt, Statement
  <2>6. Leaves(R, ChildAt(r, i)) \in D
    BY <2>2, ReducedAre
  <2> HIDE DEF B
  <2> QED BY <2>3, <2>4, <2>5, <2>6
<1> HIDE DEF Met
<1>5. 0 \in S
  BY <1>1
<1>6. ASSUME NEW n \in Nat \cap S PROVE n + 1 \in S
  <2> SUFFICES ASSUME NEW s \in R, s <= n + 1 PROVE Met(s)
    OBVIOUS
  <2>1. CASE s = 1
    BY <1>3, <2>1
  <2>2. CASE \E r \in R : \E i \in Places(r) : children[r][i] = s
    <3>0. PICK r \in R : \E i \in Places(r) : children[r][i] = s
      BY <2>2
    <3>1. PICK i \in Places(r) : children[r][i] = s
      BY <3>0
    <3>2. s > r
      BY <1>1, <3>1, StatementsAre DEF Places
    <3>3. r <= n
      BY <1>1, <3>2
    <3>4. Met(r)
      BY <1>6, <3>3
    <3> QED BY <1>4, <3>1, <3>4
  <2> QED BY <1>2, <2>1, <2>2
<1>7. Nat \subseteq S
  <2> HIDE DEF S
  <2> QED BY <1>5, <1>6, SetInduction
<1>8. \A s \in R : s \in S /\ s <= s
  <2> HIDE DEF S
  <2> QED BY <1>1, <1>7
<1> QED BY <1>8 DEF Met

(* When nothing waits, such a set has every node.                          *)
LEMMA EverythingLeadsBack ==
  ASSUME program \in Programs, NEW R, GraphOf(R), QueueIsWaiting, reduction_queue = <<>>,
         NEW D, LeadsBack(D)
  PROVE  nodes \subseteq D
<1>1. 1 \in R
  <2>1. IsProgram(program)
    BY ProgramsAssumption
  <2>2. 1 \in Statements /\ kind[1] = "block"
    BY <2>1 DEF IsProgram, kind, Statements
  <2>3. \A i \in 1 .. Len(reduction_queue) : FALSE
    OBVIOUS
  <2>4. Statement(1) \notin nodes
    BY <2>2, <2>3 DEF QueueIsWaiting, Has, IsReducible, Reducible
  <2>5. Statement(1) \in Ends(Templates(R))
    <3>1. <<BodyStart, Statement(1)>> \in Templates(R)
      BY DEF Templates
    <3> QED BY <3>1, EndsHave
  <2> QED BY <2>4, <2>5 DEF GraphOf, NodesOf, IsIn, Statement
<1>2. ASSUME NEW s \in R, NEW n \in Ends(TemplateEdges(s)) PROVE Enters(R, n) \in D
  <2>1. PICK A : Searches(<<"End", s>>, A) /\ Around(D, A)
    BY EveryEndIsMet
  <2>2. <<"End", s>> \in D
    BY EveryEndIsMet
  <2> QED BY <2>1, <2>2, BackThroughAll
<1>3. BodyEnd \in D
  BY DEF LeadsBack
<1>4. BodyStart \in D
  <2>1. Enters(R, Statement(1)) = <<"Start", 1>>
    BY <1>1 DEF Enters, IsIn, IsStatement, Statement
  <2>2. <<BodyStart, <<"Start", 1>>>> \in adj_list
    <3>1. <<BodyStart, Enters(R, Statement(1))>> \in adj_list
      BY EdgesLeave
    <3> QED BY <2>1, <3>1
  <2>3. <<"Start", 1>> \in D
    <3>1. <<"Start", 1>> \in Ends(TemplateEdges(1))
      BY <1>1, ReducedAre DEF TemplateShape
    <3>2. Enters(R, <<"Start", 1>>) = <<"Start", 1>>
      BY DEF Enters, IsIn, IsStatement
    <3> QED BY <1>1, <1>2, <3>1, <3>2
  <2>4. ~IsJump(BodyStart)
    BY DEF IsJump, BodyStart
  <2>5. \A e \in adj_list : e[2] \in D /\ ~IsJump(e[1]) => e[1] \in D
    BY DEF LeadsBack
  <2> QED BY <2>2, <2>3, <2>4, <2>5
<1>5. ASSUME NEW n \in nodes PROVE n \in D
  <2>1. n \in Ends(Templates(R)) /\ Enters(R, n) = n
    BY DEF GraphOf, NodesOf, Enters
  <2>2. PICK e \in Templates(R) : n = e[1] \/ n = e[2]
    BY <2>1 DEF Ends
  <2>3. CASE e \in {<<BodyStart, Statement(1)>>, <<Statement(1), BodyEnd>>}
    <3>1. n # Statement(1)
      BY <1>1 DEF GraphOf, NodesOf, IsIn, IsStatement, Statement
    <3> QED BY <1>3, <1>4, <2>2, <2>3, <3>1
  <2>4. CASE \E s \in R : e \in TemplateEdges(s)
    <3>1. PICK s \in R : e \in TemplateEdges(s)
      BY <2>4
    <3>2. n \in Ends(TemplateEdges(s))
      BY <2>2, <3>1 DEF Ends
    <3> QED BY <1>2, <2>1, <3>2
  <2> QED BY <2>3, <2>4 DEF Templates
<1> QED BY <1>5

-------------------------------------------------------------------------------
(* Before the jumps are connected the search meets them all.               *)
LEMMA JumpsAreAllOfTheGraph ==
  ASSUME program \in Programs, GraphIsTheTemplates
  PROVE  discover_jump_sources = {n \in nodes : IsJump(n)}
<1>1. PICK R \in SUBSET Statements : GraphOf(R)
  BY DEF GraphIsTheTemplates
<1>2. IsGraph
  BY <1>1, TemplatesMakeAGraph
<1>3. Reach({BodyStart}, successors) = nodes
  BY <1>2, EverythingIsReached DEF GraphIsTheTemplates
<1> QED BY <1>3 DEF discover_jump_sources

(* The jumps are connected, and every node still leads to the end.         *)
LEMMA CalibrateKeepsTheGraph ==
  ASSUME ReductionInv, Calibrate PROVE ReductionInv'
<1>1. /\ program \in Programs /\ GraphIsTheTemplates /\ reduction_queue = <<>> /\ QueueIsWaiting
      /\ program' = program /\ nodes' = nodes
  BY DEF ReductionInv, Calibrate, GraphIsTheTemplates
<1>2. PICK R : GraphOf(R)
  BY <1>1 DEF GraphIsTheTemplates
<1> DEFINE jumps == {n \in nodes : IsJump(n)}
<1>3. discover_jump_sources = jumps
  BY <1>1, JumpsAreAllOfTheGraph
<1>4. PICK dest :
        /\ \A j \in jumps : dest[j] \in Found(j)
        /\ adj_list' = {e \in adj_list : e[1] \notin jumps} \cup UNION {{j} \X Calibrated(j, dest[j]) : j \in jumps}
        /\ phase' = IF \E j \in jumps : kind[j[2]] # "return" /\ (SearchPanics(j) \/ CalibrationPanics(j))
                    THEN "panicked" ELSE "done"
  <2> DEFINE found == [j \in discover_jump_sources |-> Found(j)]
  <2>1. DOMAIN found = jumps /\ \A j \in jumps : found[j] = Found(j)
    BY <1>3
  <2> HIDE DEF jumps
  <2>2. \E dest \in [DOMAIN found -> UNION {found[j] : j \in DOMAIN found}] :
          /\ \A j \in DOMAIN found : dest[j] \in found[j]
          /\ adj_list' = {e \in adj_list : e[1] \notin DOMAIN found}
                         \cup UNION {{j} \X Calibrated(j, dest[j]) : j \in DOMAIN found}
          /\ phase' = IF \E j \in DOMAIN found : kind[j[2]] # "return" /\ (SearchPanics(j) \/ CalibrationPanics(j))
                      THEN "panicked" ELSE "done"
    BY DEF Calibrate
  <2> HIDE DEF found
  <2> QED BY <2>1, <2>2
<1>5. ASSUME NEW j \in jumps
      PROVE  ~SearchPanics(j) /\ ~CalibrationPanics(j) /\ Calibrated(j, dest[j]) = {JumpNode(j)}
  <2>1. ~SearchPanics(j) /\ \E d : Found(j) = {d} /\ Calibrated(j, d) = {JumpNode(j)}
    BY <1>1, <1>2, JumpsHaveOneDestination
  <2>2. Found(j) = {dest[j]}
    BY <1>4, <2>1
  <2>3. Calibrated(j, dest[j]) = {JumpNode(j)}
    BY <2>1, <2>2
  <2>4. ~CalibrationPanics(j)
    BY <2>2, <2>3 DEF CalibrationPanics
  <2> QED BY <2>1, <2>3, <2>4
<1>6. phase' = "done"
  BY <1>4, <1>5
<1>7. IsGraph /\ IsTree(R) /\ nodes = NodesOf(R) /\ adj_list = EdgesOf(R)
  BY <1>1, <1>2, ReducedAre DEF GraphOf
<1>8. adj_list' = {e \in adj_list : ~IsJump(e[1])} \cup {<<j, JumpNode(j)>> : j \in jumps}
  <2>1. \A j \in jumps : {j} \X Calibrated(j, dest[j]) = {<<j, JumpNode(j)>>}
    BY <1>5
  <2>2. UNION {{j} \X Calibrated(j, dest[j]) : j \in jumps} = {<<j, JumpNode(j)>> : j \in jumps}
    <3> HIDE DEF jumps
    <3> QED BY <2>1
  <2>3. \A e \in adj_list : e[1] \in nodes
    BY <1>7 DEF IsGraph
  <2>4. {e \in adj_list : e[1] \notin jumps} = {e \in adj_list : ~IsJump(e[1])}
    BY <2>3
  <2> HIDE DEF jumps
  <2> QED BY <1>4, <2>2, <2>4
<1>9. IsGraph'
  <2>1. \A j \in jumps : JumpNode(j) \in nodes
    BY <1>1, <1>2, JumpNodesAreNodes
  <2>2. adj_list' \subseteq nodes \X nodes
    BY <1>7, <1>8, <2>1 DEF IsGraph
  <2> QED BY <1>1, <1>7, <2>2 DEF IsGraph, BodyStart, BodyEnd
<1>10. ASSUME NEW U \in SUBSET nodes, BodyEnd \in U, \A e \in adj_list' : e[2] \in U => e[1] \in U
       PROVE  nodes \subseteq U
  <2>1. \A e \in adj_list : e[2] \in U /\ ~IsJump(e[1]) => e[1] \in U
    BY <1>8, <1>10
  <2>2. ASSUME NEW j \in nodes, IsJump(j), NEW A, Searches(j, A), Around(U, A) PROVE j \in U
    <3> DEFINE loop == LoopOf(j[2])
    <3>1. Searches(j, LoopEnds(loop))
      BY <1>1, <1>2, <2>2, JumpsAreFound
    <3>2. A = LoopEnds(loop)
      BY <2>2, <3>1 DEF Searches
    <3>3. loop # 0 => <<"End", loop>> \in U /\ AfterBody(loop) \in U
      <4>1. loop # 0 => LoopEnd(loop) \in A
        BY <3>2 DEF LoopEnds
      <4>2. LoopEnd(loop)[2] = loop
        BY DEF LoopEnd
      <4> QED BY <2>2, <4>1, <4>2 DEF Around
    <3>4. JumpNode(j) \in U
      BY <1>10, <3>3 DEF JumpNode
    <3>5. <<j, JumpNode(j)>> \in adj_list'
      BY <1>8, <2>2
    <3> QED BY <1>10, <3>4, <3>5
  <2>3. LeadsBack(U)
    BY <1>10, <2>1, <2>2 DEF LeadsBack
  <2> QED BY <1>1, <1>2, <2>3, EverythingLeadsBack
<1>11. ComesFromEverywhere(nodes, adj_list)'
  BY <1>1, <1>10 DEF ComesFromEverywhere, BodyEnd
<1>12. GraphWithJumps(R)'
  <2>1. /\ IsTree(R)' /\ NodesOf(R)' = NodesOf(R) /\ EdgesOf(R)' = EdgesOf(R)
        /\ JumpEdgesOf(R)' = JumpEdgesOf(R)
    BY <1>1, <1>7, GraphsStay
  <2>2. adj_list' = {e \in EdgesOf(R) : ~IsJump(e[1])} \cup JumpEdgesOf(R)
    BY <1>7, <1>8 DEF JumpEdgesOf
  <2>3. \A e : IsJump(e[1])' <=> IsJump(e[1])
    BY <1>1 DEF IsJump, kind
  <2>4. adj_list' = {e \in EdgesOf(R)' : ~IsJump(e[1])'} \cup JumpEdgesOf(R)'
    BY <2>1, <2>2, <2>3
  <2> QED BY <1>1, <1>7, <2>1, <2>4 DEF GraphWithJumps
<1>13. R \in SUBSET Statements' /\ QueueIsWaiting' /\ reduction_queue' = <<>>
  <2>1. reduction_queue' = reduction_queue /\ kind' = kind /\ Statements' = Statements
    BY <1>1 DEF Calibrate, kind, Statements
  <2>2. R \in SUBSET Statements
    BY <1>7 DEF IsTree
  <2> QED BY <1>1, <2>1, <2>2 DEF QueueIsWaiting, AllDiffer, Has, IsReducible, Statement
<1> QED BY <1>1, <1>6, <1>9, <1>11, <1>12, <1>13 DEF ReductionInv, JumpsAreConnected

(* When nothing changes.                                                   *)
LEMMA StutteringKeepsTheGraph ==
  ASSUME ReductionInv, UNCHANGED vars PROVE ReductionInv'
<1>1. /\ program' = program /\ phase' = phase /\ nodes' = nodes /\ adj_list' = adj_list
      /\ reduction_queue' = reduction_queue
      /\ start_end_pairs' = start_end_pairs /\ start_cond_pairs' = start_cond_pairs
      /\ cond_start_pairs' = cond_start_pairs /\ start_loop_expr' = start_loop_expr
      /\ loop_expr_start' = loop_expr_start
  BY DEF vars
<1>2. Statements' = Statements /\ kind' = kind
  BY <1>1 DEF kind, Statements
<1>3. ASSUME NEW R, GraphOf(R) PROVE GraphOf(R)'
  <2>1. /\ IsTree(R)' /\ NodesOf(R)' = NodesOf(R) /\ EdgesOf(R)' = EdgesOf(R)
    BY <1>1, <1>3, GraphsStay DEF GraphOf
  <2>2. LookupsOf(R)'
    BY <1>1, <1>3, GraphsStay DEF GraphOf, LookupsOf
  <2> QED BY <1>1, <1>3, <2>1, <2>2 DEF GraphOf
<1>4. QueueIsWaiting => QueueIsWaiting'
  BY <1>1, <1>2 DEF QueueIsWaiting, AllDiffer, Has, IsReducible, Statement
<1>5. LeadsEverywhere(nodes, adj_list) => LeadsEverywhere(nodes, adj_list)'
  BY <1>1 DEF LeadsEverywhere, BodyStart
<1>6. ComesFromEverywhere(nodes, adj_list) => ComesFromEverywhere(nodes, adj_list)'
  BY <1>1 DEF ComesFromEverywhere, BodyEnd
<1>7. IsGraph => IsGraph'
  BY <1>1 DEF IsGraph, BodyStart, BodyEnd
<1>8. GraphIsTheTemplates => GraphIsTheTemplates'
  <2> SUFFICES ASSUME GraphIsTheTemplates PROVE GraphIsTheTemplates'
    OBVIOUS
  <2>1. PICK R \in SUBSET Statements : GraphOf(R)
    BY DEF GraphIsTheTemplates
  <2>2. GraphOf(R)'
    BY <1>3, <2>1
  <2> QED BY <1>2, <1>4, <1>5, <1>6, <2>1, <2>2 DEF GraphIsTheTemplates
<1>9. JumpsAreConnected => JumpsAreConnected'
  <2> SUFFICES ASSUME JumpsAreConnected PROVE JumpsAreConnected'
    OBVIOUS
  <2>1. PICK R \in SUBSET Statements : GraphWithJumps(R)
    BY DEF JumpsAreConnected
  <2>2. /\ IsTree(R)' /\ NodesOf(R)' = NodesOf(R) /\ EdgesOf(R)' = EdgesOf(R)
        /\ JumpEdgesOf(R)' = JumpEdgesOf(R)
    BY <1>1, <2>1, GraphsStay DEF GraphWithJumps
  <2>3. \A e : IsJump(e[1])' <=> IsJump(e[1])
    BY <1>2 DEF IsJump
  <2>4. GraphWithJumps(R)'
    BY <1>1, <2>1, <2>2, <2>3 DEF GraphWithJumps
  <2> QED BY <1>1, <1>2, <1>4, <1>6, <2>1, <2>4 DEF JumpsAreConnected
<1> QED BY <1>1, <1>7, <1>8, <1>9 DEF ReductionInv

(* Until the jumps are connected the graph is the templates of what was    *)
(* reduced (Cfg::reduce), put together, with the lookups filled from them  *)
(* and in the queue what is left; after it, every node leads to the end.   *)
THEOREM ReductionInvariant == Spec => []ReductionInv
<1>1. Init => ReductionInv
  BY InitIsTheTemplates
<1>2. ReductionInv /\ [Next]_vars => ReductionInv'
  BY ReduceKeepsTheTemplates, CalibrateKeepsTheGraph, StutteringKeepsTheGraph DEF Next
<1> QED BY <1>1, <1>2, PTL DEF Spec

(* For a body of any size, discover_jump_sources meets every node before   *)
(* the jumps are connected, and at any time every node has a way to the    *)
(* body's end.                                                             *)
THEOREM NothingDetached == Spec => []NothingIsDetached
<1>1. ASSUME ReductionInv PROVE NothingIsDetached
  <2>1. CASE phase = "reduce"
    <3>1. program \in Programs /\ GraphIsTheTemplates
      BY <1>1, <2>1 DEF ReductionInv
    <3>2. PICK R : GraphOf(R)
      BY <3>1 DEF GraphIsTheTemplates
    <3>3. IsGraph
      BY <3>1, <3>2, TemplatesMakeAGraph
    <3> QED BY <3>1, <3>3, EverythingIsReached DEF NothingIsDetached, GraphIsTheTemplates
  <2>2. CASE phase = "done"
    <3>1. IsGraph /\ ComesFromEverywhere(nodes, adj_list)
      BY <1>1, <2>2 DEF ReductionInv, JumpsAreConnected
    <3> QED BY <2>2, <3>1, EverythingIsReached DEF NothingIsDetached
  <2> QED BY <1>1, <2>1, <2>2 DEF ReductionInv
<1> QED BY <1>1, ReductionInvariant, PTL

(* For a body of any size no lookup of find_jump_dest and of calibrate     *)
(* fails, and the search from a jump finds one loop at most, whatever the  *)
(* order it takes the edges in.                                            *)
THEOREM JumpsFindLoops == Spec => []JumpsFindTheirLoop
<1>1. ASSUME ReductionInv PROVE JumpsFindTheirLoop
  <2>1. phase # "panicked"
    BY <1>1 DEF ReductionInv
  <2>2. ASSUME phase = "reduce", NEW jump \in discover_jump_sources PROVE Cardinality(Found(jump)) = 1
    <3>1. program \in Programs /\ GraphIsTheTemplates
      BY <1>1, <2>2 DEF ReductionInv
    <3>2. PICK R : GraphOf(R)
      BY <3>1 DEF GraphIsTheTemplates
    <3>3. jump \in nodes /\ IsJump(jump)
      BY <2>2, <3>1, JumpsAreAllOfTheGraph
    <3>4. PICK d : Found(jump) = {d}
      BY <3>1, <3>2, <3>3, JumpsHaveOneDestination
    <3> QED BY <3>4, FS_Singleton
  <2> QED BY <2>1, <2>2 DEF JumpsFindTheirLoop
<1> QED BY <1>1, ReductionInvariant, PTL

-------------------------------------------------------------------------------
(* The flow in every state.                                                *)

(* The statements that wait in the queue, and those that are not to be     *)
(* reduced, are the ones of the graph.                                     *)
LEMMA TheQueueIsOfAtoms ==
  ASSUME program \in Programs, NEW R, IsTree(R), nodes = NodesOf(R), QueueIsWaiting
  PROVE  AtomsAre(R)
<1> SUFFICES ASSUME NEW s \in Statements, IsMet(R, s) PROVE IsAtom(s) <=> s \notin R
  BY DEF AtomsAre
<1>1. Statement(s) \in Ends(Templates(R))
  <2>1. CASE s = 1
    <3>1. <<BodyStart, Statement(1)>> \in Templates(R)
      BY DEF Templates
    <3> QED BY <2>1, <3>1, EndsHave
  <2>2. CASE \E p \in R : \E i \in Places(p) : children[p][i] = s
    <3>0. PICK p \in R : \E i \in Places(p) : children[p][i] = s
      BY <2>2
    <3>1. PICK i \in Places(p) : children[p][i] = s
      BY <3>0
    <3>2. ChildAt(p, i) \in Ends(TemplateEdges(p))
      BY TemplatesHaveShape DEF IsTree, TemplateShape
    <3>3. Ends(TemplateEdges(p)) \subseteq Ends(Templates(R))
      BY DEF Ends, Templates
    <3> QED BY <3>1, <3>2, <3>3 DEF ChildAt
  <2> QED BY <2>1, <2>2 DEF IsMet
<1>2. Statement(s) \in nodes <=> s \notin R
  BY <1>1 DEF NodesOf, IsIn, IsStatement, Statement
<1>3. Has(reduction_queue, s) <=> IsReducible(s) /\ Statement(s) \in nodes
  BY DEF QueueIsWaiting
<1>4. s \in R => IsReducible(s)
  BY DEF IsTree
<1> QED BY <1>2, <1>3, <1>4 DEF IsAtom, Has, IsReducible

(* The flow of every point but the jumps that are connected.               *)
LEMMA TheGraphHasTheFlow ==
  ASSUME ReductionInv
  PROVE  \E R : /\ HasTheFlow(R) /\ QueueIsWaiting
                /\ phase = "reduce" => adj_list = EdgesOf(R)
                /\ phase = "done" => adj_list = {e \in EdgesOf(R) : ~IsJump(e[1])} \cup JumpEdgesOf(R)
<1>1. program \in Programs /\ phase \in {"reduce", "done"}
  BY DEF ReductionInv
<1>2. CASE phase = "reduce"
  <2>1. GraphIsTheTemplates
    BY <1>2 DEF ReductionInv
  <2>2. PICK R : GraphOf(R)
    BY <2>1 DEF GraphIsTheTemplates
  <2>3. IsTree(R) /\ nodes = NodesOf(R) /\ adj_list = EdgesOf(R) /\ QueueIsWaiting /\ IsGraph
    BY <1>1, <2>1, <2>2, TemplatesMakeAGraph DEF GraphOf, GraphIsTheTemplates
  <2>4. AtomsAre(R) /\ EdgesOf(R) \subseteq nodes \X nodes
    BY <1>1, <2>3, TheQueueIsOfAtoms, GraphIsFinite
  <2> QED BY <1>2, <2>3, <2>4 DEF HasTheFlow
<1>3. CASE phase = "done"
  <2>1. IsGraph /\ JumpsAreConnected
    BY <1>3 DEF ReductionInv
  <2>2. PICK R : GraphWithJumps(R)
    BY <2>1 DEF JumpsAreConnected
  <2>3. /\ IsTree(R) /\ nodes = NodesOf(R) /\ QueueIsWaiting
        /\ adj_list = {e \in EdgesOf(R) : ~IsJump(e[1])} \cup JumpEdgesOf(R)
    BY <2>1, <2>2 DEF GraphWithJumps, JumpsAreConnected
  <2>4. AtomsAre(R) /\ EdgesOf(R) \subseteq nodes \X nodes
    BY <1>1, <2>3, TheQueueIsOfAtoms, GraphIsFinite
  <2>5. ASSUME NEW m \in nodes, NEW n \in nodes, ~IsJump(m)
        PROVE  <<m, n>> \in adj_list <=> <<m, n>> \in EdgesOf(R)
    <3>1. <<m, n>>[1] = m
      OBVIOUS
    <3>2. \A e \in JumpEdgesOf(R) : IsJump(e[1])
      BY DEF JumpEdgesOf
    <3>3. <<m, n>> \notin JumpEdgesOf(R)
      BY <2>5, <3>1, <3>2
    <3> QED BY <2>3, <2>5, <3>1, <3>3
  <2> QED BY <1>3, <2>1, <2>3, <2>4, <2>5 DEF HasTheFlow
<1> QED BY <1>1, <1>2, <1>3

(* A jump that is connected leads where the program's does.                *)
LEMMA JumpsFlow ==
  ASSUME program \in Programs, NEW R, HasTheFlow(R), NEW n \in nodes, IsJump(n),
         adj_list = {e \in EdgesOf(R) : ~IsJump(e[1])} \cup JumpEdgesOf(R)
  PROVE  GraphFlow(n) = JumpsTo(n[2])
<1>1. IsTree(R) /\ AtomsAre(R) /\ nodes = NodesOf(R) /\ IsGraph
  BY DEF HasTheFlow
<1>2. raw_successors(n) = {JumpNode(n)}
  <2>1. \A e \in JumpEdgesOf(R) : e[1] = n => e[2] = JumpNode(n)
    BY DEF JumpEdgesOf
  <2>2. <<n, JumpNode(n)>> \in JumpEdgesOf(R)
    BY <1>1 DEF JumpEdgesOf
  <2>3. \A e \in adj_list : e[1] = n => e[2] = JumpNode(n)
    BY <2>1
  <2>4. <<n, JumpNode(n)>> \in adj_list
    BY <2>2
  <2> QED BY <2>3, <2>4 DEF raw_successors
<1>3. JumpNode(n) \in nodes
  <2>1. JumpNode(n) \in raw_successors(n)
    BY <1>2
  <2> QED BY <1>1, <2>1, SuccessorsAre
<1> DEFINE s == n[2]
           loop == LoopOf(s)
<1>4. s \in Statements /\ IsMet(R, s)
  <2>1. IsPoint(n) /\ n # BodyEnd /\ n[1] = "Statement"
    BY DEF IsJump, IsPoint, IsVoid, StartRoles, EndRoles, BodyEnd
  <2>2. \A part \in {"Cond", "Init", "Exp"} : \A t : n # <<part, t>>
    BY <2>1
  <2>3. PICK t \in Statements : IsMet(R, t) /\ n = Statement(t)
    BY <1>1, <2>1, <2>2, PointsAre
  <2> QED BY <2>3 DEF Statement
<1>5. loop = 0 \/ (loop \in R /\ kind[loop] \in Loops)
  BY <1>1, <1>4, LoopsAreReduced
<1>6. /\ JumpNode(n) = IF kind[s] = "return" \/ loop = 0 THEN BodyEnd
                       ELSE IF kind[s] = "break" THEN <<"End", loop>> ELSE AfterBody(loop)
      /\ JumpsTo(s) = IF kind[s] = "return" \/ loop = 0 THEN {BodyEnd}
                      ELSE IF kind[s] = "break" THEN After(loop) ELSE Round(loop)
  BY DEF JumpNode, JumpsTo, Round
<1> HIDE DEF s, loop
<1>7. CASE kind[s] = "return" \/ loop = 0
  BY <1>2, <1>3, <1>6, <1>7, FlowOfAJump DEF s
<1>8. CASE ~(kind[s] = "return" \/ loop = 0) /\ kind[s] = "break"
  <2>1. raw_successors(n) = {<<"End", loop>>} /\ <<"End", loop>> \in nodes /\ loop \in R /\ kind[loop] \in Loops
    BY <1>2, <1>3, <1>5, <1>6, <1>8
  <2>2. GraphFlow(n) = After(loop)
    BY <2>1, FlowOfAJump
  <2> QED BY <1>6, <1>8, <2>2 DEF s
<1>9. CASE ~(kind[s] = "return" \/ loop = 0) /\ kind[s] # "break"
  <2>1. raw_successors(n) = {AfterBody(loop)} /\ AfterBody(loop) \in nodes /\ loop \in R /\ kind[loop] \in Loops
    BY <1>2, <1>3, <1>5, <1>6, <1>9
  <2>2. GraphFlow(n) = Round(loop)
    BY <2>1, FlowOfAJump
  <2> QED BY <1>6, <1>9, <2>2 DEF s
<1> QED BY <1>7, <1>8, <1>9

(* The graph has the flow of the program wherever the invariant holds.      *)
LEMMA TheFlowIsTheProgram ==
  ASSUME ReductionInv
  PROVE  GraphIsTheProgram
<1>1. program \in Programs /\ phase \in {"reduce", "done"}
  BY DEF ReductionInv
<1>2. PICK R : /\ HasTheFlow(R) /\ QueueIsWaiting
               /\ phase = "reduce" => adj_list = EdgesOf(R)
               /\ phase = "done" => adj_list = {e \in EdgesOf(R) : ~IsJump(e[1])} \cup JumpEdgesOf(R)
  BY TheGraphHasTheFlow
<1>3. IsTree(R) /\ AtomsAre(R) /\ nodes = NodesOf(R) /\ BodyStart \in nodes
  BY <1>2 DEF HasTheFlow, IsGraph
<1> SUFFICES ASSUME NEW n \in {m \in nodes : IsPoint(m) /\ m # BodyEnd} \cup {BodyStart}
             PROVE  GraphFlow(n) = ProgramFlow(n)
  BY DEF GraphIsTheProgram
<1>4. n \in nodes /\ (n = BodyStart \/ IsPoint(n)) /\ n # BodyEnd
  BY <1>3 DEF BodyStart, BodyEnd
<1>5. ProgramFlow(n) = IF IsJump(n) /\ phase = "done" THEN JumpsTo(n[2]) ELSE Leads(n)
  BY <1>1, <1>3, <1>4, ProgramFlows
<1>6. CASE IsJump(n) /\ phase = "done"
  BY <1>1, <1>2, <1>4, <1>5, <1>6, JumpsFlow
<1>7. CASE ~(IsJump(n) /\ phase = "done")
  <2>1. \A m \in nodes : <<n, m>> \in adj_list <=> <<n, m>> \in EdgesOf(R)
    BY <1>1, <1>2, <1>4, <1>7 DEF HasTheFlow
  <2>2. GraphFlow(n) = Leads(n)
    BY <1>1, <1>2, <1>4, <2>1, FlowFromAPoint
  <2> QED BY <1>5, <1>7, <2>2
<1> QED BY <1>6, <1>7

(* For a body of any size, the graph has the flow of the program: after    *)
(* every reduction, with the statements in the queue as atoms and jumps    *)
(* followed by the next statement, and in the end with each jump where it  *)
(* goes in the program.                                                    *)
THEOREM GraphsFlowAsPrograms == Spec => []GraphIsTheProgram
<1>1. ReductionInv => GraphIsTheProgram
  BY TheFlowIsTheProgram
<1> QED BY <1>1, ReductionInvariant, PTL

-------------------------------------------------------------------------------
(* The detectors that search the finished graph.                           *)

(* What is collected from a set has what is collected from each of its     *)
(* members, and from one node that node and what is collected from what    *)
(* follows it.                                                             *)
LEMMA ReachOfAMember ==
  ASSUME IsFiniteSet(nodes), NEW next \in [nodes -> SUBSET nodes],
         NEW from \in SUBSET nodes, NEW n \in Reach(from, next)
  PROVE  n \in nodes /\ Reach({n}, next) \subseteq Reach(from, next) /\ n \in Reach({n}, next)
<1> DEFINE D == Reach(from, next)
<1>1. /\ D \in SUBSET nodes
      /\ \A m \in D : next[m] \subseteq D
  BY ReachIsLeast
<1>2. n \in D
  OBVIOUS
<1> HIDE DEF D
<1>3. {n} \in SUBSET nodes /\ {n} \subseteq D
  BY <1>1, <1>2
<1>4. Reach({n}, next) \subseteq D /\ {n} \subseteq Reach({n}, next)
  BY <1>1, <1>3, ReachIsLeast
<1> QED BY <1>3, <1>4 DEF D

LEMMA ReachFromOne ==
  ASSUME IsFiniteSet(nodes), NEW next \in [nodes -> SUBSET nodes], NEW n \in nodes
  PROVE  Reach({n}, next) = {n} \cup Reach(next[n], next)
<1> DEFINE D == Reach({n}, next)
           W == Reach(next[n], next)
<1>1. {n} \in SUBSET nodes /\ next[n] \in SUBSET nodes
  OBVIOUS
<1>2. /\ D \in SUBSET nodes /\ {n} \subseteq D
      /\ \A m \in D : next[m] \subseteq D
      /\ \A U \in SUBSET nodes : {n} \subseteq U /\ (\A m \in U : next[m] \subseteq U) => D \subseteq U
  BY <1>1, ReachIsLeast
<1>3. /\ W \in SUBSET nodes /\ next[n] \subseteq W
      /\ \A m \in W : next[m] \subseteq W
      /\ \A U \in SUBSET nodes : next[n] \subseteq U /\ (\A m \in U : next[m] \subseteq U) => W \subseteq U
  BY <1>1, ReachIsLeast
<1> HIDE DEF D, W
<1>4. W \subseteq D
  BY <1>2, <1>3
<1>5. D \subseteq {n} \cup W
  <2>1. {n} \cup W \in SUBSET nodes /\ \A m \in {n} \cup W : next[m] \subseteq {n} \cup W
    BY <1>3
  <2> QED BY <1>2, <2>1
<1> QED BY <1>2, <1>4, <1>5 DEF D, W

(* With less that follows, less is collected.                              *)
LEMMA ReachGrows ==
  ASSUME IsFiniteSet(nodes), NEW less \in [nodes -> SUBSET nodes], NEW more \in [nodes -> SUBSET nodes],
         NEW S \in SUBSET nodes, NEW T \in SUBSET nodes,
         S \subseteq T, \A m \in nodes : less[m] \subseteq more[m]
  PROVE  Reach(S, less) \subseteq Reach(T, more)
<1> DEFINE W == Reach(T, more)
<1>1. /\ W \in SUBSET nodes /\ T \subseteq W
      /\ \A m \in W : more[m] \subseteq W
  BY ReachIsLeast
<1> HIDE DEF W
<1>2. \A m \in W : less[m] \subseteq W
  BY <1>1
<1>3. S \subseteq W
  BY <1>1
<1>4. Reach(S, less) \subseteq W
  BY <1>1, <1>2, <1>3, ReachIsLeast
<1> QED BY <1>4 DEF W

(* The edges and the flow, but for what follows the nodes of B.            *)
Along(B) == [m \in nodes |-> IF m \in B THEN {} ELSE raw_successors(m)]
Flow(B) == [m \in nodes |-> IF m = BodyStart \/ (IsPoint(m) /\ m \notin {BodyEnd} \cup B) THEN GraphFlow(m) ELSE {}]
Departures == {m \in nodes : m = BodyStart \/ IsPoint(m)}

LEMMA RoadsAreFunctions ==
  ASSUME IsGraph, NEW B
  PROVE  /\ IsFiniteSet(nodes) /\ \A m : raw_successors(m) \in SUBSET nodes
         /\ Passed \in [nodes -> SUBSET nodes] /\ Along(B) \in [nodes -> SUBSET nodes]
         /\ Flow(B) \in [nodes -> SUBSET nodes]
         /\ successors = Along({})
<1>1. IsFiniteSet(nodes) /\ \A m : raw_successors(m) \in SUBSET nodes
  BY SuccessorsAre DEF IsGraph
<1>2. Passed \in [nodes -> SUBSET nodes]
  BY <1>1 DEF Passed
<1>3. \A m : GraphFlow(m) \in SUBSET nodes
  <2> TAKE m
  <2>1. Reach(raw_successors(m), Passed) \in SUBSET nodes
    BY <1>1, <1>2, ReachIsLeast
  <2> QED BY <2>1, FlowsAre DEF PointsIn
<1> QED BY <1>1, <1>2, <1>3 DEF Along, Flow, successors

(* A search that stops at some points meets the points that the flow leads *)
(* to when it stops there.                                                 *)
LEMMA SearchesFollowTheFlow ==
  ASSUME IsGraph, raw_successors(BodyEnd) = {}, NEW from \in SUBSET Departures,
         NEW B, \A b \in B : IsPoint(b)
  PROVE  PointsIn(Reach(from, Along(B))) = PointsIn(Reach(from, Flow(B)))
<1> DEFINE D == Reach(from, Along(B))
           W == Reach(from, Flow(B))
           Met(x) == Reach({x}, Passed)
<1>1. /\ IsFiniteSet(nodes) /\ \A m : raw_successors(m) \in SUBSET nodes
      /\ Passed \in [nodes -> SUBSET nodes] /\ Along(B) \in [nodes -> SUBSET nodes]
      /\ Flow(B) \in [nodes -> SUBSET nodes]
  BY RoadsAreFunctions
<1>2. from \in SUBSET nodes /\ \A m \in from : m = BodyStart \/ IsPoint(m)
  BY DEF Departures
<1>3. /\ D \in SUBSET nodes /\ from \subseteq D
      /\ \A m \in D : Along(B)[m] \subseteq D
      /\ \A U \in SUBSET nodes : from \subseteq U /\ (\A m \in U : Along(B)[m] \subseteq U) => D \subseteq U
  BY <1>1, <1>2, ReachIsLeast
<1>4. /\ W \in SUBSET nodes /\ from \subseteq W
      /\ \A m \in W : Flow(B)[m] \subseteq W
      /\ \A U \in SUBSET nodes : from \subseteq U /\ (\A m \in U : Flow(B)[m] \subseteq U) => W \subseteq U
  BY <1>1, <1>2, ReachIsLeast
<1> HIDE DEF D, W
<1>5. ~IsPoint(BodyStart)
  BY DEF IsPoint, IsVoid, BodyStart, BodyEnd, StartRoles
<1>6. \A m : GraphFlow(m) = PointsIn(Reach(raw_successors(m), Passed))
  BY FlowsAre
<1>7. ASSUME NEW x \in nodes PROVE Met(x) = {x} \cup Reach(Passed[x], Passed)
  BY <1>1, ReachFromOne
<1>8. W \subseteq D
  <2>1. ASSUME NEW m \in D PROVE Flow(B)[m] \subseteq D
    <3>1. CASE m = BodyStart \/ (IsPoint(m) /\ m \notin {BodyEnd} \cup B)
      <4>1. Along(B)[m] = raw_successors(m) /\ Flow(B)[m] = GraphFlow(m)
        BY <1>3, <1>5, <3>1 DEF Along, Flow
      <4>2. raw_successors(m) \subseteq D
        BY <1>3, <4>1
      <4>3. \A x \in D : Passed[x] \subseteq D
        <5> TAKE x \in D
        <5>1. CASE IsPoint(x)
          BY <1>3, <5>1 DEF Passed
        <5>2. CASE ~IsPoint(x)
          <6>1. Passed[x] = raw_successors(x) /\ Along(B)[x] = raw_successors(x)
            BY <1>3, <5>2 DEF Passed, Along
          <6> QED BY <1>3, <6>1
        <5> QED BY <5>1, <5>2
      <4>4. Reach(raw_successors(m), Passed) \subseteq D
        BY <1>1, <1>3, <4>2, <4>3, ReachIsLeast
      <4> QED BY <1>6, <4>1, <4>4 DEF PointsIn
    <3>2. CASE ~(m = BodyStart \/ (IsPoint(m) /\ m \notin {BodyEnd} \cup B))
      BY <1>3, <3>2 DEF Flow
    <3> QED BY <3>1, <3>2
  <2> QED BY <1>3, <1>4, <2>1
<1> DEFINE U == {x \in nodes : PointsIn(Met(x)) \subseteq W}
<1>9. from \subseteq U
  <2> SUFFICES ASSUME NEW x \in from PROVE PointsIn(Met(x)) \subseteq W
    BY <1>2
  <2>1. x \in nodes /\ x \in W
    BY <1>2, <1>4
  <2>2. CASE IsPoint(x)
    <3>1. Passed[x] = {}
      BY <2>1, <2>2 DEF Passed
    <3>2. Reach({}, Passed) = {}
      <4>1. {} \in SUBSET nodes /\ {} \subseteq {} /\ \A m \in {} : Passed[m] \subseteq {}
        OBVIOUS
      <4> QED BY <1>1, <4>1, ReachIsLeast
    <3> QED BY <1>7, <2>1, <3>1, <3>2 DEF PointsIn
  <2>3. CASE x = BodyStart
    <3>1. Passed[x] = raw_successors(x) /\ Flow(B)[x] = GraphFlow(x)
      BY <1>5, <2>1, <2>3 DEF Passed, Flow
    <3>2. PointsIn(Met(x)) = GraphFlow(x)
      BY <1>5, <1>6, <1>7, <2>1, <2>3, <3>1 DEF PointsIn
    <3> QED BY <1>4, <2>1, <3>1, <3>2
  <2> QED BY <1>2, <2>2, <2>3
<1>10. ASSUME NEW x \in U, NEW y \in Along(B)[x] PROVE y \in U
  <2>1. x \in nodes /\ PointsIn(Met(x)) \subseteq W
    OBVIOUS
  <2>2. x \notin B /\ y \in raw_successors(x) /\ y \in nodes
    BY <1>1, <1>10, <2>1 DEF Along
  <2>3. Met(y) \subseteq Reach(raw_successors(x), Passed)
    <3>1. raw_successors(x) \subseteq Reach(raw_successors(x), Passed)
      BY <1>1, ReachIsLeast
    <3> QED BY <1>1, <2>2, <3>1, ReachOfAMember
  <2>4. CASE ~IsPoint(x)
    <3>1. Passed[x] = raw_successors(x)
      BY <2>1, <2>4 DEF Passed
    <3>2. Met(y) \subseteq Met(x)
      BY <1>7, <2>1, <2>3, <3>1
    <3> QED BY <2>1, <2>2, <3>2 DEF PointsIn
  <2>5. CASE IsPoint(x)
    <3>1. x \in W
      BY <1>7, <2>1, <2>5 DEF PointsIn
    <3>2. x # BodyEnd
      BY <2>2
    <3>3. Flow(B)[x] = GraphFlow(x)
      BY <2>1, <2>2, <2>5, <3>2 DEF Flow
    <3>4. GraphFlow(x) \subseteq W
      BY <1>4, <3>1, <3>3
    <3>5. PointsIn(Met(y)) \subseteq GraphFlow(x)
      BY <1>6, <2>3 DEF PointsIn
    <3> QED BY <2>2, <3>4, <3>5
  <2> QED BY <2>4, <2>5
<1>11. D \subseteq U
  <2> HIDE DEF U
  <2>1. U \in SUBSET nodes
    BY DEF U
  <2> QED BY <1>3, <1>9, <1>10, <2>1
<1>12. PointsIn(D) \subseteq W
  <2> SUFFICES ASSUME NEW x \in D, IsPoint(x) PROVE x \in W
    BY DEF PointsIn
  <2>1. x \in nodes /\ PointsIn(Met(x)) \subseteq W
    BY <1>11
  <2> QED BY <1>7, <2>1 DEF PointsIn
<1> QED BY <1>8, <1>12 DEF PointsIn, D, W

(* No edge leaves the body's end, and one leaves every other node, of the  *)
(* finished graph; and its flow is the program's.                          *)
LEMMA NothingFollowsTheEnd ==
  ASSUME program \in Programs, NEW R, IsTree(R)
  PROVE  \A e \in EdgesOf(R) : e[1] # BodyEnd
<1> SUFFICES ASSUME NEW e \in EdgesOf(R), e[1] = BodyEnd PROVE FALSE
  OBVIOUS
<1>1. PICK f \in Templates(R) : e = <<Leaves(R, f[1]), Enters(R, f[2])>>
  BY DEF EdgesOf
<1>2. Leaves(R, f[1]) = BodyEnd
  BY <1>1
<1>3. \A r \in R : r \in Statements /\ r \in Nat \ {0} /\ TemplateShape(r)
  <2>1. \A r \in R : r \in Statements /\ IsReducible(r)
    BY DEF IsTree
  <2> QED BY <2>1, TemplatesHaveShape, NumbersAre
<1>4. ~IsIn(R, f[1])
  <2> SUFFICES ASSUME IsIn(R, f[1]) PROVE FALSE
    OBVIOUS
  <2>1. f[1][2] \in R /\ Leaves(R, f[1]) = <<"End", f[1][2]>>
    BY DEF IsIn, Leaves
  <2> QED BY <1>2, <1>3, <2>1 DEF BodyEnd
<1>5. f[1] = BodyEnd
  BY <1>2, <1>4 DEF Leaves
<1>6. CASE f \in {<<BodyStart, Statement(1)>>, <<Statement(1), BodyEnd>>}
  BY <1>5, <1>6 DEF BodyStart, BodyEnd, Statement
<1>7. CASE \E s \in R : f \in TemplateEdges(s)
  <2>1. PICK s \in R : f \in TemplateEdges(s)
    BY <1>7
  <2>2. f[1] \in Ends(TemplateEdges(s)) /\ ~IsStatement(f[1])
    BY <1>5, <2>1 DEF Ends, IsStatement, BodyEnd
  <2>3. f[1][2] = s
    BY <1>3, <2>2, OthersAreOfTheTemplate
  <2> QED BY <1>3, <1>5, <2>3 DEF BodyEnd
<1> QED BY <1>6, <1>7 DEF Templates

LEMMA FinishedGraphs ==
  ASSUME ReductionInv, phase = "done"
  PROVE  /\ IsGraph /\ raw_successors(BodyEnd) = {}
         /\ \A n \in nodes : n # BodyEnd => raw_successors(n) # {}
         /\ \A n \in nodes : n = BodyStart \/ (IsPoint(n) /\ n # BodyEnd) => ProgramFlow(n) = GraphFlow(n)
<1>1. program \in Programs /\ IsGraph /\ JumpsAreConnected
  BY DEF ReductionInv
<1>2. PICK R : GraphWithJumps(R)
  BY <1>1 DEF JumpsAreConnected
<1>3. IsTree(R) /\ adj_list = {e \in EdgesOf(R) : ~IsJump(e[1])} \cup JumpEdgesOf(R)
  BY <1>2 DEF GraphWithJumps
<1>4. raw_successors(BodyEnd) = {}
  <2>1. \A e \in EdgesOf(R) : e[1] # BodyEnd
    BY <1>1, <1>3, NothingFollowsTheEnd
  <2>2. \A e \in JumpEdgesOf(R) : e[1] # BodyEnd
    <3>1. \A e \in JumpEdgesOf(R) : IsJump(e[1])
      BY DEF JumpEdgesOf
    <3>2. ~IsJump(BodyEnd)
      BY DEF IsJump, BodyEnd
    <3> QED BY <3>1, <3>2
  <2> QED BY <1>3, <2>1, <2>2 DEF raw_successors
<1>5. \A n \in nodes : n # BodyEnd => raw_successors(n) # {}
  <2> DEFINE U == {n \in nodes : n # BodyEnd => raw_successors(n) # {}}
  <2>1. U \in SUBSET nodes /\ BodyEnd \in U
    BY <1>1 DEF IsGraph
  <2>2. \A e \in adj_list : e[1] \in U
    <3> TAKE e \in adj_list
    <3>1. e[1] \in nodes /\ e[2] \in raw_successors(e[1])
      BY <1>1 DEF IsGraph, raw_successors
    <3> QED BY <3>1
  <2>3. ComesFromEverywhere(nodes, adj_list)
    BY <1>1 DEF JumpsAreConnected
  <2>4. nodes \subseteq U
    <3> HIDE DEF U
    <3> QED BY <2>1, <2>2, <2>3 DEF ComesFromEverywhere
  <2> QED BY <2>4
<1>6. GraphIsTheProgram
  BY TheFlowIsTheProgram
<1> QED BY <1>1, <1>4, <1>5, <1>6 DEF GraphIsTheProgram

(* What is found in a body is found at nodes that stand for a piece of it, *)
(* which are points of the program.                                        *)
IsFound(w) ==
  /\ w.calls \subseteq Reflected /\ w.changes \subseteq Reflected /\ w.reverts \subseteq Reflected
  /\ w.placeholders \subseteq Reflected /\ w.tries \subseteq Reflected

LEMMA ContentsAreFound ==
  /\ \A w \in FunctionContents : IsFound(w)
  /\ \A w \in ModifierContents : IsFound(w)
<1>1. Simple \subseteq Reflected
  BY DEF Simple
<1>2. \A S : \A T \in AtMostOne(S) : T \subseteq S
  BY DEF AtMostOne
<1>3. ASSUME NEW w \in FunctionContents PROVE IsFound(w)
  <2> DEFINE found(p, R) == [Nothing EXCEPT !.calls = {p[1]}, !.changes = {p[2]}, !.reverts = R]
             all(p) == {found(p, R) : R \in AtMostOne(Simple \ {p[1], p[2]})}
  <2>1. FunctionContents = UNION {all(p) : p \in Reflected \X Reflected}
    BY DEF FunctionContents
  <2>2. PICK p \in Reflected \X Reflected : w \in all(p)
    <3> HIDE DEF all
    <3> QED BY <2>1
  <2>3. PICK S \in AtMostOne(Simple \ {p[1], p[2]}) : w = found(p, S)
    <3> HIDE DEF found
    <3> QED BY <2>2
  <2>4. S \subseteq Reflected /\ {p[1]} \subseteq Reflected /\ {p[2]} \subseteq Reflected
    BY <1>1, <1>2, <2>3
  <2> QED BY <2>3, <2>4 DEF IsFound, Nothing
<1>4. ASSUME NEW w \in ModifierContents PROVE IsFound(w)
  <2> DEFINE called(P, C) == [Nothing EXCEPT !.placeholders = P, !.calls = C]
             reverted(P, n) == [Nothing EXCEPT !.placeholders = P, !.reverts = {n}]
             tried(P, n) == [Nothing EXCEPT !.placeholders = P, !.tries = {n}]
             all(P) == {called(P, C) : C \in AtMostOne(Reflected \ P)}
                       \cup {reverted(P, n) : n \in Simple \ P} \cup {tried(P, n) : n \in Simple \ P}
  <2>1. ModifierContents = UNION {all(P) : P \in SUBSET Simple}
    BY DEF ModifierContents
  <2>2. PICK P \in SUBSET Simple : w \in all(P)
    <3> HIDE DEF all
    <3> QED BY <2>1
  <2>3. \/ \E C \in AtMostOne(Reflected \ P) : w = called(P, C)
        \/ \E n \in Simple \ P : w = reverted(P, n) \/ w = tried(P, n)
    <3> HIDE DEF called, reverted, tried
    <3> QED BY <2>2
  <2>4. ASSUME NEW C \in AtMostOne(Reflected \ P), w = called(P, C) PROVE IsFound(w)
    <3>1. C \subseteq Reflected /\ P \subseteq Reflected
      BY <1>1, <1>2
    <3> QED BY <2>4, <3>1 DEF IsFound, Nothing
  <2>5. ASSUME NEW n \in Simple \ P, w = reverted(P, n) \/ w = tried(P, n) PROVE IsFound(w)
    <3>1. {n} \subseteq Reflected /\ P \subseteq Reflected
      BY <1>1
    <3> QED BY <2>5, <3>1 DEF IsFound, Nothing
  <2> QED BY <2>3, <2>4, <2>5
<1> QED BY <1>3, <1>4

LEMMA ReflectedArePoints ==
  \A n \in Reflected : n \in nodes /\ IsPoint(n) /\ n # BodyStart /\ n # BodyEnd
BY DEF Reflected, IsPrimitive, IsPoint, IsVoid, BodyStart, BodyEnd, StartRoles, EndRoles

(* What runs after a node is, but for the node itself, what the graph      *)
(* leads to from there, if no revert is between.                           *)
LEMMA WhatRunsIsReachable ==
  ASSUME ReductionInv, phase = "done", NEW w, IsFound(w), NEW n \in Departures
  PROVE  /\ PointsIn(RunsTo(w, n)) \subseteq Reachable(n)
         /\ w.reverts = {} => \A m \in Reachable(n) : IsPoint(m) /\ m # n => m \in RunsTo(w, n)
<1>1. /\ IsGraph /\ raw_successors(BodyEnd) = {}
      /\ \A m \in nodes : m = BodyStart \/ (IsPoint(m) /\ m # BodyEnd) => ProgramFlow(m) = GraphFlow(m)
  BY FinishedGraphs
<1>2. n \in nodes
  BY DEF Departures
<1>3. /\ IsFiniteSet(nodes) /\ \A B : Flow(B) \in [nodes -> SUBSET nodes]
      /\ successors = Along({})
  BY <1>1, RoadsAreFunctions
<1>4. Continues(w) = Flow(w.reverts)
  <2>1. \A m \in nodes : Continues(w)[m] = Flow(w.reverts)[m]
    BY <1>1 DEF Continues, Flow, IsPoint, IsVoid
  <2> QED BY <2>1 DEF Continues, Flow
<1>5. \A B : Reach({n}, Flow(B)) = {n} \cup Reach(Flow(B)[n], Flow(B))
  BY <1>2, <1>3, ReachFromOne
<1>6. PointsIn(Reachable(n)) = PointsIn(Reach({n}, Flow({})))
  <2>1. PointsIn(Reach({n}, Along({}))) = PointsIn(Reach({n}, Flow({})))
    BY <1>1, SearchesFollowTheFlow
  <2> QED BY <1>3, <2>1 DEF Reachable
<1>7. Reach({n}, Flow(w.reverts)) \subseteq Reach({n}, Flow({}))
  <2>1. \A m \in nodes : Flow(w.reverts)[m] \subseteq Flow({})[m]
    BY DEF Flow
  <2>2. {n} \in SUBSET nodes
    BY <1>2
  <2> QED BY <1>3, <2>1, <2>2, ReachGrows
<1>8. RunsTo(w, n) = Reach(Flow(w.reverts)[n], Flow(w.reverts))
  BY <1>4 DEF RunsTo
<1>9. RunsTo(w, n) \subseteq Reach({n}, Flow({}))
  BY <1>5, <1>7, <1>8
<1>10. ASSUME w.reverts = {}, NEW m \in Reachable(n), IsPoint(m), m # n PROVE m \in RunsTo(w, n)
  <2>1. m \in Reach({n}, Flow({}))
    BY <1>6, <1>10 DEF PointsIn
  <2> QED BY <1>5, <1>8, <1>10, <2>1
<1> QED BY <1>6, <1>9, <1>10 DEF PointsIn

(* The changes of state after an external call.                            *)
LEMMA TheGraphFindsTheChanges ==
  ASSUME ReductionInv
  PROVE  ChangesAfterCallsAreFound
<1> SUFFICES ASSUME phase = "done", NEW w \in FunctionContents
             PROVE  LET real == {c \in w.calls : c \in RunsTo(w, BodyStart) /\ (RunsTo(w, c) \cap w.changes) \ {c} # {}}
                    IN  real \subseteq Reentrant(w) /\ (w.reverts = {} => Reentrant(w) = real)
  BY DEF ChangesAfterCallsAreFound, IsJudged
<1>1. IsFound(w)
  BY ContentsAreFound
<1>2. BodyStart \in Departures /\ \A n \in Reflected : n \in Departures
  <2>1. BodyStart \in nodes
    BY FinishedGraphs DEF IsGraph
  <2> QED BY <2>1, ReflectedArePoints DEF Departures
<1>3. \A n \in Reflected : n \in nodes /\ IsPoint(n) /\ n # BodyStart
  BY ReflectedArePoints
<1>4. \A n \in Departures : \A m \in Reflected :
        /\ m \in RunsTo(w, n) => m \in Reachable(n)
        /\ w.reverts = {} /\ m \in Reachable(n) /\ m # n => m \in RunsTo(w, n)
  BY <1>1, <1>3, WhatRunsIsReachable DEF PointsIn
<1>5. w.calls \subseteq Reflected /\ w.changes \subseteq Reflected
  BY <1>1 DEF IsFound
<1>6. ASSUME NEW c \in w.calls, c \in RunsTo(w, BodyStart), (RunsTo(w, c) \cap w.changes) \ {c} # {}
      PROVE  c \in Reentrant(w)
  <2>1. c \in Reflected /\ c \in Reachable(BodyStart)
    BY <1>2, <1>4, <1>5, <1>6
  <2>2. (Reachable(c) \cap w.changes) \ {c} # {}
    BY <1>2, <1>4, <1>5, <1>6, <2>1
  <2> QED BY <2>1, <2>2 DEF Reentrant, find_external_call_sites, find_state_change_sites
<1>7. ASSUME w.reverts = {}, NEW c \in Reentrant(w)
      PROVE  c \in w.calls /\ c \in RunsTo(w, BodyStart) /\ (RunsTo(w, c) \cap w.changes) \ {c} # {}
  <2>1. c \in w.calls /\ c \in Reachable(BodyStart) /\ (Reachable(c) \cap w.changes) \ {c} # {}
    BY <1>7 DEF Reentrant, find_external_call_sites, find_state_change_sites
  <2>2. c \in Reflected /\ c # BodyStart
    BY <1>3, <1>5, <2>1
  <2> QED BY <1>2, <1>4, <1>5, <1>7, <2>1, <2>2
<1> QED BY <1>6, <1>7

(* The equation of all_paths_have_revert_or_placeholder: its recursion     *)
(* ends, since no node is searched below itself.                           *)
Answers == {"yes", "no", "never ends"}
AnswersBelow(w, n, above) == {AllPathsHaveRevertOrPlaceholder(w, m, above \cup {n}) : m \in raw_successors(n)}

LEMMA AnswersAre ==
  ASSUME IsGraph, NEW w, NEW n \in nodes, NEW above \in SUBSET nodes
  PROVE  /\ AllPathsHaveRevertOrPlaceholder(w, n, above) \in Answers
         /\ AllPathsHaveRevertOrPlaceholder(w, n, above) =
              IF IsSatisfied(w, n) THEN "yes"
              ELSE IF n \in above THEN "never ends"
              ELSE IF raw_successors(n) = {} THEN "no"
              ELSE Combined(AnswersBelow(w, n, above))
<1> DEFINE S == nodes \X SUBSET nodes
           below(f, q) == {f[<<l, q[2] \cup {q[1]}>>] : l \in raw_successors(q[1])}
           does(f, q) == CASE IsSatisfied(w, q[1]) -> "yes"
                           [] ~IsSatisfied(w, q[1]) /\ q[1] \in q[2] -> "never ends"
                           [] ~IsSatisfied(w, q[1]) /\ q[1] \notin q[2] /\ raw_successors(q[1]) = {} -> "no"
                           [] OTHER -> Combined(below(f, q))
           step == [v \in [S -> Answers] \X S |-> does(v[1], v[2])]
           rank == [q \in S |-> Cardinality(nodes \ q[2])]
           answer == CHOOSE f : f = [q \in S |-> does(f, q)]
<1>1. /\ IsFiniteSet(nodes) /\ \A m : raw_successors(m) \in SUBSET nodes
      /\ Cardinality(nodes) \in Nat
  BY RoadsAreFunctions, FS_CardinalityType
<1>2. \A T : Combined(T) \in Answers
  BY DEF Combined, Answers
<1>3. \A f, q : does(f, q) \in Answers
  BY <1>2 DEF Answers
<1>4. rank \in [S -> 0 .. Cardinality(nodes)]
  <2> SUFFICES ASSUME NEW q \in S PROVE Cardinality(nodes \ q[2]) \in 0 .. Cardinality(nodes)
    OBVIOUS
  <2>1. IsFiniteSet(nodes \ q[2]) /\ Cardinality(nodes \ q[2]) <= Cardinality(nodes)
    BY <1>1, FS_Subset
  <2> QED BY <1>1, <2>1, FS_CardinalityType
<1>5. ASSUME NEW q \in S, q[1] \notin q[2], NEW l \in raw_successors(q[1])
      PROVE  <<l, q[2] \cup {q[1]}>> \in S /\ rank[<<l, q[2] \cup {q[1]}>>] < rank[q]
  <2>1. q[1] \in nodes /\ q[2] \in SUBSET nodes /\ l \in nodes
    BY <1>1
  <2>2. <<l, q[2] \cup {q[1]}>> \in S
    BY <2>1
  <2> DEFINE left == nodes \ q[2]
  <2>3. q[1] \in left /\ nodes \ (q[2] \cup {q[1]}) = left \ {q[1]}
    BY <1>5, <2>1
  <2>4. IsFiniteSet(left)
    BY <1>1, FS_Subset
  <2>5. Cardinality(left \ {q[1]}) = Cardinality(left) - 1 /\ Cardinality(left) \in Nat
    <3> HIDE DEF left
    <3> QED BY <2>3, <2>4, FS_RemoveElement, FS_CardinalityType
  <2>6. rank[<<l, q[2] \cup {q[1]}>>] = Cardinality(left \ {q[1]}) /\ rank[q] = Cardinality(left)
    BY <2>2, <2>3
  <2> HIDE DEF left, rank, S
  <2> QED BY <2>2, <2>5, <2>6
<1>6. \E f : IsGivenBy(f, S, Answers, step)
  <2>1. step \in [[S -> Answers] \X S -> Answers]
    <3> HIDE DEF does, Answers, S
    <3> QED BY <1>3
  <2>2. ASSUME NEW q \in S, NEW g \in [S -> Answers], NEW h \in [S -> Answers],
               \A u \in S : rank[u] < rank[q] => g[u] = h[u]
        PROVE  step[<<g, q>>] = step[<<h, q>>]
    <3>1. step[<<g, q>>] = does(g, q) /\ step[<<h, q>>] = does(h, q)
      <4> HIDE DEF does, S, Answers
      <4> QED OBVIOUS
    <3>2. CASE q[1] \in q[2]
      <4> HIDE DEF below, S, rank
      <4> QED BY <3>1, <3>2
    <3>3. CASE q[1] \notin q[2]
      <4>1. \A l \in raw_successors(q[1]) : g[<<l, q[2] \cup {q[1]}>>] = h[<<l, q[2] \cup {q[1]}>>]
        <5> HIDE DEF S, rank
        <5> QED BY <1>5, <2>2, <3>3
      <4>2. below(g, q) = below(h, q)
        BY <4>1
      <4> HIDE DEF below, S, rank
      <4> QED BY <3>1, <4>2
    <3> QED BY <3>2, <3>3
  <2>3. "no" \in Answers
    BY DEF Answers
  <2> HIDE DEF step, rank, does, S, Answers
  <2>4. Descends(S, Answers, Cardinality(nodes), rank, step)
    BY <1>1, <1>4, <2>1, <2>2 DEF Descends
  <2> QED BY <2>3, <2>4, CourseOfValues
<1>7. \E f : f \in [S -> Answers] /\ f = [q \in S |-> does(f, q)]
  <2>1. PICK f : f \in [S -> Answers] /\ f = [q \in S |-> step[<<f, q>>]]
    BY <1>6 DEF IsGivenBy
  <2>2. \A q \in S : step[<<f, q>>] = does(f, q)
    <3> HIDE DEF does, S, Answers
    <3> QED BY <2>1
  <2>3. f = [q \in S |-> does(f, q)]
    <3> HIDE DEF does, step, S
    <3> QED BY <2>1, <2>2
  <2> HIDE DEF does, S, Answers
  <2> QED BY <2>1, <2>3
<1>8. answer = [q \in S |-> does(answer, q)]
  <2> HIDE DEF does, S, Answers
  <2> QED BY <1>7
<1>9. \A q \in S : answer[q] = does(answer, q)
  <2> HIDE DEF does, answer, S
  <2> QED BY <1>8
<1>10. \A m, over : AllPathsHaveRevertOrPlaceholder(w, m, over) = answer[<<m, over>>]
  BY DEF AllPathsHaveRevertOrPlaceholder
<1> DEFINE q == <<n, above>>
<1>11. q \in S /\ q[1] = n /\ q[2] = above
  OBVIOUS
<1>12. below(answer, q) = AnswersBelow(w, n, above)
  <2> HIDE DEF answer
  <2> QED BY <1>10 DEF AnswersBelow
<1>13. answer[q] = does(answer, q)
  BY <1>9, <1>11
<1> HIDE DEF answer, S, below, q
<1>14. does(answer, q) = IF IsSatisfied(w, n) THEN "yes"
                         ELSE IF n \in above THEN "never ends"
                         ELSE IF raw_successors(n) = {} THEN "no"
                         ELSE Combined(below(answer, q))
  BY <1>11
<1>15. AllPathsHaveRevertOrPlaceholder(w, n, above) = answer[q]
  BY <1>10 DEF q
<1> HIDE DEF does
<1> QED BY <1>3, <1>12, <1>13, <1>14, <1>15

(* A search that comes to an end answers "no" if and only if it has a way  *)
(* to the body's end on which nothing satisfies it.                        *)
Satisfied(w) == {n \in nodes : IsSatisfied(w, n)}
IsTrue(w, n, above) ==
  AllPathsHaveRevertOrPlaceholder(w, n, above) # "never ends" =>
    (AllPathsHaveRevertOrPlaceholder(w, n, above) = "no" <=> BodyEnd \in Reach({n}, Along(Satisfied(w))))

LEMMA AnswersAreTrue ==
  ASSUME IsGraph, raw_successors(BodyEnd) = {}, \A m \in nodes : m # BodyEnd => raw_successors(m) # {},
         NEW w, ~IsSatisfied(w, BodyEnd), NEW n \in nodes
  PROVE  IsTrue(w, n, {})
<1> DEFINE next == Along(Satisfied(w))
           T == {size \in Nat : \A m \in nodes, over \in SUBSET nodes :
                                  Cardinality(nodes \ over) <= size => IsTrue(w, m, over)}
           top == Cardinality(nodes)
<1>1. /\ IsFiniteSet(nodes) /\ \A m : raw_successors(m) \in SUBSET nodes
      /\ next \in [nodes -> SUBSET nodes] /\ top \in Nat
  BY RoadsAreFunctions, FS_CardinalityType
<1>2. ASSUME NEW over \in SUBSET nodes PROVE Cardinality(nodes \ over) \in Nat /\ IsFiniteSet(nodes \ over)
  <2>1. IsFiniteSet(nodes \ over)
    BY <1>1, FS_Subset
  <2> QED BY <2>1, FS_CardinalityType
<1>3. ASSUME NEW m \in nodes PROVE Reach({m}, next) = {m} \cup Reach(next[m], next)
  BY <1>1, ReachFromOne
<1>4. ASSUME NEW m \in nodes, NEW over \in SUBSET nodes,
             ~IsSatisfied(w, m) /\ m \notin over => \A l \in raw_successors(m) : IsTrue(w, l, over \cup {m})
      PROVE  IsTrue(w, m, over)
  <2> DEFINE answer == AllPathsHaveRevertOrPlaceholder(w, m, over)
             answers == AnswersBelow(w, m, over)
  <2>1. answer = IF IsSatisfied(w, m) THEN "yes"
                 ELSE IF m \in over THEN "never ends"
                 ELSE IF raw_successors(m) = {} THEN "no"
                 ELSE Combined(answers)
    BY AnswersAre
  <2>2. IsTrue(w, m, over) <=> (answer # "never ends" => (answer = "no" <=> BodyEnd \in Reach({m}, next)))
    BY DEF IsTrue
  <2> HIDE DEF answer, answers, next
  <2>3. CASE IsSatisfied(w, m)
    <3>1. next[m] = {}
      BY <2>3 DEF next, Along, Satisfied
    <3>2. Reach({}, next) = {}
      <4>1. {} \in SUBSET nodes /\ {} \subseteq {} /\ \A l \in {} : next[l] \subseteq {}
        OBVIOUS
      <4> QED BY <1>1, <4>1, ReachIsLeast
    <3>3. BodyEnd \notin Reach({m}, next)
      BY <1>3, <2>3, <3>1, <3>2
    <3> QED BY <2>1, <2>2, <2>3, <3>3
  <2>4. CASE ~IsSatisfied(w, m) /\ m \in over
    BY <2>1, <2>2, <2>4
  <2>5. CASE ~IsSatisfied(w, m) /\ m \notin over /\ raw_successors(m) = {}
    <3>1. m = BodyEnd
      BY <2>5
    <3>2. BodyEnd \in Reach({m}, next)
      BY <1>3, <3>1
    <3> QED BY <2>1, <2>2, <2>5, <3>2
  <2>6. CASE ~IsSatisfied(w, m) /\ m \notin over /\ raw_successors(m) # {}
    <3>1. answer = Combined(answers)
      BY <2>1, <2>6
    <3>2. next[m] = raw_successors(m) /\ m # BodyEnd
      BY <2>6 DEF next, Along, Satisfied
    <3>3. BodyEnd \in Reach({m}, next) <=> \E l \in raw_successors(m) : BodyEnd \in Reach({l}, next)
      <4>1. ASSUME NEW l \in raw_successors(m) PROVE Reach({l}, next) \subseteq Reach({m}, next)
        <5>1. raw_successors(m) \subseteq Reach(raw_successors(m), next)
          BY <1>1, ReachIsLeast
        <5>2. Reach({l}, next) \subseteq Reach(raw_successors(m), next)
          BY <1>1, <5>1, ReachOfAMember
        <5> QED BY <1>3, <3>2, <5>2
      <4>2. ASSUME BodyEnd \in Reach({m}, next)
            PROVE  \E l \in raw_successors(m) : BodyEnd \in Reach({l}, next)
        <5> DEFINE U == UNION {Reach({l}, next) : l \in raw_successors(m)}
        <5>1. \A l \in raw_successors(m) :
                /\ Reach({l}, next) \in SUBSET nodes /\ l \in Reach({l}, next)
                /\ \A k \in Reach({l}, next) : next[k] \subseteq Reach({l}, next)
          <6> TAKE l \in raw_successors(m)
          <6>1. {l} \in SUBSET nodes
            BY <1>1
          <6> QED BY <1>1, <6>1, ReachIsLeast
        <5>2. U \in SUBSET nodes /\ raw_successors(m) \subseteq U
          BY <5>1
        <5>3. \A k \in U : next[k] \subseteq U
          BY <5>1
        <5>4. Reach(raw_successors(m), next) \subseteq U
          <6> HIDE DEF U
          <6> QED BY <1>1, <5>2, <5>3, ReachIsLeast
        <5>5. BodyEnd \in U
          BY <1>3, <3>2, <4>2, <5>4
        <5> QED BY <5>5
      <4> QED BY <4>1, <4>2
    <3>4. ASSUME answer # "never ends" PROVE answer = "no" <=> BodyEnd \in Reach({m}, next)
      <4>1. "never ends" \notin answers /\ (answer = "no" <=> "no" \in answers)
        BY <3>1, <3>4 DEF Combined
      <4>2. \A l \in raw_successors(m) :
              AllPathsHaveRevertOrPlaceholder(w, l, over \cup {m}) = "no" <=> BodyEnd \in Reach({l}, next)
        <5> TAKE l \in raw_successors(m)
        <5>1. AllPathsHaveRevertOrPlaceholder(w, l, over \cup {m}) # "never ends"
          BY <4>1 DEF answers, AnswersBelow
        <5>2. IsTrue(w, l, over \cup {m})
          BY <1>4, <2>6
        <5> QED BY <5>1, <5>2 DEF IsTrue, next
      <4>3. "no" \in answers <=> \E l \in raw_successors(m) : BodyEnd \in Reach({l}, next)
        BY <4>2 DEF answers, AnswersBelow
      <4> QED BY <3>3, <4>1, <4>3
    <3> QED BY <2>2, <3>4
  <2> QED BY <2>3, <2>4, <2>5, <2>6
<1>5. 0 \in T
  <2> SUFFICES ASSUME NEW m \in nodes, NEW over \in SUBSET nodes, Cardinality(nodes \ over) <= 0
               PROVE  IsTrue(w, m, over)
    OBVIOUS
  <2>1. Cardinality(nodes \ over) = 0
    BY <1>2
  <2>2. nodes \ over = {}
    BY <1>2, <2>1, FS_EmptySet
  <2> QED BY <1>4, <2>2
<1>6. ASSUME NEW size \in Nat, size \in T PROVE size + 1 \in T
  <2> SUFFICES ASSUME NEW m \in nodes, NEW over \in SUBSET nodes, Cardinality(nodes \ over) <= size + 1
               PROVE  IsTrue(w, m, over)
    OBVIOUS
  <2> DEFINE left == nodes \ over
  <2>1. ASSUME m \notin over, NEW l \in raw_successors(m) PROVE IsTrue(w, l, over \cup {m})
    <3>1. m \in left /\ nodes \ (over \cup {m}) = left \ {m} /\ over \cup {m} \in SUBSET nodes /\ l \in nodes
      BY <1>1, <2>1
    <3>2. Cardinality(left) \in Nat /\ IsFiniteSet(left)
      BY <1>2
    <3>3. Cardinality(left \ {m}) = Cardinality(left) - 1
      <4> HIDE DEF left
      <4> QED BY <3>1, <3>2, FS_RemoveElement
    <3>4. Cardinality(nodes \ (over \cup {m})) <= size
      <4>1. Cardinality(left) <= size + 1 /\ Cardinality(nodes \ (over \cup {m})) = Cardinality(left \ {m})
        BY <3>1
      <4> HIDE DEF left
      <4> QED BY <3>2, <3>3, <4>1
    <3> QED BY <1>6, <3>1, <3>4
  <2> QED BY <1>4, <2>1
<1>7. Nat \subseteq T
  <2> HIDE DEF T
  <2>1. \A size \in Nat \cap T : size + 1 \in T
    BY <1>6
  <2> QED BY <1>5, <2>1, SetInduction
<1>8. top \in T /\ Cardinality(nodes \ {}) = top /\ {} \in SUBSET nodes
  <2> HIDE DEF T
  <2>1. nodes \ {} = nodes
    OBVIOUS
  <2> QED BY <1>1, <1>7, <2>1
<1> HIDE DEF top
<1> QED BY <1>1, <1>8

(* Two things in a set.                                                    *)
LEMMA MoreThanOne ==
  ASSUME NEW S, IsFiniteSet(S), NEW n \in S
  PROVE  Cardinality(S) > 1 <=> S \ {n} # {}
<1>1. Cardinality(S \ {n}) = Cardinality(S) - 1 /\ Cardinality(S) \in Nat
  BY FS_RemoveElement, FS_CardinalityType
<1>2. IsFiniteSet(S \ {n})
  BY FS_Subset
<1>3. Cardinality(S \ {n}) = 0 <=> S \ {n} = {}
  BY <1>2, FS_EmptySet
<1>4. Cardinality(S \ {n}) \in Nat
  BY <1>2, FS_CardinalityType
<1> QED BY <1>1, <1>3, <1>4

(* The two detectors of modifiers.                                         *)
LEMMA TheGraphJudgesModifiers ==
  ASSUME ReductionInv
  PROVE  ModifiersAreJudgedByTheirPaths
<1> SUFFICES ASSUME phase = "done", NEW w \in ModifierContents
             PROVE  LET silent == [m \in nodes |-> IF IsSatisfied(w, m) THEN {} ELSE Continues(w)[m]]
                        completes == BodyEnd \in Reach({BodyStart}, silent)
                        several == \E n \in RunsTo(w, BodyStart) \cap w.placeholders :
                                     (RunsTo(w, n) \cap w.placeholders) \ {n} # {}
                    IN  /\ Judgement(w) # "never ends" => (Judgement(w) = "no" <=> completes)
                        /\ several => MultiplePlaceholders(w)
                        /\ w.reverts = {} => (MultiplePlaceholders(w) <=> several)
  BY DEF ModifiersAreJudgedByTheirPaths, IsJudged
<1>1. IsFound(w)
  BY ContentsAreFound
<1>2. \A n \in Reflected : n \in nodes /\ IsPoint(n) /\ n # BodyStart /\ n # BodyEnd
  BY ReflectedArePoints
<1>3. /\ IsGraph /\ raw_successors(BodyEnd) = {} /\ BodyStart \in nodes /\ BodyEnd \in nodes
      /\ \A n \in nodes : n # BodyEnd => raw_successors(n) # {}
      /\ \A n \in nodes : n = BodyStart \/ (IsPoint(n) /\ n # BodyEnd) => ProgramFlow(n) = GraphFlow(n)
  BY FinishedGraphs DEF IsGraph
<1>4. BodyStart \in Departures /\ \A n \in Reflected : n \in Departures
  BY <1>2, <1>3 DEF Departures
<1> DEFINE silent == [m \in nodes |-> IF IsSatisfied(w, m) THEN {} ELSE Continues(w)[m]]
           several == \E n \in RunsTo(w, BodyStart) \cap w.placeholders :
                        (RunsTo(w, n) \cap w.placeholders) \ {n} # {}
<1>5. \A n : IsSatisfied(w, n) => n \in Reflected
  BY <1>1 DEF IsSatisfied, IsFound
<1>6. silent = Flow(Satisfied(w))
  <2>1. \A m \in nodes : silent[m] = Flow(Satisfied(w))[m]
    <3> TAKE m \in nodes
    <3>1. m \in w.reverts => IsSatisfied(w, m)
      BY DEF IsSatisfied
    <3>2. m \in Satisfied(w) <=> IsSatisfied(w, m)
      BY DEF Satisfied
    <3>3. IsSatisfied(w, m) => m # BodyStart
      BY <1>2, <1>5
    <3>4. CASE IsSatisfied(w, m)
      BY <3>2, <3>3, <3>4 DEF Flow
    <3>5. CASE ~IsSatisfied(w, m)
      <4>1. silent[m] = Continues(w)[m]
        BY <3>5
      <4>2. Continues(w)[m] = Flow(Satisfied(w))[m]
        BY <1>3, <3>1, <3>2, <3>5 DEF Continues, Flow, IsPoint, IsVoid
      <4> QED BY <4>1, <4>2
    <3> QED BY <3>4, <3>5
  <2> QED BY <2>1 DEF Flow
<1>7. Judgement(w) # "never ends" => (Judgement(w) = "no" <=> BodyEnd \in Reach({BodyStart}, silent))
  <2>1. ~IsSatisfied(w, BodyEnd)
    BY <1>2, <1>5
  <2>2. IsTrue(w, BodyStart, {})
    BY <1>3, <2>1, AnswersAreTrue
  <2>3. \A b \in Satisfied(w) : IsPoint(b)
    BY <1>2, <1>5 DEF Satisfied
  <2>4. PointsIn(Reach({BodyStart}, Along(Satisfied(w)))) = PointsIn(Reach({BodyStart}, Flow(Satisfied(w))))
    BY <1>3, <1>4, <2>3, SearchesFollowTheFlow
  <2>5. IsPoint(BodyEnd)
    BY DEF IsPoint
  <2>6. BodyEnd \in Reach({BodyStart}, Along(Satisfied(w))) <=> BodyEnd \in Reach({BodyStart}, silent)
    <3> HIDE DEF silent
    <3> QED BY <1>6, <2>4, <2>5 DEF PointsIn
  <2> HIDE DEF silent
  <2> QED BY <2>2, <2>6 DEF IsTrue, Judgement
<1>8. \A n \in Departures : \A m \in Reflected :
        /\ m \in RunsTo(w, n) => m \in Reachable(n)
        /\ w.reverts = {} /\ m \in Reachable(n) /\ m # n => m \in RunsTo(w, n)
  BY <1>1, <1>2, WhatRunsIsReachable DEF PointsIn
<1>9. w.placeholders \subseteq Reflected
  BY <1>1 DEF IsFound
<1>10. ASSUME NEW n \in w.placeholders
       PROVE  Cardinality(Reachable(n) \cap w.placeholders) > 1 <=> (Reachable(n) \cap w.placeholders) \ {n} # {}
  <2>1. n \in nodes
    BY <1>2, <1>9
  <2>2. IsFiniteSet(nodes) /\ successors \in [nodes -> SUBSET nodes]
    BY <1>3, RoadsAreFunctions
  <2>3. {n} \in SUBSET nodes
    BY <2>1
  <2>4. Reachable(n) \in SUBSET nodes /\ n \in Reachable(n)
    BY <2>2, <2>3, ReachIsLeast DEF Reachable
  <2>5. IsFiniteSet(Reachable(n) \cap w.placeholders)
    BY <2>2, <2>4, FS_Subset
  <2> QED BY <2>4, <2>5, MoreThanOne
<1>11. several => MultiplePlaceholders(w)
  <2> SUFFICES ASSUME NEW n \in RunsTo(w, BodyStart) \cap w.placeholders,
                      (RunsTo(w, n) \cap w.placeholders) \ {n} # {}
               PROVE  MultiplePlaceholders(w)
    OBVIOUS
  <2>1. n \in Reflected /\ n \in Reachable(BodyStart)
    BY <1>4, <1>8, <1>9
  <2>2. (Reachable(n) \cap w.placeholders) \ {n} # {}
    BY <1>4, <1>8, <1>9, <2>1
  <2>3. Cardinality(Reachable(n) \cap w.placeholders) > 1
    BY <1>10, <2>2
  <2> QED BY <2>1, <2>3 DEF MultiplePlaceholders
<1>12. ASSUME w.reverts = {}, MultiplePlaceholders(w) PROVE several
  <2>1. PICK n \in Reachable(BodyStart) \cap w.placeholders : Cardinality(Reachable(n) \cap w.placeholders) > 1
    BY <1>12 DEF MultiplePlaceholders
  <2>2. (Reachable(n) \cap w.placeholders) \ {n} # {}
    BY <1>10, <2>1
  <2>3. n \in Reflected /\ n # BodyStart
    BY <1>2, <1>9
  <2>4. n \in RunsTo(w, BodyStart)
    BY <1>4, <1>8, <1>12, <2>3
  <2>5. (RunsTo(w, n) \cap w.placeholders) \ {n} # {}
    BY <1>4, <1>8, <1>9, <1>12, <2>2, <2>3
  <2> QED BY <2>4, <2>5
<1> HIDE DEF several, silent
<1>13. /\ Judgement(w) # "never ends" => (Judgement(w) = "no" <=> BodyEnd \in Reach({BodyStart}, silent))
       /\ several => MultiplePlaceholders(w)
       /\ w.reverts = {} => (MultiplePlaceholders(w) <=> several)
  BY <1>7, <1>11, <1>12
<1> QED BY <1>13 DEF several, silent

(* For a body of any size, whatever it has in it, every external call that *)
(* runs before a change of state at another node is captured by            *)
(* reentrancy_state_change.rs, whatever loops, branches and jumps are      *)
(* between them; and only those are, if no revert is between.              *)
THEOREM ChangesAreFound == Spec => []ChangesAfterCallsAreFound
<1>1. ReductionInv => ChangesAfterCallsAreFound
  BY TheGraphFindsTheChanges
<1> QED BY <1>1, ReductionInvariant, PTL

(* For a modifier of any size, whatever it has in it, the recursion of     *)
(* incorrect_modifier.rs answers, where it ends, whether the modifier can  *)
(* complete without a placeholder or a possible revert, and                *)
(* multiple_placeholders.rs captures it if it can run two placeholders,    *)
(* and only then, if no revert is between.                                 *)
THEOREM ModifiersAreJudged == Spec => []ModifiersAreJudgedByTheirPaths
<1>1. ReductionInv => ModifiersAreJudgedByTheirPaths
  BY TheGraphJudgesModifiers
<1> QED BY <1>1, ReductionInvariant, PTL

===============================================================================
