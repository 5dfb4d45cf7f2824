----------------------------- MODULE DataInduction -----------------------------
(***************************************************************************)
(* Induction over data, for the proofs of what a loop of the program or a  *)
(* recursive function of a specification computes for inputs of any size.  *)
(* Each principle is stated of a set or a function, so that a proof can    *)
(* cite it by name; they rest on the pigeonhole principle.                 *)
(***************************************************************************)
EXTENDS Integers, FiniteSetTheorems, FunctionTheorems, TLAPS

(* A set of numbers with 0, and with n + 1 whenever it has n, has them     *)
(* all: were one missing, n |-> n + 1 would map the numbers up to the gap  *)
(* into those of them that are not 0.                                      *)
THEOREM SetInduction ==
  ASSUME NEW S, 0 \in S, \A n \in Nat \cap S : n + 1 \in S
  PROVE  Nat \subseteq S
<1> SUFFICES ASSUME NEW gap \in Nat, gap \notin S PROVE FALSE
  OBVIOUS
<1> DEFINE below == {n \in 0 .. gap : \A k \in 0 .. n : k \in S}
           next == [n \in below |-> n + 1]
<1>1. IsFiniteSet(below)
  <2>1. IsFiniteSet(0 .. gap) /\ below \in SUBSET (0 .. gap)
    BY FS_Interval
  <2> HIDE DEF below
  <2> QED BY <2>1, FS_Subset
<1>2. 0 \in below /\ below \subseteq Nat /\ \A n \in below : n + 1 \in below \ {0}
  OBVIOUS
<1> HIDE DEF below
<1>3. next \in [below -> below \ {0}] /\ \A a, b \in below : next[a] = next[b] => a = b
  BY <1>2
<1>4. next \in Injection(below, below \ {0})
  BY <1>3, Fun_IsInj
<1>5. /\ IsFiniteSet(below \ {0})
      /\ Cardinality(below \ {0}) = Cardinality(below) - 1
  BY <1>1, <1>2, FS_RemoveElement
<1>6. Cardinality(below) <= Cardinality(below \ {0})
  BY <1>4, <1>5, FS_Injection
<1>7. Cardinality(below) \in Nat
  BY <1>1, FS_CardinalityType
<1> QED BY <1>5, <1>6, <1>7

(* The same up to a bound.                                                 *)
THEOREM RangeInduction ==
  ASSUME NEW top \in Nat, NEW S, 0 \in S, \A n \in 0 .. top - 1 : n \in S => n + 1 \in S
  PROVE  0 .. top \subseteq S
<1> DEFINE T == S \cup {n \in Nat : n > top}
<1>1. 0 \in T /\ \A n \in Nat \cap T : n + 1 \in T
  OBVIOUS
<1>2. Nat \subseteq T
  <2> HIDE DEF T
  <2> QED BY <1>1, SetInduction
<1> QED BY <1>2

(* Of things with numbers, one has the least.                              *)
THEOREM LeastElement ==
  ASSUME NEW D, D # {}, NEW rank, \A d \in D : rank[d] \in Nat
  PROVE  \E d \in D : \A e \in D : rank[d] <= rank[e]
<1> SUFFICES ASSUME \A d \in D : \E e \in D : ~(rank[d] <= rank[e]) PROVE FALSE
  OBVIOUS
<1> DEFINE S == {n \in Nat : \A d \in D : n <= rank[d]}
<1>1. 0 \in S /\ \A n \in Nat \cap S : n + 1 \in S
  <2>1. ASSUME NEW n \in Nat, \A d \in D : n <= rank[d], NEW d \in D PROVE n + 1 <= rank[d]
    <3>1. PICK e \in D : ~(rank[d] <= rank[e])
      OBVIOUS
    <3> QED BY <2>1, <3>1
  <2> QED BY <2>1
<1>2. Nat \subseteq S
  <2> HIDE DEF S
  <2> QED BY <1>1, SetInduction
<1>3. PICK d \in D : TRUE
  OBVIOUS
<1>4. rank[d] + 1 \in S
  BY <1>2
<1> QED BY <1>4

(* A function that starts with base and follows step up to top.            *)
Follows(g, top, base, step) ==
  g = [i \in 0 .. top |-> IF i = 0 THEN base ELSE step[<<g[i - 1], i>>]]

(* For every step there is a function that follows it on 0 .. top: what    *)
(* the counting loops of the proofs' subjects compute exists.              *)
THEOREM RecursionOnRange ==
  ASSUME NEW top \in Nat, NEW base, NEW step
  PROVE  \E g : Follows(g, top, base, step)
<1> DEFINE S == {n \in Nat : \E g : Follows(g, n, base, step)}
<1>1. 0 \in S
  <2>1. Follows([i \in 0 .. 0 |-> base], 0, base, step)
    BY DEF Follows
  <2> QED BY <2>1
<1>2. ASSUME NEW n \in 0 .. top - 1, n \in S PROVE n + 1 \in S
  <2>1. PICK g : Follows(g, n, base, step)
    BY <1>2
  <2> DEFINE h == [i \in 0 .. n + 1 |-> IF i = n + 1 THEN step[<<g[n], n + 1>>] ELSE g[i]]
  <2>2. \A i \in 0 .. n + 1 : h[i] = IF i = 0 THEN base ELSE step[<<h[i - 1], i>>]
    <3>1. \A i \in 0 .. n : g[i] = IF i = 0 THEN base ELSE step[<<g[i - 1], i>>]
      BY <2>1 DEF Follows
    <3>2. n \in Nat /\ n + 1 \in 0 .. n + 1 /\ n + 1 # 0 /\ (n + 1) - 1 = n
      OBVIOUS
    <3>3. \A i \in 0 .. n : i \in 0 .. n + 1 /\ i # n + 1 /\ (i # 0 => i - 1 \in 0 .. n)
      BY <3>2
    <3>4. \A i \in 0 .. n : h[i] = g[i]
      BY <3>3
    <3>5. h[n + 1] = step[<<g[n], n + 1>>] /\ n \in 0 .. n
      BY <3>2
    <3>6. ASSUME NEW i \in 0 .. n + 1 PROVE i = n + 1 \/ i \in 0 .. n
      BY <3>2
    <3> HIDE DEF h
    <3> QED BY <3>1, <3>2, <3>3, <3>4, <3>5, <3>6
  <2>3. h = [i \in 0 .. n + 1 |-> h[i]]
    OBVIOUS
  <2>4. Follows(h, n + 1, base, step)
    <3> HIDE DEF h
    <3> QED BY <2>2, <2>3 DEF Follows
  <2> QED BY <2>4
<1>3. 0 .. top \subseteq S
  <2> HIDE DEF S
  <2> QED BY <1>1, <1>2, RangeInduction
<1> QED BY <1>3

(* A step gives a value in V for each member of S from the values of those *)
(* of lower rank, and f has these values.                                  *)
Descends(S, V, top, rank, step) ==
  /\ top \in Nat /\ rank \in [S -> 0 .. top]
  /\ step \in [[S -> V] \X S -> V]
  /\ \A t \in S : \A g, h \in [S -> V] :
       (\A u \in S : rank[u] < rank[t] => g[u] = h[u]) => step[<<g, t>>] = step[<<h, t>>]
IsGivenBy(f, S, V, step) == f \in [S -> V] /\ f = [t \in S |-> step[<<f, t>>]]

(* Such a step defines a function: what a recursive definition over the    *)
(* parts of a tree computes exists.                                        *)
THEOREM CourseOfValues ==
  ASSUME NEW S, NEW V, NEW v \in V, NEW top, NEW rank, NEW step, Descends(S, V, top, rank, step)
  PROVE  \E f : IsGivenBy(f, S, V, step)
<1> USE DEF Descends, IsGivenBy
<1> DEFINE Upto(n) == \E f \in [S -> V] : \A t \in S : rank[t] < n => f[t] = step[<<f, t>>]
           T == {n \in Nat : Upto(n)}
<1>1. 0 \in T
  <2>1. [t \in S |-> v] \in [S -> V] /\ \A t \in S : ~(rank[t] < 0)
    OBVIOUS
  <2> QED BY <2>1
<1>2. ASSUME NEW n \in 0 .. top, n \in T PROVE n + 1 \in T
  <2>1. PICK f \in [S -> V] : \A t \in S : rank[t] < n => f[t] = step[<<f, t>>]
    BY <1>2
  <2> DEFINE g == [t \in S |-> IF rank[t] = n THEN step[<<f, t>>] ELSE f[t]]
  <2>2. g \in [S -> V]
    OBVIOUS
  <2>3. \A u \in S : rank[u] # n => g[u] = f[u]
    OBVIOUS
  <2>4. \A u \in S : rank[u] = n => g[u] = step[<<f, u>>]
    OBVIOUS
  <2> HIDE DEF g
  <2>5. ASSUME NEW t \in S, rank[t] < n + 1 PROVE g[t] = step[<<g, t>>]
    <3>1. \A u \in S : rank[u] < rank[t] => g[u] = f[u]
      BY <2>3, <2>5
    <3>2. step[<<g, t>>] = step[<<f, t>>]
      BY <2>2, <3>1
    <3>3. rank[t] = n \/ rank[t] < n
      <4>1. rank[t] \in Nat
        BY rank[t] \in 0 .. top
      <4> QED BY <4>1, <2>5
    <3> QED BY <2>1, <2>3, <2>4, <3>2, <3>3
  <2>6. Upto(n + 1)
    BY <2>2, <2>5
  <2> QED BY <2>6
<1>3. 0 .. top + 1 \subseteq T
  <2> HIDE DEF T
  <2>1. \A n \in 0 .. (top + 1) - 1 : n \in T => n + 1 \in T
    BY <1>2
  <2> QED BY <1>1, <2>1, RangeInduction
<1>4. PICK f \in [S -> V] : \A t \in S : rank[t] < top + 1 => f[t] = step[<<f, t>>]
  <2>1. top + 1 \in T
    <3> HIDE DEF T
    <3> QED BY <1>3
  <2> QED BY <2>1
<1>5. \A t \in S : f[t] = step[<<f, t>>]
  BY <1>4
<1>6. f = [t \in S |-> step[<<f, t>>]]
  BY <1>5
<1> QED BY <1>6

-------------------------------------------------------------------------------
(* The parts of a finite set, and what they leave of each other. *)
LEMMA FiniteParts ==
  ASSUME NEW S, IsFiniteSet(S), NEW s \in SUBSET S
  PROVE  /\ IsFiniteSet(s) /\ Cardinality(s) \in 0 .. Cardinality(S) /\ Cardinality(S) \in Nat
         /\ \A x \in s : s \ {x} \in SUBSET S /\ Cardinality(s \ {x}) = Cardinality(s) - 1
<1>1. /\ IsFiniteSet(s) /\ Cardinality(s) <= Cardinality(S)
      /\ Cardinality(s) \in Nat /\ Cardinality(S) \in Nat
  BY FS_Subset, FS_CardinalityType
<1>2. \A x \in s : Cardinality(s \ {x}) = Cardinality(s) - 1
  BY <1>1, FS_RemoveElement
<1> QED BY <1>1, <1>2

(* F folds a step over every part of S, taking the first member of each. *)
Folded(F, S, base, step, first) ==
  F = [s \in SUBSET S |-> IF s = {} THEN base ELSE step[<<first[s], F[s \ {first[s]}]>>]]

(* A fold of a finite set exists: what FoldLeft and SumFunction compute.   *)
THEOREM FoldExists ==
  ASSUME NEW S, IsFiniteSet(S), NEW V, NEW base, base \in V, NEW step, step \in [S \X V -> V],
         NEW first, \A s \in SUBSET S : s # {} => first[s] \in s
  PROVE  \E F : F \in [SUBSET S -> V] /\ Folded(F, S, base, step, first)
<1> DEFINE rank == [s \in SUBSET S |-> Cardinality(s)]
           rest(s) == s \ {first[s]}
           fold == [a \in [SUBSET S -> V] \X SUBSET S |->
                      IF a[2] = {} THEN base ELSE step[<<first[a[2]], a[1][rest(a[2])]>>]]
<1>1. \A s \in SUBSET S : s # {} => first[s] \in s /\ first[s] \in S /\ rest(s) \in SUBSET S
  OBVIOUS
<1>2. \A g \in [SUBSET S -> V], s \in SUBSET S :
         fold[<<g, s>>] = IF s = {} THEN base ELSE step[<<first[s], g[rest(s)]>>]
  <2>1. ASSUME NEW g \in [SUBSET S -> V], NEW s \in SUBSET S
        PROVE  fold[<<g, s>>] = IF s = {} THEN base ELSE step[<<first[s], g[rest(s)]>>]
    <3>1. PICK a : a = <<g, s>>
      OBVIOUS
    <3>2. a \in [SUBSET S -> V] \X SUBSET S /\ a[1] = g /\ a[2] = s
      BY <3>1
    <3>3. fold[a] = IF a[2] = {} THEN base ELSE step[<<first[a[2]], a[1][rest(a[2])]>>]
      BY <3>2
    <3> QED BY <3>1, <3>2, <3>3
  <2> QED BY <2>1
<1>3. fold \in [[SUBSET S -> V] \X SUBSET S -> V]
  <2>1. ASSUME NEW a \in [SUBSET S -> V] \X SUBSET S
        PROVE  (IF a[2] = {} THEN base ELSE step[<<first[a[2]], a[1][rest(a[2])]>>]) \in V
    <3>1. a[1] \in [SUBSET S -> V] /\ a[2] \in SUBSET S
      OBVIOUS
    <3> HIDE DEF rest
    <3>2. a[2] # {} => <<first[a[2]], a[1][rest(a[2])]>> \in S \X V
      BY <1>1, <3>1
    <3> QED BY <3>2
  <2> QED BY <2>1
<1> HIDE DEF fold, rest
<1>4. Descends(SUBSET S, V, Cardinality(S), rank, fold)
  <2>1. Cardinality(S) \in Nat /\ rank \in [SUBSET S -> 0 .. Cardinality(S)]
    BY FiniteParts, FS_CardinalityType
  <2>2. ASSUME NEW t \in SUBSET S, NEW g \in [SUBSET S -> V], NEW h \in [SUBSET S -> V],
               \A u \in SUBSET S : rank[u] < rank[t] => g[u] = h[u]
        PROVE  fold[<<g, t>>] = fold[<<h, t>>]
    <3>1. CASE t = {}
      BY <1>2, <3>1
    <3>2. CASE t # {}
      <4>1. PICK u : u = rest(t)
        OBVIOUS
      <4>2. u \in SUBSET S /\ Cardinality(u) = Cardinality(t) - 1 /\ Cardinality(t) \in Nat
        BY <1>1, <3>2, <4>1, FiniteParts DEF rest
      <4>3. rank[u] < rank[t]
        BY <4>2
      <4> HIDE DEF rank
      <4>4. g[u] = h[u]
        BY <2>2, <4>2, <4>3
      <4>5. fold[<<g, t>>] = step[<<first[t], g[u]>>] /\ fold[<<h, t>>] = step[<<first[t], h[u]>>]
        BY <1>2, <3>2, <4>1
      <4> QED BY <4>4, <4>5
    <3> QED BY <3>1, <3>2
  <2> HIDE DEF rank
  <2> QED BY <1>3, <2>1, <2>2 DEF Descends
<1>5. PICK F : IsGivenBy(F, SUBSET S, V, fold)
  <2> HIDE DEF rank
  <2> QED BY <1>4, CourseOfValues
<1>6. F \in [SUBSET S -> V] /\ F = [s \in SUBSET S |-> fold[<<F, s>>]]
  BY <1>5 DEF IsGivenBy
<1>7. \A s \in SUBSET S : F[s] = IF s = {} THEN base ELSE step[<<first[s], F[s \ {first[s]}]>>]
  BY <1>2, <1>6 DEF rest
<1>8. F = [s \in SUBSET S |-> F[s]]
  BY <1>6
<1>9. Folded(F, S, base, step, first)
  BY <1>7, <1>8 DEF Folded
<1> QED BY <1>6, <1>9

(* What SumFunction adds up, over each set of arguments. *)
SumsUp(F, S, f) ==
  F = [s \in SUBSET S |-> IF s = {} THEN 0 ELSE LET x == CHOOSE x \in s : TRUE IN f[x] + F[s \ {x}]]

LEMMA SumExists ==
  ASSUME NEW S, IsFiniteSet(S), NEW f \in [S -> Int]
  PROVE  \E F \in [SUBSET S -> Int] : SumsUp(F, S, f) /\ SumFunction(f) = F[S]
<1> DEFINE any(s) == CHOOSE x \in s : TRUE
           first == [s \in SUBSET S |-> any(s)]
           step == [a \in S \X Int |-> f[a[1]] + a[2]]
<1>1. \A s \in SUBSET S : s # {} => any(s) \in s /\ any(s) \in S /\ s \ {any(s)} \in SUBSET S
  OBVIOUS
<1>2. \A s \in SUBSET S : first[s] = any(s)
  OBVIOUS
<1>3. step \in [S \X Int -> Int] /\ \A x \in S, n \in Int : step[<<x, n>>] = f[x] + n
  OBVIOUS
<1> HIDE DEF any, first, step
<1>4. PICK F : F \in [SUBSET S -> Int] /\ Folded(F, S, 0, step, first)
  <2>1. \A s \in SUBSET S : s # {} => first[s] \in s
    BY <1>1, <1>2
  <2>2. PICK ints, zero : ints = Int /\ zero = 0
    OBVIOUS
  <2>3. zero \in ints /\ step \in [S \X ints -> ints]
    BY <1>3, <2>2
  <2>4. \E F : F \in [SUBSET S -> ints] /\ Folded(F, S, zero, step, first)
    BY <2>1, <2>3, FoldExists
  <2> QED BY <2>2, <2>4
<1>5. \A s \in SUBSET S : F[s] = IF s = {} THEN 0 ELSE f[any(s)] + F[s \ {any(s)}]
  <2>1. ASSUME NEW s \in SUBSET S PROVE F[s] = IF s = {} THEN 0 ELSE step[<<any(s), F[s \ {any(s)}]>>]
    BY <1>2, <1>4 DEF Folded
  <2> QED BY <1>1, <1>3, <1>4, <2>1
<1>6. SumsUp(F, S, f)
  <2>1. F = [s \in SUBSET S |-> F[s]]
    BY <1>4
  <2> QED BY <1>5, <2>1 DEF SumsUp, any
<1> DEFINE G == CHOOSE g : SumsUp(g, S, f)
<1>7. SumsUp(G, S, f)
  BY <1>6
<1>8. SumFunction(f) = G[S]
  BY DEF SumFunction, SumFunctionOnSet, FoldFunctionOnSet, MapThenFoldSet, SumsUp
<1> HIDE DEF G
<1>9. G \in [SUBSET S -> Int]
  <2> DEFINE N == {n \in Nat : \A s \in SUBSET S : Cardinality(s) = n => G[s] \in Int}
  <2>0. \A s \in SUBSET S : G[s] = IF s = {} THEN 0 ELSE f[any(s)] + G[s \ {any(s)}]
    BY <1>7 DEF SumsUp, any
  <2> HIDE DEF any
  <2>1. 0 \in N
    <3>1. \A s \in SUBSET S : Cardinality(s) = 0 => s = {}
      BY FiniteParts, FS_EmptySet
    <3>2. G[{}] = 0
      BY <2>0
    <3> QED BY <3>1, <3>2
  <2>2. ASSUME NEW n \in Nat, n \in N PROVE n + 1 \in N
    <3>1. ASSUME NEW s \in SUBSET S, Cardinality(s) = n + 1 PROVE G[s] \in Int
      <4>1. s # {}
        <5>1. Cardinality({}) = 0
          BY FS_EmptySet
        <5> QED BY <3>1, <5>1
      <4>2. s \ {any(s)} \in SUBSET S /\ Cardinality(s \ {any(s)}) = n /\ any(s) \in S
        BY <1>1, <3>1, <4>1, FiniteParts
      <4>3. G[s \ {any(s)}] \in Int
        BY <2>2, <4>2
      <4>4. f[any(s)] \in Int
        BY <4>2
      <4>5. G[s] = f[any(s)] + G[s \ {any(s)}]
        BY <2>0, <4>1
      <4> QED BY <4>3, <4>4, <4>5
    <3> QED BY <3>1
  <2>3. Nat \subseteq N
    <3> HIDE DEF N
    <3> QED BY <2>1, <2>2, SetInduction
  <2>4. \A s \in SUBSET S : G[s] \in Int
    BY <2>3, FiniteParts
  <2> QED BY <1>7, <2>4 DEF SumsUp
<1> QED BY <1>7, <1>8, <1>9

(* F adds up f, over every part of S. *)
AddsUp(F, S, f) ==
  /\ IsFiniteSet(S) /\ f \in [S -> Int]
  /\ F \in [SUBSET S -> Int] /\ SumsUp(F, S, f)

LEMMA SumIsAdded ==
  ASSUME NEW S, IsFiniteSet(S), NEW f, f \in [S -> Int]
  PROVE  \E F : AddsUp(F, S, f) /\ SumFunction(f) = F[S] /\ SumFunction(f) \in Int
<1>1. PICK F \in [SUBSET S -> Int] : SumsUp(F, S, f) /\ SumFunction(f) = F[S]
  BY SumExists
<1>2. S \in SUBSET S
  OBVIOUS
<1>3. F[S] \in Int
  BY <1>2
<1> QED BY <1>1, <1>3 DEF AddsUp

(* What is added first is of no account. *)
TakesAny(F, S, f) ==
  /\ F[{}] = 0 /\ S \in SUBSET S
  /\ \A s \in SUBSET S : F[s] \in Int /\ \A x \in s : F[s] = f[x] + F[s \ {x}] /\ f[x] \in Int
LEMMA SumTakesAny ==
  ASSUME NEW S, NEW f, NEW F, AddsUp(F, S, f)
  PROVE  TakesAny(F, S, f)
<1> DEFINE any(s) == CHOOSE x \in s : TRUE
           N == {n \in Nat : \A s \in SUBSET S : Cardinality(s) = n => \A x \in s : F[s] = f[x] + F[s \ {x}]}
<1> USE DEF AddsUp
<1>1. \A s \in SUBSET S : s # {} => any(s) \in s
  OBVIOUS
<1>2. \A s \in SUBSET S : F[s] = IF s = {} THEN 0 ELSE f[any(s)] + F[s \ {any(s)}]
  BY DEF SumsUp
<1> HIDE DEF any
<1>3. 0 \in N
  BY FiniteParts, FS_EmptySet
<1>4. ASSUME NEW n \in Nat, n \in N PROVE n + 1 \in N
  <2>1. ASSUME NEW s \in SUBSET S, Cardinality(s) = n + 1, NEW x \in s PROVE F[s] = f[x] + F[s \ {x}]
    <3>1. PICK c : c = any(s)
      OBVIOUS
    <3>2. c \in s /\ F[s] = f[c] + F[s \ {c}]
      BY <1>1, <1>2, <2>1, <3>1
    <3>3. CASE c = x
      BY <3>2, <3>3
    <3>4. CASE c # x
      <4>1. /\ s \ {c} \in SUBSET S /\ Cardinality(s \ {c}) = n
            /\ s \ {x} \in SUBSET S /\ Cardinality(s \ {x}) = n
        BY <2>1, <3>2, FiniteParts
      <4>2. x \in s \ {c} /\ c \in s \ {x} /\ (s \ {c}) \ {x} = (s \ {x}) \ {c}
        BY <3>2, <3>4
      <4>3. \A u \in SUBSET S : Cardinality(u) = n => \A y \in u : F[u] = f[y] + F[u \ {y}]
        BY <1>4
      <4>4. F[s \ {c}] = f[x] + F[(s \ {c}) \ {x}] /\ F[s \ {x}] = f[c] + F[(s \ {c}) \ {x}]
        <5>1. PICK u, v : u = s \ {c} /\ v = s \ {x}
          OBVIOUS
        <5>2. F[u] = f[x] + F[u \ {x}]
          BY <4>1, <4>2, <4>3, <5>1
        <5>3. F[v] = f[c] + F[v \ {c}]
          BY <4>1, <4>2, <4>3, <5>1
        <5> QED BY <4>2, <5>1, <5>2, <5>3
      <4>5. PICK rest \in Int : rest = F[(s \ {c}) \ {x}]
        BY <4>1
      <4>6. f[x] \in Int /\ f[c] \in Int
        BY <3>2
      <4> QED BY <3>2, <4>4, <4>5, <4>6
    <3> QED BY <3>3, <3>4
  <2> QED BY <2>1
<1>5. Nat \subseteq N
  <2> HIDE DEF N
  <2> QED BY <1>3, <1>4, SetInduction
<1>6. \A s \in SUBSET S : Cardinality(s) \in Nat
  BY FiniteParts
<1> QED BY <1>2, <1>5, <1>6 DEF TakesAny

(* Sums of functions that agree agree. *)
LEMMA SumsAgree ==
  ASSUME NEW S, NEW f, NEW F, AddsUp(F, S, f), NEW T, NEW h, NEW H, AddsUp(H, T, h),
         S \subseteq T, \A x \in S : h[x] = f[x]
  PROVE  \A s \in SUBSET S : H[s] = F[s]
<1> DEFINE N == {n \in Nat : \A s \in SUBSET S : Cardinality(s) = n => H[s] = F[s]}
<1>0. IsFiniteSet(S)
  BY DEF AddsUp
<1>1. F[{}] = 0 /\ \A s \in SUBSET S : \A x \in s : F[s] = f[x] + F[s \ {x}]
  BY SumTakesAny DEF TakesAny
<1>2. H[{}] = 0 /\ \A s \in SUBSET T : \A x \in s : H[s] = h[x] + H[s \ {x}]
  <2>1. H[{}] = 0 /\ \A s \in SUBSET T : H[s] \in Int /\ \A x \in s : H[s] = h[x] + H[s \ {x}] /\ h[x] \in Int
    BY SumTakesAny DEF TakesAny
  <2> QED BY <2>1
<1>3. 0 \in N
  <2>1. \A s \in SUBSET S : Cardinality(s) = 0 => s = {}
    BY <1>0, FiniteParts, FS_EmptySet
  <2> QED BY <1>1, <1>2, <2>1
<1>4. ASSUME NEW n \in Nat, n \in N PROVE n + 1 \in N
  <2>1. ASSUME NEW s \in SUBSET S, Cardinality(s) = n + 1 PROVE H[s] = F[s]
    <3>1. s # {}
      <4>1. Cardinality({}) = 0
        BY FS_EmptySet
      <4> QED BY <2>1, <4>1
    <3>2. PICK x \in s : TRUE
      BY <3>1
    <3>3. s \ {x} \in SUBSET S /\ Cardinality(s \ {x}) = n
      BY <1>0, <2>1, <3>2, FiniteParts
    <3>4. H[s \ {x}] = F[s \ {x}]
      BY <1>4, <3>3
    <3> QED BY <1>1, <1>2, <3>2, <3>4
  <2> QED BY <2>1
<1>5. Nat \subseteq N
  <2> HIDE DEF N
  <2> QED BY <1>3, <1>4, SetInduction
<1> QED BY <1>0, <1>5, FiniteParts

(* Numbers that can be added up. *)
Summable(f, S) == IsFiniteSet(S) /\ f \in [S -> Int]

(* A sum, when a function has one more argument, *)
THEOREM SumGrows ==
  ASSUME NEW S, NEW f, Summable(f, S), NEW T, NEW h, Summable(h, T),
         NEW x, x \notin S, T = S \cup {x}, \A s \in S : h[s] = f[s]
  PROVE  SumFunction(f) \in Int /\ SumFunction(h) = SumFunction(f) + h[x]
<1>1. PICK F : AddsUp(F, S, f) /\ SumFunction(f) = F[S]
  BY SumIsAdded DEF Summable
<1>2. PICK H : AddsUp(H, T, h) /\ SumFunction(h) = H[T]
  BY SumIsAdded DEF Summable
<1>3. S \subseteq T /\ x \in T /\ T \ {x} = S /\ S \in SUBSET S /\ T \in SUBSET T
  OBVIOUS
<1>4. H[S] = F[S]
  BY <1>1, <1>2, <1>3, SumsAgree
<1>5. H[T] = h[x] + H[T \ {x}] /\ h[x] \in Int
  <2>1. TakesAny(H, T, h)
    BY <1>2, SumTakesAny
  <2> QED BY <1>3, <2>1 DEF TakesAny
<1>6. F[S] \in Int
  BY <1>1, SumTakesAny DEF TakesAny
<1>7. SumFunction(h) = h[x] + F[S] /\ SumFunction(f) = F[S]
  BY <1>1, <1>2, <1>3, <1>4, <1>5
<1>8. h[x] \in Int
  BY <1>5
<1> QED BY <1>6, <1>7, <1>8

(* or another value for one of them. *)
THEOREM SumChanges ==
  ASSUME NEW S, NEW f, Summable(f, S), NEW h, Summable(h, S),
         NEW x \in S, \A s \in S \ {x} : h[s] = f[s]
  PROVE  SumFunction(h) = SumFunction(f) - f[x] + h[x]
<1> DEFINE R == S \ {x}
           g == [s \in R |-> f[s]]
<1>1. Summable(g, R) /\ S = R \cup {x} /\ x \notin R
  BY FS_Subset DEF Summable
<1>2. (\A s \in R : f[s] = g[s]) /\ \A s \in R : h[s] = g[s]
  OBVIOUS
<1> HIDE DEF R, g
<1>3. /\ SumFunction(g) \in Int /\ SumFunction(f) = SumFunction(g) + f[x]
      /\ SumFunction(h) = SumFunction(g) + h[x]
  BY <1>1, <1>2, SumGrows
<1>4. f[x] \in Int /\ h[x] \in Int
  BY DEF Summable
<1> QED BY <1>3, <1>4

(* Nothing adds up to 0, *)
THEOREM SumOfNothing ==
  ASSUME NEW f, Summable(f, {})
  PROVE  SumFunction(f) = 0
<1>1. PICK F : AddsUp(F, {}, f) /\ SumFunction(f) = F[{}]
  BY SumIsAdded DEF Summable
<1>2. F[{}] = 0
  BY <1>1, SumTakesAny DEF TakesAny
<1> QED BY <1>1, <1>2

(* and numbers to a number. *)
THEOREM SumIsNumber ==
  ASSUME NEW S, NEW f, Summable(f, S)
  PROVE  SumFunction(f) \in Int
BY SumIsAdded DEF Summable
===============================================================================
