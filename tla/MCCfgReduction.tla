---------------------------- MODULE MCCfgReduction ----------------------------
(* Every body of a bounded size for TLC. *)
EXTENDS CfgDetectors, SequencesExt

CONSTANTS SmallSize,  \* bound: statements of a body with any statements
          Size        \* bound: statements of a body of full loops, ifs and jumps

(* Trees of statements, numbered later: a kind, a header and the subtrees. *)
Tree(k, h, ts) == [kind |-> k, header |-> h, trees |-> ts]
Leaf(k) == Tree(k, {}, <<>>)

(* levels[n].inLoop and .outside have the trees of n statements.           *)
RECURSIVE Forests(_, _, _)
Forests(levels, n, place) ==
  IF n = 0 THEN {<<>>}
  ELSE UNION {{<<t>> \o f : t \in levels[k][place], f \in Forests(levels, n - k, place)} : k \in 1..n}

Blocks(levels, n, place) == {Tree("block", {}, f) : f \in Forests(levels, n - 1, place)}

Larger(levels, n, headers, place) ==
  UNION { Blocks(levels, n, place),
          {Tree("while", {}, <<t>>) : t \in levels[n - 1].inLoop},
          {Tree("for", h, <<t>>) : h \in headers, t \in levels[n - 1].inLoop},
          {Tree("doWhile", {}, <<t>>) : t \in Blocks(levels, n - 1, "inLoop")},
          {Tree("if", {}, <<t>>) : t \in levels[n - 1][place]},
          UNION {{Tree("if", {}, <<t, u>>) : t \in levels[k][place], u \in levels[n - 1 - k][place]} :
                   k \in 1..n - 2} }

RECURSIVE Levels(_, _, _)
Levels(n, leaves, headers) ==
  IF n = 1
  THEN <<[inLoop |-> {Leaf(k) : k \in leaves}, outside |-> {Leaf(k) : k \in leaves \ {"break", "continue"}}]>>
  ELSE LET levels == Levels(n - 1, leaves, headers)
       IN  Append(levels, [inLoop |-> Larger(levels, n, headers, "inLoop"),
                           outside |-> Larger(levels, n, headers, "outside")])

Bodies(size, leaves, headers) ==
  LET levels == Levels(size - 1, leaves, headers)
  IN  UNION {Blocks(levels, n, "outside") : n \in 1..size}

(* Statements are numbered in the order they are written. *)
RECURSIVE Preorder(_)
Preorder(t) == <<t>> \o FlattenSeq([i \in 1..Len(t.trees) |-> Preorder(t.trees[i])])

Program(t) ==
  LET all == Preorder(t)
      before(i, j) == FoldLeft(LAMBDA sum, u : sum + Len(Preorder(u)), 0, SubSeq(all[i].trees, 1, j - 1))
  IN [kind |-> [i \in 1..Len(all) |-> all[i].kind],
      header |-> [i \in 1..Len(all) |-> all[i].header],
      children |-> [i \in 1..Len(all) |-> [j \in 1..Len(all[i].trees) |-> i + 1 + before(i, j)]]]

MCPrograms ==
  {Program(t) : t \in Bodies(SmallSize, {"simple", "block"} \cup Jumps, SUBSET {"Init", "Cond", "Exp"})
                       \cup Bodies(Size, Jumps, {{"Init", "Cond", "Exp"}})}
===============================================================================
