----------------------------- MODULE CfgDetectors -----------------------------
(***************************************************************************)
(* The detectors that search a control flow graph:                         *)
(* detect/high/reentrancy_state_change.rs for the body of a function,      *)
(* detect/low/incorrect_modifier.rs and multiple_placeholders.rs for that  *)
(* of a modifier.                                                          *)
(***************************************************************************)
EXTENDS CfgReduction

CONSTANT JudgedSize  \* bound: statements of a body the detectors are run on

(* What is in the pieces of the AST the nodes stand for: function calls,   *)
(* changes of state variables, placeholders, revert statements, and try    *)
(* statements with a placeholder somewhere in them. A node for a start or  *)
(* an end stands for nothing.                                              *)
IsPrimitive(n) == n[1] \in {"Statement", "Init", "Cond", "Exp"}
Reflected == {n \in nodes : IsPrimitive(n)}
Simple == {n \in Reflected : n[1] = "Statement" /\ kind[n[2]] = "simple"}
AtMostOne(S) == {{}} \cup {{n} : n \in S}
Nothing == [calls |-> {}, changes |-> {}, reverts |-> {}, placeholders |-> {}, tries |-> {}]
FunctionContents ==
  UNION {{[Nothing EXCEPT !.calls = {p[1]}, !.changes = {p[2]}, !.reverts = R] :
            R \in AtMostOne(Simple \ {p[1], p[2]})} : p \in Reflected \X Reflected}
ModifierContents ==
  UNION {LET others == Reflected \ P
             alone == Simple \ P
         IN  {[Nothing EXCEPT !.placeholders = P, !.calls = C] : C \in AtMostOne(others)}
               \cup {[Nothing EXCEPT !.placeholders = P, !.reverts = {n}] : n \in alone}
               \cup {[Nothing EXCEPT !.placeholders = P, !.tries = {n}] : n \in alone} : P \in SUBSET Simple}

Reachable(n) == Reach({n}, successors)

-------------------------------------------------------------------------------
(* Every external call after which the graph leads to a change of state at *)
(* another node is captured.                                               *)
find_external_call_sites(w) == Reachable(BodyStart) \cap w.calls
find_state_change_sites(w, start) == Reachable(start) \cap w.changes
(* Mutant: the changes are looked for in the whole body. *)
ReentrantAnywhere(w) == {c \in find_external_call_sites(w) : find_state_change_sites(w, BodyStart) \ {c} # {}}
Reentrant(w) == {c \in find_external_call_sites(w) : find_state_change_sites(w, c) \ {c} # {}}

(* A path is satisfied by the first placeholder, call or revert on it. A   *)
(* node is marked as visited when its children have been, so that a node   *)
(* met below itself is searched again, and again.                          *)
IsSatisfied(w, n) == n \in w.placeholders \cup w.tries \cup w.calls \cup w.reverts
(* Mutant: one path is enough. *)
CombinedByOr(answers) ==
  IF "never ends" \in answers THEN "never ends" ELSE IF "yes" \in answers THEN "yes" ELSE "no"
Combined(answers) ==
  IF "never ends" \in answers THEN "never ends" ELSE IF "no" \in answers THEN "no" ELSE "yes"
AllPathsHaveRevertOrPlaceholder(w, n, above) ==
  LET answer[q \in nodes \X SUBSET nodes] ==
        LET m == q[1]
            over == q[2]
        IN CASE IsSatisfied(w, m) -> "yes"
             [] ~IsSatisfied(w, m) /\ m \in over -> "never ends"
             [] ~IsSatisfied(w, m) /\ m \notin over /\ raw_successors(m) = {} -> "no"
             [] OTHER -> Combined({answer[<<l, over \cup {m}>>] : l \in raw_successors(m)})
  IN  answer[<<n, above>>]
Judgement(w) == AllPathsHaveRevertOrPlaceholder(w, BodyStart, {})

MultiplePlaceholders(w) ==
  \E n \in Reachable(BodyStart) \cap w.placeholders : Cardinality(Reachable(n) \cap w.placeholders) > 1

-------------------------------------------------------------------------------
(* What the body does: as ProgramFlow, but a revert ends it. A node that is *)
(* neither the start nor a point is nowhere in the program.                *)
Continues(w) ==
  [n \in nodes |-> IF n = BodyStart \/ (IsPoint(n) /\ n \notin {BodyEnd} \cup w.reverts) THEN ProgramFlow(n) ELSE {}]
RunsTo(w, n) == Reach(Continues(w)[n], Continues(w))
IsJudged == phase = "done" /\ Len(kind) <= JudgedSize

(* An external call that runs before a change of state somewhere else is   *)
(* captured, whatever loops and jumps are between them; and what is        *)
(* captured does, unless a revert is between (the graph goes on after it): *)
(* reentrancy_state_change.rs:39-87.                                       *)
ChangesAfterCallsAreFound ==
  IsJudged =>
    \A w \in FunctionContents :
      LET real == {c \in w.calls : c \in RunsTo(w, BodyStart) /\ (RunsTo(w, c) \cap w.changes) \ {c} # {}}
      IN  real \subseteq Reentrant(w) /\ (w.reverts = {} => Reentrant(w) = real)

(* A modifier whose paths are searched to the end is captured if and only  *)
(* if it can complete with nothing run that might revert and no            *)
(* placeholder (incorrect_modifier.rs:33-41); and it is captured for its   *)
(* placeholders if it can run two of them, but for those in a try and one  *)
(* that runs twice, and only then, unless a revert is between              *)
(* (multiple_placeholders.rs:33-104).                                      *)
ModifiersAreJudgedByTheirPaths ==
  IsJudged =>
    \A w \in ModifierContents :
      LET silent == [m \in nodes |-> IF IsSatisfied(w, m) THEN {} ELSE Continues(w)[m]]
          completes == BodyEnd \in Reach({BodyStart}, silent)
          several == \E n \in RunsTo(w, BodyStart) \cap w.placeholders : (RunsTo(w, n) \cap w.placeholders) \ {n} # {}
      IN  /\ Judgement(w) # "never ends" => (Judgement(w) = "no" <=> completes)
          /\ several => MultiplePlaceholders(w)
          /\ w.reverts = {} => (MultiplePlaceholders(w) <=> several)

(* "It is recommended that all the paths in a modifier must execute _ or   *)
(* revert" (incorrect_modifier.rs:56): a loop is no reason not to say      *)
(* whether they do, so that every modifier with a placeholder is judged.   *)
EveryModifierIsJudged ==
  IsJudged => \A w \in ModifierContents : w.placeholders # {} => Judgement(w) # "never ends"
===============================================================================
