----------------------------- MODULE MCCallGraphs -----------------------------
(***************************************************************************)
(* A diamond for TLC: Q is P, R is P and D is Q, R, with a library L and a *)
(* free function. P.f() calls g(), which Q, R and D may override, calls m  *)
(* and a free function; what overriders call is chosen.                    *)
(***************************************************************************)
EXTENDS CallgraphDetectors

MCContracts == {"P", "Q", "R", "D", "L"}
MCDefinitions == {"Pf", "Pm", "Pg", "Ph", "Qg", "Rg", "Rm", "Dg", "Dh", "Dx", "Dc", "Lp", "free"}
MCSelectors == {"f", "g", "h", "m", "p", "free", "FALLBACK", "CONSTRUCTOR"}

NoFacts == [marks |-> {}, statements |-> {}, lengths |-> {}, writes |-> {}]
Write(var) == [sort |-> "assignment", left |-> <<var>>, leftIsPointer |-> <<FALSE>>, right |-> <<"-">>]
Push(ptr) == [sort |-> "change", left |-> <<ptr>>, leftIsPointer |-> <<FALSE>>, right |-> <<>>]
Point(ptr, var) == [sort |-> "declaration", left |-> <<ptr>>, leftIsPointer |-> <<TRUE>>, right |-> <<var>>]

Risky == [NoFacts EXCEPT
  !.marks = {"delegatecall on local", "call decoded", "msg.value", "tx.origin", "sends ether", "retry", "reads state"},
  !.statements = {Write("x")}, !.writes = {"x"}]
Guard == [NoFacts EXCEPT
  !.marks = {"address check", "require", "msg.sender", "emits", "retry"}]
Pushes == [NoFacts EXCEPT !.statements = {Push("q")}, !.writes = {"y"}]
Entry == [NoFacts EXCEPT
  !.marks = {"init name", "payable", "initial value", "constant", "old solc"},
  !.statements = {Point("q", "y")}]
Loop == [NoFacts EXCEPT
  !.marks = {"loop", "loop part", "condition", "assert"}, !.lengths = {"y"}]

(* Who has which facts: the scenes put what is risky and what guards it in *)
(* different places of the hierarchy.                                      *)
Scene(n, d) ==
  CASE d = "Pf" -> Entry
    [] d = "Dc" -> [NoFacts EXCEPT !.statements = {Write("x")}, !.writes = {"x"}]
    [] d = <<"Pg", "Dg", "Rg", "Dx">>[n] -> Risky
    [] d = <<"Dg", "Pm", "Qg", "Pg">>[n] -> Guard
    [] d = "Lp" -> Pushes
    [] OTHER -> NoFacts

Call(style, suspect) == [style |-> style, suspect |-> suspect, named |-> NoContract]
Named(c, suspect) == [style |-> "explicit", suspect |-> suspect, named |-> c]

(* q, r, d: whether g is overridden in Q, R, D, and what the overrider     *)
(* calls; free: the name of the free function; odd: anything else unusual. *)
Choices ==
  [q : {"none", "super"}, r : {"none", "super", "P.g"},
   d : {"none", "super", "f", "L.p", "R.g"}, free : {"free", "g"},
   odd : {"none", "no selector", "variable h", "no selector of D", "contract R", "no body"}, scene : 1..4]

MCProject(ch) ==
  LET defs == {"Pf", "Pm", "Pg", "Ph", "Dx", "Dc", "Lp", "free"}
              \cup (IF ch.q = "none" THEN {} ELSE {"Qg"})
              \cup (IF ch.r = "none" THEN {} ELSE {"Rg"})
              \cup (IF ch.r = "super" THEN {"Rm"} ELSE {})
              \cup (IF ch.d = "none" THEN {} ELSE {"Dg"})
              \cup (IF ch.odd \in {"variable h", "no selector of D"} THEN {"Dh"} ELSE {})
      superOfR == "Pg"
      superOfD == IF "Rg" \in defs /\ ch.odd # "no body" THEN "Rg" ELSE IF "Qg" \in defs THEN "Qg" ELSE "Pg"
      unwritten == IF ch.odd = "no body" THEN {"Pg", "Rg"} ELSE {}
      gOfR == IF "Rg" \in defs THEN "Rg" ELSE "Pg"
  IN [ contracts |-> MCContracts,
       kind |-> [c \in MCContracts |->
                   CASE c = "L" -> "library" [] c = "Q" -> "abstract"
                     [] c = "P" /\ unwritten # {} -> "abstract"
                     [] c = "R" /\ ch.odd # "contract R" -> "abstract" [] OTHER -> "contract"],
       c3 |-> [c \in MCContracts |->
                 CASE c = "Q" -> <<"Q", "P">> [] c = "R" -> <<"R", "P">>
                   [] c = "D" -> <<"D", "R", "Q", "P">> [] OTHER -> <<c>>],
       defs |-> defs,
       home |-> [d \in MCDefinitions |->
                   CASE d \in {"Pf", "Pm", "Pg", "Ph"} -> "P" [] d = "Qg" -> "Q"
                     [] d \in {"Rg", "Rm"} -> "R" [] d = "Lp" -> "L"
                     [] d = "free" -> NoContract [] OTHER -> "D"],
       sort |-> [d \in MCDefinitions |->
                   CASE d \in {"Pm", "Rm"} -> "modifier" [] d = "Dh" -> "variable"
                     [] d = "Dx" -> "fallback" [] d = "Dc" -> "constructor" [] OTHER -> "function"],
       selector |-> [d \in MCDefinitions |->
                       CASE d = "Pf" -> "f" [] d \in {"Pg", "Qg", "Rg", "Dg"} -> "g"
                         [] d \in {"Pm", "Rm"} -> "m" [] d \in {"Ph", "Dh"} -> "h"
                         [] d = "Dx" -> "FALLBACK" [] d = "Dc" -> "CONSTRUCTOR"
                         [] d = "Lp" -> "p" [] OTHER -> ch.free],
       visibility |-> [d \in MCDefinitions |->
                         CASE d \in {"Pf", "Dh", "Dc"} -> "public" [] d \in {"Ph", "Dx"} -> "external"
                           [] OTHER -> "internal"],
       implemented |-> [d \in MCDefinitions |-> d \notin unwritten],
       hasSelector |-> [d \in MCDefinitions |-> <<ch.odd, d>> \notin {<<"no selector", "Ph">>, <<"no selector of D", "Dh">>}],
       calls |-> [d \in MCDefinitions |->
                    CASE d = "Pf" -> {Call("direct", "Pg"), Call("modifier", "Pm"), Call("direct", "free")}
                      [] d = "Dx" -> {Call("external", "Ph"), Call("external", "Pg")}
                      [] unwritten # {} /\ d \in {"Qg", "Rg"} -> {}
                      [] d = "Qg" -> {Call("super", "Pg")}
                      [] d = "Rg" -> IF ch.r = "super" THEN {Call("super", superOfR)} ELSE {Named("P", "Pg")}
                      [] d = "Dg" -> CASE ch.d = "super" -> {Call("super", superOfD)}
                                       [] ch.d = "f" -> {Call("direct", "Pf"), Call("super", superOfD)}
                                       [] ch.d = "L.p" -> {Named("L", "Lp")}
                                       [] OTHER -> {Named("R", gOfR)}
                      [] OTHER -> {}],
       facts |-> [d \in MCDefinitions |-> Scene(ch.scene, d)] ]

(* Which choices are checked. *)
Interesting(ch) ==
  /\ \/ ch.scene = 1 /\ ch.odd = "none"
     \/ ch.scene = 1 /\ ch.odd # "none" /\ ch.d = "super"
     \/ ch.scene = 2 /\ ch.odd = "none" /\ ch.d \in {"super", "f", "L.p"}
     \/ ch.scene = 3 /\ ch.odd = "none" /\ ch.d \in {"none", "super", "R.g"}
     \/ ch.scene = 4 /\ ch.odd = "none" /\ ch.d = "super"
  /\ ch.r # "super" => ch.scene = 1 /\ ch.odd = "none" /\ ch.free = "free" /\ ch.q = "super"
  /\ ch.r = "P.g" => ch.d \in {"none", "super"}
  /\ ch.q = "none" => ch.d = "super" /\ ch.scene = 1 /\ ch.odd = "none"
  /\ ch.free = "g" => ch.scene = 1 /\ ch.odd = "none" /\ ch.d \in {"none", "super"}
MCProjects == [ch \in {x \in Choices : Interesting(x)} |-> MCProject(ch)]
MCFacts == {Risky, Guard, Pushes, Entry, Loop, NoFacts, Scene(1, "Dc")}

MCSpotsOf(p) ==
  { [within |-> "Pf", whole |-> TRUE, calls |-> p.calls["Pf"], facts |-> p.facts["Pf"]],
    [within |-> "Pf", whole |-> FALSE, calls |-> {Call("direct", "Pg")}, facts |-> Loop],
    [within |-> "Pg", whole |-> TRUE, calls |-> {}, facts |-> p.facts["Pg"]] }
===============================================================================
