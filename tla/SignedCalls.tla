------------------------------ MODULE SignedCalls ------------------------------
(***************************************************************************)
(* What the contracts that NonceManagement and SignatureReplay judge do:   *)
(* the meaning of their statements in Solidity. Anyone calls any entry     *)
(* point with any values, in any order; signatures over what a call needs  *)
(* exist. The detector promises that the entry points it leaves alone      *)
(* accept no signature twice.                                              *)
(***************************************************************************)
EXTENDS SignatureReplay, Integers

CONSTANTS
  Values,    \* of parameters
  Accounts,  \* symbols that stand for accounts: 0 or 1, a caller among them
  Top,       \* the largest number a cell holds
  MaxCalls

VARIABLES
  storage,   \* <<name of state, values of the keys>> -> number or word of bits
  accepted,  \* <<entry point, what was signed>>
  replayed,  \* entry points that accepted a signature again
  made       \* how many calls

callVars == <<storage, accepted, replayed, made>>

Kept(p) == p.detector \in {"nonces", "replay"}
SlotsIn(s) ==
  CASE s.op \in {"check", "write", "prove"} -> {s.slot} [] s.op = "verify" -> s.counters [] OTHER -> {}
Cells(p) ==
  (Bases \X {<<>>}) \cup
    UNION {{slot.base} \X [DOMAIN slot.keys -> Values] :
             slot \in UNION {UNION {SlotsIn(Body(p, f)[i]) : i \in DOMAIN Body(p, f)} : f \in p.fns}}
CellOf(env, slot) == <<slot.base, [k \in DOMAIN slot.keys |-> env[slot.keys[k]]]>>
Bit(word, m) == (word \div 2^m) % 2
Evaluate(env, store, slot, e) ==
  LET value(sym) == IF sym = slot.base THEN store[CellOf(env, slot)]
                    ELSE IF sym \in Bases THEN store[<<sym, <<>>>>] ELSE env[sym]
  IN  e.plus + MapThenSumSet(value, e.of)

Passes(env, store, c) ==
  LET here == store[CellOf(env, c.slot)]
      value == Evaluate(env, store, c.slot, c.value)
      word == IF c.ahead THEN here + 1 ELSE here
  IN  CASE c.kind = "equality" -> IF c.lossy THEN word % 2 = value % 2 ELSE word = value
        [] c.kind = "greater" -> value > here
        [] c.kind = "clear" -> here = 0
        [] c.kind = "bit clear" -> Bit(here, value) = 0
        [] c.kind = "is set" -> here # 0
        [] OTHER -> value >= here
Stored(env, store, w) ==
  LET here == store[CellOf(env, w.slot)]
      value == Evaluate(env, store, w.slot, w.value)
  IN  CASE w.kind = "assign" -> value
        [] w.kind = "add" -> here + value
        [] w.kind = "subtract" -> here - value
        [] w.kind = "or" -> here + (1 - Bit(here, value)) * 2^value
        [] w.kind = "xor" -> here + (1 - 2 * Bit(here, value)) * 2^value
        [] w.kind = "and" -> here - Bit(here, value) * 2^value
        [] w.kind = "increment" -> here + 1
        [] w.kind = "decrement" -> here - 1
        [] w.kind = "delete" -> 0

(* How far a call came: storage, what was signed, what the last call       *)
(* returned, whether an if was not taken, whether it returned early. A     *)
(* call that reverts comes nowhere.                                        *)
IsIf(p, f, i) ==
  \E j \in At(p, f, "write") :
    Body(p, f)[j].inside = "guard" /\ i < j /\ ~\E k \in At(p, f, "check") : i < k /\ k < j
Write(p, f, env, o, w) ==
  LET wraps == p.facts[f].unchecked /\ p.facts[f].narrow # {}
      value == IF wraps THEN Stored(env, o.store, w) % (Top + 1) ELSE Stored(env, o.store, w)
  IN  IF value \in 0..Top THEN {[o EXCEPT !.store[CellOf(env, w.slot)] = value]} ELSE {}
Counters(p, g) == {i \in At(p, g, "write") : Body(p, g)[i].kind = "increment"}
Returns(p, g, env, store) ==
  IF Counters(p, g) = {} THEN 0 ELSE store[CellOf(env, Body(p, g)[Min(Counters(p, g))].slot)]
(* A hash of what a helper hashes, in the names of the caller.             *)
RECURSIVE Hashed(_, _, _)
Hashed(p, f, syms) ==
  LET used == {i \in CallsAt(f) : p.named[Target(f, i)] \in syms /\ Counters(p, Target(f, i)) = {}}
      through(i) == SubstituteAll(p, f, i, Hashed(p, Target(f, i), p.facts[Target(f, i)].returns))
  IN  (syms \ {p.named[Target(f, i)] : i \in used}) \cup UNION {through(i) : i \in used}
SignedValues(p, f, env, o, v) ==
  LET equal == {Body(p, f)[i] : i \in At(p, f, "equate")}
      hashed == {s \in equal : s.local \in v.digest}
      syms == Hashed(p, f, (v.digest \ {s.local : s \in hashed}) \cup UNION {s.other : s \in hashed})
      returned == \E i \in CallsAt(f) : Body(p, f)[i].by \in syms
      given == (syms \cap DOMAIN env) \cup ({v.principal} \ {NoKey})
  IN  [ values |-> {<<sym, env[sym]>> : sym \in given},
        counters |-> {<<slot, o.store[CellOf(env, slot)]>> : slot \in v.counters},
        returned |-> IF returned THEN o.returned ELSE 0 ]

RECURSIVE Run(_, _, _, _), Do(_, _, _, _, _)
EnvOfCall(p, f, env, i) ==
  LET params == p.facts[Target(f, i)].params
      given(sym) == {k \in DOMAIN params \cap DOMAIN Body(p, f)[i].args : params[k] = sym}
  IN  [sym \in DOMAIN env |-> IF given(sym) = {} THEN env[sym]
                              ELSE env[Body(p, f)[i].args[CHOOSE k \in given(sym) : TRUE]]]
Called(p, f, env, i, o) ==
  LET s == Body(p, f)[i]
      g == Target(f, i)
      inner == EnvOfCall(p, f, env, i)
      value == Returns(p, g, inner, o.store)
      signer == IF s.principal = NoKey THEN {} ELSE {<<s.principal, env[s.principal]>>}
  IN  {[x EXCEPT !.signed = o.signed \cup {[v EXCEPT !.values = @ \cup signer] : v \in @ \ o.signed},
                 !.blocked = o.blocked, !.ended = FALSE, !.returned = value] :
         x \in {y \in Run(p, g, inner, [o EXCEPT !.blocked = FALSE]) :
                  s.compared # {} => \E sym \in s.compared : env[sym] = value}}
Do(p, f, env, i, o) ==
  LET s == Body(p, f)[i]
  IN  IF o.ended THEN {o} ELSE
      CASE s.op = "check" ->
             IF s.bypassable \/ Passes(env, o.store, s) THEN {o}
             ELSE IF IsIf(p, f, i) THEN {[o EXCEPT !.blocked = TRUE]} ELSE {}
        [] s.op = "write" ->
             IF s.inside = "guard" /\ o.blocked THEN {o}
             ELSE Write(p, f, env, o, s) \cup (IF s.inside = "branch" THEN {o} ELSE {})
        [] s.op = "verify" -> {[o EXCEPT !.signed = @ \cup {SignedValues(p, f, env, o, s)}]}
        [] s.op = "call" ->
             IF i \notin CallsAt(f) THEN {o}
             ELSE Called(p, f, env, i, o) \cup (IF s.conditional THEN {o} ELSE {})
        [] s.op = "ask" ->
             IF \E slot \in p.facts[s.refers].returned : (o.store[CellOf(EnvOfCall(p, f, env, i), slot)] # 0) = s.negated
             THEN {} ELSE {o}
        [] s.op = "leave" -> {o, [o EXCEPT !.ended = TRUE]}
        [] s.op = "caller" -> IF env[s.is] = env["sender"] THEN {o} ELSE {}
        [] s.op = "prove" -> IF Bit(o.store[CellOf(env, s.slot)], env[s.mask]) = 1 THEN {o} ELSE {}
        [] OTHER -> {o}
Run(p, f, env, o) ==
  FoldLeftDomain(LAMBDA os, i : UNION {Do(p, f, env, i, x) : x \in os},
                 IF p.facts[f].onlySelf THEN {} ELSE {o}, Body(p, f))

InitCalls ==
  /\ storage = IF Kept(project) THEN [cell \in Cells(project) |-> 0] ELSE <<>>
  /\ accepted = {} /\ replayed = {} /\ made = 0

(* The caller is chosen where anything depends on who it is.               *)
KeysOf(s) ==
  CASE s.op \in {"check", "write"} -> ToSet(s.slot.keys)
    [] s.op \in {"call", "ask"} -> ToSet(s.args)
    [] s.op = "caller" -> {"sender"}
    [] OTHER -> {}
Mentioned(p) ==
  UNION {UNION {NamesIn(Body(p, f)[i]) \cup KeysOf(Body(p, f)[i]) : i \in DOMAIN Body(p, f)} : f \in p.fns}
Inputs(p, f) ==
  LET syms == ToSet(p.facts[f].params) \cup UNION {RecoveredIn(p, g) : g \in p.fns} \cup ({"sender"} \cap Mentioned(p))
  IN  {given \in [syms -> Values] : \A sym \in syms \cap Accounts : given[sym] \in {0, 1}}
Before == [store |-> storage, signed |-> {}, blocked |-> FALSE, ended |-> FALSE, returned |-> 0]
Environment(given) == [sym \in Symbols |-> IF sym \in DOMAIN given THEN given[sym] ELSE 0]

CallEntry(f) ==
  /\ phase = "done" /\ left # {} /\ made < MaxCalls
  /\ \E given \in Inputs(project, f) : \E o \in Run(project, f, Environment(given), Before) :
       LET now == IF o.blocked THEN {} ELSE {<<f, x>> : x \in o.signed}
       IN  /\ storage' = o.store
           /\ accepted' = accepted \cup now
           /\ replayed' = IF now \cap accepted # {} THEN replayed \cup {f} ELSE replayed
  /\ made' = made + 1
  /\ UNCHANGED sigVars
===============================================================================
