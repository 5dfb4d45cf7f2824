------------------------------ MODULE TimedCalls ------------------------------
(***************************************************************************)
(* What the contracts that SignatureFreshness judges do with a signature   *)
(* that was made early when it is used late: the meaning of their          *)
(* statements in Solidity. Whoever calls chooses what is not signed.       *)
(***************************************************************************)
EXTENDS SignatureFreshness, Integers

CONSTANTS
  Unit,      \* name -> what its number counts
  Parties,   \* names of accounts, 0 or 1; account 0 signs
  State,     \* names of state
  Settings,  \* those of them nobody changes
  Late       \* a moment later than any in an early signature

(* Calls that go deeper run out of gas.                                   *)
Deepest == 5

(* A block is longer than a second, so that block numbers stay behind; a   *)
(* thousand is 6.                                                          *)
Scale(unit) == CASE unit = "second" -> 6 [] unit = "millisecond" -> 36 [] OTHER -> 1
Reading(side) ==
  CASE side.clock = "none" -> 0
    [] side.clock = "time" -> Late * Scale("second") * (IF side.thousand THEN 6 ELSE 1)
    [] side.clock = "block" -> Late
PlainCell == -1
TimedCells == State \X {PlainCell, 0, 1}
CellAt(env, x) == <<x.base, IF x.key = NoKey THEN PlainCell ELSE env[x.key].is>>
Held(o, x) == IF x.base \in State THEN o.store[CellAt(o.env, x)] ELSE o.env[x.base].is
Worth(o, side) ==
  Reading(side) + side.number + MapThenSumSet(LAMBDA x : Held(o, x), side.plus)
    - MapThenSumSet(LAMBDA x : Held(o, x), side.minus)

(* Arithmetic that would go below zero reverts.                            *)
Holds(o, c) ==
  LET l == Worth(o, c.l)
      r == Worth(o, c.r)
  IN  CASE c.op = "<" -> l < r [] c.op = "<=" -> l <= r [] c.op = ">" -> l > r
        [] c.op = ">=" -> l >= r [] c.op = "==" -> l = r [] c.op = "!=" -> l # r
IsDefined(o, c) == Worth(o, c.l) >= 0 /\ Worth(o, c.r) >= 0
Accepts(o, s) ==
  /\ IsDefined(o, s.test)
  /\ CASE s.how = "require" -> Holds(o, s.test)
       [] s.how \in {"if", "far if"} -> ~Holds(o, s.test)
       [] s.how = "near if" -> TRUE
HasZero(o, c) == \E x \in c.l.plus \cup c.r.plus : Held(o, x) = 0

(* Who signs a hash signs the values that are hashed. An outcome is a call *)
(* that was not rejected so far; waived is that a zero was let pass.       *)
Content(o, x) ==
  IF x.base \in State THEN {<<x.base, Held(o, x)>>} ELSE o.env[x.base].of
Bind(sym, value) == [is |-> value, of |-> {<<sym, value>>}]
Store(o, s) ==
  LET value == Worth(o, s.from)
      hashed == UNION {Content(o, x) : x \in s.from.plus}
  IN  CASE s.hashed -> {[o EXCEPT !.env[s.to.base] = [is |-> 0, of |-> hashed]]}
        [] ~s.hashed /\ value < 0 -> {}
        [] OTHER -> IF s.to.base \in State THEN {[o EXCEPT !.store[CellAt(o.env, s.to)] = value]}
                    ELSE {[o EXCEPT !.env[s.to.base] = Bind(s.to.base, value)]}

RECURSIVE Perform(_, _, _, _), PerformAll(_, _, _)
Passed(o, sym, side) ==
  IF Cardinality(side.plus) = 1 /\ side = [NoTerms EXCEPT !.plus = side.plus]
  THEN [is |-> Worth(o, side), of |-> UNION {Content(o, x) : x \in side.plus}]
  ELSE Bind(sym, Worth(o, side))
Enter(p, f, i, o) ==
  LET g == sites[f][i]
      params == p.facts[g].params
      given(sym) == {k \in DOMAIN params \cap DOMAIN Body(p, f)[i].args : params[k] = sym}
      inner == [sym \in DOMAIN o.env |->
                  IF sym = Caller THEN o.env[sym]
                  ELSE IF given(sym) = {} THEN Bind(sym, 0)
                  ELSE Passed(o, sym, Body(p, f)[i].args[CHOOSE k \in given(sym) : TRUE])]
  IN  IF o.depth = Deepest THEN {}
      ELSE {[x EXCEPT !.env = o.env, !.depth = o.depth] :
              x \in PerformAll(p, g, [o EXCEPT !.env = inner, !.depth = @ + 1])}
Perform(p, f, i, o) ==
  LET s == Body(p, f)[i]
  IN  CASE s.op = "check" ->
             (IF Accepts(o, s) \/ s.unless = "anything" \/ s.conditional THEN {o} ELSE {})
               \cup (IF s.unless = "zero" /\ HasZero(o, s.test) THEN {[o EXCEPT !.waived = TRUE]} ELSE {})
        [] s.op = "assign" -> Store(o, s)
        [] s.op = "verify" -> {[o EXCEPT !.signed = @ \cup {UNION {Content(o, x) : x \in s.hashes}}]}
        [] s.op = "call" ->
             IF i \notin DOMAIN sites[f] THEN {o}
             ELSE Enter(p, f, i, o) \cup (IF s.conditional THEN {o} ELSE {})
PerformAll(p, f, o) ==
  FoldLeftDomain(LAMBDA os, i : UNION {Perform(p, f, i, x) : x \in os}, {o}, Body(p, f))

(* The worlds of a late call: who called with the latest signature before  *)
(* wrote what the entry point writes for account 0, settings are small,    *)
(* and other state is anything.                                            *)
ReachedFrom(p, f) ==
  LET reached[n \in 0..Cardinality(p.fns)] ==
        IF n = 0 THEN {f} ELSE reached[n - 1] \cup UNION {Range(sites[g]) : g \in reached[n - 1]}
  IN  reached[Cardinality(p.fns)]
AllOps(p, f, op) == UNION {Ops(p, g, op) : g \in ReachedFrom(p, f)}
Written(p, f) == {s.to.base : s \in AllOps(p, f, "assign")} \cap State
StateRead(p, f) ==
  UNION ({{x.base : x \in s.test.l.plus \cup s.test.l.minus \cup s.test.r.plus \cup s.test.r.minus} :
            s \in AllOps(p, f, "check")}
           \cup {{x.base : x \in s.from.plus \cup s.from.minus} : s \in AllOps(p, f, "assign")}
           \cup {{x.base : x \in s.hashes} : s \in AllOps(p, f, "verify")}) \cap State

Amounts(sym) == IF sym \in Parties THEN {0, 1} ELSE {m * Scale(Unit[sym]) : m \in {0, 1, Late}}
Chosen(syms) ==
  {v \in [syms -> UNION {Amounts(sym) : sym \in syms}] : \A sym \in syms : v[sym] \in Amounts(sym)}
LateStores(p, f) ==
  LET advanced(cell) == IF cell[2] = 1 THEN 0 ELSE Late * Scale(Unit[cell[1]])
      others == StateRead(p, f) \ (Written(p, f) \cup Settings)
  IN  {[cell \in TimedCells |->
          CASE cell[1] \in Settings -> Scale(Unit[cell[1]])
            [] cell[1] \in Written(p, f) -> advanced(cell)
            [] cell[1] \in others -> v[cell[1]]
            [] OTHER -> 0] : v \in Chosen(others)}
LateCalls(p, f) ==
  UNION {PerformAll(p, f, [env |-> [sym \in Symbols |-> Bind(sym, IF sym \in DOMAIN v THEN v[sym] ELSE 0)],
                           store |-> store, signed |-> {}, waived |-> FALSE, depth |-> 0]) :
           v \in Chosen(ToSet(p.facts[f].params)), store \in LateStores(p, f)}

(* A signature is early when it names no late moment, and is of account 0. *)
IsEarly(content) ==
  \A v \in content : IF v[1] \in Parties THEN v[2] = 0 ELSE v[2] < Late * Scale(Unit[v[1]])
IsStaleCall(o) == o.signed # {} /\ ~o.waived /\ \A content \in o.signed : IsEarly(content)
===============================================================================
