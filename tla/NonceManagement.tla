---------------------------- MODULE NonceManagement ----------------------------
(***************************************************************************)
(* detect/high/nonce_management.rs: entry points whose signatures are not  *)
(* spent, or can be unspent.                                               *)
(*                                                                         *)
(* A body is the statements the detector finds in a text, in their order,  *)
(* with names of locals already expanded. An expression is the sum of some *)
(* symbols and 0 or 1, a slot a mapping and its keys or a plain variable.  *)
(***************************************************************************)
EXTENDS SignatureModels

CONSTANTS
  AuthRounds,    \* 6 in the code
  NestedRounds,  \* 2 in the code
  ReturnDepth,   \* 3 in the code
  Bases,         \* names of state
  Hinted,        \* symbols that sound like a nonce, like a cancellation,
  Cancelling,    \* and like a hash
  Hashes

Exprs == [of : SUBSET Symbols, plus : 0..1]
Slots == [base : Bases, keys : Seq(Symbols)]
Zero == [of |-> {}, plus |-> 0]

GuardKinds == {"equality", "greater", "clear", "bit clear", "is set", "other"}
WriteKinds == {"assign", "add", "subtract", "or", "xor", "and", "increment", "decrement", "delete"}

(* The value of a check is the candidate, or the mask of a bit; a check is *)
(* ahead when it is of the slot + 1. A write is inside the body of the if  *)
(* that made the check before it, inside another branch, or inside the     *)
(* expression of a digest.                                                 *)
Checks == [op : {"check"}, kind : GuardKinds, slot : Slots, value : Exprs,
           ahead : BOOLEAN, lossy : BOOLEAN, bypassable : BOOLEAN]
Writes == [op : {"write"}, kind : WriteKinds, slot : Slots, value : Exprs,
           inside : {"nothing", "guard", "branch", "digest"}]
Verifications == [op : {"verify"}, digest : SUBSET Symbols, counters : SUBSET Slots,
                  principal : Symbols \cup {NoKey}]
Calls == [op : {"call"}, refers : Fns \cup {NoFn}, by : STRING, member : BOOLEAN,
          args : Seq(Symbols), principal : Symbols \cup {NoKey},
          orElse : BOOLEAN, conditional : BOOLEAN, compared : SUBSET Symbols]
Others ==
  [op : {"outside"}, reverts : BOOLEAN]                          \* calls, transfers
    \cup [op : {"leave"}]                                        \* if (..) return;
    \cup [op : {"caller"}, is : Symbols]                         \* require(is == msg.sender)
    \cup [op : {"equate"}, local : Symbols, other : SUBSET Symbols]  \* require(local == hash(other))
    \cup [op : {"prove"}, slot : Slots, mask : Symbols]          \* the bit is set after an xor
Statements == Checks \cup Writes \cup Verifications \cup Calls \cup Others

(* Facts of a whole function.                                              *)
NonceFacts ==
  [params : Seq(Symbols), signatures : Nat, returns : SUBSET Symbols,
   isView : BOOLEAN, isPure : BOOLEAN, onlySelf : BOOLEAN, effects : BOOLEAN,
   unchecked : BOOLEAN, narrow : SUBSET Symbols]

(* The calls that lead to a function: position -> callee.                  *)
ResolvedCalls(p, f) ==
  LET leads == {i \in At(p, f, "call") : Callee(p, f, Body(p, f)[i]) # NoFn}
  IN  [i \in leads |-> Callee(p, f, Body(p, f)[i])]
CallsAt(f) == DOMAIN sites[f]
Target(f, i) == sites[f][i]
CalleesIn(f) == Range(sites[f])
NearBy(f, n) ==
  LET near[k \in 0..n] ==
        IF k = 0 THEN {f} ELSE near[k - 1] \cup UNION {CalleesIn(g) : g \in near[k - 1]}
  IN  near[n]

-------------------------------------------------------------------------------
(* What is signed: analyze_direct_auth                                     *)

NoAuth == [verifies |-> FALSE, count |-> 0, roots |-> {}, principals |-> {}, digests |-> {}]
Capped(n) == IF n > 8 THEN 8 ELSE n

RootsOf(v) ==
  v.digest \cup UNION {{slot.base} \cup ToSet(slot.keys) : slot \in v.counters}
DirectAuth(p, f) ==
  LET vs == {Body(p, f)[i] : i \in At(p, f, "verify")}
      principals == {v.principal : v \in vs} \ {NoKey}
  IN  [ verifies |-> vs # {}, count |-> Capped(Cardinality(At(p, f, "verify"))),
        roots |-> UNION {RootsOf(v) : v \in vs} \cup principals,
        principals |-> principals, digests |-> {RootsOf(v) : v \in vs} ]

(* A parameter of the callee is the argument of the call; other names are  *)
(* names of state, and stay.                                               *)
Substitute(p, f, i, sym) ==
  LET call == Body(p, f)[i]
      params == p.facts[Target(f, i)].params
      at == {k \in DOMAIN params \cap DOMAIN call.args : params[k] = sym}
  IN  IF at = {} THEN sym ELSE call.args[CHOOSE k \in at : TRUE]
SubstituteAll(p, f, i, syms) == {Substitute(p, f, i, sym) : sym \in syms}

(* What a call returns, with what the callee's own calls return.           *)
RECURSIVE Returned(_, _, _, _)
Returned(p, f, i, depth) ==
  LET g == Target(f, i)
      inner == IF depth = 1 THEN {}
               ELSE {j \in CallsAt(g) : p.named[Target(g, j)] \in p.facts[g].returns}
  IN  SubstituteAll(p, f, i, p.facts[g].returns \cup UNION {Returned(p, g, j, depth - 1) : j \in inner})
WithHelperReturns(p, f, auth) ==
  [auth EXCEPT !.roots = @ \cup
     UNION {Returned(p, f, i, ReturnDepth) : i \in {j \in CallsAt(f) : p.named[Target(f, j)] \in @}}]

-------------------------------------------------------------------------------
(* propagate_auth_summaries                                                *)

(* One call verifies at most the signatures it is given.                   *)
SignaturesPerCall(p, g, recoveries) ==
  LET given == p.facts[g].signatures
  IN  IF given = 0 \/ recoveries < given THEN recoveries ELSE given

ThroughCall(p, f, i, auth) ==
  LET callee == summaries[Target(f, i)]
      signer == {Body(p, f)[i].principal} \ {NoKey}
  IN  [ verifies |-> TRUE,
        count |-> IF Body(p, f)[i].orElse THEN auth.count
                  ELSE Capped(auth.count + SignaturesPerCall(p, Target(f, i), callee.count)),
        roots |-> auth.roots \cup SubstituteAll(p, f, i, callee.roots) \cup signer,
        principals |-> auth.principals \cup SubstituteAll(p, f, i, callee.principals) \cup signer,
        digests |-> auth.digests \cup {SubstituteAll(p, f, i, d) : d \in callee.digests} ]
NextAuth(p, f) ==
  FoldLeftDomain(LAMBDA auth, i : IF i \in CallsAt(f) /\ summaries[Target(f, i)].verifies
                                  THEN ThroughCall(p, f, i, auth) ELSE auth,
                 WithHelperReturns(p, f, DirectAuth(p, f)), Body(p, f))

InitNonces ==
  /\ project.detector = "nonces"
  /\ phase = "propagate" /\ round = 0
  /\ sites = [f \in project.fns |-> ResolvedCalls(project, f)] /\ helpers = <<>>
  /\ summaries = [f \in project.fns |-> WithHelperReturns(project, f, DirectAuth(project, f))]
  /\ left = EntryFns(project) /\ stack = <<>> /\ visited = {} /\ vulnerable = {}

PropagateAuth ==
  /\ phase = "propagate" /\ round < AuthRounds
  /\ summaries' = [f \in project.fns |-> NextAuth(project, f)]
  /\ round' = round + 1
  /\ phase' = IF summaries' = summaries \/ round' = AuthRounds THEN "helpers" ELSE phase
  /\ UNCHANGED <<name, project, sites, helpers, left, stack, visited, vulnerable>>

Signs(auth, syms) == syms \cap (auth.roots \cup auth.principals) # {}
KeyIsSigned(auth, slot) == ToSet(slot.keys) \subseteq auth.roots \cup auth.principals

(* with_equality_binding: what is hashed to a signed value is signed;      *)
(* with_sender_binding: so is a caller who must be a signed account.       *)
WithEqualities(p, f, auth) ==
  LET equated == {Body(p, f)[i] : i \in At(p, f, "equate")}
  IN  [auth EXCEPT !.roots = @ \cup
         UNION {s.other : s \in {x \in equated : x.local \in auth.roots \ auth.principals}}]
WithSender(p, f, auth) ==
  IF \E i \in At(p, f, "caller") : Body(p, f)[i].is \in auth.roots
  THEN [auth EXCEPT !.roots = @ \cup {"sender"}] ELSE auth
EntryAuth(p, f) == WithSender(p, f, WithEqualities(p, f, WithHelperReturns(p, f, summaries[f])))

-------------------------------------------------------------------------------
(* Guards: collect_guards, append_instantiated_helper_guards               *)

Candidate(g) == IF g.kind \in {"clear", "bit clear"} THEN {} ELSE g.value.of
IsSignedGuard(auth, g) ==
  /\ KeyIsSigned(auth, g.slot)
  /\ g.kind \notin {"clear", "is set"} => Signs(auth, g.value.of)
GuardAt(s, i) ==
  [kind |-> s.kind, slot |-> s.slot, value |-> s.value, ahead |-> s.ahead,
   lossy |-> s.lossy, bypassable |-> s.bypassable, pos |-> i, own |-> TRUE]
OwnGuards(p, f) == {GuardAt(Body(p, f)[i], i) : i \in At(p, f, "check")}

(* A fact of a callee, said with the arguments, is where the call is.      *)
Instantiate(p, f, i, fact) ==
  [fact EXCEPT !.slot.keys = [k \in DOMAIN @ |-> Substitute(p, f, i, @[k])],
               !.value.of = SubstituteAll(p, f, i, @), !.pos = i, !.own = FALSE]
HelperGuards(p, f) ==
  UNION {{Instantiate(p, f, i, g) : g \in OwnGuards(p, Target(f, i))} :
           i \in {j \in CallsAt(f) : ~p.facts[Target(f, j)].isPure}}
AllGuards(p, f) == OwnGuards(p, f) \cup HelperGuards(p, f)
IsSignedHere(auth, g) == IsSignedGuard(auth, g) /\ (~g.own => g.kind \notin {"is set", "other"})

-------------------------------------------------------------------------------
(* Writes, in the order they are collected: collect_writes,                *)
(* build_state_helper_summaries, append_instantiated_helper_writes         *)

WriteAt(s, i) ==
  [kind |-> s.kind, slot |-> s.slot, value |-> s.value, pos |-> i, own |-> TRUE,
   conditional |-> s.inside # "nothing", inside |-> s.inside]
SameWrite(a, b) == a.pos = b.pos /\ a.slot = b.slot /\ a.kind = b.kind /\ a.value = b.value
AddUnique(ws, w) == IF \E k \in DOMAIN ws : SameWrite(ws[k], w) THEN ws ELSE Append(ws, w)
OwnWrites(p, f) ==
  FoldLeftDomain(LAMBDA ws, i : IF i \in At(p, f, "write") THEN AddUnique(ws, WriteAt(Body(p, f)[i], i)) ELSE ws,
                 <<>>, Body(p, f))

(* write_in_body_of_guard_if: the if is the last check before the write.   *)
InBodyOf(p, f, g, w) ==
  /\ g.own /\ w.own /\ w.inside = "guard"
  /\ g.pos < w.pos /\ ~\E j \in At(p, f, "check") : g.pos < j /\ j < w.pos

(* A helper's write is not conditional in the body of the helper's own if. *)
SummaryWrites(p, g) ==
  [k \in DOMAIN OwnWrites(p, g) |->
     LET w == OwnWrites(p, g)[k]
     IN  IF \E c \in OwnGuards(p, g) : c.slot = w.slot /\ InBodyOf(p, g, c, w)
         THEN [w EXCEPT !.conditional = FALSE] ELSE w]

(* The plain stores of the helpers of a helper are added, NestedRounds     *)
(* times.                                                                  *)
WithNested(p, g, writes) ==
  FoldLeftDomain(
    LAMBDA ws, i :
      IF i \notin CallsAt(g) THEN ws
      ELSE FoldLeft(LAMBDA acc, w :
                      IF w.kind # "assign" THEN acc
                      ELSE AddUnique(acc, [Instantiate(p, g, i, w) EXCEPT
                                             !.conditional = @ \/ Body(p, g)[i].conditional]),
                    ws, writes[Target(g, i)]),
    writes[g], Body(p, g))
HelperWrites(p) ==
  LET after[n \in 0..NestedRounds] ==
        IF n = 0 THEN [g \in p.fns |-> SummaryWrites(p, g)]
        ELSE [g \in p.fns |-> WithNested(p, g, after[n - 1])]
  IN  after[NestedRounds]

SummarizeHelpers ==
  /\ phase = "helpers"
  /\ helpers' = HelperWrites(project)
  /\ phase' = "assess"
  /\ UNCHANGED <<name, project, round, sites, summaries, left, stack, visited, vulnerable>>

AllWrites(p, f) ==
  FoldLeftDomain(
    LAMBDA ws, i :
      IF i \notin CallsAt(f) THEN ws
      ELSE FoldLeft(LAMBDA acc, w : AddUnique(acc, Instantiate(p, f, i, w)),
                    ws, helpers[Target(f, i)]),
    OwnWrites(p, f), Body(p, f))

IsOf(w, g) == w.pos >= g.pos /\ w.slot = g.slot
FirstOf(ws, g) == SelectInSeq(ws, LAMBDA w : IsOf(w, g))
LastOf(ws, g) == SelectLastInSeq(ws, LAMBDA w : IsOf(w, g))

-------------------------------------------------------------------------------
(* write_is_effective_for_guard                                            *)

LeavesBetween(p, f, g, w) == \E i \in At(p, f, "leave") : g.pos < i /\ i < w.pos
ProvenXor(p, f, auth) == \E i \in At(p, f, "prove") : Signs(auth, {Body(p, f)[i].mask})

AdvancesEquality(g, w) ==
  \/ w.kind = "increment"
  \/ w.kind = "add" /\ w.value # Zero
  \/ /\ w.kind = "assign"
     /\ IF w.value = g.value THEN g.ahead
        ELSE w.value.plus > 0 /\ (g.value.of \subseteq w.value.of \/ g.slot.base \in w.value.of)
AdvancesSequence(g, w) ==
  \/ w.kind \in {"increment", "add"}
  \/ w.kind = "assign" /\ g.value.of \subseteq w.value.of /\ w.value.plus >= g.value.plus
IsEffective(p, f, auth, g, w) ==
  /\ ~w.conditional \/ InBodyOf(p, f, g, w)
  /\ ~LeavesBetween(p, f, g, w)
  /\ CASE g.kind = "equality" -> AdvancesEquality(g, w)
       [] g.kind = "greater" -> AdvancesSequence(g, w)
       [] g.kind = "clear" -> w.kind = "or" \/ (w.kind = "assign" /\ w.value # Zero)
       [] g.kind = "bit clear" ->
            \/ w.kind \in {"or", "xor"} /\ w.value = g.value
            \/ w.kind = "xor" /\ ProvenXor(p, f, auth)
       [] OTHER -> FALSE

(* counter_write_advances, write_is_digest_bound_counter                   *)
CounterAdvances(w) ==
  \/ w.kind = "increment"
  \/ w.kind = "add" /\ w.value # Zero
  \/ w.kind = "assign" /\ w.slot.base \in w.value.of /\ w.value.plus > 0
IsInExpression(p, f, w) ==
  IF w.own THEN w.inside = "digest"
  ELSE LET call == Body(p, f)[w.pos]
       IN  call.compared # {} \/ \E i \in At(p, f, "verify") : call.by \in Body(p, f)[i].digest
IsDigestBound(p, f, auth, ws, w) ==
  /\ ~w.conditional \/ (w.kind = "increment" /\ IsInExpression(p, f, w))
  /\ CounterAdvances(w)
  /\ w.slot.base \in auth.roots /\ KeyIsSigned(auth, w.slot)
  /\ CounterAdvances(ws[SelectLastInSeq(ws, LAMBDA x : x.slot = w.slot)])

(* A helper that returns a counter and advances it, compared with a signed *)
(* value.                                                                  *)
ComparedSlots(p, f, auth) ==
  LET counterAt(i) ==
        SelectInSeq(helpers[Target(f, i)], LAMBDA w : ~w.conditional /\ CounterAdvances(w))
      used == {i \in CallsAt(f) : counterAt(i) > 0 /\ Signs(auth, Body(p, f)[i].compared)}
      slots == {Instantiate(p, f, i, helpers[Target(f, i)][counterAt(i)]).slot : i \in used}
  IN  {slot \in slots : KeyIsSigned(auth, slot)}

LooksLikeNonce(auth, w) ==
  \/ w.slot.base \in Hinted
  \/ w.kind \in {"or", "xor", "and", "delete"} /\ KeyIsSigned(auth, w.slot)
  \/ w.kind = "assign" /\ Signs(auth, w.value.of) /\
       (w.value.of \cap Hinted # {} \/ (w.value.plus > 0 /\ KeyIsSigned(auth, w.slot)))
IsHinted(g) == g.slot.base \in Hinted \/ Candidate(g) \cap Hinted # {}
IsNonceLike(g) == IsHinted(g) \/ g.kind \in {"clear", "bit clear"}

-------------------------------------------------------------------------------
(* guard_can_be_external_version_gate: another entry point advances it.    *)

Siblings(p, f) == {h \in EntryFns(p) \ {f} : p.scope[h] = p.scope[f]}
IsMonotonicWrite(p, h, w) ==
  \E g \in OwnGuards(p, h) : g.kind = "greater" /\ g.slot = w.slot /\ g.value = w.value
IsSelfService(auth, guarded, mutated) ==
  /\ Len(guarded.keys) = Len(mutated.keys)
  /\ \A k \in DOMAIN guarded.keys :
       \/ guarded.keys[k] = mutated.keys[k]
       \/ mutated.keys[k] = "sender" /\ Signs(auth, {guarded.keys[k]})
IsVersionGate(p, f, auth, g) ==
  /\ g.kind = "equality" /\ IsSignedHere(auth, g)
  /\ \E h \in Siblings(p, f) : \E w \in ToSet(AllWrites(p, h)) :
       /\ w.slot.base = g.slot.base /\ IsSelfService(auth, g.slot, w.slot)
       /\ w.kind \in {"increment", "add"} \/ (w.kind = "assign" /\ IsMonotonicWrite(p, h, w))

(* has_reverting_external_flow_after_consumption: the consumption is the   *)
(* first write of any guard's slot after it.                               *)
CanRollBack(p, f, gs, ws) ==
  LET consumed == {ws[FirstOf(ws, g)].pos : g \in {x \in gs : FirstOf(ws, x) > 0}}
  IN  /\ consumed # {}
      /\ \E i \in At(p, f, "outside") : i > Min(consumed) /\ Body(p, f)[i].reverts

(* A mark in one direction, with no other effect, cancels something.       *)
IsOneWay(w) ==
  \/ w.kind \in {"increment", "add", "or"}
  \/ w.kind = "assign" /\ w.value = [of |-> {}, plus |-> 1]
CancelsOnly(p, f, ws) ==
  ws # <<>> /\ (\A w \in ToSet(ws) : IsOneWay(w)) /\ ~p.facts[f].effects

(* A narrow signed counter that may wrap.                                  *)
WrapsNarrow(p, f, auth, gs, ws) ==
  /\ p.facts[f].unchecked
  /\ \E sym \in p.facts[f].narrow \cap auth.roots : \E w \in ToSet(ws) :
       /\ w.kind \in {"increment", "add", "assign"}
       /\ LET of == {g \in gs : sym \in Candidate(g)}
          IN  of = {} \/ \E g \in of : (\A h \in of : g.pos <= h.pos) /\ g.slot.base = w.slot.base

-------------------------------------------------------------------------------
(* assess_entry_function                                                   *)

IsSound(auth, g) == ~g.bypassable /\ ~g.lossy /\ IsSignedHere(auth, g)
IsWritten(ws, g) == FirstOf(ws, g) > 0
Works(p, f, auth, ws, g) ==
  /\ IsSound(auth, g)
  /\ IF IsWritten(ws, g) THEN IsEffective(p, f, auth, g, ws[LastOf(ws, g)])
     ELSE IsVersionGate(p, f, auth, g)
Flips(p, f, auth, ws) ==
  ProvenXor(p, f, auth) /\ \E w \in ToSet(ws) : w.kind = "xor" /\ KeyIsSigned(auth, w.slot)
Guarding(auth, gs, ws) ==
  {g \in gs : IsSignedHere(auth, g) /\ (IsWritten(ws, g) \/ (IsNonceLike(g) /\ g.slot.keys # <<>>))}
SlotsOf(gs) == {g.slot : g \in gs}
BoundSlots(p, f, auth, ws) == SlotsOf({w \in ToSet(ws) : IsDigestBound(p, f, auth, ws, w)})
SharesIdentity(gs, ws) ==
  \E g \in gs : g.kind = "clear" /\ ToSet(g.slot.keys) \cap Hashes # {} /\ g.slot \in SlotsOf(ToSet(ws))
IsIneffective(auth, ws, effective, g) ==
  /\ ~IsSound(auth, g)
  /\ IsHinted(g) \/ (g.kind \in {"clear", "bit clear"} /\ IsWritten(ws, g) /\ effective = 0)

Judgement(p, f, auth, gs, ws, guards, compared, bound, looks, effective) ==
  [ effective |-> effective,
    activity |-> effective > 0 \/ looks \/ \E g \in gs : IsNonceLike(g),
    suspicious |->
      \/ /\ auth.count > 1 /\ effective < auth.count
         /\ ~SharesIdentity(gs, ws) /\ ~(effective > 0 /\ Cardinality(auth.digests) = 1)
      \/ \E g \in gs : IsIneffective(auth, ws, effective, g)
      \/ effective = 0 /\ \E g \in gs : IsSignedHere(auth, g) \/ IsHinted(g)
      \/ effective = 0 /\ looks /\ ~CancelsOnly(p, f, ws)
      \/ effective > 0 /\ WrapsNarrow(p, f, auth, gs, ws),
    rollback |-> effective > 0 /\ CanRollBack(p, f, gs, ws),
    guarded |-> SlotsOf(guards) \cup compared \cup bound,
    consumed |-> SlotsOf({g \in guards : IsWritten(ws, g)}) \cup compared \cup bound,
    cleared |-> {slot.base : slot \in SlotsOf({g \in guards : g.kind = "clear"})} ]

Counted(p, f, auth, gs, ws, guards, compared, bound) ==
  Judgement(p, f, auth, gs, ws, guards, compared, bound,
            \E w \in ToSet(ws) : LooksLikeNonce(auth, w),
            Cardinality({g \in gs : Works(p, f, auth, ws, g)})
              + (IF Flips(p, f, auth, ws) THEN 1 ELSE 0) + Cardinality(compared) + Cardinality(bound))
Weighed(p, f, auth, gs, ws, guards) ==
  Counted(p, f, auth, gs, ws, guards, ComparedSlots(p, f, auth) \ SlotsOf(guards), BoundSlots(p, f, auth, ws))
Found(p, f, auth, gs, ws) == Weighed(p, f, auth, gs, ws, Guarding(auth, gs, ws))
Assessment(p, f) == Found(p, f, EntryAuth(p, f), AllGuards(p, f), AllWrites(p, f))

-------------------------------------------------------------------------------
(* has_dangerous_cross_function_mutation                                   *)

NamesIn(s) ==
  CASE s.op \in {"check", "write"} -> {s.slot.base} \cup s.value.of
    [] s.op = "verify" -> RootsOf(s)
    [] OTHER -> {}
Reads(p, f, base) ==
  \E g \in NearBy(f, 4) : \E i \in DOMAIN Body(p, g) : base \in NamesIn(Body(p, g)[i])
IsDisconnected(p, f, w) ==
  /\ w.slot.base \in Cancelling /\ KeyIsSigned(summaries[f], w.slot)
  /\ ~Reads(p, f, w.slot.base)

(* mutation_is_reversible_or_decreasing                                    *)
MovesForward(w) == w.slot.base \in w.value.of /\ w.value.plus > 0
(* Mutant: counting down is overlooked.                                    *)
IsReversibleButDown(p, h, w) ==
  \/ w.kind \in {"delete", "and"}
  \/ w.kind = "assign" /\ w.value = Zero
IsReversible(p, h, w) ==
  \/ w.kind \in {"delete", "subtract", "decrement", "and"}
  \/ w.kind = "xor" /\ ~ProvenXor(p, h, summaries[h])
  \/ w.kind = "assign" /\ w.value = Zero
  \/ /\ w.kind = "assign" /\ ~MovesForward(w)
     /\ \/ w.value.of \cap ToSet(p.facts[h].params) # {} /\ ~IsMonotonicWrite(p, h, w)
        \/ w.value.of \cap (Bases \ {w.slot.base}) # {}

(* Amounts the entry itself decreases, and marks that are only set again,  *)
(* are left out.                                                           *)
Decreases(p, f) ==
  {w.slot.base : w \in {x \in ToSet(OwnWrites(p, f)) : x.kind \in {"subtract", "decrement"}}}
Revives(p, f, a, h, w) ==
  /\ ~(w.kind \in {"subtract", "decrement"} /\ w.slot.base \in Decreases(p, f))
  /\ ~(w.kind = "assign" /\ w.value # Zero /\ w.slot.base \in a.cleared)
  /\ IsReversible(p, h, w)
OtherWrites(p, f) == UNION {{h} \X ToSet(AllWrites(p, h)) : h \in Siblings(p, f)}
IsEndangered(p, f, a, others, revived) ==
  /\ a.guarded # {}
  /\ \/ \E w \in others : IsDisconnected(p, f, w[2])
     \/ IF a.consumed = {} THEN \E slot \in a.guarded : slot.base \in revived
        ELSE \A slot \in a.consumed : slot.base \in revived
HasDangerousMutationBy(p, f, a, others) ==
  IsEndangered(p, f, a, others, {w[2].slot.base : w \in {x \in others : Revives(p, f, a, x[1], x[2])}})
HasDangerousMutation(p, f, a) == HasDangerousMutationBy(p, f, a, OtherWrites(p, f))

-------------------------------------------------------------------------------
(* detect                                                                  *)

(* self_call_only: only the contract itself calls it.                      *)
IsSelfCallOnly(p, f) ==
  p.facts[f].onlySelf \/ \E g \in CalleesIn(f) : p.facts[g].onlySelf /\ ~p.entry[g]
IsAssessed(p, f) == summaries[f].verifies /\ ~p.facts[f].isView /\ ~IsSelfCallOnly(p, f)
IsReplayable(p, f, a) ==
  a.activity /\ (a.suspicious \/ a.rollback \/ HasDangerousMutation(p, f, a))
Report(p, found) ==
  /\ vulnerable' = {f \in DOMAIN found : IsReplayable(p, f, found[f])}
  /\ left' = {f \in DOMAIN found \ vulnerable' : found[f].effective > 0}

(* What is left are the entry points found to spend their signatures.      *)
Assess ==
  /\ phase = "assess"
  /\ Report(project, [f \in {x \in EntryFns(project) : IsAssessed(project, x)} |-> Assessment(project, f)])
  /\ phase' = "done"
  /\ UNCHANGED <<name, project, round, sites, summaries, helpers, stack, visited>>

NextNonces == project.detector = "nonces" /\ (PropagateAuth \/ SummarizeHelpers \/ Assess)
===============================================================================
