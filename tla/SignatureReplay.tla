---------------------------- MODULE SignatureReplay ----------------------------
(***************************************************************************)
(* detect/high/signature_replay.rs: entry points that act on a signature   *)
(* without spending it, spend it under a name that is not signed, or share *)
(* it with an entry point or a contract that does not know it is spent.    *)
(*                                                                         *)
(* Bodies are those of NonceManagement, with two more statements; what     *)
(* this detector reads in them differs.                                    *)
(***************************************************************************)
EXTENDS NonceManagement

CONSTANTS
  GateRounds,    \* 12 in the code
  InlineDepth,   \* 4 in the code
  Contract       \* what names the contract in a digest: address(this), a domain separator

Asks == [op : {"ask"}, refers : Fns \cup {NoFn}, by : STRING, args : Seq(Symbols), negated : BOOLEAN]
Elsewheres == [op : {"elsewhere"}, args : SUBSET Symbols]   \* holder.setNonce(args)
(* What a function that is asked returns: a slot, or nothing.              *)
ReplayFacts == [returned : SUBSET Slots]

-------------------------------------------------------------------------------
(* build_models. The calls of a function are listed in the order of a      *)
(* HashMap.                                                                *)

Leads(p, f) ==
  {i \in At(p, f, "ask") \cup {j \in At(p, f, "call") : ~Body(p, f)[j].member} :
     ResolveIdentifier(p, f, Body(p, f)[i]) # NoFn}
Listings(p) ==
  {lists \in [p.fns -> UNION {SetToSeqs(Leads(p, f)) : f \in p.fns}] :
     \A f \in p.fns : lists[f] \in SetToSeqs(Leads(p, f))}
Gate(p, f) ==
  [ gated |-> At(p, f, "verify") # {},
    roots |-> {RootsOf(Body(p, f)[i]) : i \in At(p, f, "verify")} ]

InitReplay ==
  /\ project.detector = "replay"
  /\ phase = "gate" /\ round = 0
  /\ sites = [f \in project.fns |-> [i \in Leads(project, f) |-> Body(project, f)[i].refers]]
  /\ helpers \in Listings(project)
  /\ summaries = [f \in project.fns |-> Gate(project, f)]
  /\ left = EntryFns(project) /\ stack = <<>> /\ visited = {} /\ vulnerable = {}

-------------------------------------------------------------------------------
(* propagate_signature_gates, until nothing changes                        *)

CallsGated(f) == \E g \in CalleesIn(f) : summaries[g].gated
GateCaller(f) ==
  /\ phase = "gate" /\ ~summaries[f].gated /\ CallsGated(f)
  /\ summaries' = [summaries EXCEPT ![f].gated = TRUE]
  /\ UNCHANGED <<name, project, phase, round, sites, helpers, left, stack, visited, vulnerable>>
EndGates ==
  /\ phase = "gate" /\ \A f \in project.fns : CallsGated(f) => summaries[f].gated
  /\ phase' = "propagate"
  /\ UNCHANGED <<name, project, round, sites, summaries, helpers, left, stack, visited, vulnerable>>

(* populate_interprocedural_auth_roots: an argument for a signed parameter *)
(* is signed.                                                              *)
SignedNames(f) == UNION summaries[f].roots
ArgAt(p, f, i, k) == Body(p, f)[i].args[k]
GivenAt(p, f, i) == DOMAIN p.facts[Target(f, i)].params \cap DOMAIN Body(p, f)[i].args
RootsThrough(p, f, i) ==
  LET g == Target(f, i)
  IN  {{ArgAt(p, f, i, k)} : k \in {j \in GivenAt(p, f, i) : p.facts[g].params[j] \in SignedNames(g)}}
NextRoots(p, f) ==
  [summaries[f] EXCEPT !.roots =
     @ \cup UNION {RootsThrough(p, f, i) : i \in {j \in CallsAt(f) : summaries[Target(f, j)].gated}}]
PropagateRoots ==
  /\ phase = "propagate" /\ round < GateRounds
  /\ summaries' = [f \in project.fns |-> NextRoots(project, f)]
  /\ round' = round + 1
  /\ phase' = IF summaries' = summaries \/ round' = GateRounds THEN "assess" ELSE phase
  /\ UNCHANGED <<name, project, sites, helpers, left, stack, visited, vulnerable>>

-------------------------------------------------------------------------------
(* collect_guards, parse_guard. An equality with more behind it is another *)
(* text, and a mark that is clear, or else, is still a mark that is clear. *)

ReadAs(s) ==
  CASE s.bypassable /\ s.kind = "is set" -> "other"
    [] s.bypassable /\ s.kind = "bit clear" -> "equality"
    [] OTHER -> s.kind
ReadGuard(s) ==
  [slot |-> s.slot, kind |-> ReadAs(s), value |-> s.value, exact |-> ~s.lossy /\ ~s.bypassable]
IsSet(slot) == [slot |-> slot, kind |-> "is set", value |-> Zero, exact |-> TRUE]
(* require(value == helper(..)): the helper's name stands for a slot.      *)
NamedSlot(by) == [base |-> by, keys |-> <<>>]
ComparedWith(s) ==
  [slot |-> NamedSlot(s.by), kind |-> "equality", value |-> [of |-> s.compared, plus |-> 0], exact |-> TRUE]
ReadGuards(p, f) ==
  {ReadGuard(Body(p, f)[i]) : i \in At(p, f, "check")}
    \cup {IsSet(Body(p, f)[i].slot) : i \in At(p, f, "prove")}
    \cup {ComparedWith(Body(p, f)[i]) : i \in {j \in At(p, f, "call") : Body(p, f)[j].compared # {}}}

(* collect_writes: of the operators, = is found in -=, ^= and &=, too, and *)
(* -- is not looked for.                                                   *)
ReadWrite(s) ==
  [ slot |-> s.slot, value |-> IF s.kind = "increment" THEN [of |-> {}, plus |-> 1] ELSE s.value,
    kind |-> IF s.kind \in {"subtract", "xor", "and"} THEN "assign" ELSE s.kind,
    conditional |-> s.inside \in {"guard", "branch"} ]
ReadWrites(p, f) ==
  LET read == SelectSeq(Body(p, f), LAMBDA s : s.op = "write" /\ s.kind # "decrement")
  IN  [k \in DOMAIN read |-> ReadWrite(read[k])]

(* write_advances_counter                                                  *)
IsFromItself(w) == w.slot.base \in w.value.of /\ w.value.plus + Cardinality(w.value.of) > 1
Advances(w) ==
  \/ w.kind = "increment"
  \/ w.kind = "add" /\ w.value # Zero
  \/ w.kind = "assign" /\ IsFromItself(w)

(* write_invalidates_guard                                                 *)
Itself(slot) == [of |-> {slot.base}, plus |-> 0]
Successor(e) == [e EXCEPT !.plus = @ + 1]
(* Mutant: whatever is stored spends what was compared.                    *)
InvalidatesIfStored(g, w) == ~w.conditional /\ w.slot = g.slot /\ g.kind # "other" /\ w.value # Zero
Invalidates(g, w) ==
  /\ ~w.conditional /\ w.slot = g.slot
  /\ CASE g.kind = "clear" ->
            w.kind \in {"assign", "or", "increment", "add"} /\ w.value # Zero
              /\ (w.kind = "assign" => w.value # Itself(g.slot))
       [] g.kind = "is set" -> w.kind = "delete" \/ (w.kind = "assign" /\ w.value = Zero)
       [] g.kind = "equality" ->
            \/ w.kind = "increment" \/ (w.kind = "add" /\ w.value # Zero)
            \/ w.kind = "assign" /\ ((g.exact /\ w.value = Successor(g.value)) \/ IsFromItself(w))
       [] g.kind = "greater" -> w.kind = "assign" /\ g.exact /\ w.value = g.value
       [] g.kind = "bit clear" -> w.kind = "or" /\ g.exact /\ w.value = g.value
       [] OTHER -> FALSE
-------------------------------------------------------------------------------
(* analyze_entry, inline_helper_facts: what a helper of a helper does is   *)
(* said in the names of the first.                                         *)

PutArgs(p, f, i, fact) ==
  [fact EXCEPT !.slot.keys = [k \in DOMAIN @ |-> Substitute(p, f, i, @[k])], !.value.of = SubstituteAll(p, f, i, @)]
SlotThrough(p, f, i, slot) == [slot EXCEPT !.keys = [k \in DOMAIN @ |-> Substitute(p, f, i, @[k])]]
CounterIn(p, g) == SelectInSeq(ReadWrites(p, g), LAMBDA w : ~w.conditional /\ Advances(w))
CountedBy(p, f, i, guards) ==
  LET g == Target(f, i)
      at == CounterIn(p, g)
      slot == SlotThrough(p, f, i, ReadWrites(p, g)[at].slot)
  IN  IF at = 0 THEN guards
      ELSE {IF x.slot = NamedSlot(p.named[g]) THEN [x EXCEPT !.slot = slot] ELSE x : x \in guards}
AskedFor(p, f, i) ==
  LET s == Body(p, f)[i]
      inCondition == s.op = "ask" \/ (s.op = "call" /\ (s.compared # {} \/ s.orElse))
      isClear == s.op = "ask" /\ s.negated
      found == {IsSet(SlotThrough(p, f, i, slot)) : slot \in p.facts[Target(f, i)].returned}
  IN  CASE ~inCondition -> {} [] isClear -> {[x EXCEPT !.kind = "clear"] : x \in found} [] OTHER -> found

(* A recovered signer is signed; one that is compared with a parameter, is *)
(* not recovered into a name.                                              *)
LocalOf(p, f, i) == {Body(p, f)[i].principal} \ (ToSet(p.facts[f].params) \cup {NoKey})
RecoveredIn(p, f) == UNION {LocalOf(p, f, i) : i \in At(p, f, "verify")}
AuthThrough(p, f, i, auth) ==
  LET g == Target(f, i)
      returns == IF p.named[g] \in auth THEN SubstituteAll(p, f, i, p.facts[g].returns) ELSE {}
      receives == IF Body(p, f)[i].op = "call" THEN LocalOf(p, f, i) ELSE {}
      signs == RecoveredIn(p, g) \cup receives \cup SubstituteAll(p, f, i, SignedNames(g))
  IN  auth \cup returns \cup (IF summaries[g].gated THEN signs ELSE {})

IsSensitive(p, f) ==
  ~p.facts[f].isView /\ ~p.facts[f].isPure /\ (p.facts[f].effects \/ ReadWrites(p, f) # <<>>)
OwnFacts(p, f) ==
  [ auth |-> SignedNames(f) \cup RecoveredIn(p, f), guards |-> ReadGuards(p, f), writes |-> ReadWrites(p, f),
    sensitive |-> IsSensitive(p, f) ]
WithCall(p, f, i, facts) ==
  LET g == Target(f, i)
      writes == ReadWrites(p, g)
  IN  [ auth |-> AuthThrough(p, f, i, facts.auth),
        guards |-> CountedBy(p, f, i, facts.guards \cup {PutArgs(p, f, i, x) : x \in ReadGuards(p, g)}) \cup AskedFor(p, f, i),
        writes |-> facts.writes \o [k \in DOMAIN writes |-> PutArgs(p, f, i, writes[k])],
        sensitive |-> facts.sensitive \/ IsSensitive(p, g) ]
RECURSIVE Inlined(_, _, _, _)
Inlined(p, f, depth, facts) ==
  IF depth = 0 THEN facts
  ELSE FoldLeft(LAMBDA all, i : Inlined(p, Target(f, i), depth - 1, WithCall(p, f, i, all)), facts, helpers[f])
AnalyzeEntry(p, f) == Inlined(p, f, InlineDepth, OwnFacts(p, f))

-------------------------------------------------------------------------------
(* What spends a signature: guards of what is signed and written last, and *)
(* counters that are hashed.                                               *)

IsAuthenticated(facts, g) ==
  \/ ToSet(g.slot.keys) \cap facts.auth # {}
  \/ g.kind \in {"equality", "greater", "bit clear"} /\ g.value.of \cap facts.auth # {}
FinalWrite(facts, slot) == SelectLastInSeq(facts.writes, LAMBDA w : w.slot = slot)
IsSpent(facts, g) ==
  FinalWrite(facts, g.slot) > 0 /\ Invalidates(g, facts.writes[FinalWrite(facts, g.slot)])
Spenders(facts) == {g \in facts.guards : IsAuthenticated(facts, g) /\ IsSpent(facts, g)}
DigestBound(facts) ==
  {w \in ToSet(facts.writes) :
     /\ ~w.conditional /\ {w.slot.base} \cup ToSet(w.slot.keys) \subseteq facts.auth
     /\ Advances(w) /\ Advances(facts.writes[FinalWrite(facts, w.slot)])}
SpentSlots(facts) == {g.slot : g \in Spenders(facts)} \cup {w.slot : w \in DigestBound(facts)}
UpdatesElsewhere(p, f, facts) == \E i \in At(p, f, "elsewhere") : Body(p, f)[i].args \cap facts.auth # {}

IsUnspent(p, f, facts) ==
  /\ facts.sensitive /\ SpentSlots(facts) = {}
  /\ ~UpdatesElsewhere(p, f, facts)
IsPartitioned(facts) ==
  \E g \in Spenders(facts) :
    Len(g.slot.keys) >= 2 /\ ToSet(g.slot.keys) \cap facts.auth # {} /\ ~(ToSet(g.slot.keys) \subseteq facts.auth)

(* digest_is_domain_bound: the digest and, two levels deep, the helpers    *)
(* that are named in it, or are given a signed value.                      *)
WordsIn(s) ==
  CASE s.op = "verify" -> RootsOf(s) [] s.op \in {"call", "ask"} -> {s.by} \cup ToSet(s.args)
    [] s.op = "equate" -> {s.local} \cup s.other [] s.op = "elsewhere" -> s.args [] OTHER -> NamesIn(s)
TextOf(p, g) == p.facts[g].returns \cup UNION {WordsIn(Body(p, g)[i]) : i \in DOMAIN Body(p, g)}
IsPartOf(p, f, i, roots, text) ==
  \/ p.named[Target(f, i)] \in text
  \/ \E arg \in ToSet(Body(p, f)[i].args) : {arg} \in roots
TextAfter(p, roots, acc, f) ==
  FoldLeft(LAMBDA a, i : IF IsPartOf(p, f, i, roots, a.text)
                         THEN [text |-> a.text \cup TextOf(p, Target(f, i)), next |-> Append(a.next, Target(f, i))]
                         ELSE a,
           acc, helpers[f])
DigestText(p, f, roots) ==
  LET level(acc) == FoldLeft(LAMBDA a, g : TextAfter(p, roots, a, g), [acc EXCEPT !.next = <<>>], acc.next)
  IN  level(level([text |-> UNION roots, next |-> <<f>>])).text
IsUnbound(p, f, facts) ==
  facts.sensitive /\ summaries[f].roots # {} /\ Contract \cap DigestText(p, f, summaries[f].roots) = {}

(* authorization_shape: names in their order, parameters by position.      *)
Position(p, f, sym) ==
  LET at == {k \in DOMAIN p.facts[f].params : p.facts[f].params[k] = sym}
  IN  IF at = {} THEN <<sym, 0>> ELSE <<NoKey, Max(at)>>
WrittenRoot(p, f, root) ==
  LET named == SelectSeq(Alphabet, LAMBDA sym : sym \in root)
  IN  [k \in DOMAIN named |-> Position(p, f, named[k])]
Shape(p, f, facts) ==
  [ roots |-> {WrittenRoot(p, f, root) : root \in summaries[f].roots},
    signed |-> {k \in DOMAIN p.facts[f].params : p.facts[f].params[k] \in facts.auth} ]
AreSeparate(p, f, g, ff, gf) ==
  /\ f # g /\ p.scope[f] = p.scope[g]
  /\ {} \notin {summaries[f].roots, summaries[g].roots} /\ Shape(p, f, ff) = Shape(p, g, gf)
  /\ {} \notin {SpentSlots(ff), SpentSlots(gf)} /\ SpentSlots(ff) \cap SpentSlots(gf) = {}

(* detect. What is left are entry points with an effect, not reported.     *)
Capture(p, all) ==
  LET alone == {f \in DOMAIN all : IsUnspent(p, f, all[f]) \/ IsPartitioned(all[f]) \/ IsUnbound(p, f, all[f])}
      together == {f \in DOMAIN all : \E g \in DOMAIN all : AreSeparate(p, f, g, all[f], all[g])}
  IN  /\ vulnerable' = alone \cup together
      /\ left' = {f \in DOMAIN all : all[f].sensitive} \ (alone \cup together)
AssessReplays ==
  /\ phase = "assess"
  /\ Capture(project, [f \in {x \in EntryFns(project) : summaries[x].gated} |-> AnalyzeEntry(project, f)])
  /\ phase' = "done"
  /\ UNCHANGED <<name, project, round, sites, summaries, helpers, stack, visited>>

NextReplay ==
  /\ project.detector = "replay"
  /\ (\E f \in project.fns : GateCaller(f)) \/ EndGates \/ PropagateRoots \/ AssessReplays
===============================================================================
