------------------------- MODULE SignatureMalleability -------------------------
(***************************************************************************)
(* detect/high/signature_malleability.rs: entry points that accept a       *)
(* signature in more than one form.                                        *)
(***************************************************************************)
EXTENDS SignatureModels

CONSTANTS
  MalleabilityRounds,  \* 12 in the code
  ProofDepth,          \* 5 in the code
  HalfOrder,           \* half the order of the curve, and the order
  Order,
  Symbolic             \* a bound that is a name the function does not define

(* A comparison with a bound that stands before a call of ecrecover, right *)
(* after a text that ends in the name of its s: what the program does with *)
(* it, and whether return or revert stands in the same statement, which    *)
(* begins after the last semicolon. A mention decides nothing about s: its *)
(* result is not used, or only in a branch that may be skipped, or it is   *)
(* about another variable, the end of whose name is that of s.             *)
ComparisonsOfS ==
  [op : {"<=", "<", ">", ">="}, bound : 1..Order \cup {Symbolic},
   use : {"requires", "leaves if", "mentions"}, nearLeaving : BOOLEAN]

(* A call of ecrecover: what s is compared with before, where v comes from *)
Recoveries ==
  [comparisons : SUBSET ComparisonsOfS,
   v : {"as given", "plus 27", "normalized"}, zeroOrOne : BOOLEAN,
   components : SUBSET Symbols]

(* A hash that is kept: what goes into it, expanded or not, and its use as *)
(* the index of a state variable.                                          *)
Uses == {"never an index", "indexes once", "guarded", "indexes twice", "hashed in the index"}
Keys == [deps : SUBSET Symbols, written : SUBSET Symbols, use : Uses]

MalleabilityFacts ==
  [recoveries : SUBSET Recoveries,
   reviewed : SUBSET [bytes : BOOLEAN],   \* calls of recover and tryRecover nothing is known of
   dynamicBytes : SUBSET Symbols, lengths : SUBSET {64, 65}, lenient : BOOLEAN, keys : SUBSET Keys]

(* A call as it is written: the function the AST refers it to, the name it *)
(* is made by, whether it is a member access, what its arguments mention.  *)
WrittenCalls ==
  [refers : Fns \cup {NoFn}, by : STRING, member : BOOLEAN, args : Seq(SUBSET Symbols)]

(* The call sites of a model: push_call_unique keeps one of equal ones.    *)
CallSites(p, f) ==
  {[callee |-> Callee(p, f, call), args |-> call.args] :
     call \in {x \in p.calls[f] : Callee(p, f, x) # NoFn}}
CalleesOf(f) == {site.callee : site \in sites[f]}

(* The functions within n calls of f (a definition, not the code's).       *)
Within(f, n) ==
  LET near[k \in 0..n] ==
        IF k = 0 THEN {f} ELSE near[k - 1] \cup UNION {CalleesOf(g) : g \in near[k - 1]}
  IN  near[n]

-------------------------------------------------------------------------------
(* analyze_direct_ecrecover: one recovery                                  *)

(* bound_is_lower_half_order                                               *)
IsLowerHalf(bound, strictLess) ==
  IF bound = Symbolic THEN TRUE ELSE bound <= (IF strictLess THEN HalfOrder + 1 ELSE HalfOrder)
UpperBoundIsCanonical(c) == c.op \in {"<=", "<"} /\ IsLowerHalf(c.bound, c.op = "<")
RejectingHighSBranch(c) == c.op \in {">", ">="} /\ c.nearLeaving /\ IsLowerHalf(c.bound, FALSE)
HasEffectiveLowSGuard(r) ==
  \E c \in r.comparisons : UpperBoundIsCanonical(c) \/ RejectingHighSBranch(c)

(* v_expression_is_permissive, with the other recoveries of the body       *)
VIsPermissive(r, all) ==
  LET given == \E o \in all : o.v = "as given"
      shifted == \E o \in all : o.v = "plus 27"
  IN  \/ r.v = "normalized"
      \/ r.v = "plus 27" /\ (given \/ ~r.zeroOrOne)
      \/ r.v = "as given" /\ shifted

Direct(p, f) ==
  LET facts == p.facts[f]
      all == facts.recoveries
  IN  [ verifies |-> all # {} \/ facts.reviewed # {},
        highS    |-> \E r \in all : ~HasEffectiveLowSGuard(r),
        lenientV |-> \E r \in all : VIsPermissive(r, all),
        flexible |-> \/ facts.lenient
                     \/ facts.lengths = {64, 65}
                     \/ \E r \in facts.reviewed : r.bytes ]

(* propagate_crypto_summaries, one round on a snapshot                     *)
MergeFrom(a, b) ==
  [verifies |-> a.verifies \/ b.verifies, highS |-> a.highS \/ b.highS,
   lenientV |-> a.lenientV \/ b.lenientV, flexible |-> a.flexible \/ b.flexible]
Merged(p, f) ==
  FoldSet(MergeFrom, summaries[f], {summaries[g] : g \in CalleesOf(f)})

InitMalleability ==
  /\ project.detector = "malleability"
  /\ phase = "propagate" /\ round = 0
  /\ sites = [f \in project.fns |-> CallSites(project, f)]
  /\ summaries = [f \in project.fns |-> Direct(project, f)] /\ helpers = <<>>
  /\ left = EntryFns(project) /\ stack = <<>> /\ visited = {} /\ vulnerable = {}

(* Mutant: the rounds stop before the last.                                *)
PropagateOneRoundLess ==
  /\ phase = "propagate" /\ round < MalleabilityRounds
  /\ summaries' = [f \in project.fns |-> Merged(project, f)]
  /\ round' = round + 1
  /\ phase' = IF summaries' = summaries \/ round' = MalleabilityRounds - 1 THEN "assess" ELSE phase
  /\ UNCHANGED <<name, project, sites, helpers, left, stack, visited, vulnerable>>
PropagateSummaries ==
  /\ phase = "propagate" /\ round < MalleabilityRounds
  /\ summaries' = [f \in project.fns |-> Merged(project, f)]
  /\ round' = round + 1
  /\ phase' = IF summaries' = summaries \/ round' = MalleabilityRounds THEN "assess" ELSE phase
  /\ UNCHANGED <<name, project, sites, helpers, left, stack, visited, vulnerable>>

-------------------------------------------------------------------------------
(* uses_signature_serialization_as_security_identity                       *)

LastThree(args) ==
  IF Len(args) < 4 THEN {} ELSE UNION {args[i] : i \in (Len(args) - 2)..Len(args)}
SignatureSymbols(p, f) ==
  LET facts == p.facts[f]
      verifying == {site \in sites[f] : summaries[site.callee].verifies}
      own == UNION {r.components : r \in facts.recoveries}
      passed == UNION {LastThree(site.args) \cup (UNION Range(site.args) \cap facts.dynamicBytes) :
                         site \in verifying}
  IN  IF own \cup passed = {} THEN facts.dynamicBytes ELSE own \cup passed

IsSerialized(p, f, deps) ==
  \/ deps \cap p.facts[f].dynamicBytes # {}
  \/ Cardinality(deps \cap SignatureSymbols(p, f)) >= 2

(* The same in a function that is called, one call away: only a hash that  *)
(* names the bytes itself counts.                                          *)
CalleeHasIdentity(p, f) ==
  \E g \in CalleesOf(f) :
    /\ summaries[g].verifies
    /\ \E key \in p.facts[g].keys :
         /\ key.written \cap p.facts[g].dynamicBytes # {}
         /\ key.use \in {"guarded", "indexes twice"}
HasSignatureIdentity(p, f) ==
  /\ summaries[f].verifies
  /\ \/ \E key \in p.facts[f].keys :
          /\ key.use \in {"guarded", "indexes twice", "hashed in the index"}
          /\ IsSerialized(p, f, key.deps)
     \/ CalleeHasIdentity(p, f)

(* The first three classes of detect; the fourth needs a search.           *)
IsPermissive(f) == summaries[f].highS \/ summaries[f].lenientV
IsFlagged(p, f) ==
  \/ IsPermissive(f)
  \/ summaries[f].flexible /\ HasSignatureIdentity(p, f)
NeedsProof(p, f) ==
  summaries[f].verifies /\ ~IsFlagged(p, f) /\ HasSignatureIdentity(p, f)

AssessEntry(f) ==
  /\ phase = "assess" /\ stack = <<>> /\ f \in left
  /\ ~NeedsProof(project, f)
  /\ Judge(f, summaries[f].verifies /\ IsFlagged(project, f))
  /\ UNCHANGED <<name, project, phase, round, sites, helpers, summaries, stack, visited>>

-------------------------------------------------------------------------------
(* path_is_proven_canonical, a search by depth; the call sites are in the  *)
(* order a HashMap gave them, and what was visited is not visited again.   *)

IsNotPermissive(f) == ~IsPermissive(f)  \* Mutant: a proof without a recovery
IsProof(f) == ~IsPermissive(f) /\ Direct(project, f).verifies
Frame(f) == [fn |-> f, rest |-> {g \in CalleesOf(f) : summaries[g].verifies}]
EndSearch(proven) ==
  /\ Judge(stack[1].fn, ~proven)
  /\ stack' = <<>> /\ phase' = "assess" /\ visited' = {}

BeginSearch(f) ==
  /\ phase = "assess" /\ f \in left
  /\ NeedsProof(project, f)
  /\ visited' = {f}
  /\ IF IsProof(f)
     THEN left' = left \ {f} /\ UNCHANGED <<phase, stack>>
     ELSE stack' = <<Frame(f)>> /\ phase' = "search" /\ UNCHANGED left
  /\ UNCHANGED <<name, project, round, sites, helpers, summaries, vulnerable>>

(* Mutant: the search goes one call too deep.                              *)
SearchCallDeeper(g) ==
  LET top == Len(stack)
      rest == [stack EXCEPT ![top].rest = @ \ {g}]
  IN /\ phase = "search" /\ g \in stack[top].rest
     /\ IF top > ProofDepth \/ g \in visited
        THEN stack' = rest /\ UNCHANGED <<phase, left, visited, vulnerable>>
        ELSE IF IsProof(g) THEN EndSearch(TRUE)
        ELSE /\ visited' = visited \cup {g}
             /\ stack' = IF IsPermissive(g) THEN rest ELSE Append(rest, Frame(g))
             /\ UNCHANGED <<phase, left, vulnerable>>
     /\ UNCHANGED <<name, project, round, sites, helpers, summaries>>

SearchCall(g) ==
  LET top == Len(stack)
      rest == [stack EXCEPT ![top].rest = @ \ {g}]
  IN /\ phase = "search" /\ g \in stack[top].rest
     /\ IF top >= ProofDepth \/ g \in visited
        THEN stack' = rest /\ UNCHANGED <<phase, left, visited, vulnerable>>
        ELSE IF IsProof(g) THEN EndSearch(TRUE)
        ELSE /\ visited' = visited \cup {g}
             /\ stack' = IF IsPermissive(g) THEN rest ELSE Append(rest, Frame(g))
             /\ UNCHANGED <<phase, left, vulnerable>>
     /\ UNCHANGED <<name, project, round, sites, helpers, summaries>>

SearchReturns ==
  /\ phase = "search" /\ stack[Len(stack)].rest = {}
  /\ IF Len(stack) = 1 THEN EndSearch(FALSE)
     ELSE stack' = Front(stack) /\ UNCHANGED <<phase, left, visited, vulnerable>>
  /\ UNCHANGED <<name, project, round, sites, helpers, summaries>>

(* Entry points of one contract that take 64 and 65 bytes, each with an    *)
(* identity of its own.                                                    *)
AreAmbiguous(p, a, b) ==
  /\ a # b /\ p.scope[a] = p.scope[b]
  /\ HasSignatureIdentity(p, a) /\ HasSignatureIdentity(p, b)
  /\ \/ 64 \in p.facts[a].lengths /\ 65 \in p.facts[b].lengths
     \/ 65 \in p.facts[a].lengths /\ 64 \in p.facts[b].lengths
CompareEntries ==
  /\ phase = "assess" /\ left = {}
  /\ vulnerable' = vulnerable \cup
       {a \in EntryFns(project) : \E b \in EntryFns(project) : AreAmbiguous(project, a, b)}
  /\ phase' = "done"
  /\ UNCHANGED <<name, project, round, sites, helpers, summaries, left, stack, visited>>

NextMalleability ==
  /\ project.detector = "malleability"
  /\ \/ PropagateSummaries
     \/ \E f \in left : AssessEntry(f) \/ BeginSearch(f)
     \/ phase = "search" /\ \E g \in stack[Len(stack)].rest : SearchCall(g)
     \/ SearchReturns \/ CompareEntries
===============================================================================
