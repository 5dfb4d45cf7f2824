-------------------------- MODULE SignatureDetectors --------------------------
(***************************************************************************)
(* The detectors of signature flaws, each on projects of its own, and what *)
(* their silence about an entry point means for the program: that nobody   *)
(* spends a signature twice, changes the form of one, or uses one too late. *)
(***************************************************************************)
EXTENDS SignatureMalleability, SignedCalls, TimedCalls, AskedContracts

vars == <<sigVars, callVars>>

Init ==
  /\ name \in Projects /\ project = ProjectOf(name)
  /\ InitNonces \/ InitReplay \/ InitMalleability \/ InitFreshness \/ InitValidation
  /\ InitCalls
Next ==
  \/ (NextNonces \/ NextReplay \/ NextMalleability \/ NextFreshness \/ NextValidation) /\ UNCHANGED callVars
  \/ \E f \in EntryFns(project) : CallEntry(f)
Spec == Init /\ [][Next]_vars

CryptoSummary == [verifies : BOOLEAN, highS : BOOLEAN, lenientV : BOOLEAN, flexible : BOOLEAN]
TypeOK ==
  /\ name \in Projects /\ phase \in {"gate", "propagate", "helpers", "assess", "search", "done"}
  /\ round \in 0..(AuthRounds + MalleabilityRounds)
  /\ \A f \in project.fns :
       CASE project.detector = "malleability" -> summaries[f] \in CryptoSummary
         [] project.detector = "freshness" -> summaries[f].names \subseteq Symbols
         [] project.detector = "validation" -> sites[f] \in Orders(At(project, f, "call"))
         [] project.detector = "replay" -> SignedNames(f) \subseteq Symbols
         [] OTHER -> summaries[f].count \in 0..8 /\ summaries[f].principals \subseteq summaries[f].roots
  /\ left \subseteq (IF project.detector = "validation" THEN project.fns ELSE EntryFns(project)) /\ vulnerable \subseteq project.fns
  /\ visited \subseteq project.fns /\ Len(stack) <= ProofDepth
  /\ \A k \in DOMAIN stack : stack[k].fn \in visited
  /\ (Kept(project) => storage \in [Cells(project) -> 0..Top]) /\ replayed \subseteq EntryFns(project)
  /\ made \in 0..MaxCalls

-------------------------------------------------------------------------------
(* What the detector of unspent signatures overlooks, at its lines in      *)
(* nonce_management.rs.                                                    *)

Tested(p, f, slot, kind) == \E g \in AllGuards(p, f) : g.kind = kind /\ g.slot = slot
HasXor(p, f) == \E w \in ToSet(AllWrites(p, f)) : w.kind = "xor"

(* An amount that may be 0 changes nothing (1865), and any signed symbol   *)
(* makes a sum signed (2457).                                              *)
UnknownAmounts(p, f) ==
  \/ \E g \in AllGuards(p, f) : Cardinality(g.value.of) > 1
  \/ \E w \in ToSet(AllWrites(p, f)) :
       /\ w.value.of # {} /\ w.value.plus = 0
       /\ w.kind = "add" \/ (w.kind = "assign" /\ Tested(p, f, w.slot, "clear"))
(* The index of a signed counter counts as signed (585).                   *)
FreeIndices(p) ==
  \E g \in p.fns : \E i \in At(p, g, "verify") :
    LET v == Body(p, g)[i]
    IN  \E slot \in v.counters : ~(ToSet(slot.keys) \subseteq v.digest \cup {v.principal})
(* A helper may not mark what it tests (815), may not be called, and is    *)
(* thought to write last (1775).                                           *)
HelpersThatMayNotMark(p, f) ==
  \/ \E g \in NearBy(f, Cardinality(p.fns)) \ {f} : \E i \in At(p, g, "write") : Body(p, g)[i].inside = "guard"
  \/ \E i \in CallsAt(f) : Body(p, f)[i].conditional
  \/ \E w, x \in ToSet(AllWrites(p, f)) : w.own /\ ~x.own /\ w.slot = x.slot /\ x.pos < w.pos
(* An early return may skip a counter that is hashed (1244).               *)
SkippedCounters(p, f) ==
  At(p, f, "leave") # {} /\ \E g \in p.fns : \E i \in At(p, g, "verify") : Body(p, g)[i].counters # {}
(* A bit proven to be set by a flip may not be flipped, and there is no    *)
(* slot to protect from others (893).                                      *)
UnguardedFlips(p, f) ==
  /\ HasXor(p, f) /\ At(p, f, "prove") # {}
  /\ \/ At(p, f, "leave") # {}
     \/ \E w \in ToSet(AllWrites(p, f)) : w.kind # "xor" \/ w.conditional
     \/ Siblings(p, f) # {} /\ \A g \in AllGuards(p, f) : g.kind # "bit clear"
(* A call that asks for more than the last number is not spent by counting *)
(* one up (1889).                                                          *)
SlowSequences(p, f) ==
  \E g \in AllGuards(p, f) : g.kind = "greater" /\
    \E w \in ToSet(AllWrites(p, f)) : w.slot = g.slot /\ w.kind \in {"increment", "add"}
(* A version that others advance signs many calls (2049).                  *)
Versions(p, f) ==
  \E g \in AllGuards(p, f) : g.kind = "equality" /\ FirstOf(AllWrites(p, f), g) = 0
(* Others may clear a mark with a value (2153), or set an order back with  *)
(* a constant (2244).                                                      *)
OthersRevive(p, f) ==
  \E h \in Siblings(p, f) : \E w \in ToSet(AllWrites(p, h)) :
    /\ w.kind = "assign"
    /\ \E g \in AllGuards(p, f) :
         /\ g.slot.base = w.slot.base
         /\ (g.kind = "clear" /\ w.value.plus = 0) \/ (g.kind = "greater" /\ w.value.of = {})
Overlooks(p, f) ==
  \/ UnknownAmounts(p, f) \/ FreeIndices(p) \/ HelpersThatMayNotMark(p, f) \/ SkippedCounters(p, f)
  \/ UnguardedFlips(p, f) \/ SlowSequences(p, f) \/ Versions(p, f)
  \/ OthersRevive(p, f)

(* An entry point that is not reported because it spends its signatures    *)
(* accepts none of them twice, whatever else is called in between, but for *)
(* what is overlooked: nonce_management.rs:854-1092.                       *)
SpentSignaturesStaySpent ==
  project.detector = "nonces" => \A f \in replayed \cap left : Overlooks(project, f)

-------------------------------------------------------------------------------
(* What the detector of replays overlooks, at its lines in                 *)
(* signature_replay.rs.                                                    *)

One == [of |-> {}, plus |-> 1]
(* An amount that may be 0 changes nothing (750, 763).                     *)
MayAddNothing(facts) ==
  \E w \in ToSet(facts.writes) :
    /\ w.value.of # {} /\ w.value.plus = 0
    /\ w.kind = "add" \/ \E g \in facts.guards : g.kind = "clear" /\ g.slot = w.slot
(* A signed key, or a signed value, signs a guard (716), and the index of  *)
(* a hashed counter counts as signed (800).                                *)
PartlySigned(p, facts) ==
  \/ \E g \in Spenders(facts) : ~(ToSet(g.slot.keys) \cup g.value.of \subseteq facts.auth)
  \/ FreeIndices(p)
(* An equality that holds otherwise, too, is spent by counting (759).      *)
LooseGuards(facts) == \E g \in Spenders(facts) : ~g.exact
(* What ends in = stores what follows, what ends in -- is not seen (1162). *)
MisreadWrites(p, f) ==
  \E g \in NearBy(f, Cardinality(p.fns)) : \E i \in At(p, g, "write") :
    Body(p, g)[i].kind \in {"subtract", "xor", "and", "decrement"}
(* A helper is thought to be called (620), and to write last (630).        *)
HelpersSpend(p, f, facts) ==
  \/ \E g \in NearBy(f, Cardinality(p.fns)) : \E i \in CallsAt(g) : Body(p, g)[i].conditional
  \/ \E i \in CallsAt(f), j \in At(p, f, "write") : i < j /\
       \E k \in (Len(ReadWrites(p, f)) + 1)..Len(facts.writes) : facts.writes[k].slot = Body(p, f)[j].slot
(* Nothing is asked of the order of a write and of a return (853).         *)
EarlyReturns(p, f) == At(p, f, "leave") # {}
(* Of several signatures, one is spent (229).                              *)
SeveralSignatures(p, f) ==
  \E g \in NearBy(f, Cardinality(p.fns)) :
    Cardinality({Body(p, g)[i] : i \in At(p, g, "verify") \cup {j \in CallsAt(g) : summaries[Target(g, j)].gated}}) > 1
(* What other entry points do to a slot is not looked at (208).            *)
WaysToSpend(facts) ==
  {<<g.slot, g.kind>> : g \in Spenders(facts)} \cup {<<w.slot, "hashed">> : w \in DigestBound(facts)}
Spares(way, w) ==
  CASE way = "clear" -> w.kind = "or" \/ w.value = One \/ Advances(w)
    [] way = "bit clear" -> w.kind = "or"
    [] OTHER -> Advances(w)
OthersReset(p, f, facts) ==
  \E h \in EntryFns(p) \ {f} : \E g \in NearBy(h, Cardinality(p.fns)) : \E i \in At(p, g, "write") :
    \E way \in WaysToSpend(facts) :
      way[1].base = Body(p, g)[i].slot.base /\ ~Spares(way[2], ReadWrite(Body(p, g)[i]))
(* What another contract does with a nonce it is told is not known (829).  *)
SpendsElsewhere(p, f, facts) == SpentSlots(facts) = {}
Reuses(p, f) ==
  LET facts == AnalyzeEntry(p, f)
  IN  \/ MayAddNothing(facts) \/ PartlySigned(p, facts) \/ LooseGuards(facts) \/ MisreadWrites(p, f)
      \/ HelpersSpend(p, f, facts) \/ EarlyReturns(p, f) \/ SeveralSignatures(p, f) \/ OthersReset(p, f, facts)
      \/ SpendsElsewhere(p, f, facts)

(* The contract's name is hashed with what is signed, in the function that *)
(* checks it, or with what it is given; one of several digests is enough,  *)
(* and where a helper that is followed mentions it does not matter (895).  *)
RECURSIVE AllNameContract(_, _, _)
NamesContract(p, f, syms, bound) == Hashed(p, f, syms) \cap (Contract \cup bound) # {}
AllNameContract(p, f, bound) ==
  /\ \A i \in At(p, f, "verify") : NamesContract(p, f, RootsOf(Body(p, f)[i]), bound)
  /\ \A i \in CallsAt(f) :
       LET params == p.facts[Target(f, i)].params
           given == {k \in GivenAt(p, f, i) : NamesContract(p, f, {ArgAt(p, f, i, k)}, bound)}
       IN  AllNameContract(p, Target(f, i), {params[k] : k \in given})
MentionsContract(p, f) ==
  \E g \in NearBy(f, Cardinality(p.fns)) \ {f} :
    LET hashed == p.facts[g].returns \cup UNION {RootsOf(Body(p, g)[i]) : i \in At(p, g, "verify")}
    IN  Contract \cap (TextOf(p, g) \ hashed) # {}

(* Entry points of a contract and its bases are not compared (239), nor    *)
(* are those that write the same in another order of parameters (968) or   *)
(* share a slot and spend it in different ways (265).                      *)
GoApart(p, f, g) ==
  \/ p.scope[f] # p.scope[g] \/ p.facts[f].params # p.facts[g].params
  \/ WaysToSpend(AnalyzeEntry(p, f)) \cap WaysToSpend(AnalyzeEntry(p, g)) = {}

(* What an entry point that is not reported accepts, no entry point of its *)
(* contract that is not reported accepts again, nor another deployment,    *)
(* but for what is overlooked: signature_replay.rs:194-321.                *)
UnreportedAuthorizationsRunOnce ==
  project.detector = "replay" =>
    /\ \A f \in replayed \cap left : Reuses(project, f)
    /\ \A a, b \in accepted :
         {a[1], b[1]} \subseteq left /\ a[2] = b[2] => a[1] = b[1] \/ GoApart(project, a[1], b[1])
    /\ phase = "done" =>
         \A f \in left :
           AllNameContract(project, f, {}) \/ SeveralSignatures(project, f) \/ MentionsContract(project, f)

-------------------------------------------------------------------------------
(* What the detector of stale signatures overlooks, at its lines in        *)
(* signature_freshness.rs.                                                 *)
(* Signed names that limit how late a signature may be used.              *)
LimitedNames(p, f) ==
  {sym \in summaries[f].names : Meaning[sym] # "nothing" /\ LimitsStaleness(Named(sym))}

Tests(p, f) == ToSet(Effective(p, f).tests)
NamesInTest(c) == Names(c.l) \cup Names(c.r)

(* Only times whose names end in ms are told from seconds and blocks (715, *)
(* 886).                                                                   *)
IsInUnit(c, sym) ==
  CASE "time" \in {c.l.clock, c.r.clock} ->
         Unit[sym] = (IF c.l.thousand \/ c.r.thousand THEN "millisecond" ELSE "second")
    [] "block" \in {c.l.clock, c.r.clock} -> Unit[sym] = "block"
    [] OTHER -> TRUE
OtherUnits(p, f) ==
  \E c \in Tests(p, f) : \E sym \in NamesInTest(c) \ Parties : ~IsInUnit(c, sym)
(* One signed name signs the whole bound (855), the key of a stored one,   *)
(* too.                                                                    *)
PartlySignedBounds(p, f) ==
  \E c \in Tests(p, f) :
    /\ ~IsTimeless(c) /\ NamesInTest(c) \cap summaries[f].names # {}
    /\ \/ NamesInTest(c) \cap (ToSet(p.facts[f].params) \ summaries[f].names) # {}
       \/ \E x \in c.l.plus \cup c.r.plus : x.key # NoKey
(* A time that must have passed since the signature is taken for an age    *)
(* (942, 954).                                                             *)
DelaysAsAges(p, f) ==
  \E v \in Views(Effective(p, f).tests) :
    v.op \in Greater /\ v.l.clock = "time" /\ IsSum(v.r) /\ \E sym \in Names(v.r) : IsPoint(Named(sym))
(* Nobody may advance the epoch a signature must name, and it may be an    *)
(* argument (991).                                                         *)
StandingEpochs(p, f) ==
  \E c \in Tests(p, f) : c.op = "==" /\ \E sym \in NamesInTest(c) : Meaning[sym] \in {"round", "epoch"}
(* What must be exceeded and is written may be a local or at a key of the  *)
(* caller's choice, or be written first, and what is written may only have *)
(* a name that ends alike (1033, 1043).                                    *)
IsFirstWritten(p, f, base) ==
  \E g \in ReachedFrom(p, f) : \E i \in At(p, g, "assign") :
    /\ Body(p, g)[i].to.base = base
    /\ \E h \in ReachedFrom(p, f) : \E j \in At(p, h, "check") :
         /\ base \in NamesInTest(Body(p, h)[j].test)
         /\ g # h \/ i < j
LooseOrders(p, f) ==
  \E v \in Views(Effective(p, f).tests) : \E fact \in ToSet(Effective(p, f).facts) :
    /\ IsTimeless(v) /\ v.op \in Greater
    /\ \E x \in v.r.plus : v.r.plus = {x} /\ EndAlike(x, fact.to)
    /\ \/ v.r.plus # {fact.to}
       \/ fact.to.base \notin State
       \/ fact.to.key \notin summaries[f].names \cup {NoKey}
       \/ IsFirstWritten(p, f, fact.to.base)
(* What is in a branch or behind an alternative, and what stands near a    *)
(* revert, is thought to reject (1380).                                    *)
LooseRejections(p, f) ==
  \/ \E s \in AllOps(p, f, "check") : s.conditional \/ s.unless = "anything" \/ s.how = "near if"
  \/ \E s \in AllOps(p, f, "call") : s.conditional
(* A local of a function that is called may have a signed name (1293).     *)
SharedNames(p, f) ==
  \E g \in ReachedFrom(p, f) \ {f} : \E s \in Ops(p, g, "assign") : s.to.base \in LimitedNames(p, f)
Misjudges(p, f) ==
  \/ OtherUnits(p, f) \/ PartlySignedBounds(p, f) \/ DelaysAsAges(p, f) \/ StandingEpochs(p, f)
  \/ LooseOrders(p, f) \/ LooseRejections(p, f) \/ SharedNames(p, f)

(* An entry point that is not reported although its signatures name a time *)
(* rejects the early ones at last, whatever its callers add to them, but   *)
(* for what is overlooked: signature_freshness.rs:276-408.                 *)
UnreportedSignaturesExpire ==
  phase = "done" /\ project.detector = "freshness" =>
    \A f \in EntryFns(project) \ vulnerable :
      \/ ~IsWeighed(project, f) \/ SignerIsCaller(project, f) \/ LimitedNames(project, f) = {}
      \/ Misjudges(project, f)
      \/ \A o \in LateCalls(project, f) : ~IsStaleCall(o)

-------------------------------------------------------------------------------
(* What the detector of ERC-1271 overlooks, at its lines in                *)
(* eip1271_verification.rs.                                                *)

(* Calls are followed so far, and what was seen once, with some argument,  *)
(* is not looked at with another (420).                                    *)
Everything(p, f) == Met(p, f, Cardinality(p.fns) + 1, {})
ChangesFarAway(p, f) == \E g \in Everything(p, f) \ Reached(p, f) : Has(p, g, "change")
ChangesSeenOnce(p, f) ==
  \E g \in Reached(p, f) :
    1 < Cardinality(UNION {{<<h, i>> : i \in {k \in At(p, h, "call") : Body(p, h)[k].refers = g}} : h \in Reached(p, f)})
(* A pointer to storage whose type begins with an I is a local (1916).     *)
Pointers(p, f) ==
  \E g \in Reached(p, f) : \E s \in Does(p, g, "change") : s.how = "assign" /\ s.base \in p.facts[g].locals
(* Every value a name ever had counts (1981).                              *)
Overwritten(p, f) ==
  \E g \in Reached(p, f) : \E i, j \in At(p, g, "let") : i # j /\ Body(p, g)[i].to = Body(p, g)[j].to
(* It is not asked that the one who signed is compared with anybody (692), *)
(* nor what a require (706) or a helper's answer (732) decides.            *)
ComparedWithNobody(p, f) ==
  ~\E part \in PartsIn(p, f) : part.k \in {"is", "is not", "in", "not in"}
RequiresTheContrary(p, f) == \E s \in Does(p, f, "require") : ~MeansSuccess(s.cond)
HelpersAnswers(p, f) ==
  \E s \in Does(p, f, "call") : \E part \in PartsIn(p, f) : part.a = s.to /\ s.to \notin FromVerifier(p, f)
(* A registry others may enter in another way, or behind any modifier      *)
(* (829, 1326); an owner that is not set (852); an account that a          *)
(* signature names in another way (788).                                   *)
OthersRegister(p, f) ==
  \E h \in EntryFns(p) : \E s \in Does(p, h, "change") :
    /\ s.base \in Registries(p, f) /\ p.facts[h].guard # "owner"
    /\ s.key # "sender" \/ p.facts[h].guard = "other"
OwnerIsUnset(p, f) ==
  /\ MayBeUnset(p)
  /\ \/ \E i \in At(p, f, "branch") : Body(p, f)[i].braced /\ \E s \in FirstYield(p, f, i) : YieldsMagic(s)
     \/ ~\E part \in PartsIn(p, f) : part.k \in {"is zero", "is not zero"}
ElectedOtherwise(p, f) == \E s \in Does(p, f, "elect") : s.how = "decoded" \/ s.selector
Misanswers(p, f) ==
  \/ ChangesFarAway(p, f) \/ ChangesSeenOnce(p, f) \/ Pointers(p, f) \/ Overwritten(p, f)
  \/ ComparedWithNobody(p, f) \/ RequiresTheContrary(p, f) \/ HelpersAnswers(p, f)
  \/ OthersRegister(p, f) \/ OwnerIsUnset(p, f) \/ ElectedOtherwise(p, f)

(* A wallet whose isValidSignature is not reported answers with the magic  *)
(* value only for what its owner signed, and changes nothing, but for what *)
(* is overlooked: eip1271_verification.rs:134-186.                         *)
UnreportedAnswersAreOwners ==
  phase = "done" /\ project.detector = "validation" =>
    \A f \in Implementations(project) \ vulnerable :
      \/ Misanswers(project, f)
      \/ /\ \A o \in GoodCalls(project, f) : ~o.did.changes
         /\ \A o \in BadCalls(project, f) : ~o.did.changes /\ o.gives # Thing("magic")

(* That a call failed need not be heeded, only mentioned (944), and what   *)
(* is compared may be one of several ways to be accepted (956).            *)
Unheeded(p, f) ==
  \E g \in Reached(p, f) : \E s \in Does(p, g, "low") :
    \/ \E x \in ResultsOf(p, g) : x.cond.any
    \/ \E i \in At(p, g, "branch") : Body(p, g)[i].n = 0 /\ \E part \in ToSet(Body(p, g)[i].cond.parts) : part.a = s.success
(* An answer may be dropped (1033), compared for the contrary (1080), or   *)
(* passed on to a caller that does not compare it (1037).                  *)
Uncompared(p, f) ==
  \E g \in Reached(p, f) :
    \/ \E s \in Does(p, g, "direct") : s.use = "dropped"
    \/ \E x \in ResultsOf(p, g) : x.gives = "condition" /\ \E part \in ToSet(x.cond.parts) : part.k = "is not magic"
    \/ \E s \in Does(p, g, "call") : Forwards(p, s.refers) # {} /\ ~Mentioned1271(p, g, s.to)
(* Accounts without code may be taken for granted in braces (1104).        *)
BracedAcceptance(p, f) ==
  \E g \in Reached(p, f) : \E i \in BranchesOn(p, g, "no code") :
    Body(p, g)[i].braced /\ \E s \in FirstYield(p, g, i) : s.op = "return" /\ s.result.gives = "true"
(* Who may choose the account: anyone, where accounts without code are     *)
(* checked, too (1165); who is listed, if a list is only looked at or the  *)
(* account only compared (1249); whoever passes any modifier (1326); and   *)
(* nobody is asked about where something is changed by a helper (218).     *)
IsDemanded(p, f, sym) ==
  \/ \E s \in Does(p, f, "require") : \E part \in ToSet(s.cond.parts) : part.k \in {"in", "is"} /\ part.a = sym
  \/ \E i \in At(p, f, "branch") : i + 1 \in At(p, f, "revert") /\ \E part \in ToSet(Body(p, f)[i].cond.parts) : part.k = "not in" /\ part.a = sym
ChosenAccounts(p, f) ==
  \E sym \in Targets(p, f, ValidationDepth) :
    IF sym \in Standing
    THEN \E h \in EntryFns(p) : (\E s \in Does(p, h, "change") : s.base = sym) /\
           (p.facts[h].guard = "other" \/ (p.facts[h].guard = "none" /\ (p.facts[f].guard = "other" \/ ~HasSensitiveEffect(p, f))))
    ELSE /\ ~IsDemanded(p, f, sym)
         /\ \/ IsAuthorized(p, f, sym) \/ SplitsWell(p, f) \/ ~AsksOnlyContracts(p, f)
            \/ p.facts[f].guard = "other" \/ ~HasSensitiveEffect(p, f)
Misjudges1271(p, f) ==
  Overwritten(p, f) \/ Unheeded(p, f) \/ Uncompared(p, f) \/ BracedAcceptance(p, f) \/ ChosenAccounts(p, f)

(* An entry point that asks an account and is not reported, nor anything   *)
(* it leads to, acts only on what the account's owner signed, but for what *)
(* is overlooked: eip1271_verification.rs:188-224.                         *)
UnreportedActsAreApproved ==
  phase = "done" /\ project.detector = "validation" =>
    \A f \in EntryFns(project) \ Implementations(project) :
      \/ Reached(project, f) \cap vulnerable # {} \/ project.facts[f].guard = "owner"
      \/ ~\E g \in Reached(project, f) : AsksContract(project, g)
      \/ Misjudges1271(project, f)
      \/ \A o \in BadCalls(project, f) : ~o.did.changes

-------------------------------------------------------------------------------
(* After n rounds, a function knows what the functions within n calls do,  *)
(* no more and, unless the rounds ran out, no less than all it can reach:  *)
(* signature_malleability.rs:789-815, nonce_management.rs:661-742.         *)
Malleable(p, gs) ==
  LET direct == {Direct(p, g) : g \in gs}
  IN  [ verifies |-> \E d \in direct : d.verifies, highS |-> \E d \in direct : d.highS,
        lenientV |-> \E d \in direct : d.lenientV, flexible |-> \E d \in direct : d.flexible ]
SummariesAreExact ==
  project.detector # "validation" => \A f \in project.fns :
    LET far == Cardinality(project.fns)
    IN  IF project.detector = "malleability"
        THEN LET rounds == IF phase # "propagate" /\ round < MalleabilityRounds THEN far ELSE round
             IN  summaries[f] = Malleable(project, Within(f, rounds))
        ELSE IF project.detector = "freshness"
        THEN LET rounds == IF phase # "propagate" /\ round < FreshnessRounds THEN far ELSE round
             IN  summaries[f].gated = \E g \in NearBy(f, rounds) : At(project, g, "verify") # {}
        ELSE IF project.detector = "replay"
        THEN /\ summaries[f].gated => \E g \in NearBy(f, far) : At(project, g, "verify") # {}
             /\ phase # "gate" => (summaries[f].gated = \E g \in NearBy(f, far) : At(project, g, "verify") # {})
        ELSE LET rounds == IF phase # "propagate" /\ round < AuthRounds THEN far ELSE round
             IN  summaries[f].verifies =
                   \E g \in NearBy(f, rounds) : At(project, g, "verify") # {}

(* What ecrecover is given: a signature with s has a twin with Order - s,  *)
(* and one parity may be written as 0 and as 27. A bound that is a name    *)
(* may be any number.                                                      *)
WithinBound(op, s, bound) ==
  CASE op = "<=" -> s <= bound
    [] op = "<" -> s < bound
    [] op = ">" -> s > bound
    [] op = ">=" -> s >= bound
LetsThrough(c, s) ==
  \/ c.use = "mentions" \/ c.bound = Symbolic
  \/ c.use = "requires" /\ WithinBound(c.op, s, c.bound)
  \/ c.use = "leaves if" /\ ~WithinBound(c.op, s, c.bound)
AcceptsS(r, s) == \A c \in r.comparisons : LetsThrough(c, s)
AcceptsTwins(r) == \E s \in 1..(Order - 1) : AcceptsS(r, s) /\ AcceptsS(r, Order - s)

(* What the detector of malleable signatures overlooks, at its lines in    *)
(* signature_malleability.rs. An s that is compared from above with half   *)
(* the order, or from below near a return or a revert, is thought to be    *)
(* limited, whatever is done with the result (525, 537), and so it is by a *)
(* number that is not known (649).                                         *)
KeepsOutHighS(c) == \A s \in 1..(Order - 1) : 2 * s > Order => ~LetsThrough(c, s)
MereMentions(r) ==
  \E c \in r.comparisons :
    /\ UpperBoundIsCanonical(c) \/ RejectingHighSBranch(c)
    /\ ~KeepsOutHighS(c)
AcceptsParities(all) ==
  \/ \E r \in all : r.v = "normalized"
  \/ (\E r \in all : r.v = "as given") /\ \E r \in all : r.v = "plus 27"


(* Bytes of a signature that serve as the name of what was used up come    *)
(* from where the signature is shown to have one form, however the calls   *)
(* are searched: path_is_proven_canonical, 817-848.                        *)
Canonical(p, g) == Direct(p, g).verifies /\ ~IsPermissive(g)
IdentitiesAreProven ==
  phase = "done" /\ project.detector = "malleability" =>
    \A f \in EntryFns(project) \ vulnerable :
      HasSignatureIdentity(project, f) =>
        /\ ~summaries[f].flexible
        /\ \E g \in Within(f, ProofDepth - 1) : Canonical(project, g)
===============================================================================
