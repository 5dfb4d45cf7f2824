-------------------------- MODULE ContractSignatures --------------------------
(***************************************************************************)
(* detect/high/eip1271_verification.rs: contracts that answer, or are      *)
(* asked, whether a signature is theirs.                                   *)
(*                                                                         *)
(* A body is a sequence of statements. A branch runs the next n statements *)
(* if its condition holds; an expression is the names in it, a condition   *)
(* its parts, joined by and or by or.                                      *)
(***************************************************************************)
EXTENDS SignatureModels, FiniteSetsExt

CONSTANTS
  ValidationDepth,  \* 5 in the code
  DependenceDepth,  \* 7 in the code
  Standing,         \* names of mutable state variables
  Telling           \* names that say they hold the answer of a verifier

NoName == "-"
Labels == Symbols \cup {NoName}
PartKinds ==
  { "holds", "fails", "is zero", "is not zero", "is", "is not", "in", "not in", "sized", "empty", "has code", "no code",
    "is magic", "is not magic", "reads magic", "decodes magic" }
Tests1271 == [parts : Seq([k : PartKinds, a : Labels, b : Labels]), any : BOOLEAN]
Answers == {"magic", "other", "true", "false", "name", "choice", "condition"}
Results == [gives : Answers, sym : Labels, cond : Tests1271, yes : {"magic", "other"}, no : {"magic", "other"}]

Lets == [op : {"let"}, to : Labels, from : SUBSET Symbols, hashed : BOOLEAN]
Recovers == [op : {"recover"}, to : Labels, hash : SUBSET Symbols, sig : SUBSET Symbols]
(* What the signature names is asked, where it names it by its offset or   *)
(* as something decoded, with a selector of the interface or not.          *)
Elects == [op : {"elect"}, to : Labels, sig : SUBSET Symbols, how : {"offset", "decoded"}, selector : BOOLEAN]
LowCalls ==
  [op : {"low"}, kind : {"static", "call", "delegate"}, target : Symbols, success : Labels, data : Labels,
   hash : SUBSET Symbols, sig : SUBSET Symbols]
(* A call of isValidSignature, and what becomes of its answer at once.     *)
DirectCalls ==
  [op : {"direct"}, target : Symbols, hash : SUBSET Symbols, sig : SUBSET Symbols, to : Labels,
   use : {"kept", "dropped", "returned", "equal"}]
HelperCalls == [op : {"call"}, refers : Fns, args : Seq(Labels), to : Labels]
Branches == [op : {"branch"}, cond : Tests1271, n : Nat, braced : BOOLEAN]
Requires == [op : {"require"}, cond : Tests1271]
Yields == [op : {"return"}, result : Results]
Reverts == [op : {"revert"}]
(* A change of state, to a name or by a word that always is one.           *)
Changes == [op : {"change"}, how : {"assign", "word", "local"}, base : Symbols, key : Labels]
ValidationStatements ==
  Lets \cup Recovers \cup Elects \cup LowCalls \cup DirectCalls \cup HelperCalls \cup Branches \cup Requires
    \cup Yields \cup Reverts \cup Changes

ValidationFacts ==
  [params : Seq([name : Labels, type : STRING]), returns : Seq(STRING), readOnly : BOOLEAN, locals : SUBSET Symbols,
   guard : {"none", "owner", "other"},          \* what has_access_control_signal takes for a guard
   binds : BOOLEAN, passesThrough : BOOLEAN]    \* names the contract or chain; is_identity_bytes32_helper

Types(p, f) == [k \in DOMAIN p.facts[f].params |-> p.facts[f].params[k].type]
Named1271(p, f, type) == {x.name : x \in {y \in ToSet(p.facts[f].params) : y.type = type}} \ {NoName}
Local1271(p, f, sym) == sym \in p.facts[f].locals
IsGuarded(p, f) == p.facts[f].guard # "none"
Does(p, f, op) == {Body(p, f)[i] : i \in At(p, f, op)}
Has(p, f, op) == At(p, f, op) # {}
PartsIn(p, f) == UNION {ToSet(s.cond.parts) : s \in Does(p, f, "branch") \cup Does(p, f, "require")}
                   \cup UNION {ToSet(s.result.cond.parts) : s \in Does(p, f, "return")}
PartsAfter(p, f, i) == PartsIn([p EXCEPT !.body[f] = SubSeq(@, i + 1, Len(@))], f)
Block(p, f, i) == [p EXCEPT !.body[f] = SubSeq(@, i + 1, i + @[i].n)]

-------------------------------------------------------------------------------
(* Calls are followed in the order the context lists them, which is that   *)
(* of a HashMap.                                                           *)
Following(f) == sites[f]
Orders(S) == {q \in [1..Cardinality(S) -> S] : ToSet(q) = S}

(* reachable_functions: a function met at the end of a long path is not    *)
(* followed again on a short one.                                          *)
RECURSIVE Met(_, _, _, _)
Met(p, f, depth, out) ==
  IF depth = 0 \/ f \in out THEN out
  ELSE FoldLeft(LAMBDA o, i : Met(p, Body(p, f)[i].refers, depth - 1, o), out \cup {f}, Following(f))
Reached(p, f) == Met(p, f, ValidationDepth, {})

(* expr_depends_on_aliases, through everything a name was ever assigned    *)
Sources(p, f, sym) ==
  UNION ({s.from : s \in {x \in Does(p, f, "let") : x.to = sym}}
         \cup {s.hash \cup s.sig : s \in {x \in Does(p, f, "recover") : x.to = sym}}
         \cup {s.sig : s \in {x \in Does(p, f, "elect") : x.to = sym}}
         \cup {{s.target} \cup s.hash \cup s.sig :
                 s \in {x \in Does(p, f, "low") : sym \in {x.success, x.data}} \cup {x \in Does(p, f, "direct") : x.to = sym}}
         \cup {ToSet(s.args) : s \in {x \in Does(p, f, "call") : x.to = sym}})
Depends(p, f, syms, aliases) ==
  LET within[k \in 0..DependenceDepth] ==
        IF k = 0 THEN syms ELSE within[k - 1] \cup UNION {Sources(p, f, sym) : sym \in within[k - 1] \ {NoName}}
  IN  within[DependenceDepth] \cap aliases # {}

(* recursive_state_effect: what is seen on one path is not looked at again *)
(* on another; a branch on a parameter given as false does not run.        *)
Disabled(p, f, off) ==
  {j \in DOMAIN Body(p, f) : \E i \in At(p, f, "branch") :
     LET s == Body(p, f)[i]
     IN  /\ j \in (i + 1)..(i + s.n)
         /\ \/ Len(s.cond.parts) = 1 \/ ~s.cond.any
         /\ \E part \in ToSet(s.cond.parts) : part.k = "holds" /\ part.a \in off}
ChangesState(p, f, off) ==
  /\ ~p.facts[f].readOnly
  /\ \/ \E j \in At(p, f, "change") \ Disabled(p, f, off) :
          Body(p, f)[j].how = "word" \/ ~Local1271(p, f, Body(p, f)[j].base)
     \/ \E j \in At(p, f, "low") \ Disabled(p, f, off) : Body(p, f)[j].kind # "static"
SetToFalse(p, g, args) ==
  {p.facts[g].params[k].name : k \in {m \in DOMAIN p.facts[g].params \cap DOMAIN args :
                                        p.facts[g].params[m].type = "bool" /\ args[m] = "false"}}
RECURSIVE StateEffect(_, _, _, _, _)
StateEffect(p, f, depth, off, seen) ==
  IF depth = 0 \/ f \in seen THEN [bad |-> FALSE, seen |-> seen]
  ELSE FoldLeft(LAMBDA o, i :
                  LET s == Body(p, f)[i]
                  IN  IF o.bad THEN o ELSE StateEffect(p, s.refers, depth - 1, SetToFalse(p, s.refers, s.args), o.seen),
                [bad |-> ChangesState(p, f, off), seen |-> seen \cup {f}], Following(f))

(* collect_strong_input_use                                                *)
StrongCalls(p, f) == Does(p, f, "recover") \cup Does(p, f, "direct")
GivenAliases(p, f, s, aliases) ==
  {p.facts[s.refers].params[k].name : k \in {m \in DOMAIN p.facts[s.refers].params \cap DOMAIN s.args :
                                               Depends(p, f, {s.args[m]}, aliases)}}
RECURSIVE StrongUse(_, _, _, _, _, _)
StrongUse(p, f, hs, ss, depth, path) ==
  IF depth = 0 \/ f \in path THEN {}
  ELSE UNION {(IF Depends(p, f, s.hash \cup s.sig, hs) THEN {"hash"} ELSE {})
                \cup (IF Depends(p, f, s.hash \cup s.sig, ss) THEN {"signature"} ELSE {}) : s \in StrongCalls(p, f)}
       \cup UNION {LET hs2 == GivenAliases(p, f, s, hs)
                       ss2 == GivenAliases(p, f, s, ss)
                   IN  (IF StrongCalls(p, s.refers) # {} /\ ss2 # {} THEN {"signature"} ELSE {})
                         \cup StrongUse(p, s.refers, hs2, ss2, depth - 1, path \cup {f}) : s \in Does(p, f, "call")}
IgnoresInputs(p, f) ==
  /\ Len(p.facts[f].params) >= 2
  /\ \/ NoName \in {p.facts[f].params[1].name, p.facts[f].params[2].name}
     \/ StrongUse(p, f, {p.facts[f].params[1].name}, {p.facts[f].params[2].name}, ValidationDepth, {}) # {"hash", "signature"}

-------------------------------------------------------------------------------
(* implementation_magic_semantics_bad                                      *)
IsMagic(r) == r.gives = "magic" \/ (r.gives = "choice" /\ "magic" \in {r.yes, r.no})
ResultsOf(p, f) == {s.result : s \in Does(p, f, "return")}
Forwards(p, f) == {s \in Does(p, f, "direct") : s.use = "returned"}
FromVerifier(p, f) == {s.to : s \in Does(p, f, "recover") \cup {x \in Does(p, f, "direct") : x.use = "kept"}}
DependsOnVerifier(p, f, c) ==
  \E part \in ToSet(c.parts) : ({part.a, part.b} \cap (FromVerifier(p, f) \cup Telling)) \ {NoName} # {}
(* Split at and; of an or, only the first part may begin with a not.       *)
Unzeroed(c) ==
  IF c.any THEN IF \E part \in ToSet(c.parts) : part.k = "is not zero" THEN <<>> ELSE c.parts
  ELSE SelectSeq(c.parts, LAMBDA part : part.k # "is not zero")
Negates(c, i) == Unzeroed(c)[i].k \in {"is not", "is zero", "is not magic"}
                   \/ (Unzeroed(c)[i].k \in {"fails", "not in"} /\ (~c.any \/ i = 1))
\* mutant: every condition is taken for one that holds on success
MeansAnything(c) == TRUE
MeansSuccess(c) == ~\E i \in DOMAIN Unzeroed(c) : Negates(c, i)
WrongChoice(p, f, r) ==
  /\ r.gives = "choice" /\ DependsOnVerifier(p, f, r.cond)
  /\ IF MeansSuccess(r.cond) THEN r.yes # "magic" /\ r.no = "magic" ELSE r.yes = "magic" /\ r.no # "magic"
FirstYield(p, f, i) ==
  LET at == {j \in (i + 1)..(i + Body(p, f)[i].n) : Body(p, f)[j].op = "return" \/ Body(p, f)[j] \in Forwards(p, f)}
  IN  {Body(p, f)[j] : j \in {k \in at : \A m \in at : k <= m}}
YieldsMagic(s) == s.op = "return" /\ IsMagic(s.result)
WrongBranch(p, f, i) ==
  LET c == Body(p, f)[i].cond
  IN  /\ DependsOnVerifier(p, f, c)
      /\ \E s \in FirstYield(p, f, i) :
           IF MeansSuccess(c) THEN ~YieldsMagic(s) /\ \E x \in ResultsOf(p, f) : IsMagic(x) ELSE YieldsMagic(s)
LocalMagicBad(p, f) ==
  \/ ResultsOf(p, f) = {} /\ Forwards(p, f) = {}
  \/ /\ ResultsOf(p, f) # {}
     /\ \/ ~\E r \in ResultsOf(p, f) : IsMagic(r)
        \/ \E r \in ResultsOf(p, f) : WrongChoice(p, f, r)
        \/ \E i \in At(p, f, "branch") : WrongBranch(p, f, i)
MagicBad(p, f) ==
  \E g \in Reached(p, f) :
    /\ p.hasBody[g] /\ StrongCalls(p, g) # {}
    /\ g = f \/ "bytes4" \in ToSet(p.facts[g].returns)
    /\ LocalMagicBad(p, g)

(* implementation_uses_attacker_controlled_identity                        *)
ChosenBySignature(p, f) ==
  \E g \in Reached(p, f) : /\ \E s \in Does(p, g, "elect") : s.how = "offset" /\ p.facts[f].params[2].name \in s.sig
                           /\ ~\E s \in Does(p, g, "elect") \cup Does(p, g, "low") : s.op = "low" \/ s.selector
(* implementation_has_self_authorizing_registry                            *)
Registries(p, f) ==
  UNION {{part.b : part \in {x \in PartsIn(p, g) : x.k \in {"in", "not in"} /\ x.a \in FromVerifier(p, g)}} : g \in Reached(p, f)}
EntersItself(p, f, base) ==
  \E s \in Does(p, f, "change") : s.how = "assign" /\ s.base = base /\ s.key = "sender"
SelfAuthorizing(p, f) ==
  \E g \in EntryFns(p) :
    /\ p.scope[g] = p.scope[f] /\ ~p.facts[g].readOnly /\ ~IsGuarded(p, g)
    /\ \E base \in Registries(p, f) : EntersItself(p, g, base)
(* implementation_has_permissive_zero_owner_fallback                       *)
ZeroOwnerFallback(p, f) ==
  \E g \in Reached(p, f) :
    /\ StrongCalls(p, g) # {} /\ \E r \in ResultsOf(p, g) : IsMagic(r)
    /\ \E i \in At(p, g, "branch") : ~Body(p, g)[i].braced /\ Last(Body(p, g)[i].cond.parts).k = "is zero"
                                       /\ i + 1 \in At(p, g, "return")
    /\ \E r \in ResultsOf(p, g) : r.gives = "choice" /\ Last(r.cond.parts).k = "is not zero"
(* implementation_has_explicit_raw_hash_passthrough                        *)
IsIdentity(p, f) == p.facts[f].passesThrough
RawPassthrough(p, f) ==
  /\ \E g \in Reached(p, f) : IsIdentity(p, g)
  /\ \E g \in Reached(p, f) : Has(p, g, "recover")
  /\ ~\E g \in Reached(p, f) : p.facts[g].binds

IsImplementation(p, f) == p.hasBody[f] /\ p.named[f] = "isValidSignature" /\ p.facts[f].returns = <<"bytes4">>
BadShape(p, f) == Types(p, f) # <<"bytes32", "bytes">> /\ Types(p, f) # <<"bytes", "bytes">>
AnswersWrongly(p, f) ==
  \/ BadShape(p, f)
  \/ StateEffect(p, f, ValidationDepth, {}, {}).bad
  \/ IgnoresInputs(p, f) \/ MagicBad(p, f)
  \/ ChosenBySignature(p, f) \/ SelfAuthorizing(p, f) \/ ZeroOwnerFallback(p, f) \/ RawPassthrough(p, f)

-------------------------------------------------------------------------------
(* The callers: what may be forwarded as the hash and as the signature     *)
EqualsMagic == {"is magic", "reads magic", "decodes magic"}
HashParams(p, f) == Named1271(p, f, "bytes32") \cup Named1271(p, f, "bytes")
\* mutant: only the signature must be the caller's
ReplacesSignature(p, f, s) == Named1271(p, f, "bytes") # {} /\ ~Depends(p, f, s.sig, Named1271(p, f, "bytes"))
Replaces(p, f, s) ==
  /\ Named1271(p, f, "bytes32") # {} /\ Named1271(p, f, "bytes") # {}
  /\ \/ ~Depends(p, f, s.hash, HashParams(p, f))
     \/ ~Depends(p, f, s.sig, Named1271(p, f, "bytes"))
AnyEquality(p, f) == (\E part \in PartsIn(p, f) : part.k \in EqualsMagic) \/ \E s \in Does(p, f, "direct") : s.use = "equal"
SpeaksOfMagic(p, f) ==
  \/ \E s \in Does(p, f, "direct") : s.use = "equal"
  \/ \E part \in PartsIn(p, f) : part.k \in {"is magic", "is not magic", "reads magic", "decodes magic"}
  \/ \E r \in ResultsOf(p, f) : IsMagic(r)
AcceptsFailure(p, f, i) ==
  \E j \in At(p, f, "branch") :
    LET tail == [p EXCEPT !.body[f] = SubSeq(@, j + 1, Len(@))]
    IN  /\ j > i /\ Len(Body(p, f)[j].cond.parts) = 1
        /\ Body(p, f)[j].cond.parts[1].k = "holds" /\ Body(p, f)[j].cond.parts[1].a = Body(p, f)[i].success
        /\ Cardinality(At(tail, f, "return")) >= 2 /\ SpeaksOfMagic(tail, f)
AcceptsEmpty(p, f, i) ==
  \E j \in At(p, f, "branch") : /\ j > i /\ \E part \in ToSet(Body(p, f)[j].cond.parts) : part.k = "empty" /\ part.a = Body(p, f)[i].data
                                /\ \E k \in {j + 1, j + 2} \cap At(p, f, "return") : Body(p, f)[k].result.gives = "true"
Mentioned1271(p, f, sym) ==
  \/ \E part \in PartsIn(p, f) : sym \in {part.a, part.b}
  \/ \E x \in ResultsOf(p, f) : x.gives = "name" /\ x.sym = sym
  \/ \E x \in Does(p, f, "let") : sym \in x.from
LowLevelBad(p, f, i) ==
  LET s == Body(p, f)[i]
      after == PartsAfter(p, f, i)
  IN  \/ s.kind # "static" \/ s.success = NoName \/ s.data = NoName \/ Replaces(p, f, s)
      \/ ~Mentioned1271(p, f, s.success)
      \/ AcceptsEmpty(p, f, i) \/ AcceptsFailure(p, f, i)
      \/ ~\E part \in after : part.a = s.data /\ part.k \in {"sized", "decodes magic"}
      \/ ~\E part \in after : part.k \in EqualsMagic
(* has_exact_magic_comparison_for_var, either way                          *)
IsCompared(p, f, sym) ==
  \/ \E part \in PartsIn(p, f) : part.k \in {"is magic", "is not magic"} /\ part.a = sym
  \/ /\ SpeaksOfMagic(p, f) \/ Has(p, f, "low")
     /\ \E part \in PartsIn(p, f) : part.k \in {"is", "is not", "is zero", "is not zero"} /\ sym \in {part.a, part.b}
HasSensitiveEffect(p, f) == ChangesState(p, f, {})
DirectBad(p, f, s) ==
  /\ s.use = "kept" /\ ~IsCompared(p, f, s.to)
  /\ ~("bytes4" \in ToSet(p.facts[f].returns) /\ ~HasSensitiveEffect(p, f))
(* direct_erc1271_target_exprs, caller_eoa_contract_branch_bad            *)
Asked(p, f) == {s.target : s \in Does(p, f, "low") \cup Does(p, f, "direct")}
AsksContract(p, f) == Asked(p, f) # {}
BranchesOn(p, f, k) == {i \in At(p, f, "branch") : \E part \in ToSet(Body(p, f)[i].cond.parts) : part.k = k}
FirstBranch(p, f, k) == {i \in BranchesOn(p, f, k) : \A j \in BranchesOn(p, f, k) : i <= j}
CodeBranchBad(p, f) ==
  /\ AsksContract(p, f)
  /\ \/ \E i \in BranchesOn(p, f, "no code") :
          /\ ~Body(p, f)[i].braced /\ Last(Body(p, f)[i].cond.parts).k = "no code"
          /\ i + 1 \in At(p, f, "return") /\ Body(p, f)[i + 1].result.gives = "true"
     \/ /\ Has(p, f, "recover") /\ \E s \in Does(p, f, "low") : s.kind = "static"
        /\ \E i \in FirstBranch(p, f, "has code") :
             LET block == Block(p, f, i) IN Has(block, f, "recover") /\ ~AsksContract(block, f)
AsksWrongly(p, f) ==
  \/ \E i \in At(p, f, "low") : LowLevelBad(p, f, i)
  \/ \E s \in Does(p, f, "direct") : Replaces(p, f, s) \/ DirectBad(p, f, s)
  \/ CodeBranchBad(p, f)

-------------------------------------------------------------------------------
(* Who may choose the one that is asked: validation_targets_in_namespace,  *)
(* entry_has_unsafe_signer_provenance                                      *)
RECURSIVE Targets(_, _, _)
Through(p, s, sym) ==
  LET params == p.facts[s.refers].params
      at == {k \in DOMAIN params \cap DOMAIN s.args : params[k].name = sym}
  IN  IF at = {} THEN sym ELSE s.args[Max(at)]
Targets(p, f, depth) ==
  IF depth = 0 THEN {}
  ELSE Asked(p, f)
         \cup UNION {{Through(p, s, sym) : sym \in Targets(p, s.refers, depth - 1)} : s \in Does(p, f, "call")}
Rejecting(p, g) ==
  \/ Has(p, g, "require")
  \/ \E i \in At(p, g, "branch") : \/ Body(p, g)[i].cond.parts[1].k \in {"fails", "not in"}
                                   \/ \E r \in ResultsOf(p, g) : r.gives = "false"
IsAuthorized(p, f, sym) ==
  \E g \in Reached(p, f) :
    \/ /\ Rejecting(p, g)
       /\ \/ \E part \in PartsIn(p, g) : part.k \in {"in", "not in"} /\ part.a = sym
          \/ \E s \in Does(p, g, "change") : s.key = sym
    \/ /\ \E part \in PartsIn(p, g) : part.k = "is" /\ sym \in {part.a, part.b}
       /\ ~\E part \in PartsIn(p, g) : part.k = "is zero" /\ part.a = sym
SplitsWell(p, f) ==
  \E g \in Reached(p, f) :
    /\ \E part \in PartsIn(p, g) : part.k = "no code"
    /\ Has(p, g, "recover") /\ \E s \in Does(p, g, "low") : s.kind = "static"
    /\ AnyEquality(p, g)
    /\ ~CodeBranchBad(p, g)
AsksOnlyContracts(p, f) ==
  \E g \in Reached(p, f) : AsksContract(p, g) /\ ~\E part \in PartsIn(p, g) : part.k \in {"has code", "no code"}
IsSetByAnyone(p, f, sym) ==
  \E g \in EntryFns(p) :
    /\ p.scope[g] = p.scope[f] /\ ~p.facts[g].readOnly /\ ~IsGuarded(p, g) /\ ~Local1271(p, g, sym)
    /\ \E s \in Does(p, g, "change") : s.how = "assign" /\ sym = (IF s.key = NoName THEN s.base ELSE s.key)
ChoosesSigner(p, f) ==
  /\ p.entry[f] /\ HasSensitiveEffect(p, f) /\ ~IsGuarded(p, f)
  /\ \E sym \in Targets(p, f, ValidationDepth) :
       IF sym \in Named1271(p, f, "address")
       THEN ~IsAuthorized(p, f, sym) /\ ~SplitsWell(p, f) /\ AsksOnlyContracts(p, f)
       ELSE sym \in Standing /\ IsSetByAnyone(p, f, sym)

-------------------------------------------------------------------------------
InitValidation ==
  /\ project.detector = "validation"
  /\ phase = "gate" /\ round = 0
  /\ sites \in {s \in [project.fns -> UNION {Orders(At(project, f, "call")) : f \in project.fns}] :
                  \A f \in project.fns : s[f] \in Orders(At(project, f, "call"))}
  /\ summaries = <<>> /\ helpers = <<>>
  /\ left = project.fns /\ stack = <<>> /\ visited = {} /\ vulnerable = {}

Flag(bad) == vulnerable' = vulnerable \cup bad /\ UNCHANGED <<name, project, round, sites, summaries, helpers, stack, visited>>
Implementations(p) == {f \in p.fns : IsImplementation(p, f)}
JudgeImplementations ==
  /\ phase = "gate" /\ phase' = "helpers" /\ left' = left \ Implementations(project)
  /\ Flag({f \in Implementations(project) : AnswersWrongly(project, f)})
JudgeCallers ==
  /\ phase = "helpers" /\ phase' = "assess" /\ left' = EntryFns(project)
  /\ Flag({f \in left : AsksWrongly(project, f)})
JudgeSigners ==
  /\ phase = "assess" /\ phase' = "done" /\ left' = {}
  /\ Flag({f \in left : ~project.facts[f].readOnly /\ ChoosesSigner(project, f)})
NextValidation == project.detector = "validation" /\ (JudgeImplementations \/ JudgeCallers \/ JudgeSigners)
===============================================================================
