-------------------------- MODULE SignatureFreshness --------------------------
(***************************************************************************)
(* detect/high/signature_freshness.rs: entry points that act on signatures *)
(* of any age.                                                             *)
(*                                                                         *)
(* An expression is a sum: of a clock, as it is or times a thousand, of    *)
(* places added and subtracted, and of 0 or 1. A place is a variable or a  *)
(* mapping at a key.                                                       *)
(***************************************************************************)
EXTENDS SignatureModels

CONSTANTS
  FreshnessDepth,  \* 5 in the code
  Meaning,         \* name -> what it says of time, "nothing" for most
  Caller,          \* msg.sender
  Endings,         \* <<a, b>> when the name a ends in the name b
  Generations      \* names of revocable versions of an authorization

Places == [base : Symbols, key : Symbols \cup {NoKey}]
Clocks == {"none", "time", "block"}
Terms == [clock : Clocks, thousand : BOOLEAN, plus : SUBSET Places, minus : SUBSET Places, number : 0..1]
Comparisons == [l : Terms, op : {"<", "<=", ">", ">=", "==", "!="}, r : Terms]

(* How a comparison rejects: it is required, or an if on the contrary      *)
(* reverts, at once, or not before 180 characters, or not at all, and      *)
(* something else reverts near by. It may be alone, or behind a test that  *)
(* lets a zero or anything pass, and be in a branch.                       *)
Required == [op : {"check"}, test : Comparisons, how : {"require", "if", "far if", "near if"},
             unless : {"never", "zero", "anything"}, conditional : BOOLEAN]
Assigned == [op : {"assign"}, to : Places, from : Terms, hashed : BOOLEAN, declares : BOOLEAN]
Sinks == [op : {"verify"}, hashes : SUBSET Places, forever : BOOLEAN]
Invoked == [op : {"call"}, refers : Fns \cup {NoFn}, args : Seq(Terms), conditional : BOOLEAN]
FreshnessStatements == Required \cup Assigned \cup Sinks \cup Invoked

TopicWeight ==
  [permit |-> 4, authorization |-> 5, oracle |-> 4, quote |-> 3, order |-> 3, session |-> 3,
   subscription |-> 3, keeper |-> 3, vote |-> 2, bridge |-> 2, voucher |-> 2, claim |-> 2,
   withdrawal |-> 2, target |-> 2, delegation |-> 2, balances |-> 2]
FreshnessFacts ==
  [params : Seq(Symbols), readOnly : BOOLEAN, effect : BOOLEAN, bySender : BOOLEAN, cancels : BOOLEAN,
   recoversInto : SUBSET Symbols, topics : SUBSET DOMAIN TopicWeight]

Ops(p, f, op) == {Body(p, f)[i] : i \in At(p, f, op)}
NamesOf(places) == ({x.base : x \in places} \cup {x.key : x \in places}) \ {NoKey}
Names(side) == NamesOf(side.plus \cup side.minus)
Follows(p, f) ==
  LET leads == {i \in At(p, f, "call") : ResolveIdentifier(p, f, Body(p, f)[i]) # NoFn}
  IN  [i \in leads |-> Body(p, f)[i].refers]

-------------------------------------------------------------------------------
(* expand_expression: a name is replaced by what was assigned to it last,  *)
(* eight times.                                                            *)
Definitions(p, f) ==
  LET plain == {i \in At(p, f, "assign") : Body(p, f)[i].to.key = NoKey}
      last(sym) == Max({i \in plain : Body(p, f)[i].to.base = sym})
  IN  [sym \in {Body(p, f)[i].to.base : i \in plain} |-> Names(Body(p, f)[last(sym)].from)]
Expand(p, f, names) ==
  LET defs == Definitions(p, f)
      one(sym) == IF sym \in DOMAIN defs THEN defs[sym] ELSE {sym}
      after[k \in 0..8] == IF k = 0 THEN names ELSE UNION {one(sym) : sym \in after[k - 1]}
  IN  after[8]

(* direct_auth_summary, build_auth_summaries                               *)
DirectSigned(p, f) ==
  [ gated |-> At(p, f, "verify") # {},
    names |-> UNION {Expand(p, f, NamesOf(s.hashes)) : s \in Ops(p, f, "verify")},
    forever |-> \E s \in Ops(p, f, "verify") : s.forever ]
SignedArgs(p, f, i) ==
  LET g == sites[f][i]
      at == {k \in DOMAIN p.facts[g].params \cap DOMAIN Body(p, f)[i].args :
               p.facts[g].params[k] \in summaries[g].names}
  IN  UNION {Expand(p, f, Names(Body(p, f)[i].args[k])) : k \in at}
NextSigned(p, f) ==
  LET gated == {i \in DOMAIN sites[f] : summaries[sites[f][i]].gated}
  IN  [summaries[f] EXCEPT !.gated = @ \/ gated # {},
                           !.names = @ \cup UNION {SignedArgs(p, f, i) : i \in gated}]

InitFreshness ==
  /\ project.detector = "freshness"
  /\ phase = "propagate" /\ round = 0
  /\ sites = [f \in project.fns |-> Follows(project, f)] /\ helpers = <<>>
  /\ summaries = [f \in project.fns |-> DirectSigned(project, f)]
  /\ left = EntryFns(project) /\ stack = <<>> /\ visited = {} /\ vulnerable = {}

FreshnessRounds == FreshnessDepth + 2
PropagateSigned ==
  /\ phase = "propagate" /\ round < FreshnessRounds
  /\ summaries' = [f \in project.fns |-> NextSigned(project, f)]
  /\ round' = round + 1
  /\ phase' = IF summaries' = summaries \/ round' = FreshnessRounds THEN "assess" ELSE phase
  /\ UNCHANGED <<name, project, sites, helpers, left, stack, visited, vulnerable>>

-------------------------------------------------------------------------------
(* What is required, said with the names of the entry point, along every   *)
(* path of calls of a bounded length: collect_predicates_recursive,        *)
(* collect_assignments_recursive.                                          *)

Contrary(op) ==
  CASE op = "<" -> ">=" [] op = "<=" -> ">" [] op = ">" -> "<=" [] op = ">=" -> "<"
    [] op = "==" -> "!=" [] op = "!=" -> "=="
RequiredBy(s) ==
  CASE s.how = "require" -> <<s.test>>
    [] s.how \in {"if", "near if"} -> <<[s.test EXCEPT !.op = Contrary(@)]>>
    [] s.how = "far if" -> <<>>

NoTerms == [clock |-> "none", thousand |-> FALSE, plus |-> {}, minus |-> {}, number |-> 0]
Renamed(map, x) ==
  IF x.key \in DOMAIN map /\ map[x.key].plus # {}
  THEN [x EXCEPT !.key = (CHOOSE y \in map[x.key].plus : TRUE).base] ELSE x
Put(map, side) ==
  LET known(places) == {x \in places : x.key = NoKey /\ x.base \in DOMAIN map}
      kept(places) == {Renamed(map, x) : x \in places \ known(places)}
      added == {map[x.base] : x \in known(side.plus)}
      taken == {map[x.base] : x \in known(side.minus)}
      clocks == {s.clock : s \in added \cup {side}} \ {"none"}
  IN  [ clock |-> IF clocks = {} THEN "none" ELSE CHOOSE c \in clocks : TRUE,
        thousand |-> \E s \in added \cup {side} : s.thousand,
        plus |-> kept(side.plus) \cup UNION {s.plus : s \in added} \cup UNION {s.minus : s \in taken},
        minus |-> kept(side.minus) \cup UNION {s.minus : s \in added} \cup UNION {s.plus : s \in taken},
        number |-> Max({s.number : s \in added \cup {side}}) ]
PutBoth(map, c) == [c EXCEPT !.l = Put(map, @), !.r = Put(map, @)]

ArgumentsOf(p, f, i, map) ==
  LET call == Body(p, f)[i]
      params == p.facts[sites[f][i]].params
      at == DOMAIN params \cap DOMAIN call.args
  IN  [sym \in {params[k] : k \in at} |-> Put(map, call.args[Max({k \in at : params[k] = sym})])]

RECURSIVE Collected(_, _, _, _, _)
Collected(p, f, depth, map, path) ==
  IF depth = 0 \/ f \in path THEN [tests |-> <<>>, facts |-> <<>>]
  ELSE FoldLeftDomain(
         LAMBDA all, i :
           LET inner == Collected(p, sites[f][i], depth - 1, ArgumentsOf(p, f, i, map), path \cup {f})
           IN  IF i \notin DOMAIN sites[f] THEN all
               ELSE [tests |-> all.tests \o inner.tests, facts |-> all.facts \o inner.facts],
         [ tests |-> FlattenSeq([i \in DOMAIN Body(p, f) |->
                       IF i \in At(p, f, "check")
                       THEN [k \in DOMAIN RequiredBy(Body(p, f)[i]) |-> PutBoth(map, RequiredBy(Body(p, f)[i])[k])]
                       ELSE <<>>]),
           facts |-> FlattenSeq([i \in DOMAIN Body(p, f) |->
                       IF i \in At(p, f, "assign")
                       THEN <<[to |-> Renamed(map, Body(p, f)[i].to), from |-> Put(map, Body(p, f)[i].from)]>>
                       ELSE <<>>]) ],
         Body(p, f))

(* Locals that hold a time stand for it, besides themselves.               *)
WithTimes(all) ==
  LET timed == {k \in DOMAIN all.facts : all.facts[k].from.clock # "none" /\ all.facts[k].to.key = NoKey}
      last(sym) == Max({k \in timed : all.facts[k].to.base = sym})
      map == [sym \in {all.facts[k].to.base : k \in timed} |-> all.facts[last(sym)].from]
      expanded == SelectSeq([k \in DOMAIN all.tests |-> PutBoth(map, all.tests[k])],
                            LAMBDA c : c \notin ToSet(all.tests))
  IN  [all EXCEPT !.tests = @ \o expanded]
Effective(p, f) == WithTimes(Collected(p, f, FreshnessDepth, <<>>, {}))

-------------------------------------------------------------------------------
(* Candidates: parameters and signed names that speak of time, and what is *)
(* compared with a clock: collect_candidates.                              *)

Less == {"<", "<="}
Greater == {">", ">="}
Mirror(op) == CASE op = "<" -> ">" [] op = "<=" -> ">=" [] op = ">" -> "<" [] op = ">=" -> "<=" [] OTHER -> op
Views(tests) ==
  ToSet(tests) \cup {[l |-> c.r, op |-> Mirror(c.op), r |-> c.l] : c \in ToSet(tests)}

Named(sym) == [side |-> [NoTerms EXCEPT !.plus = {[base |-> sym, key |-> NoKey]}],
               names |-> {sym}, semantic |-> Meaning[sym]]
Inferred(c) ==
  LET at(k) ==
        IF (c.l.clock = k) = (c.r.clock = k) \/ c.op \in {"==", "!="} THEN <<>>
        ELSE LET side == IF c.l.clock = k THEN c.r ELSE c.l
                 op == IF c.l.clock = k THEN c.op ELSE Mirror(c.op)
             IN  <<[side |-> side, names |-> Names(side),
                    semantic |-> IF op \in Less THEN "upper " \o k ELSE "lower " \o k]>>
  IN  at("time") \o at("block")
(* dedupe_candidates goes by the first name.                               *)
FirstName(names) ==
  IF names = {} THEN NoKey ELSE Alphabet[Min({i \in DOMAIN Alphabet : Alphabet[i] \in names})]
Candidates(p, f, signed, tests) ==
  LET named == {Named(sym) : sym \in {x \in ToSet(p.facts[f].params) \cup signed : Meaning[x] # "nothing"}}
      all == FlattenSeq([k \in DOMAIN tests |-> Inferred(tests[k])])
      same(a, b) == a.semantic = b.semantic /\ FirstName(a.names) = FirstName(b.names)
  IN  named \cup {all[k] : k \in {j \in DOMAIN all : ~\E i \in 1..(j - 1) : same(all[i], all[j])}}

UpperBounds == {"deadline", "block deadline", "upper time", "upper block"}
LowerBounds == {"start", "block start", "lower time", "lower block"}
LimitsStaleness(c) ==
  c.semantic \in UpperBounds \cup {"issued", "issued ms", "round", "epoch"}
IsSignedCandidate(p, f, signed, c) ==
  (c.names \cup Expand(p, f, Names(c.side))) \cap signed # {}
(* A stored value is not the caller's, whichever record it is of.          *)
IsCallerControlled(p, f, c) ==
  LET params == ToSet(p.facts[f].params)
      keyed == {x \in c.side.plus : x.key # NoKey}
  IN  /\ keyed # {} => \E x \in keyed : x.base \in params
      /\ Expand(p, f, Names(c.side)) \cap params # {}

-------------------------------------------------------------------------------
(* evaluate_enforcement                                                    *)

Mentions(side, c) == Names(side) \cap c.names # {}
IsSum(side) ==
  Cardinality(side.plus) + side.number + (IF side.clock = "none" THEN 0 ELSE 1) > 1
LooksLikeState(side) ==
  \/ \E x \in side.plus \cup side.minus : x.key # NoKey
  \/ Caller \in Names(side)
  \/ Cardinality(Names(side)) = 1
(* Places are compared as texts, of which one may be the end of the other. *)
EndAlike(x, y) ==
  /\ x.key = y.key
  /\ x.base = y.base \/ <<x.base, y.base>> \in Endings \/ <<y.base, x.base>> \in Endings
IsUpdated(side, c, facts) ==
  \E fact \in ToSet(facts) :
    (\E x \in side.plus : side.plus = {x} /\ EndAlike(x, fact.to)) /\ Mentions(fact.from, c)
IsTimeless(v) == v.l.clock = "none" /\ v.r.clock = "none"
OnClock(v, c, k) == v.l.clock = k /\ v.r.clock # k /\ Mentions(v.r, c)
IsPoint(c) == c.semantic \in {"issued", "issued ms"}

(* Mutant: a bound from below is as good.                                  *)
HasUpperOrLower(views, c) == \E v \in views : \E k \in {"time", "block"} : OnClock(v, c, k)
HasUpper(views, c) == \E v \in views : v.op \in Less /\ \E k \in {"time", "block"} : OnClock(v, c, k)
HasLower(views, c) == \E v \in views : v.op \in Greater /\ \E k \in {"time", "block"} : OnClock(v, c, k)
HasAge(views, c) ==
  \/ \E v \in views : v.op \in Less /\ Mentions(v.l, c) /\ v.l.clock = "time" /\ v.r.clock # "time"
  \/ IsPoint(c) /\ \E v \in views : OnClock(v, c, "time") /\ IsSum(v.r)
IsMonotonic(views, facts, c) ==
  \/ \E v \in views : /\ IsTimeless(v) /\ v.op \in Greater /\ Mentions(v.l, c)
                      /\ LooksLikeState(v.r) /\ IsUpdated(v.r, c, facts)
  \/ /\ c.semantic \in {"round", "epoch"}
     /\ \E v \in views : IsTimeless(v) /\ v.op = "==" /\ v.l = c.side /\ v.r # c.side /\ LooksLikeState(v.r)
IsShapeOnly(views, c) ==
  \E v \in views : Mentions(v.l, c) /\ Names(v.r) = {} /\ v.r.clock = "none" /\ v.op # "=="
HasUnitMismatch(views, c) ==
  c.semantic = "issued ms" /\
    \E v \in views : /\ Mentions(v.l, c) \/ Mentions(v.r, c)
                     /\ "time" \in {v.l.clock, v.r.clock} /\ ~v.l.thousand /\ ~v.r.thousand

(* Enforcement::meaningful_for                                             *)
IsMeaningful(views, facts, c) ==
  /\ ~HasUnitMismatch(views, c)
  /\ CASE c.semantic \in UpperBounds -> HasUpper(views, c) \/ HasAge(views, c)
       [] c.semantic \in LowerBounds -> HasLower(views, c)
       [] IsPoint(c) -> HasAge(views, c) \/ IsMonotonic(views, facts, c)
       [] OTHER -> IsMonotonic(views, facts, c)

-------------------------------------------------------------------------------
(* analyze_freshness                                                       *)

SignerIsCaller(p, f) ==
  \/ p.facts[f].bySender
  \/ \E i \in DOMAIN sites[f] :
       LET g == sites[f][i]
       IN  \E k \in DOMAIN p.facts[g].params \cap DOMAIN Body(p, f)[i].args :
             /\ Body(p, f)[i].args[k] = [NoTerms EXCEPT !.plus = {[base |-> Caller, key |-> NoKey]}]
             /\ p.facts[g].params[k] \in p.facts[g].recoversInto

(* consumes_signed_one_time_key: a mark at a signed key that is checked,   *)
(* here or in a function that is called.                                   *)
ConsumesOneTimeKey(p, f, signed) ==
  LET fns == {f} \cup Range(sites[f])
      marks == {s.to : s \in {a \in UNION {Ops(p, g, "assign") : g \in fns} : a.from # NoTerms}}
      tests == UNION {ToSet(RequiredBy(s)) : s \in UNION {Ops(p, g, "check") : g \in fns}}
      keyed == UNION {{x.base : x \in {y \in c.l.plus \cup c.r.plus : y.key # NoKey}} : c \in tests}
  IN  \E x \in marks : x.key \in signed /\ x.base \in keyed
CancelsOneWay(p, f) ==
  p.facts[f].cancels /\ \A s \in Ops(p, f, "assign") : s.from = [NoTerms EXCEPT !.number = 1]

HasEffect(p, f) ==
  /\ ~p.facts[f].readOnly
  /\ p.facts[f].effect \/ \E s \in Ops(p, f, "assign") : s.to.key # NoKey \/ ~s.declares
SpeaksOfTime(c) ==
  \/ ~IsTimeless(c)
  \/ \E sym \in Names(c.l) \cup Names(c.r) : Meaning[sym] # "nothing"
Confidence(p, f, tests) ==
  LET topics == p.facts[f].topics \ (IF "oracle" \in p.facts[f].topics THEN {"quote"} ELSE {})
  IN  (IF summaries[f].gated THEN 1 ELSE 0) + (IF HasEffect(p, f) THEN 2 ELSE 0)
        + MapThenSumSet(LAMBDA t : TopicWeight[t], topics)
        + (IF \E c \in ToSet(tests) : SpeaksOfTime(c) THEN 1 ELSE 0)

Absence(p, f, signed, tests, candidates) ==
  /\ signed \cap Generations = {}
  /\ ~ConsumesOneTimeKey(p, f, signed) /\ ~CancelsOneWay(p, f)
  /\ \/ summaries[f].forever /\ Confidence(p, f, tests) >= 5
     \/ candidates = {} /\ Confidence(p, f, tests) >= 6

(* Of the candidates: those that are signed, and those that are enforced.  *)
Weigh(p, f, all, views, candidates, sure, enforced) ==
  LET limits == {c \in sure \cap enforced : LimitsStaleness(c)}
      mismatch == \E c \in sure : HasUnitMismatch(views, c)
      open == {c \in candidates \ sure :
                 /\ IsCallerControlled(p, f, c)
                 /\ \E v \in views : Mentions(v.l, c)
                 /\ c \in enforced \/ IsShapeOnly(views, c) \/ LimitsStaleness(c)}
      stale == {c \in sure \ enforced : LimitsStaleness(c)}
      onlyLower == /\ limits = {} /\ \A c \in candidates : c.semantic \notin UpperBounds
                   /\ \E c \in sure \cap enforced : c.semantic \in LowerBounds
  IN  /\ limits = {} \/ mismatch
      /\ \/ open # {} \/ stale # {} \/ onlyLower
         \/ Absence(p, f, summaries[f].names, all.tests, candidates)
WeighAll(p, f, all, views, candidates) ==
  Weigh(p, f, all, views, candidates,
        {c \in candidates : IsSignedCandidate(p, f, summaries[f].names, c)},
        {c \in candidates : IsMeaningful(views, all.facts, c)})
WeighTests(p, f, all) ==
  WeighAll(p, f, all, Views(all.tests), Candidates(p, f, summaries[f].names, all.tests))
IsStale(p, f) == ~SignerIsCaller(p, f) /\ WeighTests(p, f, Effective(p, f))

IsWeighed(p, f) == p.hasBody[f] /\ summaries[f].gated /\ HasEffect(p, f)
AssessFreshness(f) ==
  /\ phase = "assess" /\ f \in left
  /\ Judge(f, IsWeighed(project, f) /\ IsStale(project, f))
  /\ phase' = IF left = {f} THEN "done" ELSE phase
  /\ UNCHANGED <<name, project, round, sites, summaries, helpers, stack, visited>>

NextFreshness ==
  /\ project.detector = "freshness"
  /\ \/ PropagateSigned
     \/ \E f \in left : AssessFreshness(f)
===============================================================================
