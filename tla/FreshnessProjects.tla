--------------------------- MODULE FreshnessProjects ---------------------------
(* Contracts for SignatureFreshness: what is signed, how it is compared with *)
(* the time or with state, and where.                                        *)
EXTENDS SignatureDetectors

TimeSymbols == {"deadline", "expiryMs", "blockDeadline", "issued", "issuedMs", "start", "epoch"}
FreshSymbols ==
  TimeSymbols \cup {"ttl", "cap", "who", "lastOf", "last", "atLast", "until", "maxAge", "age", "digest", "h", "t", "u", "version"}
MeaningOf(sym) ==
  CASE sym \in {"deadline", "expiryMs"} -> "deadline"
    [] sym = "blockDeadline" -> "block deadline"
    [] sym = "issued" -> "issued"
    [] sym = "issuedMs" -> "issued ms"
    [] sym = "start" -> "start"
    [] sym = "epoch" -> "epoch"
    [] OTHER -> "nothing"
UnitOf(sym) ==
  CASE sym \in {"deadline", "issued", "start", "ttl", "until", "maxAge", "t", "u", "age"} -> "second"
    [] sym \in {"expiryMs", "issuedMs", "last", "atLast", "lastOf"} -> "millisecond"
    [] sym = "blockDeadline" -> "block"
    [] OTHER -> "number"

At0(base) == [base |-> base, key |-> NoKey]
AtKey(base, key) == [base |-> base, key |-> key]
Sum(xs) == [NoTerms EXCEPT !.plus = xs]
Sym(base) == Sum({At0(base)})
Num(n) == [NoTerms EXCEPT !.number = n]
Clock(k) == [NoTerms EXCEPT !.clock = k]
Cmp(l, op, r) == [l |-> l, op |-> op, r |-> r]
TestOf(ts, x) ==
  LET now == Clock("time")
      X == Sym(x)
  IN CASE ts = "until" -> Cmp(now, "<=", X)
       [] ts = "before" -> Cmp(X, ">", now)
       [] ts = "age" -> Cmp([now EXCEPT !.minus = {At0(x)}], "<=", Sym("maxAge"))
       [] ts = "local age" -> Cmp(Sym("age"), "<", Sym("maxAge"))
       [] ts = "max age" -> Cmp(now, "<=", Sum({At0(x), At0("maxAge")}))
       [] ts = "ttl" -> Cmp(now, "<=", Sum({At0(x), At0("ttl")}))
       [] ts = "after" -> Cmp(now, ">=", X)
       [] ts = "delay" -> Cmp(now, ">=", Sum({At0(x), At0("maxAge")}))
       [] ts = "newer" -> Cmp(X, ">", Sum({AtKey("lastOf", "owner")}))
       [] ts = "newer of" -> Cmp(X, ">", Sum({AtKey("lastOf", "who")}))
       [] ts = "not older" -> Cmp(Sym("last"), "<=", X)
       [] ts = "current" -> Cmp(X, "==", Sum({AtKey("lastOf", "owner")}))
       [] ts = "nonzero" -> Cmp(X, "!=", Num(0))
       [] ts = "positive" -> Cmp(X, ">", Num(0))
       [] ts = "capped" -> Cmp(X, ">=", Sym("cap"))
       [] ts = "equal" -> Cmp(Sym("cap"), "==", X)
       [] ts = "block" -> Cmp(Clock("block"), "<=", X)
       [] ts = "thousand" -> Cmp([now EXCEPT !.thousand = TRUE], "<=", Sum({At0(x), At0("maxAge")}))
       [] ts = "stored" -> Cmp(now, "<=", Sum({AtKey("until", "owner")}))
       [] ts = "literal" -> Cmp(now, "<=", Num(1))
       [] ts = "next" -> Cmp(now, "<=", [X EXCEPT !.number = 1])
TestKinds == {"until", "before", "age", "local age", "max age", "ttl", "after", "delay", "newer", "newer of", "not older",
              "current", "nonzero", "positive", "capped", "equal", "block", "thousand", "stored", "literal", "next"}
Require(c) == [op |-> "check", test |-> c, how |-> "require", unless |-> "never", conditional |-> FALSE]
How(c, how, unless, conditional) ==
  [ op |-> "check", how |-> how, unless |-> unless, conditional |-> conditional,
    test |-> IF how = "require" THEN c ELSE [c EXCEPT !.op = Contrary(@)] ]
Set(x, from) == [op |-> "assign", to |-> x, from |-> from, hashed |-> FALSE, declares |-> FALSE]
Hash(x, syms) == [op |-> "assign", to |-> At0(x), from |-> Sum({At0(s) : s \in syms}), hashed |-> TRUE, declares |-> TRUE]
Signs0(syms) == [op |-> "verify", hashes |-> {At0(s) : s \in syms}, forever |-> FALSE]
Calls0(g, args) == [op |-> "call", refers |-> g, args |-> args, conditional |-> FALSE]
FreshOf(params) ==
  [params |-> params, readOnly |-> FALSE, effect |-> TRUE, bySender |-> FALSE, cancels |-> FALSE,
   recoversInto |-> {}, topics |-> {}]
MakeFresh(bodies, facts) ==
  [ detector |-> "freshness", fns |-> DOMAIN bodies, body |-> bodies, facts |-> facts,
    named |-> [f \in DOMAIN bodies |-> f], file |-> [f \in DOMAIN bodies |-> 1],
    scope |-> [f \in DOMAIN bodies |-> "C"], entry |-> [f \in DOMAIN bodies |-> f = "claim"],
    hasBody |-> [f \in DOMAIN bodies |-> TRUE] ]

\* what is signed, what is compared, what is stored
SignedSyms(sg, x) ==
  CASE sg = "all" -> {"owner", x, "ttl"} [] sg = "time" -> {"owner", x} [] sg = "ttl" -> {"owner", "ttl"} [] sg = "none" -> {"owner"}
StoreOf(st, x) ==
  CASE st = "none" -> <<>>
    [] st = "at owner" -> <<Set(AtKey("lastOf", "owner"), Sym(x))>>
    [] st = "at who" -> <<Set(AtKey("lastOf", "who"), Sym(x))>>
    [] st = "plain" -> <<Set(At0("last"), Sym(x))>>
    [] st = "alike" -> <<Set(At0("atLast"), Sym(x))>>
    [] st = "cap" -> <<Set(At0("cap"), Sym(x))>>
    [] st = "one" -> <<Set(At0("last"), Num(1))>>
Extra(ts) == IF ts \in {"capped", "equal"} THEN <<"cap">> ELSE IF ts = "ttl" THEN <<"ttl">> ELSE IF ts = "newer of" THEN <<"who">> ELSE <<>>
F1(ch) ==
  LET sign == IF ch.local THEN <<Hash("digest", SignedSyms(ch.sg, ch.x)), Signs0({"digest"})>> ELSE <<Signs0(SignedSyms(ch.sg, ch.x))>>
      age == IF ch.ts = "local age" THEN <<[Set(At0("age"), [Clock("time") EXCEPT !.minus = {At0(ch.x)}]) EXCEPT !.declares = TRUE]>> ELSE <<>>
      check == age \o <<Require(TestOf(ch.ts, ch.x))>>
      store == StoreOf(ch.st, ch.x)
      body == sign \o (IF ch.first THEN store \o check ELSE check \o store)
  IN  MakeFresh("claim" :> body, "claim" :> FreshOf(<<"owner", ch.x>> \o Extra(ch.ts)))
ChF1 == {ch \in [g : {"F1"}, x : TimeSymbols, ts : TestKinds, sg : {"all", "time", "ttl", "none"}, st : {"none", "at owner", "at who", "plain", "alike", "cap", "one"},
                 local : BOOLEAN, first : BOOLEAN] :
           /\ ch.sg \in {"all", "ttl"} => ch.ts = "ttl"
           /\ ch.st \in {"none", "one"} => ~ch.first
           /\ ch.local => ch.st = "none"}

\* how a comparison rejects, and where it is: helpers take owner as h and the time as t
Pass == <<Sym("owner"), Sym("deadline")>>
PassOn == <<Sym("h"), Sym("t")>>
F2(ch) ==
  LET c(x) == How(TestOf(ch.ts, x), ch.how, ch.unless, ch.conditional)
      sign == <<Signs0({"owner", "deadline"})>>
      call(g) == [Calls0(g, Pass) EXCEPT !.conditional = ch.place = "in a branch"]
      chain == [f \in {"claim", "help", "deep", "last"} |->
                  CASE f = "claim" -> sign \o <<call("help")>>
                    [] f = "help" -> IF ch.place \in {"helper", "in a branch"} THEN <<c("t")>> ELSE <<Calls0("deep", PassOn)>>
                    [] f = "deep" -> IF ch.place \in {"far", "loop"} THEN <<[Calls0(IF ch.place = "far" THEN "last" ELSE "help", PassOn) EXCEPT !.conditional = ch.place = "loop"]>> \o (IF ch.place = "loop" THEN <<c("t")>> ELSE <<>>) ELSE <<c("t")>>
                    [] f = "last" -> <<c("t")>>]
      bodies ==
        CASE ch.place = "own" -> "claim" :> (sign \o <<c("deadline")>>)
          [] ch.place = "own first" -> "claim" :> (<<c("deadline")>> \o sign)
          [] ch.place = "verifies" -> ("claim" :> <<c("deadline"), Calls0("help", Pass)>>) @@ ("help" :> <<Signs0({"h", "t"})>>)
          [] ch.place = "verifies deep" -> ("claim" :> <<c("deadline"), Calls0("help", Pass)>>) @@ ("help" :> <<Calls0("deep", PassOn)>>) @@ ("deep" :> <<Calls0("last", PassOn)>>) @@ ("last" :> <<Signs0({"h", "t"})>>)
          [] ch.place = "verifies part" -> ("claim" :> <<c("deadline"), Calls0("help", Pass)>>) @@ ("help" :> <<Signs0({"h"})>>)
          [] ch.place = "shared name" -> ("claim" :> sign \o <<Calls0("help", <<Sym("owner")>>)>>) @@
               ("help" :> <<Set(At0("deadline"), Sum({At0("maxAge"), At0("until")})), c("deadline")>>)
          [] OTHER -> [f \in {"claim", "help", "deep"} \cup (IF ch.place = "far" THEN {"last"} ELSE {}) |-> chain[f]]
  IN  MakeFresh(bodies, [f \in DOMAIN bodies |-> FreshOf(IF f = "claim" THEN <<"owner", "deadline">> \o Extra(ch.ts) ELSE <<"h", "t">>)])
ChF2 == {ch \in [g : {"F2"}, ts : {"until", "before", "age", "after", "nonzero"}, how : {"require", "if", "far if", "near if"}, unless : {"never", "zero", "anything"},
                  conditional : BOOLEAN,
                  place : {"own", "own first", "helper", "deep", "far", "loop", "in a branch", "verifies", "verifies deep", "verifies part", "shared name"}] :
           ch.how # "require" => ch.unless # "zero"}

\* two times, one or both of them signed
F3(ch) ==
  LET body == <<Signs0({"owner"} \cup (IF ch.sign = "both" THEN {ch.x, ch.y} ELSE {ch.x}))>>
                \o <<Require(TestOf(ch.tx, ch.x)), Require(TestOf(ch.ty, ch.y))>> \o StoreOf(ch.st, ch.y)
  IN  MakeFresh("claim" :> body, "claim" :> FreshOf(<<"owner", ch.x, ch.y>> \o (IF "ttl" \in {ch.tx, ch.ty} THEN <<"ttl">> ELSE <<>>)))
ChF3 == {ch \in [g : {"F3"}, x : {"deadline", "issued", "start", "epoch", "issuedMs"}, y : {"deadline", "issued", "start"}, sign : {"one", "both"}, st : {"none", "at owner"},
                  tx : {"until", "age", "after", "newer", "nonzero", "thousand"}, ty : {"until", "age", "after", "newer", "nonzero", "ttl"}] : ch.x # ch.y}

\* nothing is compared: what the words say
F4(ch) ==
  LET mark == IF ch.mark THEN <<Require(Cmp(Sum({AtKey("lastOf", "owner")}), "==", Num(0))), Set(AtKey("lastOf", "owner"), Num(1))>> ELSE <<>>
      body == <<[Signs0({"owner"} \cup ch.signed) EXCEPT !.forever = ch.forever]>> \o mark
      call == <<Calls0("help", <<Sym("sender")>>)>>
      facts == [FreshOf(<<"owner">>) EXCEPT !.topics = ch.topics, !.cancels = ch.only = "cancels", !.bySender = ch.only = "sender",
                                            !.readOnly = ch.only = "view", !.effect = ch.only # "pure"]
  IN  MakeFresh(("claim" :> body \o call) @@ ("help" :> <<>>),
                ("claim" :> facts) @@ ("help" :> [FreshOf(<<"h">>) EXCEPT !.recoversInto = IF ch.only = "helper" THEN {"h"} ELSE {}]))
ChF4 == [g : {"F4"}, signed : {{}, {"version"}, {"deadline"}}, forever : BOOLEAN, mark : BOOLEAN, only : {"nothing", "cancels", "sender", "helper", "view", "pure"},
         topics : {{}, {"order"}, {"oracle", "quote"}, {"claim", "target"}, {"permit", "withdrawal"}}]

FreshnessChoices == ChF1 \cup ChF2 \cup ChF3 \cup ChF4
FreshnessProject(ch) == CASE ch.g = "F1" -> F1(ch) [] ch.g = "F2" -> F2(ch) [] ch.g = "F3" -> F3(ch) [] ch.g = "F4" -> F4(ch)
===============================================================================
