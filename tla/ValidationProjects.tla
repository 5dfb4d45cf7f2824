-------------------------- MODULE ValidationProjects --------------------------
(* Contracts for ContractSignatures: wallets that answer, and contracts that *)
(* ask one before they change something.                                     *)
EXTENDS SignatureDetectors

AskingSymbols ==
  {"validator", "done", "registry", "recovered", "ok", "ret", "flag", "true", "false"}
Part(k, a) == [k |-> k, a |-> a, b |-> NoName]
Part2(k, a, b) == [k |-> k, a |-> a, b |-> b]
All(parts) == [parts |-> parts, any |-> FALSE]
Either(parts) == [parts |-> parts, any |-> TRUE]
Gives(k) == [gives |-> k, sym |-> NoName, cond |-> All(<<>>), yes |-> "magic", no |-> "other"]
GivesName(sym) == [Gives("name") EXCEPT !.sym = sym]
GivesTest(c) == [Gives("condition") EXCEPT !.cond = c]
Chooses(c, yes, no) == [gives |-> "choice", sym |-> NoName, cond |-> c, yes |-> yes, no |-> no]
Yield(r) == [op |-> "return", result |-> r]
Assign(to, from) == [op |-> "let", to |-> to, from |-> from, hashed |-> FALSE]
Hashing(to, from) == [op |-> "let", to |-> to, from |-> from, hashed |-> TRUE]
Recovering(to, hash, sig) == [op |-> "recover", to |-> to, hash |-> hash, sig |-> sig]
Calling(f, args, to) == [op |-> "call", refers |-> f, args |-> args, to |-> to]
If(c, n) == [op |-> "branch", cond |-> c, n |-> n, braced |-> TRUE]
IfThen(c) == [op |-> "branch", cond |-> c, n |-> 1, braced |-> FALSE]
Demand(c) == [op |-> "require", cond |-> c]
Changing(how, base, key) == [op |-> "change", how |-> how, base |-> base, key |-> key]
Done == Changing("assign", "done", NoName)

Parameters(names, types) == [k \in DOMAIN names |-> [name |-> names[k], type |-> types[k]]]
HashAndSig == Parameters(<<"hash", "sig">>, <<"bytes32", "bytes">>)
SignerHashSig == Parameters(<<"signer", "hash", "sig">>, <<"address", "bytes32", "bytes">>)
Plain(params, returns) ==
  [params |-> params, returns |-> returns, readOnly |-> FALSE,
   locals |-> {params[k].name : k \in DOMAIN params} \cup {"r", "ok", "ret", "alias"}, guard |-> "none", binds |-> FALSE, passesThrough |-> FALSE]
Answering == Plain(HashAndSig, <<"bytes4">>)
Owned(facts) == [facts EXCEPT !.guard = "owner"]
Reading1271(facts) == [facts EXCEPT !.readOnly = TRUE]

\* a contract; its entry points are claim and sib, and claim is the wallet's
\* answer where it returns one
Contracted(bodies, facts) ==
  LET fns == DOMAIN bodies
  IN  [ fns |-> fns, detector |-> "validation", file |-> [f \in fns |-> 1], scope |-> [f \in fns |-> "C"],
        named |-> [f \in fns |-> IF f = "claim" /\ facts[f].returns = <<"bytes4">> THEN "isValidSignature" ELSE f],
        entry |-> [f \in fns |-> f \in {"claim", "sib"}], hasBody |-> [f \in fns |-> TRUE],
        body |-> bodies, facts |-> facts ]

\* a wallet: what is recovered from what, where, and what is made of it
TestOn(sym, test, flip) ==
  LET k(yes, no) == IF flip THEN no ELSE yes
  IN  CASE test = "owner" -> All(<<Part2(k("is", "is not"), sym, "owner")>>)
        [] test = "owner, not zero" -> (IF flip THEN Either(<<Part("is zero", sym), Part2("is not", sym, "owner")>>)
                                        ELSE All(<<Part("is not zero", sym), Part2("is", sym, "owner")>>))
        [] test = "not zero" -> All(<<Part(k("is not zero", "is zero"), sym)>>)
        [] test = "registry" -> All(<<Part2(k("in", "not in"), sym, "registry")>>)
Forms(form, yes, no) ==
  CASE form = "choice" -> <<Yield(Chooses(yes, "magic", "other"))>>
    [] form = "reverse choice" -> <<Yield(Chooses(no, "other", "magic"))>>
    [] form = "if" -> <<If(yes, 1), Yield(Gives("magic")), Yield(Gives("other"))>>
    [] form = "unless" -> <<IfThen(no), Yield(Gives("other")), Yield(Gives("magic"))>>
    [] form = "require" -> <<Demand(yes), Yield(Gives("magic"))>>
Made1271(dg, sym, content, sig) ==
  CASE dg = "hash" -> <<Recovering(sym, {content}, {sig})>>
    [] dg = "digest" -> <<Hashing("alias", {content}), Recovering(sym, {"alias"}, {sig})>>
    [] dg = "constant" -> <<Recovering(sym, {}, {sig})>>
    [] dg = "overwritten" -> <<Assign("alias", {content}), Assign("alias", {}), Recovering(sym, {"alias"}, {sig})>>
    [] dg = "no signature" -> <<Recovering(sym, {content}, {})>>
VI == {ch \in [g : {"VI"}, dg : {"hash", "digest", "constant", "overwritten", "no signature"}, by : {"claim", "help", "deep", "last"},
               test : {"owner", "owner, not zero", "not zero", "registry"}, form : {"choice", "reverse choice", "if", "unless", "require"}, flip : BOOLEAN] :
         /\ ch.by # "claim" => ch.test = "owner" /\ ch.form \in {"choice", "if"}
         /\ ch.dg # "hash" => ch.form = "choice" /\ ~ch.flip /\ ch.test = "owner"}
Chain == <<"claim", "help", "deep", "last", "far">>
Wallet1271(ch) ==
  LET at == CHOOSE k \in DOMAIN Chain : Chain[k] = ch.by
      sym == IF at = 1 THEN "recovered" ELSE "r"
      tail == Forms(ch.form, TestOn(sym, ch.test, ch.flip), TestOn(sym, ch.test, ~ch.flip))
      fns == {Chain[k] : k \in 1..at}
      body(k) ==
        IF k = at THEN IF k = 1 THEN Made1271(ch.dg, sym, "hash", "sig") \o tail
                       ELSE Made1271(ch.dg, "recovered", "hash", "sig") \o <<Yield(GivesName("recovered"))>>
        ELSE <<Calling(Chain[k + 1], <<"hash", "sig">>, "r")>> \o (IF k = 1 THEN tail ELSE <<Yield(GivesName("r"))>>)
  IN  Contracted([f \in fns |-> body(CHOOSE k \in DOMAIN Chain : Chain[k] = f)],
                 [f \in fns |-> IF f = "claim" THEN Reading1271(Answering) ELSE Plain(HashAndSig, <<"address">>)])

\* a wallet whose answer may change something, in it or further down
VE == {ch \in [g : {"VE"}, at : {"claim", "help", "deep", "last", "far"}, how : {"assign", "word", "local", "pointer"},
               arg : {"none", "true", "false"}, any : BOOLEAN, twice : BOOLEAN] :
         /\ ch.arg = "none" => ~ch.any /\ ~ch.twice
         /\ ch.arg # "none" => ch.at = "help" /\ ch.how = "assign"}
Effects(ch) ==
  LET at == CHOOSE k \in DOMAIN Chain : Chain[k] = ch.at
      fns == {Chain[k] : k \in 1..at} \cup (IF ch.twice THEN {"sib"} ELSE {})
      change == CASE ch.how = "pointer" -> Changing("assign", "alias", NoName)
                  [] ch.how = "local" -> Changing("local", "alias", NoName)
                  [] OTHER -> Changing(ch.how, "done", NoName)
      gate == IF ch.any THEN Either(<<Part("holds", "flag"), Part("is not zero", "sender")>>) ELSE All(<<Part("holds", "flag")>>)
      changing == IF ch.arg = "none" THEN <<change>> ELSE <<If(gate, 1), change>>
      arg == IF ch.arg = "none" THEN "false" ELSE ch.arg
      down(k) == IF k = at THEN changing ELSE <<Calling(Chain[k + 1], <<arg>>, NoName)>>
      more == IF ch.twice THEN <<Calling("sib", <<"true">>, NoName)>> ELSE <<>>
      answer == Made1271("hash", "recovered", "hash", "sig") \o Forms("choice", TestOn("recovered", "owner", FALSE), <<>>)
      flags == [Plain(Parameters(<<"flag">>, <<"bool">>), <<>>) EXCEPT !.locals = @ \ {"ret"}]
  IN  [Contracted([f \in fns |-> CASE f = "claim" -> down(1) \o more \o answer
                                   [] f = "sib" -> <<Calling("help", <<"flag">>, NoName)>>
                                   [] OTHER -> down(CHOOSE k \in DOMAIN Chain : Chain[k] = f)],
                  [f \in fns |-> IF f = "claim" THEN Answering ELSE flags])
       EXCEPT !.entry = [f \in fns |-> f = "claim"]]

\* a wallet with a registry that others may enter, one that has no owner yet,
\* and one that asks an account its signature names
VR == [g : {"VR"}, key : {"sender", "who"}, guard : {"none", "owner", "other"}]
Registering(ch) ==
  Contracted(("claim" :> (Made1271("hash", "recovered", "hash", "sig") \o Forms("choice", TestOn("recovered", "registry", FALSE), <<>>))) @@
             ("sib" :> <<Changing("assign", "registry", ch.key)>>),
             ("claim" :> Reading1271(Answering)) @@
             ("sib" :> [Plain(Parameters(<<"who">>, <<"address">>), <<>>) EXCEPT !.guard = ch.guard]))
VO == {ch \in [g : {"VO"}, braced : BOOLEAN, test : {"owner", "owner, not zero"}, policy : {"any", "none", "no fallback"}] :
         ch.policy = "no fallback" => ch.braced}
Unowned(ch) ==
  LET unset == [If(All(<<Part("is zero", "owner")>>), 1) EXCEPT !.braced = ch.braced]
      fallback == CASE ch.policy = "any" -> <<unset, Yield(Chooses(TestOn("recovered", "not zero", FALSE), "magic", "other"))>>
                    [] ch.policy = "none" -> <<unset, Yield(Gives("other"))>>
                    [] ch.policy = "no fallback" -> <<>>
  IN  Contracted(("claim" :> (Made1271("hash", "recovered", "hash", "sig") \o fallback
                                \o Forms("choice", TestOn("recovered", ch.test, FALSE), <<>>))) @@
                 ("sib" :> <<Changing("assign", "owner", NoName)>>),
                 ("claim" :> Reading1271(Answering)) @@
                 ("sib" :> Owned(Plain(Parameters(<<"who">>, <<"address">>), <<>>))))
VS == [g : {"VS"}, how : {"offset", "decoded"}, selector : BOOLEAN, tested : BOOLEAN]
Electing(ch) ==
  Contracted("claim" :> (Made1271("hash", "recovered", "hash", "sig") \o
                         <<[op |-> "elect", to |-> "ok", sig |-> {"sig"}, how |-> ch.how, selector |-> ch.selector]>> \o
                         Forms("choice", IF ch.tested THEN All(<<Part("holds", "ok"), Part2("is", "recovered", "owner")>>)
                                         ELSE Either(<<Part("holds", "ok"), Part2("is", "recovered", "owner")>>), <<>>)),
             "claim" :> Reading1271(Answering))
VP == [g : {"VP"}, shape : {"legacy", "other"}, passes : BOOLEAN, binds : BOOLEAN]
Shaping(ch) ==
  LET params == IF ch.shape = "legacy" THEN Parameters(<<"hash", "sig">>, <<"bytes", "bytes">>)
                ELSE Parameters(<<"hash", "sig", "who">>, <<"bytes32", "bytes", "address">>)
  IN  Contracted(("claim" :> (<<Calling("help", <<"hash">>, "alias")>> \o Made1271("hash", "recovered", "alias", "sig")
                                \o Forms("choice", TestOn("recovered", "owner", FALSE), <<>>))) @@
                 ("help" :> <<Yield(GivesName("a"))>>),
                 ("claim" :> [Reading1271(Plain(params, <<"bytes4">>)) EXCEPT !.binds = ch.binds]) @@
                 ("help" :> [Reading1271(Plain(Parameters(<<"a">>, <<"bytes32">>), <<"bytes32">>)) EXCEPT !.passesThrough = ch.passes]))

\* a contract that asks an account: with a low-level call, with one of the
\* interface, or only where the account has code
Ret(k) == Part(k, "ret")
Taken(form) ==
  LET sure == All(<<Ret("sized"), Ret("decodes magic")>>)
  IN  CASE form = "all" -> <<Yield(GivesTest(All(<<Part("holds", "ok"), Ret("sized"), Ret("decodes magic")>>)))>>
        [] form = "read" -> <<Yield(GivesTest(All(<<Part("holds", "ok"), Ret("sized"), Ret("reads magic")>>)))>>
        [] form = "unsized" -> <<Yield(GivesTest(All(<<Part("holds", "ok"), Ret("reads magic")>>)))>>
        [] form = "no magic" -> <<Yield(GivesTest(All(<<Part("holds", "ok"), Ret("sized")>>)))>>
        [] form = "either" -> <<Yield(GivesTest(Either(<<Part("holds", "ok"), Ret("sized"), Ret("decodes magic")>>)))>>
        [] form = "unheeded" -> <<Yield(GivesTest(sure))>>
        [] form = "mentioned" -> <<If(All(<<Part("holds", "ok")>>), 0), Yield(GivesTest(sure))>>
        [] form = "empty" -> <<If(All(<<Ret("empty")>>), 1), Yield(Gives("true")), Demand(All(<<Part("holds", "ok")>>)), Yield(GivesTest(sure))>>
        [] form = "failed" -> <<If(All(<<Part("holds", "ok")>>), 1), Yield(GivesTest(sure)), Yield(GivesTest(sure))>>
        [] form = "unless" -> <<IfThen(Either(<<Part("fails", "ok"), Ret("empty")>>)), Yield(Gives("false")), Yield(GivesTest(sure))>>
LowWith(kind, success, data, hash, sig) ==
  [op |-> "low", kind |-> kind, target |-> "signer", success |-> success, data |-> data, hash |-> hash, sig |-> sig]
DirectWith(target, hash, sig, use) == [op |-> "direct", target |-> target, hash |-> hash, sig |-> sig, to |-> IF use = "kept" THEN "r" ELSE NoName, use |-> use]
Contents == {"hash", "digest", "constant", "overwritten", "other"}
Before1271(dg) == CASE dg = "digest" -> <<Hashing("alias", {"hash"})>> [] dg = "other" -> <<Hashing("alias", {"owner"})>>
                    [] dg = "overwritten" -> <<Assign("alias", {"hash"}), Assign("alias", {})>> [] OTHER -> <<>>
ContentOf(dg) == CASE dg = "hash" -> {"hash"} [] dg = "constant" -> {} [] OTHER -> {"alias"}
Listed(sym) == Demand(All(<<Part2("in", sym, "registry")>>))
\* the entry point: the account is on a list, it says yes, and all is done
Acting(helper, returns) ==
  Contracted(("claim" :> <<Listed("signer"), Calling("help", <<"signer", "hash", "sig">>, "ok"), Demand(All(<<Part("holds", "ok")>>)), Done>>) @@
             ("help" :> helper),
             ("claim" :> Plain(SignerHashSig, <<>>)) @@ ("help" :> Reading1271(Plain(SignerHashSig, returns))))
VL == {ch \in [g : {"VL"}, kind : {"static", "call"}, kept : {"both", "success", "data"}, dg : Contents, sg : {{"sig"}, {}},
               form : {"all", "read", "unsized", "no magic", "either", "unheeded", "mentioned", "empty", "failed", "unless"}] :
         /\ ch.form # "all" => ch.kind = "static" /\ ch.dg = "hash" /\ ch.sg = {"sig"}
         /\ ch.kept # "both" => ch.form = "all"
         /\ ch.kind = "call" => ch.kept = "both"}
AskingLow(ch) ==
  Acting(Before1271(ch.dg) \o
         <<LowWith(ch.kind, IF ch.kept = "data" THEN NoName ELSE "ok", IF ch.kept = "success" THEN NoName ELSE "ret", ContentOf(ch.dg), ch.sg)>> \o
         (IF ch.kept = "both" THEN Taken(ch.form)
          ELSE IF ch.kept = "data" THEN <<Yield(GivesTest(All(<<Ret("sized"), Ret("decodes magic")>>)))>>
          ELSE <<Yield(GivesName("ok"))>>), <<"bool">>)
VD == {ch \in [g : {"VD"}, use : {"kept", "dropped", "equal", "returned"}, then : {"is magic", "unless magic", "is not magic", "nothing", "is other"}, dg : Contents, sg : {{"sig"}, {}}] :
         /\ ch.use \in {"dropped", "equal"} => ch.then = "nothing"
         /\ ch.use = "returned" => ch.then \in {"is magic", "nothing"}
         /\ ch.then # "is magic" => ch.dg = "hash" /\ ch.sg = {"sig"}}
AskingDirectly(ch) ==
  LET magic == All(<<Part("is magic", "r")>>)
      then == CASE ch.then = "is magic" -> <<Yield(GivesTest(magic))>>
                [] ch.then = "unless magic" -> <<IfThen(All(<<Part("is not magic", "r")>>)), Yield(Gives("false")), Yield(Gives("true"))>>
                [] ch.then = "is not magic" -> <<Yield(GivesTest(All(<<Part("is not magic", "r")>>)))>>
                [] ch.then = "is other" -> <<Yield(GivesTest(All(<<Part2("is not", "r", "owner")>>)))>>
                [] ch.then = "nothing" -> <<Yield(Gives("true"))>>
      asking == Before1271(ch.dg) \o <<DirectWith("signer", ContentOf(ch.dg), ch.sg, ch.use)>>
      p == Acting(asking \o (IF ch.use = "returned" THEN <<>> ELSE then), <<"bool">>)
  IN  IF ch.use # "returned" THEN p
      ELSE [p EXCEPT !.facts["help"].returns = <<"bytes4">>,
                     !.body["claim"] = <<Listed("signer"), Calling("help", <<"signer", "hash", "sig">>, "r")>> \o
                                       (IF ch.then = "is magic" THEN <<Demand(magic)>> ELSE <<>>) \o <<Done>>]
VC == [g : {"VC"}, listed : BOOLEAN, form : {"accepts", "recovers", "reversed", "contracts"}, braced : BOOLEAN, ask : {"low", "direct"}]
Branching(ch) ==
  LET no == All(<<Part("no code", "signer")>>)
      yes == All(<<Part("has code", "signer")>>)
      ask == IF ch.ask = "low" THEN <<LowWith("static", "ok", "ret", {"hash"}, {"sig"})>> \o Taken("all")
             ELSE <<DirectWith("signer", {"hash"}, {"sig"}, "kept"), Yield(GivesTest(All(<<Part("is magic", "r")>>)))>>
      recover == <<Recovering("recovered", {"hash"}, {"sig"}), Yield(GivesTest(All(<<Part2("is", "recovered", "signer")>>)))>>
      help == CASE ch.form = "accepts" -> <<[If(no, 1) EXCEPT !.braced = ch.braced], Yield(Gives("true"))>> \o ask
                [] ch.form = "recovers" -> <<If(no, 2)>> \o recover \o ask
                [] ch.form = "reversed" -> <<If(yes, 2)>> \o recover \o ask
                [] ch.form = "contracts" -> <<If(yes, Len(ask))>> \o ask \o recover
      p == Acting(help, <<"bool">>)
  IN  IF ch.listed THEN p ELSE [p EXCEPT !.body["claim"] = Tail(@)]

\* who is asked: an argument that is checked in some way, or a state variable
VT == {ch \in [g : {"VT"}, target : {"signer", "validator"}, checked : {"list", "list by if", "mention", "equal", "nothing"},
               setter : {"none", "owner", "other"}, guard : {"none", "owner", "other"}, act : {"claim", "help"}] :
         /\ ch.target = "signer" => ch.setter = "owner"
         /\ ch.target = "validator" => ch.checked = "nothing"
         /\ ch.guard # "none" => ch.act = "claim"}
Choosing(ch) ==
  LET check == CASE ch.checked = "list" -> <<Listed("signer")>>
                 [] ch.checked = "list by if" -> <<IfThen(All(<<Part2("not in", "signer", "registry")>>)), [op |-> "revert"]>>
                 [] ch.checked = "mention" -> <<If(All(<<Part2("in", "signer", "registry")>>), 0), Demand(All(<<Part("is not zero", "signer")>>))>>
                 [] ch.checked = "equal" -> <<Demand(All(<<Part2("is", "signer", "validator")>>))>>
                 [] ch.checked = "nothing" -> <<>>
      ask == <<DirectWith(ch.target, {"hash"}, {"sig"}, "equal")>>
      setter == <<Changing("assign", "validator", NoName)>>
      bodies == ("claim" :> (check \o ask \o (IF ch.act = "claim" THEN <<Done>> ELSE <<Calling("help", <<>>, NoName)>>))) @@
                ("sib" :> setter) @@ ("help" :> IF ch.act = "help" THEN <<Done>> ELSE <<>>)
      set == Plain(Parameters(<<"who">>, <<"address">>), <<>>)
  IN  Contracted(bodies,
        ("claim" :> [Plain(SignerHashSig, <<>>) EXCEPT !.guard = ch.guard]) @@ ("help" :> Plain(<<>>, <<>>)) @@
        ("sib" :> [set EXCEPT !.guard = ch.setter]))

ValidationChoices == VI \cup VE \cup VR \cup VO \cup VS \cup VP \cup VL \cup VD \cup VC \cup VT
ValidationProject(ch) ==
  CASE ch.g = "VI" -> Wallet1271(ch) [] ch.g = "VE" -> Effects(ch) [] ch.g = "VR" -> Registering(ch) [] ch.g = "VO" -> Unowned(ch)
    [] ch.g = "VS" -> Electing(ch) [] ch.g = "VP" -> Shaping(ch) [] ch.g = "VL" -> AskingLow(ch) [] ch.g = "VD" -> AskingDirectly(ch)
    [] ch.g = "VC" -> Branching(ch) [] ch.g = "VT" -> Choosing(ch)
===============================================================================
