---------------------------- MODULE ReplayProjects ----------------------------
(* Contracts for SignatureReplay: those of NonceManagement that sign the   *)
(* contract, too, and others that share what is signed or sign it apart.   *)
EXTENDS NonceProjects

ForReplay(p) ==
  [p EXCEPT !.detector = "replay", !.facts = [f \in p.fns |-> [returned |-> {}] @@ p.facts[f]]]
SignContract(ss) == [k \in DOMAIN ss |-> IF ss[k].op = "verify" THEN [ss[k] EXCEPT !.digest = @ \cup {"this"}] ELSE ss[k]]
Bound(p) == [p EXCEPT !.body = [f \in p.fns |-> SignContract(p.body[f])]]
ChRA == {[ch EXCEPT !.g = "RA"] : ch \in {x \in ChA : x.base = "marks" /\ x.dg \in {"all", "no nonce", "counter"} /\ x.key \in {"owner", "nonce", "-"}}}
ChRB == {[ch EXCEPT !.g = "RB"] : ch \in {x \in ChB : x.sibkey = "a"}}

\* a mark per owner and nonce, or per another name, tested here or by a helper
Ask(keys, negated) == [op |-> "ask", refers |-> "help", by |-> "_help", args |-> keys, negated |-> negated]
MarkAt(keys) == [base |-> "marks", keys |-> keys]
ReplayFactsOf(params, returned) == [returned |-> returned] @@ Facts(params)
Marked(ch) ==
  LET slot == MarkAt(ch.keys)
      inner == MarkAt(SubSeq(<<"a", "n">>, 1, Len(ch.keys)))
      read == CASE ch.by = "help" -> <<Ask(ch.keys, ch.kind = "clear")>>
                [] ch.by = "own" -> <<Check(ch.kind, slot, Zero)>>
                [] ch.by = "holder" -> <<[op |-> "elsewhere", args |-> ToSet(ch.keys)]>>
      mark == IF ch.wr = "one" THEN W("assign", slot, E({}, 1)) ELSE W(ch.wr, slot, Zero)
      signed == Verify({"nonce", "this"} \cup ch.more, {}, ch.signer)
      start == IF ch.kind = "is set" THEN <<W("assign", slot, E({}, 1))>> ELSE <<>>
      bodies == ("claim" :> (<<signed>> \o read \o <<mark>>)) @@
                (IF ch.by = "help" THEN "help" :> <<>> ELSE <<>>) @@
                (IF ch.kind = "is set" THEN "sib" :> <<[op |-> "caller", is |-> "owner"], W("assign", slot, E({}, 1))>> ELSE <<>>)
      ps == <<"owner", "nonce">> \o (IF "fee" \in ToSet(ch.keys) \cup ch.more THEN <<"fee">> ELSE <<>>)
  IN  [Make(bodies, [f \in DOMAIN bodies |->
                       IF f = "help" THEN ReplayFactsOf(inner.keys, {inner}) ELSE ReplayFactsOf(ps, {})],
            [f \in DOMAIN bodies |-> "C"]) EXCEPT !.detector = "replay"]
ChRM == {ch \in [g : {"RM"}, keys : {<<"nonce">>, <<"owner", "nonce">>, <<"signer", "nonce">>, <<"fee", "nonce">>}, by : {"own", "help", "holder"},
                 kind : {"clear", "is set"}, wr : {"one", "delete", "increment"}, more : {{}, {"owner"}, {"fee"}}, signer : {"owner", "signer"}] :
           /\ (ch.signer = "signer") = ("signer" \in ToSet(ch.keys))
           /\ "fee" \in ch.more => "fee" \in ToSet(ch.keys)
           /\ ch.by = "holder" => ch.wr = "one" /\ ch.kind = "clear"}

\* two entry points that take the same message
SlotFor(pt, base) == IF Own(pt).slot.keys = <<>> THEN S(base, "-") ELSE S(base, Own(pt).slot.keys[1])
Spending(pt, base, digest) ==
  LET o == Own(pt)
      slot == SlotFor(pt, base)
      v == IF o.dg = "counter" THEN Verify({"owner", "this"} \cup digest, {slot}, "owner") ELSE Verify({"owner", "nonce", "this"} \cup digest, {}, "owner")
  IN  <<v>> \o CheckOf(o.ck, slot, Nonce) \o WriteOf(o.wr, slot, Nonce)
Pair(ch) ==
  ForReplay(Make(("claim" :> Spending(ch.pt, "marks", {})) @@
                 ("sib" :> Spending(ch.other, ch.base, IF ch.typed THEN {"hash"} ELSE {})),
                 ("claim" :> Facts(<<"owner", "nonce">>)) @@
                 ("sib" :> Facts(IF ch.turned THEN <<"nonce", "owner">> ELSE <<"owner", "nonce">>)),
                 [f \in {"claim", "sib"} |-> IF f = "sib" THEN ch.scope ELSE "C"]))
Simple == {"sequential", "monotonic", "mark", "bitmap", "counter"}
ChRP == [g : {"RP"}, pt : Simple, other : Simple, base : {"marks", "nonces"}, typed : BOOLEAN, turned : BOOLEAN, scope : {"C", "D"}]

\* where the contract is hashed: with what is signed, by a helper that makes
\* the digest, by one that is given what is signed, or by one that is not
Digest(ch) ==
  LET mark == CheckOf("clear", S("marks", "nonce"), Nonce) \o WriteOf("one", S("marks", "nonce"), Nonce)
      add(n, ss) == IF ch.at = n THEN ss \cup {"this"} ELSE ss
      mention == IF ch.at = "mention" THEN <<[op |-> "equate", local |-> "hash", other |-> {"this"}]>> ELSE <<>>
      down == [CallTo("deep", <<"a", "n">>) EXCEPT !.by = "deep"]
      far == [CallTo("last", <<"a", "n">>) EXCEPT !.by = "last"]
      empty(params) == ReplayFactsOf(params, {})
      returning(ss) == [empty(<<"a", "n">>) EXCEPT !.returns = ss]
      claim ==
        CASE ch.form = "own" -> <<Verify(add("claim", {"owner", "nonce"}), {}, "owner")>> \o mention \o mark
          [] ch.form = "two" -> <<Verify(add("claim", {"owner", "nonce"}), {}, "owner"), Verify({"owner", "nonce"}, {}, "owner")>> \o mark
          [] ch.form \in {"made", "made deep", "made far"} -> <<Help, Verify(add("claim", {"_help"}), {}, "owner")>> \o mark
          [] ch.form = "given" -> <<[op |-> "equate", local |-> "hash", other |-> add("claim", {"owner", "nonce"})], CallTo("help", <<"owner", "hash">>)>> \o mark
          [] ch.form = "given deep" -> <<CallTo("help", <<"owner", "nonce">>)>> \o mark
      help ==
        CASE ch.form = "given" -> <<Verify(add("help", {"n"}), {}, "a")>> \o mention
          [] ch.form = "given deep" -> <<down>> \o mention
          [] ch.form \in {"made deep", "made far"} -> <<down>> \o mention
          [] OTHER -> mention
      deep == CASE ch.form = "given deep" -> <<Verify(add("deep", {"a", "n"}), {}, "a")>> [] ch.form = "made far" -> <<far>> [] OTHER -> <<>>
      fns == {"claim"} \cup (IF ch.form \in {"own", "two"} THEN {} ELSE {"help"})
               \cup (IF ch.form \in {"given deep", "made deep", "made far"} THEN {"deep"} ELSE {}) \cup (IF ch.form = "made far" THEN {"last"} ELSE {})
      facts == [f \in fns |->
                  CASE f = "claim" -> empty(<<"owner", "nonce", "hash">>)
                    [] f = "help" -> returning(CASE ch.form = "made" -> add("help", {"a", "n"}) [] ch.form \in {"made deep", "made far"} -> add("help", {"deep"}) [] OTHER -> {})
                    [] f = "deep" -> returning(CASE ch.form = "made deep" -> add("deep", {"a", "n"}) [] ch.form = "made far" -> add("deep", {"last"}) [] OTHER -> {})
                    [] f = "last" -> returning(add("last", {"a", "n"}))]
      bodies == [f \in fns |-> CASE f = "claim" -> claim [] f = "help" -> help [] f = "deep" -> deep [] OTHER -> <<>>]
  IN  [Make(bodies, facts, [f \in fns |-> "C"]) EXCEPT !.detector = "replay"]
ChRD == [g : {"RD"}, form : {"own", "two", "made", "made deep", "made far", "given", "given deep"}, at : {"claim", "help", "deep", "last", "mention", "nowhere"}]

ReplayChoices == ChRA \cup ChRB \cup ChRM \cup ChRP \cup ChRD
ReplayProject(ch) ==
  CASE ch.g = "RA" -> ForReplay(Bound(A(ch))) [] ch.g = "RB" -> ForReplay(Bound(B(ch)))
    [] ch.g = "RM" -> Marked(ch) [] ch.g = "RP" -> Pair(ch) [] ch.g = "RD" -> Digest(ch)
===============================================================================
