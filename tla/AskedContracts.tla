---------------------------- MODULE AskedContracts ----------------------------
(***************************************************************************)
(* What comes of it when a contract is asked whether a signature is good:  *)
(* Solidity and the chain, which are not in the repository. The owner has  *)
(* approved what he was shown, the contents of a call with Approved; a     *)
(* stranger calls with Wanted, whatever he can sign, and what the owner    *)
(* signed.                                                                 *)
(***************************************************************************)
EXTENDS ContractSignatures

Thing(k) == [k |-> k, of |-> {}]
Truth(b) == Thing(IF b THEN "true" ELSE "false")
SignedBy(who, content) == [k |-> who, of |-> {content}]
Approved == Thing("approved")
Wanted == Thing("wanted")
Anyones == Thing("anyone's")  \* stands for the right signature of any content

Together(things) == IF Cardinality(things) = 1 THEN CHOOSE x \in things : TRUE ELSE [k |-> "digest", of |-> things]
Recovered(content, sig) ==
  CASE sig = Anyones -> Thing("owner")
    [] sig.k \in {"owner", "stranger"} /\ sig.of = {content} -> Thing(sig.k)
    [] sig.k \in {"owner", "stranger"} /\ sig.of # {content} -> Thing("nobody")
    [] OTHER -> Thing("zero")

(* The wallet is the owner's, and answers no in every way there is; the    *)
(* trick is a stranger's contract. No other account has code.              *)
Coded == {"wallet", "trick"}
Refusals ==
  { [ok |-> TRUE, data |-> Thing("other")], [ok |-> TRUE, data |-> Thing("empty")], [ok |-> TRUE, data |-> Thing("short")],
    [ok |-> FALSE, data |-> Thing("magic")], [ok |-> FALSE, data |-> Thing("other")] }
Replies(account, content, sig) ==
  CASE account.k = "trick" -> {[ok |-> TRUE, data |-> Thing("magic")]}
    [] account.k = "wallet" /\ sig \in {Anyones, SignedBy("owner", content)} -> {[ok |-> TRUE, data |-> Thing("magic")]}
    [] account.k = "wallet" /\ sig \notin {Anyones, SignedBy("owner", content)} -> Refusals
    [] OTHER -> {[ok |-> TRUE, data |-> Thing("empty")]}

-------------------------------------------------------------------------------
(* Who may be registered, and what a name may hold, after strangers called *)
(* what they may call                                                      *)
ByStrangers(p) ==
  UNION {Does(p, g, "change") : g \in {h \in EntryFns(p) : p.facts[h].guard # "owner" /\ ~p.facts[h].readOnly}}
Registered(p, base) ==
  {"owner", "wallet"}
    \cup (IF \E s \in ByStrangers(p) : s.base = base /\ s.key # NoName THEN {"stranger", "trick"} ELSE {})
MayBeUnset(p) == \E g \in p.fns : \E s \in Does(p, g, "change") : s.base = "owner"
Holding(p, sym) ==
  CASE sym \in {"false", "true"} -> {Thing(sym)}
    [] sym = "sender" -> {Thing("stranger")}
    [] sym = "owner" -> {Thing("owner")} \cup (IF MayBeUnset(p) THEN {Thing("zero")} ELSE {})
    [] sym \in Standing \ {"owner"} ->
         {Thing("wallet")} \cup (IF \E s \in ByStrangers(p) : s.base = sym /\ s.key = NoName THEN {Thing("trick")} ELSE {})
    [] OTHER -> {Thing("unset")}
Worlds(p) ==
  LET fixed == [sym \in Symbols \cup {NoName} |-> CHOOSE x \in Holding(p, sym) : x.k # "zero" /\ x.k # "trick"]
      open == {sym \in Symbols : Cardinality(Holding(p, sym)) > 1}
  IN  {fixed} \cup UNION {{[fixed EXCEPT ![sym] = x] : x \in Holding(p, sym)} : sym \in open}

PartHolds(p, env, part) ==
  LET a == env[part.a]
      b == env[part.b]
  IN  CASE part.k = "holds" -> a.k = "true"
        [] part.k = "fails" -> a.k # "true"
        [] part.k = "is zero" -> a.k = "zero"
        [] part.k = "is not zero" -> a.k # "zero"
        [] part.k = "is" -> a = b
        [] part.k = "is not" -> a # b
        [] part.k = "in" -> a.k \in Registered(p, part.b)
        [] part.k = "not in" -> a.k \notin Registered(p, part.b)
        [] part.k = "sized" -> a.k \in {"magic", "other"}
        [] part.k = "empty" -> a.k = "empty"
        [] part.k = "has code" -> a.k \in Coded
        [] part.k = "no code" -> a.k \notin Coded
        [] part.k = "is not magic" -> a.k # "magic"
        [] part.k = "reads magic" -> a.k \in {"magic", "short"}
        [] part.k \in {"is magic", "decodes magic"} -> a.k = "magic"
IsMet(p, env, c) ==
  IF c.any THEN \E part \in ToSet(c.parts) : PartHolds(p, env, part)
  ELSE \A part \in ToSet(c.parts) : PartHolds(p, env, part)
Given(p, env, r) ==
  CASE r.gives = "name" -> env[r.sym]
    [] r.gives = "condition" -> Truth(IsMet(p, env, r.cond))
    [] r.gives = "choice" -> Thing(IF IsMet(p, env, r.cond) THEN r.yes ELSE r.no)
    [] OTHER -> Thing(r.gives)

(* The outcomes of a call that do not revert; did: whether it changed      *)
(* state, and what was recovered from or asked about.                      *)
AllOf(env, syms) == Together({env[sym] : sym \in syms})
RECURSIVE Outcomes(_, _, _, _, _)
Outcomes(p, f, i, env, did) ==
  IF i > Len(Body(p, f)) THEN {[gives |-> Thing("nothing"), did |-> did]}
  ELSE LET s == Body(p, f)[i]
           Next(e, d) == Outcomes(p, f, i + 1, e, d)
           Seen(content) == [did EXCEPT !.shown = @ \cup {content}]
       IN  CASE s.op = "let" ->
                  Next([env EXCEPT ![s.to] = IF s.hashed THEN [k |-> "digest", of |-> {env[x] : x \in s.from}] ELSE AllOf(env, s.from)], did)
             [] s.op = "recover" ->
                  Next([env EXCEPT ![s.to] = Recovered(AllOf(env, s.hash), AllOf(env, s.sig))], Seen(AllOf(env, s.hash)))
             [] s.op = "elect" -> Next([env EXCEPT ![s.to] = Truth(TRUE)], did)
             [] s.op = "low" ->
                  UNION {Next([env EXCEPT ![s.success] = Truth(r.ok), ![s.data] = r.data], Seen(AllOf(env, s.hash))) :
                           r \in Replies(env[s.target], AllOf(env, s.hash), AllOf(env, s.sig))}
             [] s.op = "direct" ->
                  UNION {IF s.use = "returned" THEN {[gives |-> r.data, did |-> Seen(AllOf(env, s.hash))]}
                         ELSE IF s.use = "equal" /\ r.data.k # "magic" THEN {}
                         ELSE Next([env EXCEPT ![s.to] = r.data], Seen(AllOf(env, s.hash))) :
                           r \in {x \in Replies(env[s.target], AllOf(env, s.hash), AllOf(env, s.sig)) : x.ok /\ x.data.k \in {"magic", "other"}}}
             [] s.op = "call" ->
                  LET params == p.facts[s.refers].params
                      inner == [sym \in DOMAIN env |->
                                  IF \E k \in DOMAIN params : params[k].name = sym
                                  THEN env[s.args[CHOOSE k \in DOMAIN params : params[k].name = sym]] ELSE env[sym]]
                  IN  UNION {Next([env EXCEPT ![s.to] = o.gives], o.did) : o \in Outcomes(p, s.refers, 1, inner, did)}
             [] s.op = "branch" -> Outcomes(p, f, IF IsMet(p, env, s.cond) THEN i + 1 ELSE i + 1 + s.n, env, did)
             [] s.op = "require" -> IF IsMet(p, env, s.cond) THEN Next(env, did) ELSE {}
             [] s.op = "return" -> {[gives |-> Given(p, env, s.result), did |-> did]}
             [] s.op = "revert" -> {}
             [] s.op = "change" -> Next(env, [did EXCEPT !.changes = @ \/ s.how # "local"])

-------------------------------------------------------------------------------
(* Calls: an address is an account, the last bytes the signature, and all  *)
(* else what the call is about.                                            *)
IsSignature(params, k) == params[k].type = "bytes" /\ ~\E m \in (k + 1)..Len(params) : params[m].type = "bytes"
CallsOf(p, f, accounts, about, sigs) ==
  LET params == p.facts[f].params
      May(k) == IF params[k].type = "address" THEN {Thing(a) : a \in accounts}
                ELSE IF IsSignature(params, k) THEN sigs ELSE {about}
      envs == FoldLeft(LAMBDA es, k : UNION {{[e EXCEPT ![params[k].name] = x] : x \in May(k)} : e \in es},
                       Worlds(p), [k \in DOMAIN params |-> k])
  IN  UNION {Outcomes(p, f, 1, e, [changes |-> FALSE, shown |-> {}]) : e \in envs}
Shown(outcomes) == UNION {o.did.shown : o \in outcomes}
GoodCalls(p, f) == CallsOf(p, f, {"wallet", "owner"}, Approved, {Anyones})
BadCalls(p, f) ==
  LET good == Shown(GoodCalls(p, f))
      all == good \cup Shown(CallsOf(p, f, {"wallet", "owner"}, Wanted, {Anyones}))
  IN  CallsOf(p, f, {"wallet", "owner", "trick", "stranger"}, Wanted,
            {Thing("junk")} \cup {SignedBy("owner", c) : c \in good} \cup {SignedBy("stranger", c) : c \in all})
===============================================================================
