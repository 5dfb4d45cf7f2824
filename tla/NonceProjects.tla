----------------------------- MODULE NonceProjects -----------------------------
(* Contracts for NonceManagement and SignatureMalleability: what is signed, *)
(* guarded and written, where, and what another entry point does.           *)
EXTENDS FreshnessProjects

E(of, plus) == [of |-> of, plus |-> plus]
S(base, key) == [base |-> base, keys |-> IF key = "-" THEN <<>> ELSE <<key>>]
Check(kind, slot, value) ==
  [op |-> "check", kind |-> kind, slot |-> slot, value |-> value, ahead |-> FALSE, lossy |-> FALSE, bypassable |-> FALSE]
W(kind, slot, value) == [op |-> "write", kind |-> kind, slot |-> slot, value |-> value, inside |-> "nothing"]
Verify(digest, counters, principal) == [op |-> "verify", digest |-> digest, counters |-> counters, principal |-> principal]
CallTo(f, args) ==
  [op |-> "call", refers |-> f, by |-> "_help", member |-> FALSE, args |-> args, principal |-> NoKey,
   orElse |-> FALSE, conditional |-> FALSE, compared |-> {}]

NoEffect == <<>>
Nonce == E({"nonce"}, 0)
WriteOf(wr, slot, c) ==
  CASE wr = "none" -> <<>>
    [] wr = "increment" -> <<W("increment", slot, Zero)>>
    [] wr = "store" -> <<W("assign", slot, c)>>
    [] wr = "store next" -> <<W("assign", slot, [c EXCEPT !.plus = 1])>>
    [] wr = "store own next" -> <<W("assign", slot, E({slot.base}, 1))>>
    [] wr = "one" -> <<W("assign", slot, E({}, 1))>>
    [] wr = "zero" -> <<W("assign", slot, Zero)>>
    [] wr = "add fee" -> <<W("add", slot, E({"fee"}, 0))>>
    [] wr \in {"or", "xor"} -> <<W(wr, slot, c)>>
    [] wr = "xor proven" -> <<W("xor", slot, c), [op |-> "prove", slot |-> slot, mask |-> "nonce"]>>
    [] wr \in {"decrement", "delete"} -> <<W(wr, slot, Zero)>>
CheckOf(ck, slot, c) ==
  CASE ck = "none" -> <<>>
    [] ck = "ahead" -> <<[Check("equality", slot, c) EXCEPT !.ahead = TRUE]>>
    [] OTHER -> <<Check(ck, slot, c)>>
VerifyOf(dg, slot) ==
  CASE dg = "all" -> <<Verify({"owner", "nonce"}, {}, "owner")>>
    [] dg = "no nonce" -> <<Verify({"owner"}, {}, "owner")>>
    [] dg = "counter" -> <<Verify({"owner"}, {slot}, "owner")>>
    [] dg = "sender" -> <<Verify({"nonce", "sender"}, {}, NoKey)>>
    [] dg = "hash" -> <<[op |-> "equate", local |-> "hash", other |-> {"owner", "nonce"}], Verify({"hash"}, {}, NoKey)>>
    [] dg = "bound" -> <<[op |-> "caller", is |-> "owner"], Verify({"owner", "nonce"}, {}, NoKey)>>

Params == <<"owner", "nonce", "fee", "hash">>
Facts(params) ==
  [params |-> params, signatures |-> 0, returns |-> {}, isView |-> FALSE, isPure |-> FALSE, onlySelf |-> FALSE,
   effects |-> TRUE, unchecked |-> FALSE, narrow |-> {}]
Make(bodies, facts, scope) ==
  [ detector |-> "nonces", fns |-> DOMAIN bodies, body |-> bodies, facts |-> facts,
    named |-> [f \in DOMAIN bodies |-> IF f = "help" THEN "_help" ELSE f], file |-> [f \in DOMAIN bodies |-> 1],
    scope |-> scope, entry |-> [f \in DOMAIN bodies |-> f \in {"claim", "sib"}], hasBody |-> [f \in DOMAIN bodies |-> TRUE] ]

\* group A
A(ch) ==
  LET slot == S(ch.base, ch.key)
      body == VerifyOf(ch.dg, slot) \o CheckOf(ch.ck, slot, Nonce) \o WriteOf(ch.wr, slot, Nonce)
  IN Make("claim" :> body, "claim" :> Facts(<<"owner", "nonce", "fee">>), "claim" :> "C")
ChA == [g : {"A"}, base : {"nonces", "marks"}, key : {"owner", "nonce", "sender", "-"},
        dg : {"all", "no nonce", "counter", "sender", "hash", "bound"},
        ck : {"none", "equality", "ahead", "greater", "clear", "bit clear", "is set", "other"},
        wr : {"none", "increment", "store", "store next", "store own next", "one", "zero", "add fee", "or", "xor", "xor proven", "decrement", "delete"}]

\* group B: a sound pattern, the place of its parts, another entry point
Own(pt) ==
  CASE pt = "sequential" -> [ck |-> "equality", wr |-> "increment", slot |-> S("nonces", "owner"), dg |-> "all"]
    [] pt = "ahead" -> [ck |-> "ahead", wr |-> "store", slot |-> S("marks", "owner"), dg |-> "hash"]
    [] pt = "monotonic" -> [ck |-> "greater", wr |-> "store", slot |-> S("marks", "owner"), dg |-> "all"]
    [] pt = "global" -> [ck |-> "greater", wr |-> "store next", slot |-> S("marks", "-"), dg |-> "all"]
    [] pt = "mark" -> [ck |-> "clear", wr |-> "one", slot |-> S("marks", "nonce"), dg |-> "all"]
    [] pt = "bitmap" -> [ck |-> "bit clear", wr |-> "or", slot |-> S("marks", "owner"), dg |-> "all"]
    [] pt = "flip" -> [ck |-> "none", wr |-> "xor proven", slot |-> S("marks", "owner"), dg |-> "all"]
    [] pt = "counter" -> [ck |-> "none", wr |-> "increment", slot |-> S("nonces", "owner"), dg |-> "counter"]
    [] pt = "version" -> [ck |-> "equality", wr |-> "none", slot |-> S("nonces", "owner"), dg |-> "all"]
    [] pt = "caller" -> [ck |-> "equality", wr |-> "increment", slot |-> S("nonces", "sender"), dg |-> "bound"]

\* in a helper, parameters are called a and n
InHelper(ss) ==
  [k \in DOMAIN ss |->
     LET rename(sym) == CASE sym = "owner" -> "a" [] sym = "nonce" -> "n" [] OTHER -> sym
     IN  IF ss[k].op \in {"check", "write"}
         THEN [ss[k] EXCEPT !.slot.keys = [j \in DOMAIN @ |-> rename(@[j])], !.value.of = {rename(x) : x \in @}]
         ELSE IF ss[k].op = "prove" THEN [ss[k] EXCEPT !.slot.keys = [j \in DOMAIN @ |-> rename(@[j])], !.mask = rename(@)] ELSE ss[k]]
Map(ss, op, field, value) ==
  [k \in DOMAIN ss |-> IF ss[k].op = op THEN [x \in DOMAIN ss[k] |-> IF x = field THEN value ELSE ss[k][x]] ELSE ss[k]]
Help == CallTo("help", <<"owner", "nonce">>)
Deep == [CallTo("deep", <<"a", "n">>) EXCEPT !.by = "deep"]
Undo(pt) == W("assign", Own(pt).slot, Zero)
Parts(pt, place) ==
  LET o == Own(pt)
      v == VerifyOf(o.dg, o.slot)
      c == CheckOf(o.ck, o.slot, Nonce)
      w == WriteOf(o.wr, o.slot, Nonce)
      none == [claim |-> <<>>, help |-> <<>>, deep |-> <<>>]
      loose == [k \in DOMAIN c |-> [c[k] EXCEPT !.value.of = {"nonce", "fee"}]]
  IN CASE place = "own" -> [none EXCEPT !.claim = v \o c \o w]
       [] place = "lossy" -> [none EXCEPT !.claim = v \o Map(c, "check", "lossy", TRUE) \o w]
       [] place = "bypassable" -> [none EXCEPT !.claim = v \o Map(c, "check", "bypassable", TRUE) \o w]
       [] place = "branch" -> [none EXCEPT !.claim = v \o c \o Map(w, "write", "inside", "branch")]
       [] place = "if" -> [none EXCEPT !.claim = v \o c \o Map(w, "write", "inside", "guard")]
       [] place = "digest" -> [none EXCEPT !.claim = v \o c \o Map(w, "write", "inside", "digest")]
       [] place = "leaves" -> [none EXCEPT !.claim = v \o c \o <<[op |-> "leave"]>> \o w]
       [] place = "before" -> [none EXCEPT !.claim = w \o v \o c]
       [] place = "undone" -> [none EXCEPT !.claim = v \o c \o w \o <<Undo(pt)>>]
       [] place = "loose" -> [none EXCEPT !.claim = v \o loose \o w]
       [] place = "rolls back" -> [none EXCEPT !.claim = v \o c \o w \o <<[op |-> "outside", reverts |-> TRUE]>>]
       [] place = "two signers" ->
            [none EXCEPT !.claim = v \o <<Verify({"fee"}, {}, "fee")>> \o c \o w]
       [] place = "one digest" ->
            [none EXCEPT !.claim = v \o v \o c \o w]
       [] place = "helper" -> [none EXCEPT !.claim = v \o <<Help>>, !.help = InHelper(c \o w)]
       [] place = "helper checks" -> [none EXCEPT !.claim = v \o <<Help>> \o w, !.help = InHelper(c)]
       [] place = "helper writes" -> [none EXCEPT !.claim = v \o c \o <<Help>>, !.help = InHelper(w)]
       [] place = "helper writes first" -> [none EXCEPT !.claim = v \o <<Help>> \o c, !.help = InHelper(w)]
       [] place = "helper branches" ->
            [none EXCEPT !.claim = v \o c \o <<Help>>, !.help = InHelper(Map(w, "write", "inside", "branch"))]
       [] place = "helper skips" ->
            [none EXCEPT !.claim = v \o <<Help>>, !.help = InHelper(c \o Map(w, "write", "inside", "guard"))]
       [] place = "in a branch" ->
            [none EXCEPT !.claim = v \o c \o Map(<<Help>>, "call", "conditional", TRUE), !.help = InHelper(w)]
       [] place = "undone after helper" ->
            [none EXCEPT !.claim = v \o c \o <<Help, Undo(pt)>>, !.help = InHelper(w)]
       [] place = "deep" ->
            [none EXCEPT !.claim = v \o c \o <<Help>>, !.help = <<Deep>>, !.deep = InHelper(w)]
       [] place = "deep branch" ->
            [none EXCEPT !.claim = v \o c \o <<Help>>, !.help = Map(<<Deep>>, "call", "conditional", TRUE), !.deep = InHelper(w)]
       [] place = "helper verifies" ->
            [none EXCEPT !.claim = <<Help>> \o c \o w, !.help = <<Verify({"a", "n"}, {}, "a")>>]
       [] place = "helper verifies other" ->
            [none EXCEPT !.claim = Map(<<Help>>, "call", "args", <<"owner", "fee">>) \o c \o w, !.help = <<Verify({"a", "n"}, {}, "a")>>]
       [] place = "compared" ->
            [none EXCEPT !.claim = v \o Map(<<Help>>, "call", "compared", {"nonce"}), !.help = InHelper(w)]
       [] place \in {"wraps", "self only", "view"} -> [none EXCEPT !.claim = v \o c \o w]
       [] place = "pure helper" -> [none EXCEPT !.claim = v \o <<Help>> \o w, !.help = InHelper(c)]
       [] place = "helper only self" -> [none EXCEPT !.claim = <<Help>> \o v \o c \o w, !.help = <<[op |-> "outside", reverts |-> FALSE]>>]
       [] place \in {"helper verifies both", "helper verifies either", "helper verifies one"} ->
            [none EXCEPT !.claim = <<Help, [Help EXCEPT !.args = IF place = "helper verifies either" THEN @ ELSE <<"fee", "nonce">>, !.orElse = place = "helper verifies either"]>> \o c \o w,
                         !.help = <<Verify({"a", "n"}, {}, "a")>> \o (IF place = "helper verifies one" THEN <<Verify({"a", "n"}, {}, NoKey)>> ELSE <<>>)]
       [] place = "helper verifies for" ->
            [none EXCEPT !.claim = Map(<<Help>>, "call", "principal", "owner") \o c \o w, !.help = <<Verify({"n"}, {}, NoKey)>>]
       [] place = "hashed" ->
            [none EXCEPT !.claim = <<Help, Verify({"owner", "_help"}, {}, "owner")>>, !.help = InHelper(w)]
Placings == {"own", "lossy", "bypassable", "branch", "if", "digest", "leaves", "before", "undone", "loose", "rolls back",
  "two signers", "one digest", "helper", "helper checks", "helper writes", "helper writes first", "helper branches", "helper skips",
  "in a branch", "undone after helper", "deep", "deep branch", "helper verifies", "helper verifies other", "compared", "hashed",
  "wraps", "self only", "view", "pure helper", "helper only self", "helper verifies both", "helper verifies either", "helper verifies one", "helper verifies for"}
Patterns == {"sequential", "ahead", "monotonic", "global", "mark", "bitmap", "flip", "counter", "version", "caller"}

\* another entry point, of <<"to", "nonce">>
SibWrite(sb, slot) ==
  LET n == E({"n"}, 0)
  IN CASE sb = "none" -> <<>>
    [] sb = "assigns" -> <<W("assign", slot, n)>>
    [] sb = "raises" -> <<Check("greater", slot, n), W("assign", slot, n)>>
    [] sb = "copies" -> <<W("assign", slot, E({"other"}, 0))>>
    [] sb = "flips" -> <<W("xor", slot, n)>>
    [] sb = "flips up" -> <<W("xor", slot, n), [op |-> "prove", slot |-> slot, mask |-> "n"]>>
    [] sb \in {"or", "and"} -> <<W(sb, slot, n)>>
    [] sb = "one" -> <<W("assign", slot, E({}, 1))>>
    [] sb = "zero" -> <<W("assign", slot, Zero)>>
    [] sb = "own next" -> <<W("assign", slot, E({slot.base}, 1))>>
    [] sb = "cancels" -> <<W("assign", [slot EXCEPT !.base = "cancelled"], E({}, 1))>>
    [] OTHER -> <<W(sb, slot, Zero)>>
Sibs == {"none", "assigns", "raises", "copies", "flips", "flips up", "or", "and", "one", "zero", "own next", "cancels",
         "increment", "decrement", "delete"}
WithFee == {"loose", "two signers", "helper verifies other", "helper verifies both", "helper verifies one"}
B(ch) ==
  LET o == Own(ch.pt)
      key == IF o.slot.keys = <<>> THEN "-" ELSE ch.sibkey
      sib == SibWrite(ch.sb, S(o.slot.base, key))
      parts == Parts(ch.pt, ch.place)
      fns == {"claim"} \cup (IF ch.sb = "none" THEN {} ELSE {"sib"})
               \cup (IF parts.help = <<>> THEN {} ELSE {"help"}) \cup (IF parts.deep = <<>> THEN {} ELSE {"deep"})
      bodies == [f \in fns |-> IF f = "sib" THEN sib ELSE parts[f]]
      own == Facts(<<"owner", "nonce">> \o (IF ch.place \in WithFee THEN <<"fee">> ELSE <<>>))
      facts ==
        [f \in fns |->
           CASE f = "claim" -> [own EXCEPT !.unchecked = ch.place = "wraps", !.narrow = IF ch.place = "wraps" THEN {"nonce"} ELSE {},
                                           !.onlySelf = ch.place = "self only", !.isView = ch.place = "view"]
             [] f = "sib" -> Facts(<<"a", "n">>)
             [] OTHER -> [Facts(<<"a", "n">>) EXCEPT !.returns = IF ch.place = "hashed" THEN {o.slot.base, "a"} ELSE {},
                            !.isPure = ch.place = "pure helper", !.onlySelf = ch.place = "helper only self",
                            !.signatures = IF ch.place = "helper verifies one" THEN 1 ELSE 0]]
  IN Make(bodies, facts, [f \in fns |-> IF f = "sib" THEN ch.scope ELSE "C"])
ChB == {ch \in [g : {"B"}, pt : Patterns, place : Placings, sb : Sibs, sibkey : {"a", "sender"}, scope : {"C"}] :
          /\ ch.sb = "none" => ch.sibkey = "a"
          /\ ch.pt \in {"bitmap", "flip"} => ch.sb \in {"none", "flips", "flips up", "or", "and", "zero", "delete", "cancels"}
          /\ ch.pt = "mark" => ch.sb \in {"none", "assigns", "copies", "one", "zero", "delete", "cancels"}
          /\ ch.pt \notin {"bitmap", "flip"} => ch.sb \notin {"flips", "flips up", "or", "and"}
          /\ ch.place \notin {"own", "helper"} => ch.sb \in {"none", IF ch.pt \in {"bitmap", "flip"} THEN "or" ELSE IF ch.pt = "mark" THEN "one" ELSE "increment"} /\ ch.sibkey = "a"}

\* recoveries: where they are, what s is compared with
R(comparisons, v, zeroOrOne) ==
  [comparisons |-> comparisons, v |-> v, zeroOrOne |-> zeroOrOne, components |-> {"r", "s", "v"}]
Compared(op, bound, use, near) == [op |-> op, bound |-> bound, use |-> use, nearLeaving |-> near]
MustBe(op, bound) == Compared(op, bound, "requires", FALSE)
LeavesIf(op, bound) == Compared(op, bound, "leaves if", TRUE)
NoFacts ==
  [recoveries |-> {}, reviewed |-> {}, dynamicBytes |-> {}, lengths |-> {}, lenient |-> FALSE, keys |-> {}]
To(g) == [refers |-> g, by |-> g, member |-> FALSE, args |-> <<>>]
MakeCrypto(calls, facts) ==
  [ detector |-> "malleability", fns |-> DOMAIN calls, calls |-> calls, facts |-> facts,
    named |-> [f \in DOMAIN calls |-> f], file |-> [f \in DOMAIN calls |-> 1],
    scope |-> [f \in DOMAIN calls |-> "C"], entry |-> [f \in DOMAIN calls |-> f \in {"claim", "sib"}],
    hasBody |-> [f \in DOMAIN calls |-> TRUE] ]
C(ch) ==
  LET first == R(ch.comparisons, ch.v, ch.zeroOrOne)
      own == [NoFacts EXCEPT !.recoveries = IF ch.again THEN {first, [first EXCEPT !.v = "plus 27"]} ELSE {first}]
      fns == {"claim", "help", "deep"}
  IN  MakeCrypto([f \in fns |-> CASE f = "claim" -> {To("help")} [] f = "help" -> {To("deep")} [] OTHER -> {}],
                 [f \in fns |-> IF f = ch.place THEN own ELSE NoFacts])
BoundsOnS == {2, 3, 4, 7, Symbolic}
TrueGuards ==
  {{}} \cup {{MustBe(op, b)} : op \in {"<=", "<"}, b \in BoundsOnS} \cup {{LeavesIf(op, b)} : op \in {">", ">="}, b \in BoundsOnS}
AnyUse ==
  {{Compared(op, b, use, near)} : op \in {"<=", "<", ">", ">="}, b \in BoundsOnS, use \in {"requires", "leaves if", "mentions"}, near \in BOOLEAN}
  \cup {{Compared(op, 3, "mentions", TRUE), MustBe("<=", b)} : op \in {"<=", ">"}, b \in BoundsOnS}
ChC == [g : {"C"}, place : {"claim", "help", "deep"}, comparisons : TrueGuards,
        v : {"as given", "plus 27", "normalized"}, zeroOrOne : BOOLEAN, again : BOOLEAN]
       \cup [g : {"C"}, place : {"claim", "deep"}, comparisons : AnyUse, v : {"as given"}, zeroOrOne : {FALSE}, again : {FALSE}]

\* a signature as a name, and where it is shown to have one form
EdgesOf(graph) ==
  CASE graph = "own" -> {}
    [] graph = "one" -> {<<"claim", "help">>}
    [] graph = "two" -> {<<"claim", "help">>, <<"help", "deep">>}
    [] graph = "three" -> {<<"claim", "help">>, <<"help", "deep">>, <<"deep", "last">>}
    [] graph = "four" -> {<<"claim", "help">>, <<"help", "deep">>, <<"deep", "last">>, <<"last", "far">>}
    [] graph = "shortcut" -> {<<"claim", "help">>, <<"help", "deep">>, <<"deep", "last">>, <<"last", "far">>, <<"help", "far">>}
    [] graph = "loop" -> {<<"claim", "help">>, <<"help", "claim">>, <<"help", "deep">>, <<"deep", "help">>}
    [] graph = "detour" -> {<<"claim", "help">>, <<"claim", "deep">>, <<"help", "deep">>, <<"deep", "last">>}
LastOn(graph) == CASE graph = "own" -> "claim" [] graph = "one" -> "help" [] graph \in {"two", "loop"} -> "deep" [] graph \in {"four", "shortcut"} -> "far" [] OTHER -> "last"
Safe == R({MustBe("<=", 3)}, "as given", FALSE)
Recovery(how, facts) ==
  CASE how = "reviewed" -> [facts EXCEPT !.reviewed = {[bytes |-> FALSE]}]
    [] how = "reviewed bytes" -> [facts EXCEPT !.reviewed = {[bytes |-> TRUE]}]
    [] how = "low" -> [facts EXCEPT !.recoveries = {Safe}]
    [] how = "high" -> [facts EXCEPT !.recoveries = {[Safe EXCEPT !.comparisons = {}]}]
Key(deps, written, use) == [deps |-> deps, written |-> written, use |-> use]
KeyOn(named, use) ==
  CASE named = "nothing" -> {}
    [] named = "bytes" -> {Key({"sig"}, {"sig"}, use)}
    [] named = "alias" -> {Key({"sig"}, {"alias"}, use)}
    [] named = "components" -> {Key({"r", "s"}, {"r", "s"}, use)}
    [] named = "digest" -> {Key({"hash", "r"}, {"hash"}, use)}
D(ch) ==
  LET fns == {"claim"} \cup UNION {{e[1], e[2]} : e \in EdgesOf(ch.graph)}
      calls == [f \in fns |-> {[To(e[2]) EXCEPT !.args = IF ch.passed THEN <<{"hash"}, {"v"}, {"r"}, {"s"}>> ELSE <<{"hash"}, {"sig"}>>] :
                                 e \in {x \in EdgesOf(ch.graph) : x[1] = f}}]
      keyed == [NoFacts EXCEPT !.keys = KeyOn(ch.named, ch.use), !.dynamicBytes = {"sig"}, !.lengths = ch.lengths]
      facts == [f \in fns |-> IF f = ch.keyAt THEN keyed ELSE IF f = "claim" THEN [NoFacts EXCEPT !.dynamicBytes = {"sig"}] ELSE NoFacts]
  IN  MakeCrypto(calls, [facts EXCEPT ![LastOn(ch.graph)] = Recovery(ch.how, @)])
ChD == {ch \in [g : {"D"}, graph : {"own", "one", "two", "three", "four", "shortcut", "loop", "detour"}, keyAt : {"claim", "help"},
                named : {"nothing", "bytes", "alias", "components", "digest"}, use : Uses, passed : BOOLEAN,
                how : {"reviewed", "reviewed bytes", "low", "high"}, lengths : {{}, {64, 65}}] :
          /\ ch.graph = "own" => ch.keyAt = "claim" /\ ~ch.passed
          /\ ch.named = "nothing" => ch.use = "guarded" /\ ~ch.passed}

\* entry points of both lengths
TwoEntries(ch) ==
  LET one(len) == Recovery("low", [NoFacts EXCEPT !.keys = {Key({"sig"}, {"sig"}, ch.use)}, !.dynamicBytes = {"sig"}, !.lengths = len])
  IN  MakeCrypto([f \in {"claim", "sib"} |-> {}], [f \in {"claim", "sib"} |-> one(IF f = "claim" THEN ch.a ELSE ch.b)])
ChE == [g : {"E"}, a : SUBSET {64, 65}, b : SUBSET {64, 65}, use : Uses]
===============================================================================
