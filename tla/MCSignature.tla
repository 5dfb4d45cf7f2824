------------------------------ MODULE MCSignature ------------------------------
(* Contracts of seven families for the detectors, and what their names mean.  *)
EXTENDS ReplayProjects, ValidationProjects

MCFns == {"claim", "sib", "help", "deep", "last", "far"}
MCBases == {"nonces", "marks", "cancelled", "other"}
MCSymbols == MCBases \cup {"owner", "nonce", "fee", "sender", "hash", "to", "n", "a", "b", "_help", "r", "s", "v", "sig", "alias"} \cup {"this", "signer"} \cup FreshSymbols \cup AskingSymbols
MCMeaning == [sym \in MCSymbols |-> MeaningOf(sym)]
MCUnit == [sym \in MCSymbols |-> UnitOf(sym)]
MCAlphabet == FoldSet(LAMBDA sym, names : Append(names, sym), <<>>, MCSymbols)
MCStanding == {"owner", "validator", "done", "registry"}
MCEndings == {<<"atLast", "last">>}
MCState == {"last", "atLast", "lastOf", "until", "maxAge"}

MCProjects == ChA \cup ChB \cup ChC \cup ChD \cup ChE \cup FreshnessChoices \cup ReplayChoices \cup ValidationChoices
MCProjectOf(ch) ==
  CASE ch.g = "A" -> A(ch) [] ch.g = "B" -> B(ch) [] ch.g = "C" -> C(ch) [] ch.g = "D" -> D(ch) [] ch.g = "E" -> TwoEntries(ch)
    [] ch.g \in {"F1", "F2", "F3", "F4"} -> FreshnessProject(ch)
    [] ch.g \in {"VI", "VE", "VR", "VO", "VS", "VP", "VL", "VD", "VC", "VT"} -> ValidationProject(ch)
    [] OTHER -> ReplayProject(ch)
===============================================================================
