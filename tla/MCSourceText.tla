----------------------------- MODULE MCSourceText -----------------------------
(* Short texts of everything that opens and closes, and longer ones made   *)
(* of whole comments and strings.                                          *)
EXTENDS SolidityText

CONSTANTS MaxSymbols, MaxPieces

Raw == UNION {[1..n -> {"/", "*", "dq", "sq", "esc", "nl", " "}] : n \in 1..MaxSymbols}

Pieces ==
  { <<"x">>, <<"nl">>, <<" ">>, <<"dq", "ignore", "dq">>, <<"/", "*">>, <<"*", "/">>, <<"/", "/">>,
    <<"ignore">>, <<"next">>, <<"names">> }
Composed == {FlattenSeq(p) : p \in UNION {[1..n -> Pieces] : n \in 1..MaxPieces}}

MCTexts == {t \in Raw \cup Composed : Compiles(t)}
===============================================================================
