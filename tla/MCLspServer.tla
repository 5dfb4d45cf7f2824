----------------------------- MODULE MCLspServer -----------------------------
(* Small instances of the language server for TLC. *)
EXTENDS LspServer, TLC

CONSTANTS f1, f2, d1, d2

(* f2 imports nothing; f1 imports f2, so an error in f2 drops both. *)
MCCompiledWith == (f1 :> {f1, f2}) @@ (f2 :> {f2})

MCSymmetry == Permutations({d1, d2})
==============================================================================
