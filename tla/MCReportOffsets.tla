---------------------------- MODULE MCReportOffsets ----------------------------
(* Sources of narrow and wide characters and newlines for TLC. *)
EXTENDS ReportOffsets, TLC

MCChars == {"a", "wide", "newline"}
MCWidth == ("a" :> 1) @@ ("wide" :> 2) @@ ("newline" :> 1)
================================================================================
