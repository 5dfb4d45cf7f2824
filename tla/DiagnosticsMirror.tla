--------------------------- MODULE DiagnosticsMirror ---------------------------
(***************************************************************************)
(* What the publishing side of the language server promises, without its   *)
(* lock, its channel, its bookkeeping of files or its session: the editor  *)
(* mirrors the last report. A new report may replace the current one at    *)
(* any time; the view then moves to it one file at a time, and only        *)
(* towards it; and it is settled only when it equals the report.           *)
(***************************************************************************)
CONSTANTS Files, Diags, NoDiags

VARIABLES
  report,   \* the diagnostics of every file in the last report
  view,     \* the diagnostics last sent for every file
  settled   \* whether the view is said to be the report

vars == <<report, view, settled>>

Init ==
  /\ report = [f \in Files |-> NoDiags]
  /\ view = [f \in Files |-> NoDiags]
  /\ settled = FALSE

NewReport ==
  /\ report' \in [Files -> Diags]
  /\ settled' = FALSE
  /\ UNCHANGED view

Send(f) ==
  /\ ~settled
  /\ view' = [view EXCEPT ![f] = report[f]]
  /\ UNCHANGED <<report, settled>>

Settle ==
  /\ view = report
  /\ settled' = TRUE
  /\ UNCHANGED <<report, view>>

Next == NewReport \/ (\E f \in Files : Send(f)) \/ Settle

Spec == Init /\ [][Next]_vars
================================================================================
