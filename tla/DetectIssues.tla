----------------------------- MODULE DetectIssues -----------------------------
(***************************************************************************)
(* detect_issues (aderyn_core/src/detect/entrypoint.rs): every detector    *)
(* runs on every workspace context, in parallel; what it captured is       *)
(* merged over the contexts by intersection, file by file; the lines the   *)
(* sources ask to ignore are taken out; and what is left is the report.    *)
(*                                                                         *)
(* A workspace context is one compiler run. A file can be part of several  *)
(* of them: contexts compiled with different compilers share imports.      *)
(***************************************************************************)
EXTENDS Naturals

CONSTANTS
  Detectors,
  Highs,         \* the detectors of severity High; the others are Low
  NumContexts,   \* how many workspace contexts there are
  Files,         \* paths, of sources and of what they are links to
  Instances,     \* records with a file and a line: the keys of an instance
  Directives,    \* ignore directives: the line, and the names they are for
  Hints, NoHint, \* the hints an instance can carry, or none
  Workspaces     \* the projects considered, see WorkspaceType

Contexts == 1..NumContexts
Severities == {"High", "Low"}

(* A file is a path, as the compiler names it. What canonicalize makes of  *)
(* it is another path where a directory or the file is a symbolic link;    *)
(* both have the same text.                                                *)
IsCanonicalization(w) ==
  \A f \in Files : w.canonical[w.canonical[f]] = w.canonical[f] /\ w.ignored[w.canonical[f]] = w.ignored[f]

(* Of a project: the source files of each context, those of them that have *)
(* an AST, the files in scope, and the ignore directives of each file.     *)
(* absorb_ast_content_into_context skips a source with no AST, which stays *)
(* in src_filepaths all the same.                                          *)
WorkspaceType ==
  {w \in [srcFilepaths : [Contexts -> SUBSET Files], units : [Contexts -> SUBSET Files],
          included : [Contexts -> SUBSET Files], ignored : [Files -> SUBSET Directives],
          canonical : [Files -> Files]] :
     IsCanonicalization(w) /\ \A c \in Contexts : w.units[c] \subseteq w.srcFilepaths[c]}

ASSUME DetectAssumption ==
  /\ Highs \subseteq Detectors
  /\ NumContexts \in Nat
  /\ \A i \in Instances : i.file \in Files
  /\ NoHint \notin Hints
  /\ Workspaces \subseteq WorkspaceType

VARIABLES
  ws,           \* the project
  ran,          \* the contexts a detector has finished
  instances,    \* what a detector has to show for each context it finished
  hinted,       \* and the hint it captured with it
  merged,       \* how many contexts' instances are merged, for each detector
  grouped,      \* grouped_instances: for each file, the contexts' instances
  hints,        \* detector_hints
  stage,        \* how far each detector is
  selected,     \* detectors_instances, then issue.instances
  report,       \* the detectors with an issue, for each severity
  reported      \* whether detect_issues has returned

srcFilepaths == ws.srcFilepaths
units == ws.units
included == ws.included
ignored == ws.ignored
canonical == ws.canonical
detected == <<ran, instances, hinted>>
merging == <<merged, grouped, hints>>
vars == <<ws, ran, instances, hinted, merged, grouped, hints, stage, selected, report, reported>>

NoHints == [i \in Instances |-> NoHint]

Init ==
  /\ ws \in Workspaces
  /\ ran = [d \in Detectors |-> {}]
  /\ instances = [d \in Detectors |-> [c \in Contexts |-> {}]]
  /\ hinted = [d \in Detectors |-> [c \in Contexts |-> NoHint]]
  /\ merged = [d \in Detectors |-> 0]
  /\ grouped = [d \in Detectors |-> [f \in Files |-> {}]]
  /\ hints = [d \in Detectors |-> NoHints]
  /\ stage = [d \in Detectors |-> "merge"]
  /\ selected = [d \in Detectors |-> {}]
  /\ report = [s \in Severities |-> {}] /\ reported = FALSE

(* A detector captures nodes of the ASTs it sees. What it captured counts  *)
(* only if detect returns Ok(true): not if it fails half-way, or says that *)
(* it found nothing.                                                       *)
CapturedIn(c) == SUBSET {i \in Instances : i.file \in units[c]}

Detect(d, c, captured, found, hint) ==
  /\ c \notin ran[d]
  /\ ran' = [ran EXCEPT ![d] = @ \cup {c}]
  /\ instances' = [instances EXCEPT ![d][c] = IF found THEN captured ELSE {}]
  /\ hinted' = [hinted EXCEPT ![d][c] = IF found THEN hint ELSE NoHint]
  /\ UNCHANGED <<ws, merging, stage, selected, report, reported>>

(* Mutant: files out of scope take part in the merge. *)
CountsAnywhere(d, c, f) == f \in srcFilepaths[c] \/ \E i \in instances[d][c] : i.file = f

(* The files of a context that take part in the merge: those in scope that *)
(* the context compiled, or has an instance in.                            *)
OfFile(d, c, f) == {i \in instances[d][c] : i.file = f}
Counts(d, c, f) == f \in included[c] /\ (f \in srcFilepaths[c] \/ OfFile(d, c, f) # {})

(* Mutant: the first hint of an instance stays. *)
ExtendHintsOnce(d, c) ==
  [i \in Instances |-> IF i \in instances[d][c] /\ hints[d][i] = NoHint THEN hinted[d][c]
                       ELSE hints[d][i]]

(* Later contexts overwrite the hints of earlier ones, key by key. *)
ExtendHints(d, c) ==
  [i \in Instances |-> IF i \in instances[d][c] /\ hinted[d][c] # NoHint THEN hinted[d][c]
                       ELSE hints[d][i]]

(* One round of the loop over collection_of_instances, which is in the     *)
(* order of the contexts whatever order the detector finished them in.     *)
MergeContext(d) ==
  /\ stage[d] = "merge" /\ ran[d] = Contexts /\ merged[d] < NumContexts
  /\ LET c == merged[d] + 1 IN
       /\ grouped' = [grouped EXCEPT ![d] =
            [f \in Files |-> @[f] \cup (IF Counts(d, c, f) THEN {OfFile(d, c, f)} ELSE {})]]
       /\ hints' = [hints EXCEPT ![d] = ExtendHints(d, c)]
       /\ merged' = [merged EXCEPT ![d] = c]
  /\ UNCHANGED <<ws, detected, stage, selected, report, reported>>

(* Mutant: the UNION strategy. *)
CommonOfAny(d) == UNION {UNION grouped[d][f] : f \in Files}

(* INTERSECTION strategy: an instance every context of its file has. *)
Common(d) ==
  UNION {{i \in UNION grouped[d][f] : \A tree \in grouped[d][f] : i \in tree} : f \in Files}

SelectCommon(d) ==
  /\ stage[d] = "merge" /\ ran[d] = Contexts /\ merged[d] = NumContexts
  /\ selected' = [selected EXCEPT ![d] = Common(d)]
  /\ stage' = [stage EXCEPT ![d] = "filter"]
  /\ UNCHANGED <<ws, detected, merging, report, reported>>

(* collect_stats keeps the directives of the ASTs in scope by the paths    *)
(* the compiler gave them; the contexts' maps are merged, and a file has   *)
(* the same directives in all of them.                                     *)
HasStats(path) == \E c \in Contexts : path \in units[c] /\ path \in included[c]

(* They are looked up by the canonical path of the file of the instance.   *)
(* When::Always is for the names of all detectors.                         *)
Ignored(d, i) == \E e \in ignored[canonical[i.file]] : e.which = i.line /\ d \in e.names

(* panic!("File Not Found in Ignore stats") *)
FilterPanics(d) == \E i \in selected[d] : ~HasStats(canonical[i.file])

FilterIgnored(d) ==
  /\ stage[d] = "filter"
  /\ IF FilterPanics(d)
     THEN stage' = [stage EXCEPT ![d] = "panicked"] /\ UNCHANGED selected
     ELSE /\ stage' = [stage EXCEPT ![d] = "done"]
          /\ selected' = [selected EXCEPT ![d] = {i \in @ : ~Ignored(d, i)}]
  /\ UNCHANGED <<ws, detected, merging, report, reported>>

SeverityOf(d) == IF d \in Highs THEN "High" ELSE "Low"

(* A detector with nothing left makes no issue. *)
MakeReport ==
  /\ ~reported /\ reported' = TRUE
  /\ \A d \in Detectors : stage[d] = "done"
  /\ report' = [s \in Severities |-> {d \in Detectors : SeverityOf(d) = s /\ selected[d] # {}}]
  /\ UNCHANGED <<ws, detected, merging, stage, selected>>

Next ==
  \/ \E d \in Detectors, c \in Contexts :
       \E captured \in CapturedIn(c), found \in BOOLEAN, hint \in Hints \cup {NoHint} :
         Detect(d, c, captured, found, hint)
  \/ \E d \in Detectors : MergeContext(d) \/ SelectCommon(d) \/ FilterIgnored(d)
  \/ MakeReport

Spec == Init /\ [][Next]_vars

--------------------------------------------------------------------------------
(* Every variable keeps to its type. *)
TypeOK ==
  /\ ws \in Workspaces
  /\ ran \in [Detectors -> SUBSET Contexts]
  /\ instances \in [Detectors -> [Contexts -> SUBSET Instances]]
  /\ hinted \in [Detectors -> [Contexts -> Hints \cup {NoHint}]]
  /\ merged \in [Detectors -> 0..NumContexts]
  /\ grouped \in [Detectors -> [Files -> SUBSET SUBSET Instances]]
  /\ hints \in [Detectors -> [Instances -> Hints \cup {NoHint}]]
  /\ stage \in [Detectors -> {"merge", "filter", "done", "panicked"}]
  /\ selected \in [Detectors -> SUBSET Instances]
  /\ report \in [Severities -> SUBSET Detectors] /\ reported \in BOOLEAN

(* What is safe to report of a detector: an instance some context has in   *)
(* scope, that every context with its file in scope and compiled agrees    *)
(* on, and that no directive of its line hides.                            *)
Agreed(d) ==
  {i \in Instances :
     /\ \E c \in Contexts : i \in instances[d][c] /\ i.file \in included[c]
     /\ \A c \in Contexts :
          i.file \in included[c] \cap srcFilepaths[c] => i \in instances[d][c]}
Hidden(d, i) == \E e \in ignored[i.file] : e.which = i.line /\ d \in e.names
Expected(d) == {i \in Agreed(d) : ~Hidden(d, i)}

(* "it is only safe to conclude that the B, C are immutable" (the comment  *)
(* on the INTERSECTION strategy): in whatever order the detectors finish   *)
(* the contexts, the report has exactly the expected issues and instances, *)
(* each under its severity; a context where the detector failed vetoes.    *)
ReportIsExpected ==
  reported =>
    /\ \A d \in Detectors : selected[d] = Expected(d)
    /\ \A d \in Detectors, s \in Severities :
         d \in report[s] <=> Expected(d) # {} /\ s = SeverityOf(d)

(* The panic on a file with no ignore statistics is for symbolic links: a  *)
(* detector panics if and only if an instance to report, hidden or not, is *)
(* in a source that is a link to a file which no context has in scope      *)
(* under its own path. A source that is its own canonical path never       *)
(* panics: whatever is left of it was captured in an AST in scope.         *)
IsLostLink(f) ==
  canonical[f] # f /\ \A c \in Contexts : canonical[f] \notin units[c] \cap included[c]
OnlyLinksPanic ==
  \A d \in Detectors :
    /\ stage[d] = "panicked" => \E i \in Agreed(d) : IsLostLink(i.file)
    /\ stage[d] = "done" => \A i \in Agreed(d) : ~IsLostLink(i.file)

(* A reported instance carries the hint of the last context that captured  *)
(* it with one, whichever context finished last.                           *)
Hinting(d, i) == {c \in Contexts : i \in instances[d][c] /\ hinted[d][c] # NoHint}
HintsAreOfTheLastContext ==
  reported =>
    \A d \in Detectors, i \in Instances :
      IF Hinting(d, i) = {} THEN hints[d][i] = NoHint
      ELSE \E c \in Hinting(d, i) : (\A b \in Hinting(d, i) : b <= c) /\ hints[d][i] = hinted[d][c]
================================================================================
