-------------------------- MODULE DetectIssuesProofs --------------------------
(***************************************************************************)
(* Theorems about detect_issues, for every project, every set of detectors *)
(* and every number of contexts.                                           *)
(***************************************************************************)
EXTENDS DetectIssues, TLAPS

(* A detector captures only nodes its context has an AST of. *)
InstancesCompiled ==
  \A d \in Detectors, c \in Contexts : \A i \in instances[d][c] : i.file \in units[c]

(* Merging starts when the detector is done with all contexts. *)
MergedAfterAll ==
  \A d \in Detectors :
    /\ merged[d] > 0 => ran[d] = Contexts
    /\ stage[d] # "merge" => ran[d] = Contexts /\ merged[d] = NumContexts

(* grouped_instances holds the instances of the contexts merged so far. *)
MergedTrees(d, f) ==
  {OfFile(d, c, f) : c \in {b \in Contexts : b <= merged[d] /\ Counts(d, b, f)}}
GroupedAsMerged == \A d \in Detectors, f \in Files : grouped[d][f] = MergedTrees(d, f)

(* detector_hints holds the last hint of the contexts merged so far. *)
LastHint(d, i) ==
  LET found == {c \in Hinting(d, i) : c <= merged[d]} IN
    \/ found = {} /\ hints[d][i] = NoHint
    \/ \E c \in found : (\A b \in found : b <= c) /\ hints[d][i] = hinted[d][c]
HintsAsMerged == \A d \in Detectors, i \in Instances : LastHint(d, i)

SelectedIsExpected ==
  \A d \in Detectors :
    /\ stage[d] = "filter" => selected[d] = Agreed(d)
    /\ stage[d] = "done" => selected[d] = Expected(d)

ReportedIsDone ==
  reported => /\ \A d \in Detectors : stage[d] = "done"
              /\ report = [s \in Severities |->
                             {d \in Detectors : SeverityOf(d) = s /\ selected[d] # {}}]

DetectInv ==
  /\ InstancesCompiled /\ MergedAfterAll /\ GroupedAsMerged
  /\ HintsAsMerged /\ SelectedIsExpected /\ OnlyLinksPanic /\ ReportedIsDone

--------------------------------------------------------------------------------
LEMMA WorkspaceShape ==
  ASSUME TypeOK
  PROVE  /\ srcFilepaths \in [Contexts -> SUBSET Files] /\ units \in [Contexts -> SUBSET Files]
         /\ included \in [Contexts -> SUBSET Files]
         /\ \A c \in Contexts : units[c] \subseteq srcFilepaths[c]
BY DetectAssumption DEF TypeOK, WorkspaceType, srcFilepaths, units, included

(* A link and its file have the same directives, so it does not matter     *)
(* that they are looked up by another path than they are kept by.          *)
LEMMA SameDirectives ==
  ASSUME TypeOK, NEW d \in Detectors, NEW i \in Instances
  PROVE  Ignored(d, i) = Hidden(d, i)
<1>1. ws \in WorkspaceType /\ i.file \in Files
  BY DetectAssumption DEF TypeOK
<1>2. ignored[canonical[i.file]] = ignored[i.file]
  BY <1>1 DEF WorkspaceType, IsCanonicalization, canonical, ignored
<1>3. QED
  BY <1>2 DEF Ignored, Hidden

LEMMA InitInv == Init => TypeOK /\ DetectInv
<1> SUFFICES ASSUME Init PROVE TypeOK /\ DetectInv
  OBVIOUS
<1>1. TypeOK
  <2>1. merged \in [Detectors -> 0..NumContexts]
    BY DetectAssumption DEF Init
  <2>2. hints \in [Detectors -> [Instances -> Hints \cup {NoHint}]]
    BY DEF Init, NoHints
  <2>3. /\ ran \in [Detectors -> SUBSET Contexts] /\ selected \in [Detectors -> SUBSET Instances]
        /\ grouped \in [Detectors -> [Files -> SUBSET SUBSET Instances]]
        /\ stage \in [Detectors -> {"merge", "filter", "done", "panicked"}]
    BY DEF Init
  <2>4. /\ instances \in [Detectors -> [Contexts -> SUBSET Instances]]
        /\ hinted \in [Detectors -> [Contexts -> Hints \cup {NoHint}]]
    BY DEF Init
  <2>5. report \in [Severities -> SUBSET Detectors] /\ reported \in BOOLEAN /\ ws \in Workspaces
    BY DEF Init
  <2>6. QED
    BY <2>1, <2>2, <2>3, <2>4, <2>5 DEF TypeOK
<1>2. InstancesCompiled /\ MergedAfterAll /\ SelectedIsExpected /\ OnlyLinksPanic /\ ReportedIsDone
  BY DEF Init, InstancesCompiled, MergedAfterAll, SelectedIsExpected, OnlyLinksPanic, ReportedIsDone
<1>3. GroupedAsMerged
  <2>1. ASSUME NEW d \in Detectors, NEW f \in Files PROVE MergedTrees(d, f) = {}
    BY DetectAssumption DEF Init, MergedTrees, Contexts
  <2>2. QED
    BY <2>1 DEF Init, GroupedAsMerged
<1>4. HintsAsMerged
  BY DEF Init, HintsAsMerged, LastHint, Hinting, NoHints
<1>5. QED
  BY <1>1, <1>2, <1>3, <1>4 DEF DetectInv

LEMMA TypeStep == TypeOK /\ [Next]_vars => TypeOK'
<1> SUFFICES ASSUME TypeOK, [Next]_vars PROVE TypeOK'
  OBVIOUS
<1> USE DEF detected, merging
<1>1. ASSUME NEW d \in Detectors, NEW c \in Contexts, NEW captured \in CapturedIn(c),
             NEW found \in BOOLEAN, NEW hint \in Hints \cup {NoHint},
             Detect(d, c, captured, found, hint)
      PROVE  TypeOK'
  BY <1>1 DEF Detect, TypeOK, CapturedIn
<1>2. ASSUME NEW d \in Detectors, MergeContext(d) PROVE TypeOK'
  <2> DEFINE c == merged[d] + 1
  <2>1. c \in Contexts /\ c \in 0..NumContexts
    BY <1>2, DetectAssumption DEF MergeContext, TypeOK, Contexts
  <2>2. \A f \in Files : OfFile(d, c, f) \in SUBSET Instances
    BY <2>1 DEF OfFile, TypeOK
  <2>3. grouped' \in [Detectors -> [Files -> SUBSET SUBSET Instances]]
    BY <1>2, <2>2 DEF MergeContext, TypeOK
  <2>4. ExtendHints(d, c) \in [Instances -> Hints \cup {NoHint}]
    BY <2>1 DEF ExtendHints, TypeOK
  <2>5. hints' \in [Detectors -> [Instances -> Hints \cup {NoHint}]]
    BY <1>2, <2>4 DEF MergeContext, TypeOK
  <2>6. merged' \in [Detectors -> 0..NumContexts]
    BY <1>2, <2>1 DEF MergeContext, TypeOK
  <2>7. QED
    BY <1>2, <2>3, <2>5, <2>6 DEF MergeContext, TypeOK
<1>3. ASSUME NEW d \in Detectors, SelectCommon(d) PROVE TypeOK'
  <2>1. Common(d) \in SUBSET Instances
    BY DEF Common, TypeOK
  <2>2. QED
    BY <1>3, <2>1 DEF SelectCommon, TypeOK
<1>4. ASSUME NEW d \in Detectors, FilterIgnored(d) PROVE TypeOK'
  <2>1. selected' \in [Detectors -> SUBSET Instances]
    <3>1. {i \in selected[d] : ~Ignored(d, i)} \in SUBSET Instances
      BY DEF TypeOK
    <3>2. CASE FilterPanics(d)
      BY <1>4, <3>2 DEF FilterIgnored, TypeOK
    <3>3. CASE ~FilterPanics(d)
      BY <1>4, <3>1, <3>3 DEF FilterIgnored, TypeOK
    <3>4. QED
      BY <3>2, <3>3
  <2>2. stage' \in [Detectors -> {"merge", "filter", "done", "panicked"}]
    BY <1>4 DEF FilterIgnored, TypeOK
  <2>3. QED
    BY <1>4, <2>1, <2>2 DEF FilterIgnored, TypeOK
<1>5. CASE MakeReport
  BY <1>5 DEF MakeReport, TypeOK
<1>6. CASE UNCHANGED vars
  BY <1>6 DEF vars, TypeOK
<1>7. QED
  BY <1>1, <1>2, <1>3, <1>4, <1>5, <1>6 DEF Next

--------------------------------------------------------------------------------
(* Once all contexts are merged, the intersection of the groups is what    *)
(* the contexts agree on.                                                  *)
LEMMA CommonIsAgreed ==
  ASSUME TypeOK, InstancesCompiled, GroupedAsMerged,
         NEW d \in Detectors, merged[d] = NumContexts
  PROVE  Common(d) = Agreed(d)
<1>1. ASSUME NEW f \in Files
      PROVE  grouped[d][f] = {OfFile(d, c, f) : c \in {b \in Contexts : Counts(d, b, f)}}
  <2>1. \A b \in Contexts : b <= merged[d]
    BY DetectAssumption DEF Contexts
  <2>2. QED
    BY <2>1 DEF GroupedAsMerged, MergedTrees
<1>2. ASSUME NEW i \in Common(d) PROVE i \in Agreed(d)
  <2>1. PICK f \in Files : i \in UNION grouped[d][f] /\ \A tree \in grouped[d][f] : i \in tree
    BY <1>2 DEF Common
  <2>2. PICK c \in Contexts : Counts(d, c, f) /\ i \in OfFile(d, c, f)
    BY <1>1, <2>1
  <2>3. i \in instances[d][c] /\ i.file = f /\ f \in included[c] /\ i \in Instances
    BY <2>2 DEF OfFile, Counts, TypeOK
  <2>4. ASSUME NEW b \in Contexts, f \in included[b] \cap srcFilepaths[b] PROVE i \in instances[d][b]
    <3>1. Counts(d, b, f)
      BY <2>4 DEF Counts
    <3>2. i \in OfFile(d, b, f)
      BY <1>1, <2>1, <3>1
    <3>3. QED
      BY <3>2 DEF OfFile
  <2>5. QED
    BY <2>3, <2>4 DEF Agreed
<1>3. ASSUME NEW i \in Agreed(d) PROVE i \in Common(d)
  <2> DEFINE f == i.file
  <2>1. i \in Instances /\ f \in Files
    BY DetectAssumption DEF Agreed
  <2>2. PICK c \in Contexts : i \in instances[d][c] /\ f \in included[c]
    BY DEF Agreed
  <2>3. i \in OfFile(d, c, f) /\ Counts(d, c, f)
    BY <2>2 DEF OfFile, Counts
  <2>4. ASSUME NEW b \in Contexts, Counts(d, b, f) PROVE i \in OfFile(d, b, f)
    <3>1. f \in included[b] /\ f \in srcFilepaths[b]
      <4>1. CASE OfFile(d, b, f) # {}
        <5>1. f \in units[b]
          BY <4>1 DEF OfFile, InstancesCompiled
        <5>2. QED
          BY <2>4, <5>1, WorkspaceShape DEF Counts
      <4>2. QED
        BY <2>4, <4>1 DEF Counts
    <3>2. i \in instances[d][b]
      BY <3>1 DEF Agreed
    <3>3. QED
      BY <3>2 DEF OfFile
  <2>5. i \in UNION grouped[d][f] /\ \A tree \in grouped[d][f] : i \in tree
    BY <1>1, <2>1, <2>3, <2>4
  <2>6. QED
    BY <2>1, <2>5 DEF Common
<1>4. QED
  BY <1>2, <1>3

(* The files stay what they are links to. *)
LEMMA LinksStay ==
  ASSUME UNCHANGED ws, NEW f
  PROVE  IsLostLink(f)' = IsLostLink(f)
BY DEF IsLostLink, canonical, units, included

LEMMA DetectKeepsInv ==
  ASSUME TypeOK, DetectInv, NEW d \in Detectors, NEW c \in Contexts,
         NEW captured \in CapturedIn(c), NEW found \in BOOLEAN, NEW hint \in Hints \cup {NoHint},
         Detect(d, c, captured, found, hint)
  PROVE  DetectInv'
<1>1. /\ UNCHANGED <<ws, merged, grouped, hints, stage, selected, report, reported>>
      /\ c \notin ran[d] /\ ran' = [ran EXCEPT ![d] = @ \cup {c}]
      /\ \A e \in Detectors : e # d => instances'[e] = instances[e] /\ hinted'[e] = hinted[e]
      /\ instances' = [instances EXCEPT ![d][c] = IF found THEN captured ELSE {}]
  BY DEF Detect, merging, TypeOK
<1>2. merged[d] = 0 /\ stage[d] = "merge"
  BY <1>1 DEF DetectInv, MergedAfterAll, TypeOK
<1>3. InstancesCompiled'
  BY <1>1 DEF DetectInv, InstancesCompiled, CapturedIn, TypeOK, units
<1>4. MergedAfterAll'
  BY <1>1, <1>2 DEF DetectInv, MergedAfterAll, TypeOK
<1>5. GroupedAsMerged'
  <2>1. ASSUME NEW e \in Detectors, NEW f \in Files PROVE MergedTrees(e, f)' = MergedTrees(e, f)
    <3>1. CASE e = d
      <4>1. \A b \in Contexts : ~(b <= 0)
        BY DetectAssumption DEF Contexts
      <4>2. QED
        BY <1>1, <1>2, <3>1, <4>1 DEF MergedTrees
    <3>2. CASE e # d
      BY <1>1, <3>2 DEF MergedTrees, OfFile, Counts, included, srcFilepaths
    <3>3. QED
      BY <3>1, <3>2
  <2>2. QED
    BY <1>1, <2>1 DEF DetectInv, GroupedAsMerged
<1>6. HintsAsMerged'
  <2>1. ASSUME NEW e \in Detectors, NEW i \in Instances PROVE LastHint(e, i)'
    <3>1. LastHint(e, i)
      BY DEF DetectInv, HintsAsMerged
    <3>2. CASE e = d
      <4>1. \A b \in Contexts : ~(b <= 0)
        BY DetectAssumption DEF Contexts
      <4>2. QED
        BY <1>1, <1>2, <3>1, <3>2, <4>1 DEF LastHint, Hinting
    <3>3. CASE e # d
      BY <1>1, <3>1, <3>3 DEF LastHint, Hinting
    <3>4. QED
      BY <3>2, <3>3
  <2>2. QED
    BY <2>1 DEF HintsAsMerged
<1>7. SelectedIsExpected'
  BY <1>1, <1>2 DEF DetectInv, SelectedIsExpected, Agreed, Expected, Hidden, included,
                    srcFilepaths, ignored
<1>8. OnlyLinksPanic' /\ ReportedIsDone'
  <2>1. \A e \in Detectors : stage[e] # "merge" => Agreed(e)' = Agreed(e)
    BY <1>1, <1>2 DEF Agreed, included, srcFilepaths
  <2>2. QED
    BY <1>1, <1>2, <2>1, LinksStay DEF DetectInv, OnlyLinksPanic, ReportedIsDone
<1>9. QED
  BY <1>3, <1>4, <1>5, <1>6, <1>7, <1>8 DEF DetectInv

LEMMA MergeKeepsInv ==
  ASSUME TypeOK, DetectInv, NEW d \in Detectors, MergeContext(d)
  PROVE  DetectInv'
<1> DEFINE c == merged[d] + 1
<1>1. /\ UNCHANGED <<ws, ran, instances, hinted, stage, selected, report, reported>>
      /\ ran[d] = Contexts /\ stage[d] = "merge"
      /\ merged' = [merged EXCEPT ![d] = c]
  BY DEF MergeContext, detected
<1>2. c \in Contexts /\ merged[d] \in Nat
  BY DetectAssumption DEF MergeContext, TypeOK, Contexts
<1>3. \A b \in Contexts : b <= c <=> b <= merged[d] \/ b = c
  BY <1>2 DEF Contexts
<1>4. \A e \in Detectors, f \in Files, b \in Contexts :
        OfFile(e, b, f)' = OfFile(e, b, f) /\ Counts(e, b, f)' = Counts(e, b, f)
  BY <1>1 DEF OfFile, Counts, included, srcFilepaths
<1>5. GroupedAsMerged'
  <2>1. ASSUME NEW e \in Detectors, NEW f \in Files PROVE grouped'[e][f] = MergedTrees(e, f)'
    <3>1. grouped[e][f] = MergedTrees(e, f)
      BY DEF DetectInv, GroupedAsMerged
    <3>2. CASE e = d
      <4>1. grouped'[d][f] = grouped[d][f] \cup (IF Counts(d, c, f) THEN {OfFile(d, c, f)} ELSE {})
        BY DEF MergeContext, TypeOK
      <4>2. MergedTrees(d, f)' =
              {OfFile(d, b, f) : b \in {b \in Contexts : b <= c /\ Counts(d, b, f)}}
        BY <1>1, <1>4 DEF MergedTrees, TypeOK
      <4>3. QED
        BY <1>2, <1>3, <3>1, <3>2, <4>1, <4>2 DEF MergedTrees
    <3>3. CASE e # d
      <4>1. grouped'[e] = grouped[e] /\ merged'[e] = merged[e]
        BY <3>3 DEF MergeContext, TypeOK
      <4>2. QED
        BY <1>4, <3>1, <4>1 DEF MergedTrees
    <3>4. QED
      BY <3>2, <3>3
  <2>2. QED
    BY <2>1 DEF GroupedAsMerged
<1>6. HintsAsMerged'
  <2>1. ASSUME NEW e \in Detectors, NEW i \in Instances PROVE LastHint(e, i)'
    <3>1. LastHint(e, i) /\ Hinting(e, i)' = Hinting(e, i) /\ Hinting(e, i) \subseteq Contexts
      BY <1>1 DEF DetectInv, HintsAsMerged, Hinting
    <3>2. CASE e = d
      <4>1. hints'[d][i] = IF c \in Hinting(d, i) THEN hinted[d][c] ELSE hints[d][i]
        BY <1>2 DEF MergeContext, ExtendHints, Hinting, TypeOK
      <4>2. merged'[d] = c /\ hinted' = hinted
        BY <1>1 DEF TypeOK
      <4>3. CASE c \in Hinting(d, i)
        BY <1>2, <1>3, <3>1, <3>2, <4>1, <4>2, <4>3 DEF LastHint
      <4>4. CASE c \notin Hinting(d, i)
        BY <1>3, <3>1, <3>2, <4>1, <4>2, <4>4 DEF LastHint
      <4>5. QED
        BY <4>3, <4>4
    <3>3. CASE e # d
      <4>1. hints'[e] = hints[e] /\ merged'[e] = merged[e] /\ hinted' = hinted
        BY <1>1, <3>3 DEF MergeContext, TypeOK
      <4>2. QED
        BY <3>1, <4>1 DEF LastHint
    <3>4. QED
      BY <3>2, <3>3
  <2>2. QED
    BY <2>1 DEF HintsAsMerged
<1>7. InstancesCompiled' /\ MergedAfterAll'
  BY <1>1, <1>2 DEF DetectInv, InstancesCompiled, MergedAfterAll, units, TypeOK
<1>8. SelectedIsExpected'
  BY <1>1 DEF DetectInv, SelectedIsExpected, Agreed, Expected, Hidden, included, srcFilepaths,
              ignored
<1>9. OnlyLinksPanic' /\ ReportedIsDone'
  <2>1. \A e \in Detectors : Agreed(e)' = Agreed(e)
    BY <1>1 DEF Agreed, included, srcFilepaths
  <2>2. QED
    BY <1>1, <2>1, LinksStay DEF DetectInv, OnlyLinksPanic, ReportedIsDone
<1>10. QED
  BY <1>5, <1>6, <1>7, <1>8, <1>9 DEF DetectInv

(* Steps that leave the contexts' results and their merge alone. *)
LEMMA LaterSteps ==
  ASSUME DetectInv, UNCHANGED <<ws, ran, instances, hinted, merged, grouped, hints>>,
         \A d \in Detectors :
           stage'[d] # "merge" => stage[d] # "merge" \/ (ran[d] = Contexts /\ merged[d] = NumContexts)
  PROVE  InstancesCompiled' /\ MergedAfterAll' /\ GroupedAsMerged' /\ HintsAsMerged'
BY DEF DetectInv, InstancesCompiled, MergedAfterAll, GroupedAsMerged, MergedTrees, HintsAsMerged,
       LastHint, Hinting, OfFile, Counts, included, srcFilepaths, units

LEMMA SelectKeepsInv ==
  ASSUME TypeOK, DetectInv, NEW d \in Detectors, SelectCommon(d)
  PROVE  DetectInv'
<1>1. /\ UNCHANGED <<ws, ran, instances, hinted, merged, grouped, hints, report, reported>>
      /\ ran[d] = Contexts /\ merged[d] = NumContexts /\ stage[d] = "merge"
      /\ selected' = [selected EXCEPT ![d] = Agreed(d)]
      /\ stage' = [stage EXCEPT ![d] = "filter"]
  BY CommonIsAgreed DEF SelectCommon, detected, merging, DetectInv
<1>2. InstancesCompiled' /\ MergedAfterAll' /\ GroupedAsMerged' /\ HintsAsMerged'
  BY <1>1, LaterSteps DEF TypeOK
<1>3. SelectedIsExpected'
  BY <1>1 DEF DetectInv, SelectedIsExpected, Agreed, Expected, Hidden, included, srcFilepaths,
              ignored, TypeOK
<1>4. OnlyLinksPanic' /\ ReportedIsDone'
  <2>1. \A e \in Detectors : Agreed(e)' = Agreed(e)
    BY <1>1 DEF Agreed, included, srcFilepaths
  <2>2. QED
    BY <1>1, <2>1, LinksStay DEF DetectInv, OnlyLinksPanic, ReportedIsDone, TypeOK
<1>5. QED
  BY <1>2, <1>3, <1>4 DEF DetectInv

(* A source that is its own canonical path has statistics: what a detector *)
(* captured in it is in an AST of a context that has it in scope.          *)
LEMMA SelectedHasStats ==
  ASSUME TypeOK, DetectInv, NEW d \in Detectors, NEW i \in Agreed(d)
  PROVE  ~HasStats(canonical[i.file]) <=> IsLostLink(i.file)
<1>1. PICK c \in Contexts : i \in instances[d][c] /\ i.file \in included[c]
  BY DEF Agreed
<1>2. HasStats(i.file)
  BY <1>1 DEF DetectInv, InstancesCompiled, HasStats
<1>3. QED
  BY <1>2 DEF HasStats, IsLostLink

LEMMA FilterKeepsInv ==
  ASSUME TypeOK, DetectInv, NEW d \in Detectors, FilterIgnored(d)
  PROVE  DetectInv'
<1> DEFINE shown == {i \in selected[d] : ~Ignored(d, i)}
<1>1. /\ UNCHANGED <<ws, ran, instances, hinted, merged, grouped, hints, report, reported>>
      /\ stage[d] = "filter" /\ selected[d] = Agreed(d)
  BY DEF FilterIgnored, detected, merging, DetectInv, SelectedIsExpected
<1>2. IF FilterPanics(d) THEN stage' = [stage EXCEPT ![d] = "panicked"] /\ selected' = selected
      ELSE stage' = [stage EXCEPT ![d] = "done"] /\ selected' = [selected EXCEPT ![d] = shown]
  BY DEF FilterIgnored
<1>3. FilterPanics(d) <=> \E i \in Agreed(d) : IsLostLink(i.file)
  BY <1>1, SelectedHasStats DEF FilterPanics
<1>4. shown = Expected(d)
  BY <1>1, SameDirectives DEF Expected, Agreed
<1> HIDE DEF shown
<1>5. InstancesCompiled' /\ MergedAfterAll' /\ GroupedAsMerged' /\ HintsAsMerged'
  <2>1. \A e \in Detectors : stage'[e] # "merge" => stage[e] # "merge"
    BY <1>1, <1>2 DEF TypeOK
  <2>2. QED
    BY <1>1, <2>1, LaterSteps
<1>6. \A e \in Detectors : Agreed(e)' = Agreed(e) /\ Expected(e)' = Expected(e)
  BY <1>1 DEF Agreed, Expected, Hidden, included, srcFilepaths, ignored
<1>7. \A i \in Instances : IsLostLink(i.file)' = IsLostLink(i.file)
  BY <1>1, LinksStay
<1>8. \A e \in Detectors : Agreed(e) \subseteq Instances
  BY DEF Agreed
<1>9. SelectedIsExpected' /\ OnlyLinksPanic' /\ ReportedIsDone'
  <2>1. CASE FilterPanics(d)
    <3>1. stage' = [stage EXCEPT ![d] = "panicked"] /\ selected' = selected
      BY <1>2, <2>1
    <3>2. QED
      BY <1>1, <1>3, <1>6, <1>7, <1>8, <2>1, <3>1
      DEF DetectInv, SelectedIsExpected, OnlyLinksPanic, ReportedIsDone, TypeOK
  <2>2. CASE ~FilterPanics(d)
    <3>1. stage' = [stage EXCEPT ![d] = "done"] /\ selected' = [selected EXCEPT ![d] = shown]
      BY <1>2, <2>2
    <3>2. QED
      BY <1>1, <1>3, <1>4, <1>6, <1>7, <1>8, <2>2, <3>1
      DEF DetectInv, SelectedIsExpected, OnlyLinksPanic, ReportedIsDone, TypeOK
  <2>3. QED
    BY <2>1, <2>2
<1>10. QED
  BY <1>5, <1>9 DEF DetectInv

LEMMA ReportKeepsInv == TypeOK /\ DetectInv /\ MakeReport => DetectInv'
<1> SUFFICES ASSUME TypeOK, DetectInv, MakeReport PROVE DetectInv'
  OBVIOUS
<1>1. /\ UNCHANGED <<ws, ran, instances, hinted, merged, grouped, hints, stage, selected>>
      /\ \A d \in Detectors : stage[d] = "done"
      /\ report' = [s \in Severities |-> {d \in Detectors : SeverityOf(d) = s /\ selected[d] # {}}]
  BY DEF MakeReport, detected, merging
<1>2. InstancesCompiled' /\ MergedAfterAll' /\ GroupedAsMerged' /\ HintsAsMerged'
  BY <1>1, LaterSteps
<1>3. SelectedIsExpected' /\ OnlyLinksPanic'
  BY <1>1, LinksStay DEF DetectInv, SelectedIsExpected, OnlyLinksPanic, Agreed, Expected, Hidden,
                         included, srcFilepaths, ignored
<1>4. ReportedIsDone'
  BY <1>1 DEF ReportedIsDone
<1>5. QED
  BY <1>2, <1>3, <1>4 DEF DetectInv

LEMMA InvStep == TypeOK /\ DetectInv /\ [Next]_vars => DetectInv'
<1> SUFFICES ASSUME TypeOK, DetectInv, [Next]_vars PROVE DetectInv'
  OBVIOUS
<1>1. CASE Next
  BY <1>1, DetectKeepsInv, MergeKeepsInv, SelectKeepsInv, FilterKeepsInv,
     ReportKeepsInv
  DEF Next
<1>2. CASE UNCHANGED vars
  <2>1. InstancesCompiled' /\ MergedAfterAll' /\ GroupedAsMerged' /\ HintsAsMerged'
    BY <1>2, LaterSteps DEF vars
  <2>2. SelectedIsExpected' /\ OnlyLinksPanic' /\ ReportedIsDone'
    BY <1>2, LinksStay
    DEF vars, DetectInv, SelectedIsExpected, OnlyLinksPanic, ReportedIsDone, Agreed, Expected,
                Hidden, included, srcFilepaths, ignored
  <2>3. QED
    BY <2>1, <2>2 DEF DetectInv
<1>3. QED
  BY <1>1, <1>2

(* After any number of contexts, what is grouped and hinted is what those  *)
(* contexts captured, and so for each later phase of the merge.            *)
THEOREM DetectInvariant == Spec => [](TypeOK /\ DetectInv)
<1>1. TypeOK /\ DetectInv /\ [Next]_vars => (TypeOK /\ DetectInv)'
  BY TypeStep, InvStep
<1>2. QED
  BY InitInv, <1>1, PTL DEF Spec

(* Whatever the order the detectors finish the contexts in, a report has   *)
(* exactly the instances every context in scope agrees on and no directive *)
(* hides, each detector under its severity.                                *)
THEOREM ReportExpected == Spec => []ReportIsExpected
<1>1. TypeOK /\ DetectInv => ReportIsExpected
  <2> SUFFICES ASSUME TypeOK, DetectInv, reported PROVE ReportIsExpected
    BY DEF ReportIsExpected
  <2>1. \A d \in Detectors : selected[d] = Expected(d)
    BY DEF DetectInv, ReportedIsDone, SelectedIsExpected
  <2>2. QED
    BY <2>1 DEF DetectInv, ReportedIsDone, ReportIsExpected
<1>2. QED
  BY <1>1, DetectInvariant, PTL

(* The panic on missing ignore statistics is reached by sources that are   *)
(* symbolic links to files no context has in scope under their own path,   *)
(* whenever such a source has an instance to report, and by no others.     *)
THEOREM PanicsAreOfLinks == Spec => []OnlyLinksPanic
<1>1. DetectInv => OnlyLinksPanic
  BY DEF DetectInv
<1>2. QED
  BY <1>1, DetectInvariant, PTL

(* Hints do not depend on the order the contexts are finished in. *)
THEOREM LastHintsWin == Spec => []HintsAreOfTheLastContext
<1>1. TypeOK /\ DetectInv => HintsAreOfTheLastContext
  <2> SUFFICES ASSUME TypeOK, DetectInv, reported, NEW d \in Detectors, NEW i \in Instances
               PROVE  IF Hinting(d, i) = {} THEN hints[d][i] = NoHint
                      ELSE \E c \in Hinting(d, i) :
                             (\A b \in Hinting(d, i) : b <= c) /\ hints[d][i] = hinted[d][c]
    BY DEF HintsAreOfTheLastContext
  <2>1. \A b \in Contexts : b <= merged[d]
    BY DetectAssumption DEF DetectInv, ReportedIsDone, MergedAfterAll, Contexts
  <2>2. LastHint(d, i) /\ Hinting(d, i) \subseteq Contexts
    BY DEF DetectInv, HintsAsMerged, Hinting
  <2>3. Hinting(d, i) = {c \in Hinting(d, i) : c <= merged[d]}
    BY <2>1, <2>2
  <2>4. QED
    BY <2>2, <2>3 DEF LastHint
<1>2. QED
  BY <1>1, DetectInvariant, PTL
================================================================================
