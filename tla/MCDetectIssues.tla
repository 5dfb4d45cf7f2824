---------------------------- MODULE MCDetectIssues ----------------------------
(* Two detectors, two contexts, and two files or links to them for TLC. *)
EXTENDS DetectIssues, TLC

CONSTANTS hi, lo, fa, fb, target, h1, h2

MCInstances == {[file |-> fa, line |-> 1], [file |-> fb, line |-> 2]}
MCDirectives == {[which |-> 1, names |-> {hi, lo}], [which |-> 2, names |-> {lo}]}

Project(src, ast, scope, directives) ==
  [srcFilepaths |-> src, units |-> ast, included |-> scope,
   ignored |-> [f \in Files |-> directives], canonical |-> [f \in Files |-> f]]
(* The same where fa is a symbolic link.                                   *)
Linked(w, to) == [w EXCEPT !.canonical[fa] = to]

MCWorkspaces ==
  { (* both contexts have both files in scope *)
    Project(<<{fa, fb}, {fa, fb}>>, <<{fa, fb}, {fa, fb}>>, <<{fa, fb}, {fa, fb}>>, {}),
    (* the second has fb as an import out of scope, and lines are ignored *)
    Project(<<{fa, fb}, {fa, fb}>>, <<{fa, fb}, {fa, fb}>>, <<{fa, fb}, {fa}>>, MCDirectives),
    (* the second compiled fb but has no AST of it *)
    Project(<<{fa}, {fa, fb}>>, <<{fa}, {fa}>>, <<{fa, fb}, {fa, fb}>>, {}),
    (* fb is nowhere in scope *)
    Project(<<{fa, fb}, {fb}>>, <<{fa, fb}, {fb}>>, <<{fa}, {}>>, {}),
    (* fa is a link to a file that is no source *)
    Linked(Project(<<{fa, fb}, {fb}>>, <<{fa, fb}, {fb}>>, <<{fa, fb}, {fb}>>, {}), target),
    (* fa is a link to fb, which is in scope in one of the contexts, and lines are ignored *)
    Linked(Project(<<{fa}, {fa, fb}>>, <<{fa}, {fa, fb}>>, <<{fa, fb}, {fb}>>, MCDirectives), fb),
    (* fa is a link to fb, which is compiled but not in scope *)
    Linked(Project(<<{fa}, {fa, fb}>>, <<{fa}, {fa, fb}>>, <<{fa}, {fa}>>, {}), fb) }
===============================================================================
