----------------------------- MODULE SolidityText -----------------------------
(***************************************************************************)
(* What SourceText ought to find: the text read as Solidity reads it, one  *)
(* symbol at a time, without tokens and without looking ahead.             *)
(***************************************************************************)
EXTENDS SourceText

(* The state of Solidity's scanner after each symbol. *)
Scan(state, c) ==
  CASE state \in {"code", "slash"} ->
         IF c = "dq" THEN "double" ELSE IF c = "sq" THEN "single"
         ELSE IF state = "slash" /\ c = "*" THEN "block"
         ELSE IF c = "/" THEN (IF state = "slash" THEN "line" ELSE "slash")
         ELSE "code"
    [] state = "block" -> IF c = "*" THEN "star" ELSE "block"
    [] state = "star" -> IF c = "/" THEN "code" ELSE IF c = "*" THEN "star" ELSE "block"
    [] state = "line" -> IF c = "nl" THEN "code" ELSE "line"
    [] state = "double" -> IF c = "dq" THEN "code" ELSE IF c = "esc" THEN "double esc" ELSE state
    [] state = "single" -> IF c = "sq" THEN "code" ELSE IF c = "esc" THEN "single esc" ELSE state
    [] state = "double esc" -> "double"
    [] state = "single esc" -> "single"
Scanned(t) == LET f[i \in 0..Len(t)] == IF i = 0 THEN "code" ELSE Scan(f[i - 1], t[i]) IN f

(* Only text that compiles is read: it ends outside of strings and block   *)
(* comments, and a line of a string ends with a backslash.                 *)
Compiles(t) ==
  LET f == Scanned(t)
  IN  /\ f[Len(t)] \in {"code", "slash", "line"}
      /\ \A i \in DOMAIN t : t[i] = "nl" => f[i - 1] \notin {"double", "single"}
ASSUME SolidityAssumption == \A t \in Texts : Compiles(t)

(* What each symbol belongs to; a slash may open a comment. *)
Kind(f, i) ==
  LET of(state) ==
        CASE state \in {"double", "double esc"} -> "double quotes"
          [] state \in {"single", "single esc"} -> "single quotes"
          [] state \in {"block", "star"} -> "block comment"
          [] state = "line" -> "line comment"
          [] OTHER -> "code"
  IN  IF f[i - 1] \notin {"code", "slash"} THEN of(f[i - 1])
      ELSE IF f[i] = "slash" /\ i + 1 \in DOMAIN f THEN
           IF of(f[i + 1]) \in Comments THEN of(f[i + 1]) ELSE "code"
      ELSE of(f[i])

LineOf(i) == 1 + BrokenBefore(text, i)
(* How many symbols precede a token. *)
Before(k) ==
  LET first[n \in 0..Len(tokens)] == IF n = 0 THEN 0 ELSE first[n - 1] + Len(tokens[n].content)
  IN  first[k - 1]

-------------------------------------------------------------------------------
(* The tokens are the text, cut where Solidity begins and ends comments    *)
(* and strings, and each is known to begin and to end on the lines it      *)
(* does, whatever is escaped or unclosed in it: token.rs:20-149,           *)
(* util.rs:18-49.                                                          *)
TokensAreTheText ==
  done =>
    LET f == Scanned(text)
    IN  /\ Before(Len(tokens) + 1) = Len(text)
        /\ \A k \in DOMAIN tokens : LET t == tokens[k]  n == Before(k) IN
             /\ t.start = LineOf(n + 1) /\ t.end = LineOf(n + Len(t.content))
             /\ \A i \in DOMAIN t.content :
                  t.content[i] = text[n + i] /\ Kind(f, n + i) = t.kind

(* Every line with something printed outside of comments is counted, and   *)
(* counted once, unless nothing but blanks is between two comments or      *)
(* strings on it: cloc.rs:3-75, token.rs:206-262.                          *)
LinesWithCode ==
  LET f == Scanned(text)
  IN  {LineOf(i) : i \in {j \in DOMAIN text :
         \/ Kind(f, j) \in Strings
         \/ Kind(f, j) = "code" /\ text[j] \notin Blanks}}
OnlyBlanks(t) == t.kind = "code" /\ ToSet(t.content) = {" "}
LinesAreCountedOnce ==
  done =>
    LET exact == Cardinality(LinesWithCode)
    IN  code = exact \/ (code > exact /\ \E k \in DOMAIN tokens : OnlyBlanks(tokens[k]))

(* A directive works where it is in a comment, and nowhere else. It is for *)
(* the line its comment ends on, or the next; a directive for everything   *)
(* gives way to one with names, and one for the line to one for the next:  *)
(* ignore.rs:7-57.                                                         *)
DirectivesReachTheirLines ==
  done =>
    LET f == Scanned(text)
        at == {i \in DOMAIN text : text[i] \in {"ignore", "next"} /\ Kind(f, i) \in Comments}
        stop(i) == Min({j \in i..Len(text) : f[j] = "code" \/ j = Len(text)})
        which(i) == LineOf(stop(i)) + IF text[i] = "next" THEN 1 ELSE 0
        names(i) == \E j \in i..stop(i) : text[j] = "names" /\ \A k \in (i + 1)..(j - 1) : text[k] \in Blanks
        others(i) == {j \in at \ {i} : stop(j) = stop(i)}
    IN  /\ \A ig \in ignored : \E i \in at :
             ig = [when |-> IF names(i) THEN "named" ELSE "always", which |-> which(i)]
        /\ \A i \in at :
             \/ \E ig \in ignored : ig.which = which(i) /\ (names(i) <=> ig.when = "named")
             \/ ~names(i) /\ \E j \in others(i) : names(j) \/ text[j] = "next"
===============================================================================
