------------------------------ MODULE SourceText ------------------------------
(***************************************************************************)
(* What aderyn reads out of a source besides its AST                       *)
(* (aderyn_core/src/stats): the tokenizer splits the text into comments,   *)
(* quoted strings and the rest; the rest gives the number of lines of      *)
(* code, the comments the lines that are to be ignored.                    *)
(*                                                                         *)
(* A text is a sequence of symbols: a character each, but for the words of *)
(* a directive. "ignore" is aderyn-ignore or aderyn-fp, "next" the same    *)
(* with -next-line, "names" a list of detectors in parentheses, and "x"    *)
(* anything else that is printed. Lines are counted unless skip_cloc says  *)
(* not to, in which case there is no count to be right or wrong.           *)
(***************************************************************************)
EXTENDS Integers, Sequences, FiniteSets, FiniteSetsExt, SequencesExt, TLC

CONSTANT Texts

Quotes == {"dq", "sq"}
Stray == Quotes \cup {"/"}
Blanks == {" ", "nl"}
Symbols == Stray \cup Blanks \cup {"*", "esc", "x", "ignore", "next", "names"}
Strings == {"double quotes", "single quotes"}
Comments == {"block comment", "line comment"}
Kinds == Strings \cup Comments \cup {"code"}
Nothing == "nothing"

ASSUME TextAssumption == Texts \subseteq Seq(Symbols)

VARIABLES
  text,
  pos, line,    \* of the CodeIterator: the next symbol, and its line
  reading,      \* the kind of the token being read, or nothing
  token,        \* that token
  tokens,       \* token_descriptors
  code,         \* the lines of code counted
  ignored,      \* the lines to ignore
  done

vars == <<text, pos, line, reading, token, tokens, code, ignored, done>>
results == <<code, ignored, done>>

-------------------------------------------------------------------------------
(* The tokenizer. *)

Peek(i) == IF i <= Len(text) THEN text[i] ELSE "none"
Breaks(s) == Cardinality({i \in DOMAIN s : s[i] = "nl"})
(* Mutant: a token ends on the line after it. *)
LineAfter(a, b) == IF a < b THEN b + 1 ELSE a + 1
Later(a, b) == IF a < b THEN b ELSE a

(* n calls of next on the iterator. *)
Upcoming(n) == SubSeq(text, pos, pos + n - 1)
Advance(n) == pos' = pos + n /\ line' = line + Breaks(Upcoming(n))

KindAt(i) ==
  CASE text[i] = "dq" -> "double quotes"
    [] text[i] = "sq" -> "single quotes"
    [] text[i] = "/" /\ Peek(i + 1) = "*" -> "block comment"
    [] text[i] = "/" /\ Peek(i + 1) = "/" -> "line comment"
    [] OTHER -> "code"

Init ==
  /\ text \in Texts
  /\ pos = 1 /\ line = 1 /\ reading = Nothing
  /\ token = [kind |-> Nothing, start |-> 1, end |-> 1, content |-> <<>>]
  /\ tokens = <<>> /\ code = 0 /\ ignored = {} /\ done = FALSE

BeginToken ==
  /\ reading = Nothing /\ pos <= Len(text)
  /\ LET kind == KindAt(pos)
         n == IF kind \in Comments THEN 2 ELSE 1
     IN  /\ reading' = kind
         /\ token' = [kind |-> kind, start |-> line, end |-> line, content |-> Upcoming(n)]
         /\ Advance(n)
  /\ UNCHANGED <<text, tokens, results>>

(* n more symbols belong to the token, which goes on or ends with them. *)
Read(n, end) ==
  /\ token' = [token EXCEPT !.content = @ \o Upcoming(n), !.end = end]
  /\ Advance(n)
  /\ UNCHANGED <<text, reading, tokens, results>>
Close(n, end) ==
  /\ tokens' = Append(tokens, [token EXCEPT !.content = @ \o Upcoming(n), !.end = end])
  /\ reading' = Nothing
  /\ Advance(n)
  /\ UNCHANGED <<text, token, results>>

ReadBlock ==
  /\ reading = "block comment" /\ pos <= Len(text)
  /\ IF text[pos] = "*" /\ Peek(pos + 1) = "/"
     THEN Close(2, Later(token.end, line)) ELSE Read(1, token.end)

ReadLine ==
  /\ reading = "line comment" /\ pos <= Len(text)
  /\ IF text[pos] = "nl" THEN Close(1, token.end) ELSE Read(1, token.end)

QuoteOf(kind) == IF kind = "double quotes" THEN "dq" ELSE "sq"
(* Mutant: a quote closes its string even after a backslash. *)
EscapesNothing(i) == 1
(* A backslash takes the next symbol with it, whatever it is. *)
Escaped(i) == IF text[i] = "esc" /\ i < Len(text) THEN 2 ELSE 1
ReadString ==
  /\ reading \in Strings /\ pos <= Len(text)
  /\ IF text[pos] = QuoteOf(reading)
     THEN Close(1, Later(token.end, line)) ELSE Read(Escaped(pos), token.end)

(* Code ends before a symbol that may open something else. *)
ReadCode ==
  /\ reading = "code" /\ pos <= Len(text)
  /\ IF text[pos] \in Stray THEN Close(0, token.end) ELSE Read(1, Later(token.end, line))

(* There is no more text: the token is what was read of it. *)
TextEnds ==
  /\ reading # Nothing /\ pos > Len(text)
  /\ Close(0, token.end)

-------------------------------------------------------------------------------
(* Lines of code. *)

IsCode(t) == t.kind \notin Comments
BrokenBefore(s, i) == Cardinality({j \in 1..(i - 1) : s[j] = "nl"})
(* The lines of a token, counted from 0, with something printed in them. *)
Printed(s) == {BrokenBefore(s, i) : i \in {j \in DOMAIN s : s[j] \notin Blanks}}

(* How many lines of a token have code, which is the first of them, and    *)
(* whether its last line does.                                             *)
Insight(t) ==
  LET printed == Printed(t.content)
      insight(info, first, last) ==
        [ start |-> t.start, end |-> t.end, isCode |-> IsCode(t),
          info |-> info, first |-> first, last |-> last ]
  IN  CASE t.kind \in Strings -> insight(t.end - t.start + 1, 0, TRUE)
        [] t.kind = "code" ->
             insight(Cardinality(printed), IF printed = {} THEN -1 ELSE Min(printed),
                     Breaks(t.content) \in printed)
        [] OTHER -> insight(0, -1, TRUE)

Joins(group, i) ==
  LET p == Last(group)
  IN  i.start = p.end /\ i.first = 0 /\ p.last /\ p.isCode = i.isCode
AddInsight(groups, i) ==
  IF groups # <<>> /\ Joins(Last(groups), i)
  THEN [groups EXCEPT ![Len(groups)] = Append(@, i)]
  ELSE Append(groups, <<i>>)
Groups(insights) == FoldLeft(AddInsight, <<>>, insights)

(* A line two insights of a group share is counted once. *)
SharesLine(g, k) ==
  k > 1 /\ g[k].first = 0 /\ g[k].start = g[k - 1].end /\ g[k - 1].first # -1
Contribution(g) ==
  LET some == {k \in DOMAIN g : g[k].first # -1}
  IN  SumFunction([k \in some |-> g[k].info - IF SharesLine(g, k) THEN 1 ELSE 0])

GroupsOfCode(gs) == {k \in DOMAIN gs : gs[k][1].isCode}

(* Mutant: what groups share is counted for each. *)
ContinuesNothing(gs, k) == FALSE
(* A group goes on where the one before it ends: their shared line is      *)
(* counted once, if the one before has code in it.                         *)
Continues(gs, k) ==
  LET before == {j \in GroupsOfCode(gs) : j < k}
      prev == Last(gs[Max(before)])
  IN  /\ before # {}
      /\ gs[k][1].start = prev.end /\ gs[k][1].first = 0 /\ prev.last
      /\ Contribution(gs[k]) >= 1
CodeLines(ts) ==
  LET gs == Groups([k \in DOMAIN ts |-> Insight(ts[k])])
  IN  SumFunction([k \in GroupsOfCode(gs) |->
        Contribution(gs[k]) - IF Continues(gs, k) THEN 1 ELSE 0])

-------------------------------------------------------------------------------
(* Ignore directives. *)

Has(s, word) == \E i \in DOMAIN s : s[i] = word
(* Where a directive has its own list of detectors. *)
Named(s) ==
  {i \in DOMAIN s : s[i] \in {"ignore", "next"} /\
     \E j \in (i + 1)..Len(s) : s[j] = "names" /\ \A k \in (i + 1)..(j - 1) : s[k] \in Blanks}
(* Mutant: lines are counted from 0. *)
LineFromZero(t, word) == IF word = "next" THEN t.end ELSE t.end - 1
(* Mutant: a directive counts from the line its comment begins in. *)
LineFromStart(t, word) == IF word = "next" THEN t.start + 1 ELSE t.start
LineIgnored(t, word) == IF word = "next" THEN t.end + 1 ELSE t.end
IgnoredBy(t) ==
  LET s == t.content
      named == {[when |-> "named", which |-> LineIgnored(t, s[i])] : i \in Named(s)}
      word == IF Has(s, "next") THEN "next" ELSE "ignore"
  IN  IF named # {} THEN named
      ELSE IF Has(s, "next") \/ Has(s, "ignore")
      THEN {[when |-> "always", which |-> LineIgnored(t, word)]}
      ELSE {}
LinesToIgnore(ts) == UNION {IgnoredBy(ts[k]) : k \in {j \in DOMAIN ts : ~IsCode(ts[j])}}

GetStats ==
  /\ reading = Nothing /\ pos > Len(text) /\ ~done
  /\ code' = CodeLines(tokens) /\ ignored' = LinesToIgnore(tokens)
  /\ done' = TRUE
  /\ UNCHANGED <<text, pos, line, reading, token, tokens>>

Next ==
  \/ BeginToken \/ ReadBlock \/ ReadLine \/ ReadString \/ ReadCode \/ TextEnds
  \/ GetStats

Spec == Init /\ [][Next]_vars

-------------------------------------------------------------------------------
TokenType ==
  [kind : Kinds \cup {Nothing}, start : Nat \ {0}, end : Nat \ {0}, content : Seq(Symbols)]

(* What is read is of the text, and no line is numbered 0: token.rs:33-35,  *)
(* ignore.rs:31-54.                                                        *)
TypeOK ==
  /\ text \in Texts
  /\ pos \in 1..(Len(text) + 1) /\ line \in Nat \ {0}
  /\ reading \in Kinds \cup {Nothing}
  /\ token \in TokenType /\ (reading # Nothing => token.kind = reading)
  /\ tokens \in Seq(TokenType)
  /\ code \in Nat /\ done \in BOOLEAN
  /\ \A i \in ignored : i.when \in {"always", "named"} /\ i.which \in Nat \ {0}

(* Tokens come in the order of their lines, none beginning before the one  *)
(* before it has ended, and none ending on a line that is yet to be read;  *)
(* cloc.rs:22-72 and token.rs:251-254 compare neighbours only, and rely on *)
(* it: token.rs:33-108.                                                    *)
TokensAreInOrder ==
  /\ \A k \in DOMAIN tokens : tokens[k].start <= tokens[k].end /\ tokens[k].end <= line
  /\ \A k \in DOMAIN tokens : \A l \in DOMAIN tokens : k < l => tokens[k].end <= tokens[l].start
===============================================================================
