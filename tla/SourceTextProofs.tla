--------------------------- MODULE SourceTextProofs ---------------------------
(***************************************************************************)
(* Of any text that compiles: the tokens are in the order of their lines,  *)
(* they are the text, cut where Solidity cuts it, the directives in its    *)
(* comments are obeyed, and each line with code is counted once.           *)
(***************************************************************************)
EXTENDS SolidityText, DataInduction

(* What the order of the tokens rests on: the line read only goes up, and  *)
(* the token being read lies between those before it and that line.        *)
ReadTokens ==
  [kind : Kinds, start : Nat, end : Nat, content : Seq(Symbols)]
Lines(t) == t.start \in Nat /\ t.end \in Nat /\ t.start <= t.end /\ t.end <= line
TextIsRead ==
  text \in Seq(Symbols) /\ pos \in Nat \ {0} /\ pos <= Len(text) + 1 /\ line \in Nat
TokensAreRead == tokens \in Seq(ReadTokens)
TokenIsRead ==
  reading # Nothing =>
    /\ token \in ReadTokens
    /\ Lines(token)
    /\ \A k \in DOMAIN tokens : tokens[k].end <= token.start
OrderInv == TextIsRead /\ TokensAreRead /\ TokenIsRead /\ TokensAreInOrder

(* The symbols read next are symbols, wherever the text ends. *)
LEMMA UpcomingType ==
  ASSUME TextIsRead, NEW n \in 0..2, pos + n - 1 <= Len(text)
  PROVE  Upcoming(n) \in Seq(Symbols)
  BY DEF TextIsRead, Upcoming

(* Reading never goes back to an earlier line. *)
LEMMA BreaksType ==
  ASSUME NEW s \in Seq(Symbols)
  PROVE  Breaks(s) \in Nat
<1>1. DOMAIN s = 1..Len(s) /\ Len(s) \in Nat
  OBVIOUS
<1>2. IsFiniteSet(1..Len(s))
  BY <1>1, FS_Interval
<1>3. IsFiniteSet({i \in DOMAIN s : s[i] = "nl"})
  BY <1>1, <1>2, FS_Subset
<1> QED
  BY <1>3, FS_CardinalityType DEF Breaks

LEMMA AdvanceGoesOn ==
  ASSUME TextIsRead, NEW n \in 0..2, pos + n - 1 <= Len(text), Advance(n)
  PROVE  pos' \in Nat \ {0} /\ pos' <= Len(text) + 1 /\ line' \in Nat /\ line <= line'
<1>1. Breaks(Upcoming(n)) \in Nat
  BY UpcomingType, BreaksType
<1> QED
  BY <1>1 DEF Advance, TextIsRead

LEMMA LaterIsBetween ==
  ASSUME NEW a \in Nat, NEW b \in Nat, a <= b
  PROVE  Later(a, b) = b
  BY DEF Later

LEMMA KindType == ASSUME NEW i PROVE KindAt(i) \in Kinds
  BY DEF KindAt, Kinds, Strings, Comments

LEMMA TokensHaveLines ==
  ASSUME TokensAreRead
  PROVE  /\ Len(tokens) \in Nat /\ DOMAIN tokens = 1..Len(tokens)
         /\ \A k \in DOMAIN tokens : tokens[k].start \in Nat /\ tokens[k].end \in Nat
<1>1. Len(tokens) \in Nat /\ DOMAIN tokens = 1..Len(tokens)
  BY DEF TokensAreRead
<1>2. \A k \in DOMAIN tokens : tokens[k] \in ReadTokens
  BY <1>1 DEF TokensAreRead
<1> QED
  BY <1>1, <1>2 DEF ReadTokens

(* A token that goes on keeps to its lines, *)
LEMMA ReadKeepsOrder ==
  ASSUME OrderInv, reading # Nothing, NEW n \in 0..2, pos + n - 1 <= Len(text),
         NEW end \in {token.end, Later(token.end, line)}, Read(n, end)
  PROVE  OrderInv'
<1> USE DEF OrderInv
<1>1. /\ token \in ReadTokens
      /\ Lines(token)
  BY DEF TokenIsRead
<1>2. end \in Nat /\ token.start <= end /\ end <= line
  BY <1>1, LaterIsBetween DEF Lines, TextIsRead
<1>3. Upcoming(n) \in Seq(Symbols)
  BY UpcomingType
<1>4. pos' \in Nat \ {0} /\ pos' <= Len(text) + 1 /\ line' \in Nat /\ line <= line'
  BY AdvanceGoesOn DEF Read
<1>5. TextIsRead' /\ TokensAreRead'
  BY <1>4 DEF Read, TextIsRead, TokensAreRead
<1> DEFINE read == [token EXCEPT !.content = @ \o Upcoming(n), !.end = end]
<1>6. token' = read /\ tokens' = tokens /\ reading' = reading
  BY DEF Read
<1>7. token.content \o Upcoming(n) \in Seq(Symbols)
  BY <1>1, <1>3 DEF ReadTokens
<1> HIDE DEF read
<1>8. /\ token' \in ReadTokens
      /\ token'.start = token.start /\ token'.end = end
  BY <1>1, <1>2, <1>6, <1>7 DEF read, ReadTokens
<1>9. TokenIsRead'
  BY <1>1, <1>2, <1>4, <1>6, <1>8 DEF TokenIsRead, Lines, TextIsRead
<1>10. TokensAreInOrder'
  <2>1. \A k \in DOMAIN tokens : tokens[k].end \in Nat
    BY TokensHaveLines
  <2> QED
    BY <1>4, <1>6, <2>1 DEF TokensAreInOrder, TextIsRead
<1> QED
  BY <1>5, <1>9, <1>10

(* and one that ends is the last of the tokens so far. *)
LEMMA CloseKeepsOrder ==
  ASSUME OrderInv, reading # Nothing, NEW n \in 0..2, pos + n - 1 <= Len(text),
         NEW end \in {token.end, Later(token.end, line)}, Close(n, end)
  PROVE  OrderInv'
<1> USE DEF OrderInv
<1> DEFINE last == [token EXCEPT !.content = @ \o Upcoming(n), !.end = end]
           len == Len(tokens)
<1>1. /\ token \in ReadTokens
      /\ Lines(token)
      /\ \A k \in DOMAIN tokens : tokens[k].end <= token.start
  BY DEF TokenIsRead
<1>2. end \in Nat /\ token.start <= end /\ end <= line
  BY <1>1, LaterIsBetween DEF Lines, TextIsRead
<1>3. Upcoming(n) \in Seq(Symbols)
  BY UpcomingType
<1>4. pos' \in Nat \ {0} /\ pos' <= Len(text) + 1 /\ line' \in Nat /\ line <= line'
  BY AdvanceGoesOn DEF Close
<1>5. /\ last \in ReadTokens
      /\ last.start = token.start /\ last.end = end
  <2>1. token.content \o Upcoming(n) \in Seq(Symbols)
    BY <1>1, <1>3 DEF ReadTokens
  <2> QED
    BY <1>1, <1>2, <2>1 DEF ReadTokens
<1>6. tokens' = Append(tokens, last) /\ reading' = Nothing
  BY DEF Close
<1> HIDE DEF last
<1>7. TextIsRead' /\ TokensAreRead' /\ TokenIsRead'
  BY <1>4, <1>5, <1>6 DEF Close, TextIsRead, TokensAreRead, TokenIsRead
<1>8. /\ len \in Nat /\ DOMAIN tokens = 1..len /\ DOMAIN tokens' = 1..(len + 1)
      /\ tokens'[len + 1] = last /\ \A k \in 1..len : tokens'[k] = tokens[k]
      /\ \A k \in 1..len : tokens[k].start \in Nat /\ tokens[k].end \in Nat
  <2>1. tokens \in Seq(ReadTokens) /\ last \in ReadTokens
    BY <1>5 DEF TokensAreRead
  <2>2. /\ DOMAIN tokens' = 1..(len + 1)
        /\ tokens'[len + 1] = last /\ \A k \in 1..len : tokens'[k] = tokens[k]
    BY <1>6, <2>1
  <2> QED
    BY <2>2, TokensHaveLines
<1>9. \A k \in DOMAIN tokens' : tokens'[k].start <= tokens'[k].end /\ tokens'[k].end <= line'
  <2> SUFFICES ASSUME NEW k \in 1..(len + 1)
               PROVE  tokens'[k].start <= tokens'[k].end /\ tokens'[k].end <= line'
    BY <1>8
  <2>1. CASE k \in 1..len
    BY <2>1, <1>4, <1>8 DEF TokensAreInOrder, TextIsRead
  <2>2. CASE k = len + 1
    BY <2>2, <1>1, <1>2, <1>4, <1>5, <1>8 DEF TextIsRead, Lines
  <2> QED
    BY <2>1, <2>2, <1>8
<1>10. \A k \in DOMAIN tokens' : \A l \in DOMAIN tokens' : k < l => tokens'[k].end <= tokens'[l].start
  <2> SUFFICES ASSUME NEW k \in 1..(len + 1), NEW l \in 1..(len + 1), k < l
               PROVE  tokens'[k].end <= tokens'[l].start
    BY <1>8
  <2>1. k \in 1..len /\ (l \in 1..len \/ l = len + 1)
    <3>1. len \in Nat
      BY <1>8
    <3> QED
      BY <3>1
  <2>2. CASE l \in 1..len
    BY <2>1, <2>2, <1>8 DEF TokensAreInOrder
  <2>3. CASE l = len + 1
    <3>1. tokens'[k] = tokens[k] /\ tokens[k].end <= token.start
      BY <2>1, <1>1, <1>8
    <3>2. tokens'[l] = last
      BY <2>3, <1>8
    <3> QED
      BY <3>1, <3>2, <1>5
  <2> QED
    BY <2>1, <2>2, <2>3
<1> QED
  BY <1>7, <1>9, <1>10 DEF TokensAreInOrder

(* A new token begins on the line that is read. *)
LEMMA BeginKeepsOrder ==
  ASSUME OrderInv, BeginToken
  PROVE  OrderInv'
<1> USE DEF OrderInv
<1> DEFINE kind == KindAt(pos)
           n == IF kind \in Comments THEN 2 ELSE 1
<1>1. kind \in Kinds
  BY KindType
<1>2. n \in 0..2 /\ pos + n - 1 <= Len(text)
  <2>1. CASE kind \in Comments
    <3>1. Peek(pos + 1) \in {"*", "/"}
      BY <2>1 DEF KindAt, Comments
    <3> QED
      BY <2>1, <3>1 DEF Peek, TextIsRead
  <2>2. CASE kind \notin Comments
    BY <2>2 DEF BeginToken, TextIsRead
  <2> QED
    BY <2>1, <2>2
<1>3. /\ reading' = kind
      /\ token' = [kind |-> kind, start |-> line, end |-> line, content |-> Upcoming(n)]
      /\ Advance(n) /\ UNCHANGED <<text, tokens>>
  BY DEF BeginToken
<1> HIDE DEF kind, n
<1>4. Upcoming(n) \in Seq(Symbols)
  BY <1>2, UpcomingType
<1>5. pos' \in Nat \ {0} /\ pos' <= Len(text) + 1 /\ line' \in Nat /\ line <= line'
  BY <1>2, <1>3, AdvanceGoesOn
<1>6. TextIsRead' /\ TokensAreRead'
  BY <1>3, <1>5 DEF TextIsRead, TokensAreRead
<1>7. TokenIsRead'
  <2>1. token' \in ReadTokens /\ token'.start = line /\ token'.end = line
    BY <1>1, <1>3, <1>4 DEF TextIsRead, ReadTokens
  <2> QED
    BY <1>3, <1>5, <2>1 DEF TokenIsRead, Lines, TextIsRead, TokensAreInOrder
<1>8. TokensAreInOrder'
  <2>1. \A k \in DOMAIN tokens : tokens[k].end \in Nat
    BY TokensHaveLines
  <2> QED
    BY <1>3, <1>5, <2>1 DEF TokensAreInOrder, TextIsRead
<1> QED
  BY <1>6, <1>7, <1>8

(* No step breaks the order. *)
LEMMA NextKeepsOrder ==
  ASSUME OrderInv, [Next]_vars
  PROVE  OrderInv'
<1> USE DEF OrderInv
<1>0. pos \in Nat \ {0} /\ Len(text) \in Nat
  BY DEF TextIsRead
<1>1. CASE BeginToken
  BY <1>1, BeginKeepsOrder
<1>2. CASE ReadBlock
  <2>1. CASE text[pos] = "*" /\ Peek(pos + 1) = "/"
    <3>1. pos + 2 - 1 <= Len(text)
      BY <2>1, <1>0 DEF Peek
    <3>2. Close(2, Later(token.end, line)) /\ reading # Nothing
      BY <1>2, <2>1 DEF ReadBlock, Nothing
    <3> QED
      BY <3>1, <3>2, CloseKeepsOrder
  <2>2. CASE ~(text[pos] = "*" /\ Peek(pos + 1) = "/")
    <3>1. Read(1, token.end) /\ reading # Nothing
      BY <1>2, <2>2 DEF ReadBlock, Nothing
    <3>2. pos <= Len(text)
      BY <1>2 DEF ReadBlock
    <3>9. pos + 1 - 1 <= Len(text)
      BY <1>0, <3>2
    <3> QED
      BY <3>1, <3>9, ReadKeepsOrder
  <2> QED
    BY <2>1, <2>2
<1>3. CASE ReadLine
  <2>1. reading # Nothing /\ (Close(1, token.end) \/ Read(1, token.end))
    BY <1>3 DEF ReadLine, Nothing
  <2>2. pos <= Len(text)
    BY <1>3 DEF ReadLine
  <2>9. pos + 1 - 1 <= Len(text)
    BY <1>0, <2>2
  <2> QED
    BY <2>1, <2>9, CloseKeepsOrder, ReadKeepsOrder
<1>4. CASE ReadString
  <2>1. reading # Nothing
    BY <1>4 DEF ReadString, Nothing, Strings
  <2>2. pos <= Len(text)
    BY <1>4 DEF ReadString
  <2>9. pos + 1 - 1 <= Len(text)
    BY <1>0, <2>2
  <2>3. Escaped(pos) \in 0..2 /\ pos + Escaped(pos) - 1 <= Len(text)
    BY <1>0, <2>2 DEF Escaped
  <2>4. Close(1, Later(token.end, line)) \/ Read(Escaped(pos), token.end)
    BY <1>4 DEF ReadString
  <2> QED
    BY <2>1, <2>3, <2>4, <2>9, CloseKeepsOrder, ReadKeepsOrder
<1>5. CASE ReadCode
  <2>1. reading # Nothing /\ pos + 1 - 1 <= Len(text) /\ pos + 0 - 1 <= Len(text)
    BY <1>0, <1>5 DEF ReadCode, Nothing
  <2>2. Close(0, token.end) \/ Read(1, Later(token.end, line))
    BY <1>5 DEF ReadCode
  <2> QED
    BY <2>1, <2>2, CloseKeepsOrder, ReadKeepsOrder
<1>6. CASE TextEnds
  <2>1. reading # Nothing /\ Close(0, token.end)
    BY <1>6 DEF TextEnds
  <2>2. pos + 0 - 1 <= Len(text)
    BY <1>0 DEF TextIsRead
  <2> QED
    BY <2>1, <2>2, CloseKeepsOrder
<1>7. CASE GetStats
  BY <1>7 DEF GetStats, TextIsRead, TokensAreRead, TokenIsRead, TokensAreInOrder, Lines
<1>8. CASE UNCHANGED vars
  BY <1>8 DEF vars, TextIsRead, TokensAreRead, TokenIsRead, TokensAreInOrder, Lines
<1> QED
  BY <1>1, <1>2, <1>3, <1>4, <1>5, <1>6, <1>7, <1>8 DEF Next

(* For every text, the tokens are in the order of their lines: what cloc   *)
(* and ignore compare of neighbours says where they are.                   *)
THEOREM TokensStayInOrder == Spec => []TokensAreInOrder
<1>1. Init => OrderInv
  BY TextAssumption DEF Init, OrderInv, TextIsRead, TokensAreRead, TokenIsRead, TokensAreInOrder
<1>2. OrderInv /\ [Next]_vars => OrderInv'
  BY NextKeepsOrder
<1>3. OrderInv => TokensAreInOrder
  BY DEF OrderInv
<1> QED
  BY <1>1, <1>2, <1>3, PTL DEF Spec

-------------------------------------------------------------------------------
(* The scanner of Solidity, after any number of symbols.                   *)
States == {"code", "slash", "block", "star", "line", "double", "single", "double esc", "single esc"}

LEMMA ScanType == ASSUME NEW state \in States, NEW c PROVE Scan(state, c) \in States
  BY DEF Scan, States

LEMMA ScannedIs ==
  ASSUME NEW t \in Seq(Symbols)
  PROVE  /\ DOMAIN Scanned(t) = 0..Len(t)
         /\ Scanned(t)[0] = "code"
         /\ \A i \in 1..Len(t) : Scanned(t)[i] = Scan(Scanned(t)[i - 1], t[i])
         /\ \A i \in 0..Len(t) : Scanned(t)[i] \in States
<1> DEFINE top == Len(t)
           step == [x \in States \X (1..top) |-> Scan(x[1], t[x[2]])]
           Scans(f) == f = [i \in 0..top |-> IF i = 0 THEN "code" ELSE Scan(f[i - 1], t[i])]
           scan == CHOOSE f : Scans(f)
<1>1. top \in Nat
  OBVIOUS
<1>2. \A x \in States, i \in 1..top : step[<<x, i>>] = Scan(x, t[i])
  OBVIOUS
<1> HIDE DEF top, step
<1>3. PICK f : Follows(f, top, "code", step)
  BY <1>1, RecursionOnRange
<1>4. f[0] = "code" /\ \A i \in 1..top : f[i] = step[<<f[i - 1], i>>]
  BY <1>1, <1>3 DEF Follows
<1>5. \A i \in 0..top : f[i] \in States
  <2> DEFINE N == {i \in Nat : f[i] \in States}
  <2>1. 0 \in N
    BY <1>4 DEF States
  <2>2. ASSUME NEW i \in 0..top - 1, i \in N PROVE i + 1 \in N
    <3>1. i + 1 \in 1..top /\ (i + 1) - 1 = i
      BY <1>1
    <3>2. f[i + 1] = Scan(f[i], t[i + 1])
      BY <1>2, <1>4, <2>2, <3>1
    <3>3. f[i + 1] \in States
      BY <2>2, <3>2, ScanType
    <3> QED BY <3>3
  <2>3. 0..top \subseteq N
    <3> HIDE DEF N
    <3> QED BY <1>1, <2>1, <2>2, RangeInduction
  <2> QED BY <2>3
<1>6. Scans(f)
  <2>1. ASSUME NEW i \in 1..top PROVE f[i] = Scan(f[i - 1], t[i])
    <3>1. i - 1 \in 0..top
      BY <1>1
    <3> QED BY <1>2, <1>4, <1>5, <3>1
  <2>2. \A i \in 0..top : f[i] = IF i = 0 THEN "code" ELSE Scan(f[i - 1], t[i])
    BY <1>1, <1>4, <2>1
  <2>3. f = [i \in 0..top |-> f[i]]
    BY <1>3 DEF Follows
  <2> QED BY <2>2, <2>3
<1>7. Scans(scan)
  <2> HIDE DEF Scans
  <2> QED BY <1>6
<1>8. Scanned(t) = scan
  BY DEF Scanned, top
<1> HIDE DEF scan
<1>9. /\ DOMAIN scan = 0..top /\ scan[0] = "code"
      /\ \A i \in 1..top : scan[i] = Scan(scan[i - 1], t[i])
  BY <1>1, <1>7
<1>10. \A i \in 0..top : scan[i] \in States
  <2> DEFINE N == {i \in Nat : scan[i] \in States}
  <2>1. 0 \in N
    BY <1>9 DEF States
  <2>2. ASSUME NEW i \in 0..top - 1, i \in N PROVE i + 1 \in N
    <3>1. i + 1 \in 1..top /\ (i + 1) - 1 = i
      BY <1>1
    <3>2. scan[i + 1] \in States
      BY <1>9, <2>2, <3>1, ScanType
    <3> QED BY <3>2
  <2>3. 0..top \subseteq N
    <3> HIDE DEF N
    <3> QED BY <1>1, <2>1, <2>2, RangeInduction
  <2> QED BY <2>3
<1> QED BY <1>8, <1>9, <1>10 DEF top

(* What a symbol belongs to, by the states before and after it.            *)
LEMMA KindIs ==
  ASSUME NEW f, NEW i \in Nat
  PROVE  /\ f[i - 1] \in {"block", "star"} => Kind(f, i) = "block comment"
         /\ f[i - 1] = "line" => Kind(f, i) = "line comment"
         /\ f[i - 1] \in {"double", "double esc"} => Kind(f, i) = "double quotes"
         /\ f[i - 1] \in {"single", "single esc"} => Kind(f, i) = "single quotes"
         /\ f[i - 1] \in {"code", "slash"} /\ f[i] = "double" => Kind(f, i) = "double quotes"
         /\ f[i - 1] \in {"code", "slash"} /\ f[i] = "single" => Kind(f, i) = "single quotes"
         /\ f[i - 1] \in {"code", "slash"} /\ f[i] = "code" => Kind(f, i) = "code"
         /\ f[i - 1] \in {"code", "slash"} /\ f[i] = "block" => Kind(f, i) = "block comment"
         /\ f[i - 1] \in {"code", "slash"} /\ f[i] = "line" => Kind(f, i) = "line comment"
         /\ f[i - 1] \in {"code", "slash"} /\ f[i] = "slash" =>
              IF i + 1 \in DOMAIN f
              THEN /\ f[i + 1] \in {"block", "star"} => Kind(f, i) = "block comment"
                   /\ f[i + 1] = "line" => Kind(f, i) = "line comment"
                   /\ f[i + 1] \notin {"block", "star", "line"} => Kind(f, i) = "code"
              ELSE Kind(f, i) = "code"
  BY DEF Kind, Comments

-------------------------------------------------------------------------------
(* Lines go up by the newlines that are read.                              *)
LineIn(t, i) == 1 + BrokenBefore(t, i)

LEMMA LineGoesOn ==
  ASSUME NEW t \in Seq(Symbols), NEW i \in 1..Len(t)
  PROVE  /\ LineIn(t, i) \in Nat
         /\ LineIn(t, i + 1) = LineIn(t, i) + IF t[i] = "nl" THEN 1 ELSE 0
<1> DEFINE B(k) == {j \in 1..(k - 1) : t[j] = "nl"}
<1>1. IsFiniteSet(B(i)) /\ Cardinality(B(i)) \in Nat
  <2>1. IsFiniteSet(1..(i - 1)) /\ B(i) \in SUBSET (1..(i - 1))
    BY FS_Interval
  <2> QED BY <2>1, FS_Subset, FS_CardinalityType
<1>4. LineIn(t, i) = 1 + Cardinality(B(i)) /\ LineIn(t, i + 1) = 1 + Cardinality(B(i + 1))
  BY DEF LineIn, BrokenBefore
<1>2. CASE t[i] = "nl"
  <2>1. B(i + 1) = B(i) \cup {i} /\ i \notin B(i)
    BY <1>2
  <2>2. Cardinality(B(i + 1)) = Cardinality(B(i)) + 1
    <3> HIDE DEF B
    <3> QED BY <1>1, <2>1, FS_AddElement
  <2> QED BY <1>1, <1>2, <1>4, <2>2
<1>3. CASE t[i] # "nl"
  <2>1. B(i + 1) = B(i)
    BY <1>3
  <2>2. Cardinality(B(i + 1)) = Cardinality(B(i))
    BY <2>1
  <2> QED BY <1>1, <1>3, <1>4, <2>2
<1> QED BY <1>2, <1>3

LEMMA FirstLine == ASSUME NEW t PROVE LineIn(t, 1) = 1
<1>1. {j \in 1..(1 - 1) : t[j] = "nl"} = {}
  OBVIOUS
<1> QED BY <1>1, FS_EmptySet DEF LineIn, BrokenBefore

LEMMA BreaksAre ==
  ASSUME NEW s \in Seq(Symbols)
  PROVE  /\ Len(s) = 0 => Breaks(s) = 0
         /\ Len(s) = 1 => Breaks(s) = IF s[1] = "nl" THEN 1 ELSE 0
         /\ Len(s) = 2 => Breaks(s) = (IF s[1] = "nl" THEN 1 ELSE 0) + IF s[2] = "nl" THEN 1 ELSE 0
<1> DEFINE B == {i \in DOMAIN s : s[i] = "nl"}
<1>0. DOMAIN s = 1..Len(s)
  OBVIOUS
<1>1. /\ Cardinality({}) = 0 /\ Cardinality({1}) = 1 /\ Cardinality({2}) = 1
      /\ Cardinality({1, 2}) = 2
  <2>1. Cardinality({}) = 0 /\ \A x : Cardinality({x}) = 1 /\ IsFiniteSet({x})
    BY FS_EmptySet, FS_Singleton
  <2>2. PICK two : two = {1} \cup {2}
    OBVIOUS
  <2>3. IsFiniteSet({1}) /\ Cardinality({1}) = 1
    BY <2>1
  <2>4. 2 \notin {1}
    OBVIOUS
  <2>5. Cardinality(two) = 1 + 1
    BY <2>2, <2>3, <2>4, FS_AddElement, Zenon
  <2>6. two = {1, 2}
    BY <2>2
  <2>7. Cardinality(two) = 2
    BY <2>5
  <2>8. Cardinality({1, 2}) = 2
    BY <2>6, <2>7, Zenon
  <2> QED BY <2>1, <2>8
<1>2. ASSUME Len(s) = 0 PROVE Breaks(s) = 0
  <2>1. B = {}
    BY <1>0, <1>2
  <2> QED BY <1>1, <2>1 DEF Breaks
<1>3. ASSUME Len(s) = 1 PROVE Breaks(s) = IF s[1] = "nl" THEN 1 ELSE 0
  <2>1. B = IF s[1] = "nl" THEN {1} ELSE {}
    BY <1>0, <1>3
  <2> QED BY <1>1, <2>1 DEF Breaks
<1>4. ASSUME Len(s) = 2
      PROVE  Breaks(s) = (IF s[1] = "nl" THEN 1 ELSE 0) + IF s[2] = "nl" THEN 1 ELSE 0
  <2>1. B = (IF s[1] = "nl" THEN {1} ELSE {}) \cup IF s[2] = "nl" THEN {2} ELSE {}
    <3>1. DOMAIN s = {1, 2}
      BY <1>0, <1>4
    <3> QED BY <3>1
  <2>2. Breaks(s) = Cardinality(B)
    BY DEF Breaks
  <2> HIDE DEF B
  <2>3. CASE s[1] = "nl" /\ s[2] = "nl"
    <3>1. B = {1, 2}
      BY <2>1, <2>3
    <3>2. Breaks(s) = 2
      BY <1>1, <2>2, <3>1
    <3> QED BY <2>3, <3>2
  <2>4. CASE s[1] = "nl" /\ s[2] # "nl"
    <3>1. B = {1}
      BY <2>1, <2>4
    <3>2. Breaks(s) = 1
      BY <1>1, <2>2, <3>1
    <3> QED BY <2>4, <3>2
  <2>5. CASE s[1] # "nl" /\ s[2] = "nl"
    <3>1. B = {2}
      BY <2>1, <2>5
    <3>2. Breaks(s) = 1
      BY <1>1, <2>2, <3>1
    <3> QED BY <2>5, <3>2
  <2>6. CASE s[1] # "nl" /\ s[2] # "nl"
    <3>1. B = {}
      BY <2>1, <2>6
    <3>2. Breaks(s) = 0
      BY <1>1, <2>2, <3>1
    <3> QED BY <2>6, <3>2
  <2> QED BY <2>3, <2>4, <2>5, <2>6
<1> QED BY <1>2, <1>3, <1>4

LEMMA LinesAdvance ==
  ASSUME NEW t \in Seq(Symbols), NEW p \in Nat \ {0}, NEW m \in 0..2, p + m - 1 <= Len(t)
  PROVE  LineIn(t, p + m) = LineIn(t, p) + Breaks(SubSeq(t, p, p + m - 1))
<1> DEFINE s == SubSeq(t, p, p + m - 1)
<1>1. s \in Seq(Symbols) /\ Len(s) = m /\ \A i \in 1..m : s[i] = t[p + i - 1]
  OBVIOUS
<1>2. CASE m = 0
  <2>1. BrokenBefore(t, p) \in Nat
    <3>1. 1 \in Int /\ p - 1 \in Int
      OBVIOUS
    <3>2. IsFiniteSet(1..(p - 1))
      BY <3>1, FS_Interval
    <3>3. {j \in 1..(p - 1) : t[j] = "nl"} \in SUBSET (1..(p - 1))
      OBVIOUS
    <3> QED BY <3>2, <3>3, FS_Subset, FS_CardinalityType DEF BrokenBefore
  <2>2. Breaks(s) = 0
    BY <1>1, <1>2, BreaksAre
  <2>3. p + m = p
    BY <1>2
  <2> HIDE DEF s
  <2> QED BY <2>1, <2>2, <2>3 DEF LineIn, s
<1>3. CASE m = 1
  <2>1. p \in 1..Len(t) /\ s[1] = t[p] /\ p + m = p + 1
    BY <1>1, <1>3
  <2>2. Breaks(s) = IF t[p] = "nl" THEN 1 ELSE 0
    BY <1>1, <1>3, <2>1, BreaksAre
  <2> HIDE DEF s
  <2> QED BY <2>1, <2>2, LineGoesOn DEF s
<1>4. CASE m = 2
  <2>1. /\ p \in 1..Len(t) /\ p + 1 \in 1..Len(t) /\ p + m = (p + 1) + 1
        /\ s[1] = t[p] /\ s[2] = t[p + 1]
    BY <1>1, <1>4
  <2>2. Breaks(s) = (IF t[p] = "nl" THEN 1 ELSE 0) + IF t[p + 1] = "nl" THEN 1 ELSE 0
    BY <1>1, <1>4, <2>1, BreaksAre
  <2>3. LineIn(t, p) \in Nat /\ LineIn(t, p + 1) = LineIn(t, p) + IF t[p] = "nl" THEN 1 ELSE 0
    BY <2>1, LineGoesOn
  <2>4. LineIn(t, (p + 1) + 1) = LineIn(t, p + 1) + IF t[p + 1] = "nl" THEN 1 ELSE 0
    BY <2>1, LineGoesOn
  <2> HIDE DEF s
  <2> QED BY <2>1, <2>2, <2>3, <2>4 DEF s
<1> QED BY <1>2, <1>3, <1>4

-------------------------------------------------------------------------------
(* A token that is the text from symbol n + 1 to symbol q, cut where        *)
(* Solidity cuts it.                                                       *)
ReadFrom(t, tok, n, q) ==
  /\ n \in Nat /\ q \in Nat /\ n <= q /\ q <= Len(t)
  /\ tok.content = SubSeq(t, n + 1, q)
  /\ \A j \in (n + 1)..q : Kind(Scanned(t), j) = tok.kind
  /\ tok.kind \in Comments => \A j \in (n + 1)..(q - 1) : Scanned(t)[j] # "code"
Piece(t, tok, n, q) ==
  /\ ReadFrom(t, tok, n, q) /\ n < q
  /\ tok.start = LineIn(t, n + 1) /\ tok.end = LineIn(t, q)
  /\ tok.kind \in Comments => Scanned(t)[q] = "code" \/ q = Len(t)
Cut(t, ts, at) ==
  /\ at \in [1..(Len(ts) + 1) -> Nat] /\ at[1] = 0
  /\ \A k \in 1..Len(ts) : Piece(t, ts[k], at[k], at[k + 1])

(* Where Solidity's scanner is when the tokenizer is at symbol p: in code,  *)
(* not about to open a comment with the slash it has seen; or within.      *)
InCode(t, p) ==
  /\ Scanned(t)[p - 1] \in {"code", "slash"}
  /\ Scanned(t)[p - 1] = "slash" /\ p <= Len(t) => t[p] \notin {"*", "/"}
Within(t, tok, p, ln) ==
  /\ tok.kind = "code" => InCode(t, p) /\ tok.end = LineIn(t, p - 1)
  /\ tok.kind = "block comment" =>
       /\ Scanned(t)[p - 1] \in {"block", "star"}
       /\ Scanned(t)[p - 1] = "star" /\ p <= Len(t) => t[p] # "/"
  /\ tok.kind = "line comment" => Scanned(t)[p - 1] = "line" /\ tok.end = ln
  /\ tok.kind = "double quotes" => Scanned(t)[p - 1] = "double"
  /\ tok.kind = "single quotes" => Scanned(t)[p - 1] = "single"
IsAt(t, r, tok, p, ln, n) ==
  /\ ln = LineIn(t, p)
  /\ r = Nothing => n = p - 1 /\ (p <= Len(t) => InCode(t, p))
  /\ r # Nothing =>
       /\ tok.kind = r /\ tok.start = LineIn(t, n + 1)
       /\ ReadFrom(t, tok, n, p - 1) /\ n < p - 1 /\ Within(t, tok, p, ln)

CutInv ==
  \E at : Cut(text, tokens, at) /\ IsAt(text, reading, token, pos, line, at[Len(tokens) + 1])
DoneInv ==
  done =>
    /\ reading = Nothing /\ pos > Len(text)
    /\ code = CodeLines(tokens) /\ ignored = LinesToIgnore(tokens)
TextInv == OrderInv /\ text \in Texts /\ CutInv /\ DoneInv

LEMMA SequencesAreEqual ==
  ASSUME NEW a \in Seq(Symbols), NEW b \in Seq(Symbols), Len(a) = Len(b),
         \A i \in 1..Len(b) : a[i] = b[i]
  PROVE  a = b
<1>1. DOMAIN a = 1..Len(a) /\ DOMAIN b = 1..Len(b)
  OBVIOUS
<1>2. a = [i \in DOMAIN a |-> a[i]] /\ b = [i \in DOMAIN b |-> b[i]]
  OBVIOUS
<1> QED BY <1>1, <1>2

(* More symbols of the same kind go on with a token.                       *)
LEMMA ReadsOn ==
  ASSUME NEW t \in Seq(Symbols), NEW n \in Nat, NEW p \in Nat \ {0}, NEW m \in 0..2,
         p + m - 1 <= Len(t),
         NEW tok, NEW tok2, ReadFrom(t, tok, n, p - 1), tok2.kind = tok.kind,
         tok2.content = tok.content \o SubSeq(t, p, p + m - 1),
         \A j \in p..(p + m - 1) : Kind(Scanned(t), j) = tok.kind,
         tok.kind \in Comments =>
           /\ n < p - 1 => Scanned(t)[p - 1] # "code"
           /\ \A j \in p..(p + m - 2) : Scanned(t)[j] # "code"
  PROVE  ReadFrom(t, tok2, n, p + m - 1)
<1> DEFINE q == p + m - 1
<1>1. q \in Nat /\ n <= p - 1 /\ p - 1 <= q /\ q <= Len(t)
  BY DEF ReadFrom
<1>2. tok2.content = SubSeq(t, n + 1, q)
  <2>1. tok2.content = SubSeq(t, n + 1, p - 1) \o SubSeq(t, p, q)
    BY DEF ReadFrom
  <2>2. SubSeq(t, n + 1, p - 1) \o SubSeq(t, p, q) = SubSeq(t, n + 1, q)
    <3> DEFINE a == SubSeq(t, n + 1, p - 1)
               b == SubSeq(t, p, q)
               c == SubSeq(t, n + 1, q)
    <3>1. a \in Seq(Symbols) /\ Len(a) = (p - 1) - n /\ \A i \in 1..Len(a) : a[i] = t[n + i]
      BY <1>1
    <3>2. b \in Seq(Symbols) /\ Len(b) = m /\ \A i \in 1..Len(b) : b[i] = t[p + i - 1]
      BY <1>1
    <3>3. c \in Seq(Symbols) /\ Len(c) = q - n /\ \A i \in 1..Len(c) : c[i] = t[n + i]
      BY <1>1
    <3> HIDE DEF a, b, c
    <3>4. a \o b \in Seq(Symbols) /\ Len(a \o b) = Len(a) + Len(b)
      <4>1. a \in Seq(Symbols) /\ b \in Seq(Symbols)
        BY <3>1, <3>2
      <4> QED BY <4>1
    <3>5. Len(a \o b) = Len(c) /\ Len(a) \in Nat /\ Len(b) \in Nat /\ Len(c) \in Nat
      BY <1>1, <3>1, <3>2, <3>3, <3>4
    <3>6. ASSUME NEW i \in 1..Len(c) PROVE (a \o b)[i] = c[i]
      <4>1. CASE i \in 1..Len(a)
        <5>1. (a \o b)[i] = a[i]
          BY <3>1, <3>2, <4>1
        <5> QED BY <3>1, <3>3, <4>1, <5>1
      <4>2. CASE i \notin 1..Len(a)
        <5>1. i - Len(a) \in 1..Len(b)
          BY <3>4, <3>5, <4>2
        <5>2. (a \o b)[i] = b[i - Len(a)]
          BY <3>1, <3>2, <3>4, <3>5, <4>2
        <5>3. b[i - Len(a)] = t[p + (i - Len(a)) - 1] /\ p + (i - Len(a)) - 1 = n + i
          BY <1>1, <3>1, <3>2, <3>5, <5>1
        <5> QED BY <3>3, <5>2, <5>3
      <4> QED BY <4>1, <4>2
    <3>7. a \o b = c
      <4>1. a \o b \in Seq(Symbols) /\ c \in Seq(Symbols) /\ Len(a \o b) = Len(c)
        BY <3>3, <3>4, <3>5
      <4> QED BY <3>6, <4>1, SequencesAreEqual
    <3> QED BY <3>7 DEF a, b, c
  <2> QED BY <2>1, <2>2
<1>3. \A j \in (n + 1)..q : Kind(Scanned(t), j) = tok2.kind
  BY <1>1 DEF ReadFrom
<1>4. tok2.kind \in Comments => \A j \in (n + 1)..(q - 1) : Scanned(t)[j] # "code"
  BY <1>1 DEF ReadFrom
<1> QED BY <1>1, <1>2, <1>3, <1>4 DEF ReadFrom

(* A token that goes on, or ends, with symbols of its kind.                *)
LEMMA ReadKeepsCut ==
  ASSUME TextInv, reading # Nothing, NEW p, p = pos, NEW m \in 1..2, p + m - 1 <= Len(text),
         NEW end, Read(m, end),
         \A j \in p..(p + m - 1) : Kind(Scanned(text), j) = reading,
         reading \in Comments =>
           /\ Scanned(text)[p - 1] # "code"
           /\ \A j \in p..(p + m - 2) : Scanned(text)[j] # "code",
         NEW tok, tok = [token EXCEPT !.content = @ \o Upcoming(m), !.end = end],
         NEW ln, ln = line', Within(text, tok, p + m, ln)
  PROVE  CutInv'
<1>1. /\ text \in Seq(Symbols) /\ p \in Nat \ {0} /\ token \in ReadTokens
      /\ line \in Nat
  BY DEF TextInv, OrderInv, TextIsRead, TokenIsRead
<1>2. /\ token' = tok /\ pos' = p + m /\ line' = line + Breaks(Upcoming(m))
      /\ UNCHANGED <<text, reading, tokens>>
  BY DEF Read, Advance
<1>3. PICK at : Cut(text, tokens, at) /\ IsAt(text, reading, token, p, line, at[Len(tokens) + 1])
  BY DEF TextInv, CutInv
<1> DEFINE n == at[Len(tokens) + 1]
<1>4. tok.kind = token.kind /\ tok.start = token.start /\ tok.content = token.content \o SubSeq(text, p, p + m - 1)
  BY <1>1 DEF ReadTokens, Upcoming
<1>5. token.kind = reading /\ token.start = LineIn(text, n + 1) /\ ReadFrom(text, token, n, p - 1) /\ n < p - 1
  BY <1>3 DEF IsAt
<1>6. n \in Nat
  BY <1>5 DEF ReadFrom
<1> HIDE DEF n
<1>7. ReadFrom(text, tok, n, p + m - 1)
  <2>1. m \in 0..2
    OBVIOUS
  <2> QED BY <1>1, <1>4, <1>5, <1>6, <2>1, ReadsOn
<1>8. line' = LineIn(text, p + m)
  BY <1>1, <1>2, <1>3, LinesAdvance DEF IsAt, Upcoming
<1>9. IsAt(text, reading, tok, p + m, line', n)
  <2>1. (p + m) - 1 = p + m - 1 /\ n < p + m - 1
    BY <1>1, <1>5, <1>6
  <2> QED BY <1>4, <1>5, <1>7, <1>8, <2>1 DEF IsAt
<1>10. Cut(text', tokens', at) /\ IsAt(text', reading', token', pos', line', at[Len(tokens') + 1])
  BY <1>2, <1>3, <1>9 DEF n
<1> QED BY <1>10 DEF CutInv

LEMMA CloseKeepsCut ==
  ASSUME TextInv, reading # Nothing, NEW p, p = pos, NEW m \in 0..2, p + m - 1 <= Len(text),
         NEW end, Close(m, end), end = LineIn(text, p + m - 1),
         \A j \in p..(p + m - 1) : Kind(Scanned(text), j) = reading,
         reading \in Comments =>
           /\ Scanned(text)[p - 1] # "code"
           /\ \A j \in p..(p + m - 2) : Scanned(text)[j] # "code"
           /\ Scanned(text)[p + m - 1] = "code" \/ p + m - 1 = Len(text),
         p + m <= Len(text) => InCode(text, p + m)
  PROVE  CutInv'
<1> DEFINE last == [token EXCEPT !.content = @ \o Upcoming(m), !.end = end]
           len == Len(tokens)
           q == p + m - 1
<1>1. /\ text \in Seq(Symbols) /\ p \in Nat \ {0} /\ token \in ReadTokens
      /\ line \in Nat /\ tokens \in Seq(ReadTokens)
  BY DEF TextInv, OrderInv, TextIsRead, TokenIsRead, TokensAreRead
<1>2. /\ tokens' = Append(tokens, last) /\ pos' = p + m /\ line' = line + Breaks(Upcoming(m))
      /\ reading' = Nothing /\ text' = text
  BY DEF Close, Advance
<1>3. PICK at : Cut(text, tokens, at) /\ IsAt(text, reading, token, p, line, at[len + 1])
  BY DEF TextInv, CutInv
<1> DEFINE n == at[len + 1]
<1>4. /\ last.kind = token.kind /\ last.start = token.start /\ last.end = end
      /\ last.content = token.content \o SubSeq(text, p, p + m - 1)
  BY <1>1 DEF ReadTokens, Upcoming
<1>5. token.kind = reading /\ token.start = LineIn(text, n + 1) /\ ReadFrom(text, token, n, p - 1) /\ n < p - 1
  BY <1>3 DEF IsAt
<1>6. n \in Nat /\ q \in Nat
  BY <1>1, <1>5 DEF ReadFrom
<1> HIDE DEF n, last
<1>7. ReadFrom(text, last, n, q)
  BY <1>1, <1>4, <1>5, <1>6, ReadsOn
<1>8. Piece(text, last, n, q)
  <2>1. n < q
    BY <1>1, <1>5, <1>6
  <2> QED BY <1>4, <1>5, <1>7, <2>1 DEF Piece
<1>9. line' = LineIn(text, p + m)
  BY <1>1, <1>2, <1>3, LinesAdvance DEF IsAt, Upcoming
<1> DEFINE at2 == [k \in 1..(len + 2) |-> IF k = len + 2 THEN q ELSE at[k]]
<1>10. len \in Nat /\ Len(tokens') = len + 1 /\ tokens'[len + 1] = last /\ \A k \in 1..len : tokens'[k] = tokens[k]
  BY <1>1, <1>2
<1>11. /\ at2 \in [1..(Len(tokens') + 1) -> Nat] /\ at2[len + 2] = q
       /\ \A k \in 1..(len + 1) : at2[k] = at[k]
  BY <1>3, <1>6, <1>10 DEF Cut
<1> HIDE DEF at2, q, len
<1>12. \A k \in 1..Len(tokens') : Piece(text, tokens'[k], at2[k], at2[k + 1])
  <2> SUFFICES ASSUME NEW k \in 1..(len + 1) PROVE Piece(text, tokens'[k], at2[k], at2[k + 1])
    BY <1>10
  <2>1. CASE k = len + 1
    <3>1. at2[k] = n /\ at2[k + 1] = q /\ tokens'[k] = last
      BY <1>10, <1>11, <2>1 DEF n
    <3> QED BY <1>8, <3>1
  <2>2. CASE k # len + 1
    <3>1. k \in 1..len /\ k + 1 \in 1..(len + 1)
      BY <1>10, <2>2
    <3>2. at2[k] = at[k] /\ at2[k + 1] = at[k + 1] /\ tokens'[k] = tokens[k]
      BY <1>10, <1>11, <3>1
    <3>3. Piece(text, tokens[k], at[k], at[k + 1])
      BY <1>3, <3>1 DEF Cut, len
    <3> QED BY <3>2, <3>3
  <2> QED BY <2>1, <2>2
<1>13. Cut(text', tokens', at2)
  <2>1. at2[1] = 0
    BY <1>3, <1>10, <1>11 DEF Cut
  <2> QED BY <1>2, <1>11, <1>12, <2>1 DEF Cut
<1>14. IsAt(text', reading', token', pos', line', at2[Len(tokens') + 1])
  <2>1. at2[Len(tokens') + 1] = pos' - 1
    BY <1>1, <1>2, <1>10, <1>11 DEF q
  <2> QED BY <1>2, <1>9, <2>1 DEF IsAt
<1> QED BY <1>13, <1>14 DEF CutInv

-------------------------------------------------------------------------------
(* What a token begins with, and what code goes on with.                   *)
LEMMA CodeGoesOn ==
  ASSUME NEW t \in Seq(Symbols), NEW p \in 1..Len(t), InCode(t, p), t[p] \notin Quotes,
         t[p] = "/" /\ p + 1 <= Len(t) => t[p + 1] \notin {"*", "/"}
  PROVE  Kind(Scanned(t), p) = "code" /\ InCode(t, p + 1)
<1> DEFINE f == Scanned(t)
<1>1. /\ DOMAIN f = 0..Len(t) /\ f[p] = Scan(f[p - 1], t[p])
      /\ p + 1 <= Len(t) => f[p + 1] = Scan(f[p], t[p + 1])
  <2>1. /\ DOMAIN f = 0..Len(t)
        /\ \A i \in 1..Len(t) : f[i] = Scan(f[i - 1], t[i])
    BY ScannedIs
  <2>2. (p + 1) - 1 = p /\ (p + 1 <= Len(t) => p + 1 \in 1..Len(t))
    OBVIOUS
  <2> HIDE DEF f
  <2> QED BY <2>1, <2>2
<1>2. f[p - 1] \in {"code", "slash"} /\ (f[p - 1] = "slash" => t[p] \notin {"*", "/"})
  BY DEF InCode
<1>3. t[p] \notin {"dq", "sq"}
  BY DEF Quotes
<1> HIDE DEF f
<1>4. CASE t[p] = "/"
  <2>1. f[p - 1] = "code" /\ f[p] = "slash"
    BY <1>1, <1>2, <1>4 DEF Scan
  <2>2. p + 1 <= Len(t) => f[p + 1] \in {"double", "single", "code"}
    BY <1>1, <1>4, <2>1 DEF Scan
  <2>3. p \in Nat /\ (p + 1 \in DOMAIN f => p + 1 <= Len(t))
    BY <1>1
  <2>4. Kind(f, p) = "code"
    BY <2>1, <2>2, <2>3, KindIs
  <2>5. InCode(t, p + 1)
    <3>1. (p + 1) - 1 = p
      OBVIOUS
    <3> QED BY <1>4, <2>1, <3>1 DEF InCode, f
  <2> QED BY <2>4, <2>5 DEF f
<1>5. CASE t[p] # "/"
  <2>1. f[p] = "code"
    BY <1>1, <1>2, <1>3, <1>5 DEF Scan
  <2>2. Kind(f, p) = "code"
    <3>1. p \in Nat
      OBVIOUS
    <3> QED BY <1>2, <2>1, <3>1, KindIs
  <2>3. InCode(t, p + 1)
    <3>1. (p + 1) - 1 = p
      OBVIOUS
    <3> QED BY <2>1, <3>1 DEF InCode, f
  <2> QED BY <2>2, <2>3 DEF f
<1> QED BY <1>4, <1>5

LEMMA TokenBegins ==
  ASSUME text \in Seq(Symbols), NEW p \in 1..Len(text), InCode(text, p), NEW kind, kind = KindAt(p),
         NEW m, m = IF kind \in Comments THEN 2 ELSE 1,
         NEW tok, tok.kind = kind, tok.end = LineIn(text, p)
  PROVE  /\ p + m - 1 <= Len(text)
         /\ \A j \in p..(p + m - 1) : Kind(Scanned(text), j) = kind
         /\ kind \in Comments => \A j \in p..(p + m - 2) : Scanned(text)[j] # "code"
         /\ Within(text, tok, p + m, LineIn(text, p + m))
<1> DEFINE f == Scanned(text)
<1>1. /\ DOMAIN f = 0..Len(text) /\ f[p] = Scan(f[p - 1], text[p])
      /\ p + 1 <= Len(text) => f[p + 1] = Scan(f[p], text[p + 1])
  <2>1. /\ DOMAIN f = 0..Len(text)
        /\ \A i \in 1..Len(text) : f[i] = Scan(f[i - 1], text[i])
    BY ScannedIs
  <2>2. (p + 1) - 1 = p /\ (p + 1 <= Len(text) => p + 1 \in 1..Len(text))
    OBVIOUS
  <2> HIDE DEF f
  <2> QED BY <2>1, <2>2
<1>2. f[p - 1] \in {"code", "slash"} /\ (f[p - 1] = "slash" => text[p] \notin {"*", "/"})
  BY DEF InCode
<1>3. p \in Nat /\ (p + 1) - 1 = p /\ (p + 2) - 1 = p + 1 /\ p..(p + 1 - 1) = {p} /\ p..(p + 1 - 2) = {}
  OBVIOUS
<1>4. p..(p + 2 - 1) = {p, p + 1} /\ p..(p + 2 - 2) = {p}
  OBVIOUS
<1> HIDE DEF f
<1>5. CASE text[p] \in Quotes
  <2> DEFINE state == IF text[p] = "dq" THEN "double" ELSE "single"
  <2>1. kind = IF text[p] = "dq" THEN "double quotes" ELSE "single quotes"
    BY <1>5 DEF KindAt, Quotes
  <2>2. m = 1 /\ kind \notin Comments
    BY <2>1 DEF Comments
  <2>3. f[p] = state
    BY <1>1, <1>2, <1>5 DEF Scan, Quotes
  <2>4. Kind(f, p) = kind
    <3>1. state = "double" => Kind(f, p) = "double quotes"
      BY <1>2, <1>3, <2>3, KindIs
    <3>2. state = "single" => Kind(f, p) = "single quotes"
      BY <1>2, <1>3, <2>3, KindIs
    <3> QED BY <2>1, <3>1, <3>2
  <2>5. Within(text, tok, p + 1, LineIn(text, p + 1))
    BY <1>3, <2>1, <2>3 DEF Within, f
  <2> QED BY <1>3, <2>2, <2>4, <2>5 DEF f
<1>6. CASE text[p] = "/" /\ Peek(p + 1) \in {"*", "/"}
  <2>1. p + 1 <= Len(text) /\ text[p + 1] \in {"*", "/"}
    BY <1>6 DEF Peek
  <2>2. kind = IF text[p + 1] = "*" THEN "block comment" ELSE "line comment"
    BY <1>6, <2>1 DEF KindAt, Peek
  <2>3. m = 2 /\ kind \in Comments
    BY <2>2 DEF Comments
  <2>4. f[p - 1] = "code" /\ f[p] = "slash" /\ f[p + 1] = IF text[p + 1] = "*" THEN "block" ELSE "line"
    BY <1>1, <1>2, <1>6, <2>1 DEF Scan
  <2>5. Kind(f, p) = kind
    <3>1. p + 1 \in DOMAIN f
      BY <1>1, <2>1
    <3> QED BY <1>3, <2>1, <2>2, <2>4, <3>1, KindIs
  <2>6. Kind(f, p + 1) = kind
    <3>1. p + 1 \in Nat /\ f[(p + 1) - 1] = "slash"
      BY <1>3, <2>4
    <3> QED BY <2>1, <2>2, <2>4, <3>1, KindIs
  <2>7. LineIn(text, p + 2) = LineIn(text, p)
    <3>1. LineIn(text, p + 1) = LineIn(text, p)
      BY <1>6, LineGoesOn
    <3>2. p + 1 \in 1..Len(text) /\ (p + 1) + 1 = p + 2 /\ text[p + 1] # "nl"
      BY <2>1
    <3>3. LineIn(text, p + 2) = LineIn(text, p + 1)
      BY <3>2, LineGoesOn
    <3> QED BY <3>1, <3>3
  <2>8. Within(text, tok, p + 2, LineIn(text, p + 2))
    BY <1>3, <2>2, <2>4, <2>7 DEF Within, f
  <2> QED BY <1>4, <2>1, <2>3, <2>4, <2>5, <2>6, <2>8 DEF f
<1>7. CASE text[p] \notin Quotes /\ ~(text[p] = "/" /\ Peek(p + 1) \in {"*", "/"})
  <2>1. kind = "code" /\ m = 1 /\ kind \notin Comments
    BY <1>7 DEF KindAt, Quotes, Comments
  <2>2. Kind(f, p) = "code" /\ InCode(text, p + 1)
    BY <1>7, CodeGoesOn DEF Peek, f
  <2>3. Within(text, tok, p + 1, LineIn(text, p + 1))
    BY <1>3, <2>1, <2>2 DEF Within
  <2> QED BY <1>3, <2>1, <2>2, <2>3 DEF f
<1> QED BY <1>5, <1>6, <1>7

LEMMA BeginKeepsCut ==
  ASSUME TextInv, BeginToken, NEW p, p = pos
  PROVE  CutInv'
<1> DEFINE kind == KindAt(p)
           m == IF kind \in Comments THEN 2 ELSE 1
           none == [kind |-> kind, content |-> <<>>]
<1>1. /\ text \in Seq(Symbols) /\ p \in Nat \ {0} /\ p \in 1..Len(text)
  BY DEF TextInv, OrderInv, TextIsRead, BeginToken
<1>2. /\ reading = Nothing /\ reading' = kind /\ UNCHANGED <<text, tokens>>
      /\ token' = [kind |-> kind, start |-> line, end |-> line, content |-> Upcoming(m)]
      /\ pos' = p + m /\ line' = line + Breaks(Upcoming(m))
  BY DEF BeginToken, Advance
<1>3. PICK at : Cut(text, tokens, at) /\ IsAt(text, reading, token, p, line, at[Len(tokens) + 1])
  BY DEF TextInv, CutInv
<1>4. at[Len(tokens) + 1] = p - 1 /\ InCode(text, p) /\ line = LineIn(text, p)
  BY <1>1, <1>2, <1>3 DEF IsAt
<1>5. kind \in Kinds /\ kind # Nothing
  BY KindType DEF Kinds, Strings, Comments, Nothing
<1>6. m \in 0..2 /\ m >= 1
  OBVIOUS
<1> HIDE DEF kind
<1>7. token'.kind = kind /\ token'.start = line /\ token'.end = line /\ token'.content = Upcoming(m)
  BY <1>2
<1> DEFINE tok == token'
<1>8. /\ p + m - 1 <= Len(text)
      /\ \A j \in p..(p + m - 1) : Kind(Scanned(text), j) = kind
      /\ kind \in Comments => \A j \in p..(p + m - 2) : Scanned(text)[j] # "code"
      /\ Within(text, tok, p + m, LineIn(text, p + m))
  <2>1. tok.kind = kind /\ tok.end = LineIn(text, p)
    BY <1>4, <1>7
  <2> HIDE DEF tok
  <2> QED BY <1>1, <1>4, <2>1, TokenBegins DEF kind
<1>9. ReadFrom(text, none, p - 1, p - 1)
  <2>1. SubSeq(text, (p - 1) + 1, p - 1) = <<>>
    BY <1>1
  <2> QED BY <1>1, <2>1 DEF ReadFrom
<1>10. ReadFrom(text, tok, p - 1, p + m - 1)
  <2>1. tok.content = none.content \o SubSeq(text, p, p + m - 1) /\ tok.kind = none.kind /\ none.kind = kind
    <3>1. SubSeq(text, p, p + m - 1) \in Seq(Symbols)
      BY <1>1, <1>6, <1>8
    <3> QED BY <1>7, <3>1 DEF Upcoming
  <2>2. p - 1 \in Nat
    BY <1>1
  <2>3. /\ \A j \in p..(p + m - 1) : Kind(Scanned(text), j) = none.kind
        /\ none.kind \in Comments => \A j \in p..(p + m - 2) : Scanned(text)[j] # "code"
    BY <1>8, <2>1
  <2>4. ~(p - 1 < p - 1)
    BY <2>2
  <2> HIDE DEF tok, none, m
  <2> QED BY <1>1, <1>6, <1>8, <1>9, <2>1, <2>2, <2>3, <2>4, ReadsOn
<1>11. line' = LineIn(text, p + m)
  BY <1>1, <1>2, <1>4, <1>6, <1>8, LinesAdvance DEF Upcoming
<1>12. IsAt(text, kind, tok, p + m, line', p - 1)
  <2>1. (p + m) - 1 = p + m - 1 /\ p - 1 < p + m - 1 /\ (p - 1) + 1 = p
    BY <1>1
  <2> QED BY <1>4, <1>5, <1>7, <1>8, <1>10, <1>11, <2>1 DEF IsAt
<1>13. Cut(text', tokens', at) /\ IsAt(text', reading', token', pos', line', at[Len(tokens') + 1])
  BY <1>2, <1>3, <1>4, <1>12
<1> QED BY <1>13 DEF CutInv

-------------------------------------------------------------------------------
(* How a token goes on and ends.                                           *)
LEMMA ScanIs ==
  ASSUME NEW t \in Seq(Symbols), NEW p \in Nat \ {0}
  PROVE  /\ p <= Len(t) => Scanned(t)[p] = Scan(Scanned(t)[p - 1], t[p])
         /\ p + 1 <= Len(t) => Scanned(t)[p + 1] = Scan(Scanned(t)[p], t[p + 1])
<1>1. \A i \in 1..Len(t) : Scanned(t)[i] = Scan(Scanned(t)[i - 1], t[i])
  BY ScannedIs
<1>2. /\ p <= Len(t) => p \in 1..Len(t)
      /\ p + 1 <= Len(t) => p + 1 \in 1..Len(t) /\ (p + 1) - 1 = p
  OBVIOUS
<1> QED BY <1>1, <1>2

LEMMA TokenIsWithin ==
  ASSUME TextInv, reading # Nothing, NEW p, p = pos
  PROVE  /\ text \in Seq(Symbols) /\ Len(text) \in Nat
         /\ p \in Nat /\ p >= 2 /\ p >= 1 /\ p <= Len(text) + 1
         /\ token \in ReadTokens /\ token.kind = reading /\ reading \in Kinds
         /\ Within(text, token, p, line) /\ line = LineIn(text, p)
         /\ Later(token.end, line) = line
<1>1. /\ text \in Seq(Symbols) /\ p \in Nat \ {0} /\ p <= Len(text) + 1 /\ line \in Nat
      /\ token \in ReadTokens /\ token.end \in Nat /\ token.end <= line
  BY DEF TextInv, OrderInv, TextIsRead, TokenIsRead, Lines
<1>2. PICK at : IsAt(text, reading, token, p, line, at[Len(tokens) + 1])
  BY DEF TextInv, CutInv
<1>3. /\ token.kind = reading /\ Within(text, token, p, line) /\ line = LineIn(text, p)
      /\ at[Len(tokens) + 1] \in Nat /\ at[Len(tokens) + 1] < p - 1
  BY <1>2 DEF IsAt, ReadFrom
<1>4. Later(token.end, line) = line
  BY <1>1, LaterIsBetween
<1>5. reading \in Kinds
  BY <1>1, <1>3 DEF ReadTokens
<1> QED BY <1>1, <1>3, <1>4, <1>5

(* What a step of the tokenizer makes of its token.                        *)
LEMMA TokenGoesOn ==
  ASSUME token \in ReadTokens, NEW m, NEW end
  PROVE  LET tok == [token EXCEPT !.content = @ \o Upcoming(m), !.end = end]
         IN  tok.kind = token.kind /\ tok.end = end
BY DEF ReadTokens

LEMMA WithinIs ==
  ASSUME NEW t, NEW tok, NEW p, NEW ln
  PROVE  /\ tok.kind = "line comment" =>
              (Within(t, tok, p, ln) <=> Scanned(t)[p - 1] = "line" /\ tok.end = ln)
         /\ tok.kind = "double quotes" => (Within(t, tok, p, ln) <=> Scanned(t)[p - 1] = "double")
         /\ tok.kind = "single quotes" => (Within(t, tok, p, ln) <=> Scanned(t)[p - 1] = "single")
  BY DEF Within

LEMMA OneAhead ==
  ASSUME NEW p \in Nat
  PROVE  /\ p..(p + 1 - 1) = {p} /\ p..(p + 1 - 2) = {}
         /\ p + 1 - 1 = p /\ (p + 1) - 1 = p /\ p + 1 \in Nat
  OBVIOUS
LEMMA TwoAhead ==
  ASSUME NEW p \in Nat
  PROVE  /\ p..(p + 2 - 1) = {p, p + 1} /\ p..(p + 2 - 2) = {p}
         /\ p + 2 - 1 = p + 1 /\ (p + 2) - 1 = p + 1
  OBVIOUS
LEMMA NotLast ==
  ASSUME NEW p \in Nat, NEW n \in Nat, p <= n, p # n
  PROVE  p < n /\ p + 1 <= n
  OBVIOUS

LEMMA Inside ==
  ASSUME NEW p \in Nat, NEW n \in Nat, 1 <= p, p <= n
  PROVE  p \in Nat \ {0} /\ p \in 1..n
  OBVIOUS

LEMMA BlockKeepsCut ==
  ASSUME TextInv, ReadBlock, NEW p, p = pos
  PROVE  CutInv'
<1> DEFINE f == Scanned(text)
<1>1. reading = "block comment" /\ p <= Len(text) /\ reading # Nothing /\ reading \in Comments
  BY DEF ReadBlock, Nothing, Comments
<1>2. /\ text \in Seq(Symbols) /\ p \in Nat /\ p >= 2 /\ Len(text) \in Nat
      /\ token \in ReadTokens /\ token.kind = reading
      /\ line = LineIn(text, p) /\ Later(token.end, line) = line
  <2>1. /\ text \in Seq(Symbols) /\ p \in Nat /\ p >= 2
        /\ token \in ReadTokens /\ token.kind = reading
        /\ line = LineIn(text, p) /\ Later(token.end, line) = line
    BY <1>1, TokenIsWithin
  <2> QED BY <2>1
<1>9. p \in Nat \ {0} /\ p \in 1..Len(text)
  <2>1. 1 <= p
    BY <1>2
  <2> QED BY <1>1, <1>2, <2>1, Inside
<1>3. f[p - 1] \in {"block", "star"} /\ (f[p - 1] = "star" => text[p] # "/")
  BY <1>1, <1>2, TokenIsWithin DEF Within
<1>4. /\ f[p] = Scan(f[p - 1], text[p])
      /\ p + 1 <= Len(text) => f[p + 1] = Scan(f[p], text[p + 1])
  BY <1>1, <1>2, <1>9, ScanIs
<1>5. Kind(f, p) = "block comment"
  BY <1>2, <1>3, KindIs
<1> HIDE DEF f
<1>6. CASE text[p] = "*" /\ Peek(p + 1) = "/"
  <2>1. p + 1 <= Len(text) /\ text[p + 1] = "/" /\ Close(2, line)
    BY <1>2, <1>6 DEF Peek, ReadBlock
  <2>2. f[p] = "star" /\ f[p + 1] = "code"
    BY <1>3, <1>4, <1>6, <2>1 DEF Scan
  <2>3. Kind(f, p + 1) = "block comment"
    <3>1. p + 1 \in Nat /\ f[(p + 1) - 1] = "star"
      BY <1>2, <2>2
    <3> QED BY <3>1, KindIs
  <2>6. p..(p + 2 - 1) = {p, p + 1} /\ p..(p + 2 - 2) = {p} /\ p + 2 - 1 = p + 1 /\ (p + 2) - 1 = p + 1
    BY <1>2
  <2>4. line = LineIn(text, p + 2 - 1)
    <3>2. LineIn(text, p + 1) = LineIn(text, p)
      BY <1>2, <1>6, <1>9, LineGoesOn
    <3> QED BY <1>2, <2>6, <3>2
  <2>5. InCode(text, p + 2)
    BY <2>2, <2>6 DEF InCode, f
  <2>7. /\ \A j \in p..(p + 2 - 1) : Kind(Scanned(text), j) = reading
        /\ \A j \in p..(p + 2 - 2) : Scanned(text)[j] # "code"
        /\ Scanned(text)[p - 1] # "code" /\ Scanned(text)[p + 2 - 1] = "code"
    BY <1>1, <1>3, <1>5, <2>2, <2>3, <2>6 DEF f
  <2>8. p + 2 - 1 <= Len(text)
    BY <2>1, <2>6
  <2>9. 2 \in 0..2
    OBVIOUS
  <2> QED BY <1>1, <2>1, <2>4, <2>5, <2>7, <2>8, <2>9, CloseKeepsCut
<1>7. CASE ~(text[p] = "*" /\ Peek(p + 1) = "/")
  <2> DEFINE tok == [token EXCEPT !.content = @ \o Upcoming(1), !.end = token.end]
  <2>1. Read(1, token.end)
    BY <1>7 DEF ReadBlock
  <2>2. f[p] \in {"block", "star"} /\ (f[p] = "star" => text[p] = "*")
    BY <1>3, <1>4 DEF Scan
  <2>3. p + 1 <= Len(text) /\ f[p] = "star" => text[p + 1] # "/"
    BY <1>7, <2>2 DEF Peek
  <2>4. tok.kind = "block comment"
    BY <1>1, <1>2, TokenGoesOn
  <2>6. p..(p + 1 - 1) = {p} /\ p..(p + 1 - 2) = {} /\ p + 1 - 1 = p /\ (p + 1) - 1 = p
    BY <1>2
  <2>5. ASSUME NEW ln PROVE Within(text, tok, p + 1, ln)
    <3> HIDE DEF tok
    <3> QED BY <2>2, <2>3, <2>4, <2>6 DEF Within, f
  <2>7. /\ \A j \in p..(p + 1 - 1) : Kind(Scanned(text), j) = reading
        /\ \A j \in p..(p + 1 - 2) : Scanned(text)[j] # "code"
        /\ Scanned(text)[p - 1] # "code"
    BY <1>1, <1>3, <1>5, <2>6 DEF f
  <2>8. p + 1 - 1 <= Len(text)
    BY <1>1, <2>6
  <2>9. PICK ln : ln = line'
    OBVIOUS
  <2>10. 1 \in 1..2 /\ Within(text, tok, p + 1, ln)
    BY <2>5
  <2> QED BY <1>1, <2>1, <2>7, <2>8, <2>9, <2>10, ReadKeepsCut
<1> QED BY <1>6, <1>7

LEMMA LineKeepsCut ==
  ASSUME TextInv, ReadLine, NEW p, p = pos
  PROVE  CutInv'
<1> DEFINE f == Scanned(text)
<1>1. reading = "line comment" /\ p <= Len(text) /\ reading # Nothing /\ reading \in Comments
  BY DEF ReadLine, Nothing, Comments
<1>2. /\ text \in Seq(Symbols) /\ p \in Nat /\ 1 <= p /\ Len(text) \in Nat
      /\ token \in ReadTokens /\ token.kind = reading
      /\ line = LineIn(text, p) /\ f[p - 1] = "line" /\ token.end = line
  <2>1. /\ text \in Seq(Symbols) /\ p \in Nat /\ p >= 1 /\ Len(text) \in Nat
        /\ token \in ReadTokens /\ token.kind = reading
        /\ line = LineIn(text, p) /\ Within(text, token, p, line)
    BY <1>1, TokenIsWithin
  <2>2. 1 <= p
    BY <2>1
  <2>3. f[p - 1] = "line" /\ token.end = line
    BY <1>1, <2>1, WithinIs
  <2> HIDE DEF f
  <2> QED BY <2>1, <2>2, <2>3
<1>3. p \in Nat \ {0} /\ p \in 1..Len(text)
  BY <1>1, <1>2, Inside
<1>4. f[p] = Scan(f[p - 1], text[p])
  BY <1>1, <1>2, <1>3, ScanIs
<1>5. Kind(f, p) = "line comment"
  BY <1>2, KindIs
<1>6. p..(p + 1 - 1) = {p} /\ p..(p + 1 - 2) = {} /\ p + 1 - 1 = p /\ (p + 1) - 1 = p
  BY <1>2
<1> HIDE DEF f
<1>7. /\ \A j \in p..(p + 1 - 1) : Kind(Scanned(text), j) = reading
      /\ \A j \in p..(p + 1 - 2) : Scanned(text)[j] # "code"
      /\ Scanned(text)[p - 1] # "code"
  BY <1>1, <1>2, <1>5, <1>6 DEF f
<1>8. p + 1 - 1 <= Len(text)
  BY <1>1, <1>6
<1>9. CASE text[p] = "nl"
  <2>1. Close(1, token.end)
    BY <1>9 DEF ReadLine
  <2>2. f[p] = "code"
    BY <1>2, <1>4, <1>9 DEF Scan
  <2>3. token.end = LineIn(text, p + 1 - 1) /\ InCode(text, p + 1) /\ Scanned(text)[p + 1 - 1] = "code"
    BY <1>2, <1>6, <2>2 DEF InCode, f
  <2>4. 1 \in 0..2
    OBVIOUS
  <2> QED BY <1>1, <1>7, <1>8, <2>1, <2>3, <2>4, CloseKeepsCut
<1>10. CASE text[p] # "nl"
  <2> DEFINE tok == [token EXCEPT !.content = @ \o Upcoming(1), !.end = token.end]
  <2>1. Read(1, token.end)
    BY <1>10 DEF ReadLine
  <2>2. f[p] = "line"
    BY <1>2, <1>4, <1>10 DEF Scan
  <2>3. tok.kind = "line comment" /\ tok.end = line
    <3>1. token \in ReadTokens /\ token.kind = reading /\ token.end = line
      BY <1>2
    <3> QED BY <1>1, <3>1, TokenGoesOn
  <2>4. line' = LineIn(text, p + 1)
    <3>1. 1 \in 0..2
      OBVIOUS
    <3> QED BY <1>2, <1>3, <1>8, <2>1, <3>1, LinesAdvance DEF Read, Advance, Upcoming
  <2>5. LineIn(text, p + 1) = line
    BY <1>2, <1>3, <1>10, LineGoesOn
  <2>6. PICK ln : ln = line'
    OBVIOUS
  <2>7. Within(text, tok, p + 1, ln)
    <3>1. Scanned(text)[(p + 1) - 1] = "line" /\ tok.end = ln
      BY <1>6, <2>2, <2>3, <2>4, <2>5, <2>6 DEF f
    <3> HIDE DEF tok
    <3> QED BY <2>3, <3>1, WithinIs
  <2>8. 1 \in 1..2
    OBVIOUS
  <2> QED BY <2>8, <1>1, <1>7, <1>8, <2>1, <2>6, <2>7, ReadKeepsCut
<1> QED BY <1>9, <1>10

(* Text that compiles ends in code or in a line comment.                   *)
LEMMA TextEndsWell ==
  ASSUME TextInv
  PROVE  Scanned(text)[Len(text)] \in {"code", "slash", "line"}
  BY SolidityAssumption DEF TextInv, Compiles

LEMMA StringKeepsCut ==
  ASSUME TextInv, ReadString, NEW p, p = pos
  PROVE  CutInv'
<1> DEFINE f == Scanned(text)
           inside == IF reading = "double quotes" THEN "double" ELSE "single"
           escaped == IF reading = "double quotes" THEN "double esc" ELSE "single esc"
<1>1. reading \in Strings /\ p <= Len(text) /\ reading # Nothing /\ reading \notin Comments
  BY DEF ReadString, Nothing, Strings, Comments
<1>2. /\ text \in Seq(Symbols) /\ p \in Nat /\ 1 <= p /\ Len(text) \in Nat
      /\ token \in ReadTokens /\ token.kind = reading
      /\ line = LineIn(text, p) /\ f[p - 1] = inside /\ Later(token.end, line) = line
  <2>1. /\ text \in Seq(Symbols) /\ p \in Nat /\ p >= 1 /\ Len(text) \in Nat
        /\ token \in ReadTokens /\ token.kind = reading
        /\ line = LineIn(text, p) /\ Within(text, token, p, line) /\ Later(token.end, line) = line
    BY <1>1, TokenIsWithin
  <2>2. 1 <= p
    BY <2>1
  <2>3. f[p - 1] = inside
    BY <1>1, <2>1, WithinIs DEF Strings
  <2> HIDE DEF f, inside
  <2> QED BY <2>1, <2>2, <2>3
<1>3. p \in Nat \ {0} /\ p \in 1..Len(text)
  BY <1>1, <1>2, Inside
<1>4. /\ f[p] = Scan(f[p - 1], text[p])
      /\ p + 1 <= Len(text) => f[p + 1] = Scan(f[p], text[p + 1])
  BY <1>1, <1>2, <1>3, ScanIs
<1>5. Kind(f, p) = reading
  BY <1>1, <1>2, KindIs DEF Strings
<1>6. p..(p + 1 - 1) = {p} /\ p + 1 - 1 = p /\ (p + 1) - 1 = p
  BY <1>2, OneAhead
<1>7. reading = "double quotes" \/ reading = "single quotes"
  BY <1>1 DEF Strings
<1>11. inside = "double" \/ inside = "single"
  OBVIOUS
<1> HIDE DEF f
<1>8. p + 1 - 1 <= Len(text)
  BY <1>1, <1>6
<1>9. CASE text[p] = QuoteOf(reading)
  <2>1. Close(1, line)
    BY <1>2, <1>9 DEF ReadString
  <2>2. f[p] = "code"
    BY <1>1, <1>2, <1>4, <1>9 DEF Scan, QuoteOf, Strings
  <2>3. line = LineIn(text, p + 1 - 1) /\ InCode(text, p + 1)
    BY <1>2, <1>6, <2>2 DEF InCode, f
  <2>4. 1 \in 0..2 /\ \A j \in p..(p + 1 - 1) : Kind(Scanned(text), j) = reading
    BY <1>5, <1>6 DEF f
  <2> QED BY <1>1, <1>8, <2>1, <2>3, <2>4, CloseKeepsCut
<1>10. CASE text[p] # QuoteOf(reading)
  <2>1. Read(Escaped(p), token.end)
    BY <1>10 DEF ReadString
  <2>2. CASE text[p] # "esc"
    <3> DEFINE tok == [token EXCEPT !.content = @ \o Upcoming(1), !.end = token.end]
    <3>1. Read(1, token.end)
      BY <2>1, <2>2 DEF Escaped
    <3>2. f[p] = inside
      BY <1>1, <1>2, <1>4, <1>10, <2>2 DEF Scan, QuoteOf, Strings
    <3>3. tok.kind = reading
      <4>1. token \in ReadTokens /\ token.kind = reading
        BY <1>2
      <4> QED BY <4>1, TokenGoesOn
    <3>4. PICK ln : ln = line'
      OBVIOUS
    <3>5. Within(text, tok, p + 1, ln)
      <4>1. Scanned(text)[(p + 1) - 1] = inside
        BY <1>6, <3>2 DEF f
      <4> HIDE DEF tok
      <4> QED BY <1>7, <3>3, <4>1, WithinIs
    <3>7. 1 \in 1..2
      OBVIOUS
    <3>6. \A j \in p..(p + 1 - 1) : Kind(Scanned(text), j) = reading
      BY <1>5, <1>6 DEF f
    <3> QED BY <1>1, <1>8, <3>1, <3>4, <3>5, <3>6, <3>7, ReadKeepsCut
  <2>3. CASE text[p] = "esc"
    <3> DEFINE tok == [token EXCEPT !.content = @ \o Upcoming(2), !.end = token.end]
    <3>1. f[p] = escaped
      BY <1>1, <1>2, <1>4, <2>3 DEF Scan, Strings
    <3>2. p # Len(text)
      BY <3>1, TextEndsWell DEF f
    <3>3. p < Len(text) /\ p + 1 <= Len(text)
      <4>1. p \in Nat /\ Len(text) \in Nat
        BY <1>2
      <4> QED BY <1>1, <3>2, <4>1, NotLast
    <3>4. Read(2, token.end)
      BY <2>1, <2>3, <3>3 DEF Escaped
    <3>5. f[p + 1] = inside
      BY <1>1, <1>4, <3>1, <3>3 DEF Scan, Strings
    <3>6. Kind(f, p + 1) = reading
      <4>1. p + 1 \in Nat /\ f[(p + 1) - 1] = escaped
        BY <1>2, <1>6, <3>1, OneAhead
      <4> QED BY <1>1, <4>1, KindIs DEF Strings
    <3>7. tok.kind = reading
      <4>1. token \in ReadTokens /\ token.kind = reading
        BY <1>2
      <4> QED BY <4>1, TokenGoesOn
    <3>8. PICK ln : ln = line'
      OBVIOUS
    <3>9. p..(p + 2 - 1) = {p, p + 1} /\ p + 2 - 1 = p + 1 /\ (p + 2) - 1 = p + 1
      <4>1. p \in Nat
        BY <1>2
      <4> QED BY <4>1, TwoAhead
    <3>10. Within(text, tok, p + 2, ln)
      <4>1. Scanned(text)[(p + 2) - 1] = inside
        BY <3>5, <3>9 DEF f
      <4> HIDE DEF tok
      <4> QED BY <1>7, <3>7, <4>1, WithinIs
    <3>12. 2 \in 1..2
      OBVIOUS
    <3>11. p + 2 - 1 <= Len(text) /\ \A j \in p..(p + 2 - 1) : Kind(Scanned(text), j) = reading
      BY <1>5, <3>3, <3>6, <3>9 DEF f
    <3> QED BY <1>1, <3>4, <3>8, <3>10, <3>11, <3>12, ReadKeepsCut
  <2> QED BY <2>2, <2>3
<1> QED BY <1>9, <1>10

LEMMA CodeKeepsCut ==
  ASSUME TextInv, ReadCode, NEW p, p = pos
  PROVE  CutInv'
<1>1. reading = "code" /\ p <= Len(text) /\ reading # Nothing /\ reading \notin Comments
  BY DEF ReadCode, Nothing, Comments
<1>2. /\ text \in Seq(Symbols) /\ p \in Nat /\ p >= 2 /\ Len(text) \in Nat
      /\ token \in ReadTokens /\ token.kind = reading
      /\ line = LineIn(text, p) /\ Later(token.end, line) = line
      /\ InCode(text, p) /\ token.end = LineIn(text, p - 1)
  <2>1. /\ text \in Seq(Symbols) /\ p \in Nat /\ p >= 2
        /\ token \in ReadTokens /\ token.kind = reading
        /\ line = LineIn(text, p) /\ Within(text, token, p, line) /\ Later(token.end, line) = line
    BY <1>1, TokenIsWithin
  <2> QED BY <1>1, <2>1 DEF Within
<1>3. p \in Nat \ {0} /\ p \in 1..Len(text)
  <2>1. 1 <= p
    BY <1>2
  <2> QED BY <1>1, <1>2, <2>1, Inside
<1>4. CASE text[p] \in Stray
  <2>1. Close(0, token.end)
    BY <1>4 DEF ReadCode
  <2>2. p..(p + 0 - 1) = {} /\ p + 0 - 1 = p - 1 /\ p + 0 = p /\ 0 \in 0..2
    BY <1>2
  <2>3. p + 0 - 1 <= Len(text)
    BY <1>1, <1>2
  <2>4. /\ token.end = LineIn(text, p + 0 - 1) /\ InCode(text, p + 0)
        /\ \A j \in p..(p + 0 - 1) : Kind(Scanned(text), j) = reading
    BY <1>2, <2>2
  <2> QED BY <1>1, <2>1, <2>2, <2>3, <2>4, CloseKeepsCut
<1>5. CASE text[p] \notin Stray
  <2> DEFINE tok == [token EXCEPT !.content = @ \o Upcoming(1), !.end = line]
  <2>1. Read(1, line)
    BY <1>2, <1>5 DEF ReadCode
  <2>2. Kind(Scanned(text), p) = "code" /\ InCode(text, p + 1)
    <3>1. text[p] \notin Quotes /\ text[p] # "/"
      BY <1>5 DEF Stray
    <3> QED BY <1>2, <1>3, <3>1, CodeGoesOn
  <2>3. tok.kind = "code" /\ tok.end = line
    BY <1>1, <1>2, TokenGoesOn
  <2>4. p..(p + 1 - 1) = {p} /\ p + 1 - 1 = p /\ (p + 1) - 1 = p
    BY <1>2
  <2>5. PICK ln : ln = line'
    OBVIOUS
  <2>6. 1 \in 1..2 /\ Within(text, tok, p + 1, ln)
    <3> HIDE DEF tok
    <3> QED BY <1>2, <2>2, <2>3, <2>4 DEF Within
  <2>7. p + 1 - 1 <= Len(text) /\ \A j \in p..(p + 1 - 1) : Kind(Scanned(text), j) = reading
    BY <1>1, <2>2, <2>4
  <2> QED BY <1>1, <2>1, <2>5, <2>6, <2>7, ReadKeepsCut
<1> QED BY <1>4, <1>5

LEMMA EndKeepsCut ==
  ASSUME TextInv, TextEnds, NEW p, p = pos
  PROVE  CutInv'
<1> DEFINE f == Scanned(text)
<1>1. reading # Nothing /\ p > Len(text) /\ Close(0, token.end)
  BY DEF TextEnds
<1>2. /\ text \in Seq(Symbols) /\ p \in Nat /\ p >= 2 /\ p = Len(text) + 1 /\ Len(text) \in Nat
      /\ token.kind = reading /\ reading \in Kinds
      /\ line = LineIn(text, p) /\ Within(text, token, p, line)
  <2>1. /\ text \in Seq(Symbols) /\ p \in Nat /\ p >= 2 /\ p <= Len(text) + 1
        /\ token.kind = reading /\ reading \in Kinds
        /\ line = LineIn(text, p) /\ Within(text, token, p, line)
    BY <1>1, TokenIsWithin
  <2> QED BY <1>1, <2>1
<1>3. p - 1 = Len(text) /\ p - 1 \in Nat \ {0} /\ p - 1 \in 1..Len(text) /\ (p - 1) + 1 = p
  BY <1>2
<1>4. /\ f[p - 1] \in {"code", "slash", "line"}
      /\ f[p - 1] = Scan(f[(p - 1) - 1], text[p - 1]) /\ f[(p - 1) - 1] \in States
  <2>1. p - 1 <= Len(text) /\ (p - 1) - 1 \in 0..Len(text)
    BY <1>2, <1>3
  <2>2. f[p - 1] = Scan(f[(p - 1) - 1], text[p - 1])
    BY <1>2, <1>3, <2>1, ScanIs
  <2>3. f[(p - 1) - 1] \in States
    BY <1>2, <2>1, ScannedIs
  <2> QED BY <1>3, <2>2, <2>3, TextEndsWell
<1>5. reading \in {"code", "line comment"}
  BY <1>2, <1>4 DEF Within, Kinds, Strings, Comments
<1>6. p..(p + 0 - 1) = {} /\ p..(p + 0 - 2) = {} /\ p + 0 - 1 = p - 1 /\ p + 0 = p /\ 0 \in 0..2
  BY <1>2
<1>7. token.end = LineIn(text, p - 1)
  <2>1. CASE reading = "code"
    BY <1>2, <2>1 DEF Within
  <2>2. CASE reading = "line comment"
    <3>1. f[p - 1] = "line" /\ token.end = LineIn(text, p)
      BY <1>2, <2>2 DEF Within
    <3>2. text[p - 1] # "nl"
      <4> HIDE DEF f
      <4> QED BY <1>4, <3>1 DEF Scan, States
    <3>3. LineIn(text, (p - 1) + 1) = LineIn(text, p - 1)
      BY <1>2, <1>3, <3>2, LineGoesOn
    <3> QED BY <1>3, <3>1, <3>3
  <2> QED BY <1>5, <2>1, <2>2
<1>8. reading \in Comments => Scanned(text)[p - 1] # "code"
  BY <1>2, <1>5 DEF Within, Comments
<1>9. p + 0 - 1 <= Len(text) /\ ~(p + 0 <= Len(text)) /\ p + 0 - 1 = Len(text)
  BY <1>2
<1>10. /\ token.end = LineIn(text, p + 0 - 1)
       /\ \A j \in p..(p + 0 - 1) : Kind(Scanned(text), j) = reading
       /\ \A j \in p..(p + 0 - 2) : Scanned(text)[j] # "code"
  BY <1>6, <1>7
<1> QED BY <1>1, <1>6, <1>8, <1>9, <1>10, CloseKeepsCut

-------------------------------------------------------------------------------
LEMMA NothingIsRead == ASSUME Init PROVE TextInv
<1> DEFINE at == [k \in 1..1 |-> 0]
<1>1. /\ text \in Texts /\ text \in Seq(Symbols) /\ pos = 1 /\ line = 1 /\ reading = Nothing
      /\ tokens = <<>> /\ ~done
  BY TextAssumption DEF Init
<1>2. OrderInv
  BY TextAssumption DEF Init, OrderInv, TextIsRead, TokensAreRead, TokenIsRead, TokensAreInOrder
<1>3. Cut(text, tokens, at)
  BY <1>1 DEF Cut
<1>4. InCode(text, 1)
  <2>1. Scanned(text)[0] = "code"
    BY <1>1, ScannedIs
  <2> QED BY <2>1 DEF InCode
<1>5. at[Len(tokens) + 1] = pos - 1
  BY <1>1
<1>6. IsAt(text, reading, token, pos, line, at[Len(tokens) + 1])
  <2> HIDE DEF at
  <2> QED BY <1>1, <1>4, <1>5, FirstLine DEF IsAt
<1> QED BY <1>1, <1>2, <1>3, <1>6 DEF TextInv, CutInv, DoneInv

LEMMA NextKeepsText == ASSUME TextInv, [Next]_vars PROVE TextInv'
<1>1. OrderInv'
  BY NextKeepsOrder DEF TextInv
<1>2. text' \in Texts
  BY DEF TextInv, Next, vars, BeginToken, ReadBlock, ReadLine, ReadString, ReadCode, TextEnds,
         Read, Close, GetStats
<1>0. PICK p : p = pos
  OBVIOUS
<1>3. CutInv'
  <2>1. CASE BeginToken
    BY <1>0, <2>1, BeginKeepsCut
  <2>2. CASE ReadBlock
    BY <1>0, <2>2, BlockKeepsCut
  <2>3. CASE ReadLine
    BY <1>0, <2>3, LineKeepsCut
  <2>4. CASE ReadString
    BY <1>0, <2>4, StringKeepsCut
  <2>5. CASE ReadCode
    BY <1>0, <2>5, CodeKeepsCut
  <2>6. CASE TextEnds
    BY <1>0, <2>6, EndKeepsCut
  <2>7. CASE GetStats \/ UNCHANGED vars
    <3>1. UNCHANGED <<text, tokens, reading, token, pos, line>>
      BY <2>7 DEF GetStats, vars
    <3>2. PICK at : Cut(text, tokens, at) /\ IsAt(text, reading, token, pos, line, at[Len(tokens) + 1])
      BY DEF TextInv, CutInv
    <3>3. Cut(text', tokens', at) /\ IsAt(text', reading', token', pos', line', at[Len(tokens') + 1])
      BY <3>1, <3>2
    <3> QED BY <3>3 DEF CutInv
  <2> QED BY <2>1, <2>2, <2>3, <2>4, <2>5, <2>6, <2>7 DEF Next
<1>4. DoneInv'
  <2>1. DoneInv /\ pos \in Nat /\ Len(text) \in Nat
    BY DEF TextInv, OrderInv, TextIsRead
  <2>2. CASE GetStats
    BY <2>2 DEF GetStats, DoneInv
  <2>3. CASE UNCHANGED vars
    BY <2>1, <2>3 DEF vars, DoneInv
  <2>4. CASE BeginToken
    BY <2>1, <2>4 DEF BeginToken, DoneInv, results
  <2>5. CASE ReadBlock \/ ReadLine \/ ReadString \/ ReadCode \/ TextEnds
    <3>1. reading # Nothing
      BY <2>5 DEF ReadBlock, ReadLine, ReadString, ReadCode, TextEnds, Nothing, Strings
    <3>2. done' = done
      BY <2>5 DEF ReadBlock, ReadLine, ReadString, ReadCode, TextEnds, Read, Close, results
    <3> QED BY <2>1, <3>1, <3>2 DEF DoneInv
  <2> QED BY <2>2, <2>3, <2>4, <2>5 DEF Next
<1> QED BY <1>1, <1>2, <1>3, <1>4 DEF TextInv

(* At every moment the tokens are the text that is read, cut where Solidity *)
(* cuts it, and Solidity is in what the tokenizer takes itself to be in.   *)
THEOREM TextInvariant == Spec => []TextInv
<1>1. Init => TextInv
  BY NothingIsRead
<1>2. TextInv /\ [Next]_vars => TextInv'
  BY NextKeepsText
<1> QED BY <1>1, <1>2, PTL DEF Spec

(* What precedes a token is what the tokens before it took.                *)
LEMMA BeforeIs ==
  ASSUME text \in Seq(Symbols), tokens \in Seq(ReadTokens), NEW at, Cut(text, tokens, at)
  PROVE  \A k \in 1..(Len(tokens) + 1) : Before(k) = at[k]
<1> DEFINE top == Len(tokens)
           Counts(f) == f = [n \in 0..top |-> IF n = 0 THEN 0 ELSE f[n - 1] + Len(tokens[n].content)]
           g == [n \in 0..top |-> at[n + 1]]
           first == CHOOSE f : Counts(f)
<1>1. top \in Nat /\ at \in [1..(top + 1) -> Nat] /\ at[1] = 0
  BY DEF Cut
<1>2. ASSUME NEW k \in 1..top PROVE at[k + 1] = at[k] + Len(tokens[k].content)
  <2>1. ReadFrom(text, tokens[k], at[k], at[k + 1])
    BY <1>2 DEF Cut, Piece
  <2>2. /\ at[k] \in Nat /\ at[k + 1] \in Nat /\ at[k] <= at[k + 1] /\ at[k + 1] <= Len(text)
        /\ tokens[k].content = SubSeq(text, at[k] + 1, at[k + 1])
    BY <2>1 DEF ReadFrom
  <2>3. Len(SubSeq(text, at[k] + 1, at[k + 1])) = at[k + 1] - at[k]
    BY <2>2
  <2> QED BY <2>2, <2>3
<1>3. Counts(g)
  <2>1. ASSUME NEW n \in 0..top
        PROVE  g[n] = IF n = 0 THEN 0 ELSE g[n - 1] + Len(tokens[n].content)
    <3>1. CASE n = 0
      BY <1>1, <3>1
    <3>2. CASE n # 0
      <4>1. n \in 1..top /\ n - 1 \in 0..top /\ (n - 1) + 1 = n
        BY <1>1, <3>2
      <4>2. g[n - 1] = at[n] /\ g[n] = at[n + 1]
        BY <4>1
      <4>3. at[n + 1] = at[n] + Len(tokens[n].content)
        BY <1>2, <4>1
      <4> HIDE DEF g
      <4> QED BY <3>2, <4>2, <4>3
    <3> QED BY <3>1, <3>2
  <2>2. g = [n \in 0..top |-> g[n]]
    OBVIOUS
  <2> HIDE DEF g, top
  <2> QED BY <2>1, <2>2
<1>4. Counts(first)
  <2> HIDE DEF Counts, g
  <2> QED BY <1>3
<1>5. /\ first[0] = 0 /\ \A n \in 1..top : first[n] = first[n - 1] + Len(tokens[n].content)
  <2> HIDE DEF first
  <2> QED BY <1>1, <1>4
<1> HIDE DEF first
<1>6. \A n \in 0..top : first[n] = at[n + 1]
  <2> DEFINE N == {n \in Nat : first[n] = at[n + 1]}
  <2>1. 0 \in N
    BY <1>1, <1>5
  <2>2. ASSUME NEW n \in 0..top - 1, n \in N PROVE n + 1 \in N
    <3>1. n + 1 \in 1..top /\ (n + 1) - 1 = n /\ n + 1 \in Nat
      BY <1>1
    <3>2. first[n + 1] = first[n] + Len(tokens[n + 1].content)
      BY <1>5, <3>1
    <3>3. at[(n + 1) + 1] = at[n + 1] + Len(tokens[n + 1].content)
      BY <1>2, <3>1
    <3> QED BY <2>2, <3>1, <3>2, <3>3
  <2>3. 0..top \subseteq N
    <3> HIDE DEF N
    <3> QED BY <1>1, <2>1, <2>2, RangeInduction
  <2> QED BY <2>3
<1>7. ASSUME NEW k \in 1..(top + 1) PROVE Before(k) = at[k]
  <2>1. Before(k) = first[k - 1]
    BY DEF Before, first
  <2>2. k - 1 \in 0..top /\ (k - 1) + 1 = k
    BY <1>1
  <2> QED BY <1>6, <2>1, <2>2
<1> QED BY <1>7

LEMMA TextIsCut ==
  ASSUME TextInv, done
  PROVE  \E at : /\ Cut(text, tokens, at) /\ at[Len(tokens) + 1] = Len(text)
                  /\ \A k \in 1..(Len(tokens) + 1) : Before(k) = at[k]
<1>1. /\ text \in Seq(Symbols) /\ tokens \in Seq(ReadTokens)
      /\ pos \in Nat /\ pos > Len(text) /\ pos <= Len(text) + 1 /\ reading = Nothing
  BY DEF TextInv, DoneInv, OrderInv, TextIsRead, TokensAreRead
<1>2. PICK at : Cut(text, tokens, at) /\ IsAt(text, reading, token, pos, line, at[Len(tokens) + 1])
  BY DEF TextInv, CutInv
<1>3. at[Len(tokens) + 1] = pos - 1 /\ pos - 1 = Len(text)
  BY <1>1, <1>2 DEF IsAt
<1> QED BY <1>1, <1>2, <1>3, BeforeIs

(* For every text that compiles, the tokens are the text, cut where        *)
(* Solidity begins and ends comments and strings, each on its lines.       *)
THEOREM TextIsTokenized == Spec => []TokensAreTheText
<1>1. ASSUME TextInv PROVE TokensAreTheText
  <2> SUFFICES ASSUME done
               PROVE  LET f == Scanned(text) IN
                      /\ Before(Len(tokens) + 1) = Len(text)
                      /\ \A k \in DOMAIN tokens : LET t == tokens[k]  n == Before(k) IN
                           /\ t.start = LineOf(n + 1) /\ t.end = LineOf(n + Len(t.content))
                           /\ \A i \in DOMAIN t.content :
                                t.content[i] = text[n + i] /\ Kind(f, n + i) = t.kind
    BY DEF TokensAreTheText
  <2>1. PICK at : /\ Cut(text, tokens, at) /\ at[Len(tokens) + 1] = Len(text)
                  /\ \A k \in 1..(Len(tokens) + 1) : Before(k) = at[k]
    BY <1>1, TextIsCut
  <2>2. /\ text \in Seq(Symbols) /\ Len(tokens) \in Nat /\ DOMAIN tokens = 1..Len(tokens)
    BY <1>1 DEF TextInv, OrderInv, TextIsRead, TokensAreRead
  <2>3. Before(Len(tokens) + 1) = Len(text)
    BY <2>1, <2>2
  <2>4. ASSUME NEW k \in DOMAIN tokens, NEW t, t = tokens[k], NEW n, n = Before(k)
        PROVE  /\ t.start = LineOf(n + 1) /\ t.end = LineOf(n + Len(t.content))
               /\ \A i \in DOMAIN t.content :
                    t.content[i] = text[n + i] /\ Kind(Scanned(text), n + i) = t.kind
    <3>1. n = at[k] /\ Piece(text, t, n, at[k + 1])
      BY <2>1, <2>2, <2>4 DEF Cut
    <3>2. PICK q : q = at[k + 1]
      OBVIOUS
    <3>3. /\ n \in Nat /\ q \in Nat /\ n <= q /\ q <= Len(text)
          /\ t.content = SubSeq(text, n + 1, q)
          /\ \A j \in (n + 1)..q : Kind(Scanned(text), j) = t.kind
          /\ t.start = LineIn(text, n + 1) /\ t.end = LineIn(text, q)
      BY <3>1, <3>2 DEF Piece, ReadFrom
    <3>4. /\ Len(t.content) = q - n /\ DOMAIN t.content = 1..(q - n)
          /\ \A i \in 1..(q - n) : t.content[i] = text[n + i]
      BY <2>2, <3>3
    <3>5. n + Len(t.content) = q
      BY <3>3, <3>4
    <3>6. ASSUME NEW i \in DOMAIN t.content
          PROVE  t.content[i] = text[n + i] /\ Kind(Scanned(text), n + i) = t.kind
      <4>1. i \in 1..(q - n) /\ n + i \in (n + 1)..q
        BY <3>3, <3>4
      <4> QED BY <3>3, <3>4, <4>1
    <3> QED BY <3>3, <3>5, <3>6 DEF LineOf, LineIn
  <2> QED BY <2>3, <2>4
<1> QED BY <1>1, TextInvariant, PTL

-------------------------------------------------------------------------------
(* The comment a directive is in, as the text and as the token of it.      *)
Words == {"ignore", "next"}
StopOf(t, i) == Min({j \in i..Len(t) : Scanned(t)[j] = "code" \/ j = Len(t)})
NamesFrom(t, i, q) ==
  \E j \in i..q : t[j] = "names" /\ \A k \in (i + 1)..(j - 1) : t[k] \in Blanks

LEMMA StopIs ==
  ASSUME NEW t \in Seq(Symbols), NEW tok, tok.kind \in Comments, NEW n, NEW q, Piece(t, tok, n, q),
         NEW i \in (n + 1)..q
  PROVE  StopOf(t, i) = q
<1> DEFINE S == {j \in i..Len(t) : Scanned(t)[j] = "code" \/ j = Len(t)}
<1>1. /\ n \in Nat /\ q \in Nat /\ q <= Len(t) /\ Len(t) \in Nat
      /\ \A j \in (n + 1)..(q - 1) : Scanned(t)[j] # "code"
      /\ Scanned(t)[q] = "code" \/ q = Len(t)
  BY DEF Piece, ReadFrom
<1>2. q \in S
  BY <1>1
<1>3. ASSUME NEW j \in S PROVE q <= j
  <2>1. j \in i..Len(t) /\ (Scanned(t)[j] = "code" \/ j = Len(t))
    OBVIOUS
  <2>2. j >= q \/ j \in (n + 1)..(q - 1)
    BY <1>1, <2>1
  <2>3. j = Len(t) => j >= q
    BY <1>1
  <2>4. j \in Nat
    BY <1>1, <2>1
  <2> HIDE DEF S
  <2> QED BY <1>1, <2>1, <2>2, <2>3, <2>4
<1>4. S \subseteq Int
  BY <1>1
<1>5. Min(S) \in S /\ \A j \in S : Min(S) <= j
  <2> HIDE DEF S
  <2> QED BY <1>2, <1>3 DEF Min
<1>6. Min(S) = q
  <2> HIDE DEF S
  <2>1. Min(S) \in Int /\ Min(S) <= q /\ q <= Min(S)
    BY <1>2, <1>3, <1>4, <1>5
  <2> QED BY <1>1, <2>1
<1> QED BY <1>6 DEF StopOf

LEMMA CommentIs ==
  ASSUME NEW t \in Seq(Symbols), NEW tok, NEW n, NEW q, Piece(t, tok, n, q), tok.kind \in Comments
  PROVE  /\ n \in Nat /\ q \in Nat /\ n <= q /\ q <= Len(t) /\ Len(t) \in Nat
         /\ tok.end = LineIn(t, q)
         /\ Len(tok.content) = q - n /\ DOMAIN tok.content = 1..(q - n)
         /\ \A i \in 1..(q - n) :
              /\ tok.content[i] = t[n + i] /\ n + i \in (n + 1)..q /\ n + i \in 1..Len(t)
              /\ Kind(Scanned(t), n + i) \in Comments /\ StopOf(t, n + i) = q
<1>1. /\ n \in Nat /\ q \in Nat /\ n <= q /\ q <= Len(t) /\ Len(t) \in Nat
      /\ tok.end = LineIn(t, q) /\ tok.content = SubSeq(t, n + 1, q)
      /\ \A j \in (n + 1)..q : Kind(Scanned(t), j) = tok.kind
  BY DEF Piece, ReadFrom
<1>2. /\ Len(tok.content) = q - n /\ DOMAIN tok.content = 1..(q - n)
      /\ \A i \in 1..(q - n) : tok.content[i] = t[n + i]
  BY <1>1
<1>3. ASSUME NEW i \in 1..(q - n)
      PROVE  /\ n + i \in (n + 1)..q /\ n + i \in 1..Len(t)
             /\ Kind(Scanned(t), n + i) \in Comments /\ StopOf(t, n + i) = q
  <2>1. n + i \in (n + 1)..q /\ n + i \in 1..Len(t)
    BY <1>1
  <2>2. StopOf(t, n + i) = q
    BY <2>1, StopIs
  <2> QED BY <1>1, <2>1, <2>2
<1> QED BY <1>1, <1>2, <1>3

LEMMA NamesAre ==
  ASSUME NEW t \in Seq(Symbols), NEW tok, NEW n, NEW q, Piece(t, tok, n, q), tok.kind \in Comments,
         NEW i \in DOMAIN tok.content, tok.content[i] \in Words
  PROVE  i \in Named(tok.content) <=> NamesFrom(t, n + i, q)
<1> DEFINE s == tok.content
           len == q - n
<1>1. /\ n \in Nat /\ q \in Nat /\ n <= q /\ Len(s) = len /\ i \in 1..len /\ len \in Nat
      /\ \A j \in 1..len : s[j] = t[n + j]
  <2>1. /\ n \in Nat /\ q \in Nat /\ n <= q /\ Len(s) = len /\ DOMAIN s = 1..len
        /\ \A j \in 1..len : s[j] = t[n + j]
    BY CommentIs
  <2>2. i \in 1..len
    BY <2>1
  <2> QED BY <2>1, <2>2
<1>2. n + len = q
  BY <1>1
<1> HIDE DEF s, len
<1>3. ASSUME i \in Named(s) PROVE NamesFrom(t, n + i, q)
  <2>1. PICK j \in (i + 1)..len : s[j] = "names" /\ \A k \in (i + 1)..(j - 1) : s[k] \in Blanks
    BY <1>1, <1>3 DEF Named
  <2>2. n + j \in (n + i)..q /\ j \in 1..len
    BY <1>1, <1>2
  <2>3. ASSUME NEW k \in ((n + i) + 1)..((n + j) - 1) PROVE t[k] \in Blanks
    <3>1. k - n \in (i + 1)..(j - 1) /\ k - n \in 1..len /\ n + (k - n) = k
      BY <1>1, <2>2
    <3> QED BY <1>1, <2>1, <3>1
  <2>4. t[n + j] = "names"
    BY <1>1, <2>1, <2>2
  <2> QED BY <2>2, <2>3, <2>4 DEF NamesFrom
<1>4. ASSUME NamesFrom(t, n + i, q) PROVE i \in Named(s)
  <2>1. PICK j \in (n + i)..q : t[j] = "names" /\ \A k \in ((n + i) + 1)..(j - 1) : t[k] \in Blanks
    BY <1>4 DEF NamesFrom
  <2>2. t[n + i] \in Words
    BY <1>1 DEF s
  <2>3. j # n + i
    BY <2>1, <2>2 DEF Words
  <2>4. j - n \in (i + 1)..len /\ j - n \in 1..len /\ n + (j - n) = j
    <3>1. /\ n \in Int /\ i \in Int /\ len \in Int /\ q \in Int /\ j \in Int /\ 1 <= i
          /\ n + i <= j /\ j <= q
      BY <1>1
    <3>2. j - n >= i + 1 /\ j - n <= len /\ j - n \in Int /\ n + (j - n) = j
      BY <1>2, <2>3, <3>1
    <3> QED BY <3>1, <3>2
  <2>5. s[j - n] = "names"
    BY <1>1, <2>1, <2>4
  <2>6. ASSUME NEW k \in (i + 1)..((j - n) - 1) PROVE s[k] \in Blanks
    <3>1. k \in 1..len /\ n + k \in ((n + i) + 1)..(j - 1)
      BY <1>1, <2>4
    <3> QED BY <1>1, <2>1, <3>1
  <2>7. i \in DOMAIN s /\ s[i] \in Words
    BY DEF s
  <2> QED BY <1>1, <2>4, <2>5, <2>6, <2>7 DEF Named, Words
<1> QED BY <1>3, <1>4 DEF s

(* Every symbol is in a token.                                             *)
LEMMA SymbolHasToken ==
  ASSUME NEW t \in Seq(Symbols), NEW ts \in Seq(ReadTokens), NEW at, Cut(t, ts, at),
         at[Len(ts) + 1] = Len(t), NEW i \in 1..Len(t)
  PROVE  \E k \in 1..Len(ts) : i \in (at[k] + 1)..at[k + 1]
<1> DEFINE top == Len(ts)
           N == {k \in Nat : k <= top =>
                    (i <= at[k + 1] => \E l \in 1..top : i \in (at[l] + 1)..at[l + 1])}
<1>1. top \in Nat /\ at \in [1..(top + 1) -> Nat] /\ at[1] = 0
  BY DEF Cut
<1>2. 0 \in N
  BY <1>1
<1>3. ASSUME NEW k \in 0..top - 1, k \in N PROVE k + 1 \in N
  <2>1. k \in Nat /\ k <= top /\ k + 1 \in 1..top /\ k + 1 \in Nat /\ k + 1 \in 1..(top + 1)
    BY <1>1
  <2>2. k + 2 \in 1..(top + 1) /\ (k + 1) + 1 = k + 2
    BY <1>1
  <2>3. at[k + 1] \in Nat /\ at[k + 2] \in Nat
    BY <1>1, <2>1, <2>2
  <2>4. ASSUME i <= at[(k + 1) + 1] PROVE \E l \in 1..top : i \in (at[l] + 1)..at[l + 1]
    <3>1. CASE i <= at[k + 1]
      BY <1>3, <2>1, <3>1
    <3>2. CASE ~(i <= at[k + 1])
      <4>1. i \in (at[k + 1] + 1)..at[(k + 1) + 1]
        BY <2>2, <2>3, <2>4, <3>2
      <4> QED BY <2>1, <4>1
    <3> QED BY <3>1, <3>2
  <2> QED BY <2>1, <2>4
<1>4. 0..top \subseteq N
  <2> HIDE DEF N, top
  <2> QED BY <1>1, <1>2, <1>3, RangeInduction
<1>5. top \in N
  <2> HIDE DEF N, top
  <2>1. top \in 0..top
    BY <1>1
  <2> QED BY <1>4, <2>1
<1>6. i <= at[top + 1]
  OBVIOUS
<1>7. top <= top
  BY <1>1
<1> QED BY <1>5, <1>6, <1>7

(* A directive of a comment, and the line it is for.                       *)
LineFor(t, i) == LineIn(t, StopOf(t, i)) + IF t[i] = "next" THEN 1 ELSE 0

(* What a comment has ignored is what one of its directives says.          *)
LEMMA IgnoredIsWritten ==
  ASSUME NEW t \in Seq(Symbols), NEW tok, NEW n, NEW q, Piece(t, tok, n, q), tok.kind \in Comments,
         NEW ig \in IgnoredBy(tok)
  PROVE  \E i \in DOMAIN tok.content :
            /\ tok.content[i] \in Words
            /\ ig = [when |-> IF NamesFrom(t, n + i, StopOf(t, n + i)) THEN "named" ELSE "always",
                     which |-> LineFor(t, n + i)]
<1> DEFINE s == tok.content
           goal(i) == /\ s[i] \in Words
                      /\ ig = [when |-> IF NamesFrom(t, n + i, StopOf(t, n + i)) THEN "named" ELSE "always",
                               which |-> LineFor(t, n + i)]
<1>1. ASSUME NEW i \in DOMAIN s, s[i] \in Words
      PROVE  /\ StopOf(t, n + i) = q
             /\ i \in Named(s) <=> NamesFrom(t, n + i, q)
             /\ LineFor(t, n + i) = LineIgnored(tok, s[i])
  <2>1. StopOf(t, n + i) = q /\ tok.end = LineIn(t, q) /\ s[i] = t[n + i] /\ tok.end \in Nat
    <3>1. /\ n \in Nat /\ q \in Nat /\ q <= Len(t)
          /\ StopOf(t, n + i) = q /\ tok.end = LineIn(t, q) /\ s[i] = t[n + i]
          /\ n + i \in (n + 1)..q
      BY <1>1, CommentIs
    <3>2. q \in 1..Len(t)
      BY <3>1
    <3> QED BY <3>1, <3>2, LineGoesOn
  <2> QED BY <1>1, <2>1, NamesAre DEF LineFor, LineIgnored
<1>2. \A i \in Named(s) : i \in DOMAIN s /\ s[i] \in Words
  BY DEF Named, Words
<1>3. CASE Named(s) # {}
  <2>1. PICK i \in Named(s) : ig = [when |-> "named", which |-> LineIgnored(tok, s[i])]
    <3>1. ig \in {[when |-> "named", which |-> LineIgnored(tok, s[i])] : i \in Named(s)}
      <4>1. {[when |-> "named", which |-> LineIgnored(tok, s[i])] : i \in Named(s)} # {}
        BY <1>3
      <4> QED BY <4>1 DEF IgnoredBy
    <3> QED BY <3>1
  <2>2. i \in DOMAIN s /\ s[i] \in Words
    BY <1>2
  <2> HIDE DEF s
  <2>3. goal(i)
    BY <1>1, <2>1, <2>2
  <2> QED BY <2>2, <2>3 DEF s
<1>4. CASE Named(s) = {}
  <2> DEFINE word == IF Has(s, "next") THEN "next" ELSE "ignore"
  <2>1. Has(s, word) /\ ig = [when |-> "always", which |-> LineIgnored(tok, word)]
    <3>1. {[when |-> "named", which |-> LineIgnored(tok, s[i])] : i \in Named(s)} = {}
      BY <1>4
    <3> QED BY <3>1 DEF IgnoredBy
  <2>2. PICK i \in DOMAIN s : s[i] = word
    BY <2>1 DEF Has
  <2>3. s[i] \in Words
    BY <2>2 DEF Words
  <2> HIDE DEF s, word
  <2>4. goal(i)
    BY <1>1, <1>4, <2>1, <2>2, <2>3
  <2> QED BY <2>4 DEF s
<1> QED BY <1>3, <1>4

(* A directive that is written is obeyed, unless it gives way.             *)
LEMMA WrittenIsIgnored ==
  ASSUME NEW t \in Seq(Symbols), NEW tok, NEW n, NEW q, Piece(t, tok, n, q), tok.kind \in Comments,
         NEW i \in DOMAIN tok.content, tok.content[i] \in Words
  PROVE  \/ \E ig \in IgnoredBy(tok) :
               /\ ig.which = LineFor(t, n + i)
               /\ NamesFrom(t, n + i, StopOf(t, n + i)) <=> ig.when = "named"
         \/ /\ ~NamesFrom(t, n + i, StopOf(t, n + i))
            /\ \E j \in DOMAIN tok.content :
                 /\ j # i /\ tok.content[j] \in Words
                 /\ NamesFrom(t, n + j, StopOf(t, n + j)) \/ tok.content[j] = "next"
<1> DEFINE s == tok.content
<1>1. ASSUME NEW j \in DOMAIN s, s[j] \in Words
      PROVE  /\ StopOf(t, n + j) = q
             /\ j \in Named(s) <=> NamesFrom(t, n + j, StopOf(t, n + j))
             /\ LineFor(t, n + j) = LineIgnored(tok, s[j])
  <2>1. StopOf(t, n + j) = q /\ tok.end = LineIn(t, q) /\ s[j] = t[n + j] /\ tok.end \in Nat
    <3>1. /\ n \in Nat /\ q \in Nat /\ q <= Len(t)
          /\ StopOf(t, n + j) = q /\ tok.end = LineIn(t, q) /\ s[j] = t[n + j]
          /\ n + j \in (n + 1)..q
      BY <1>1, CommentIs
    <3>2. q \in 1..Len(t)
      BY <3>1
    <3> QED BY <3>1, <3>2, LineGoesOn
  <2> QED BY <1>1, <2>1, NamesAre DEF LineFor, LineIgnored
<1>2. \A j \in Named(s) : j \in DOMAIN s /\ s[j] \in Words
  BY DEF Named, Words
<1> DEFINE named == {[when |-> "named", which |-> LineIgnored(tok, s[j])] : j \in Named(s)}
<1>3. CASE i \in Named(s)
  <2>1. [when |-> "named", which |-> LineIgnored(tok, s[i])] \in named
    BY <1>3
  <2>2. named # {}
    BY <2>1
  <2>3. [when |-> "named", which |-> LineIgnored(tok, s[i])] \in IgnoredBy(tok)
    BY <2>1, <2>2 DEF IgnoredBy
  <2>4. NamesFrom(t, n + i, StopOf(t, n + i)) /\ LineFor(t, n + i) = LineIgnored(tok, s[i])
    BY <1>1, <1>3
  <2> HIDE DEF s
  <2> QED BY <2>3, <2>4
<1>4. CASE i \notin Named(s) /\ Named(s) # {}
  <2>1. PICK j \in Named(s) : TRUE
    BY <1>4
  <2>2. j # i /\ j \in DOMAIN s /\ s[j] \in Words /\ NamesFrom(t, n + j, StopOf(t, n + j))
    BY <1>1, <1>2, <1>4, <2>1
  <2> QED BY <1>1, <1>4, <2>2
<1>5. CASE Named(s) = {} /\ s[i] = "ignore" /\ Has(s, "next")
  <2>1. PICK j \in DOMAIN s : s[j] = "next"
    BY <1>5 DEF Has
  <2>2. j # i /\ s[j] \in Words /\ ~NamesFrom(t, n + i, StopOf(t, n + i))
    BY <1>1, <1>5, <2>1 DEF Words
  <2> QED BY <2>1, <2>2
<1>6. CASE Named(s) = {} /\ ~(s[i] = "ignore" /\ Has(s, "next"))
  <2> DEFINE word == IF Has(s, "next") THEN "next" ELSE "ignore"
  <2>1. s[i] = word /\ (Has(s, "next") \/ Has(s, "ignore"))
    BY <1>6 DEF Has, Words
  <2>2. named = {}
    BY <1>6
  <2>3. [when |-> "always", which |-> LineIgnored(tok, word)] \in IgnoredBy(tok)
    BY <2>1, <2>2 DEF IgnoredBy
  <2>4. ~NamesFrom(t, n + i, StopOf(t, n + i)) /\ LineFor(t, n + i) = LineIgnored(tok, s[i])
    BY <1>1, <1>6
  <2> HIDE DEF s, word
  <2> QED BY <2>1, <2>3, <2>4
<1> QED BY <1>3, <1>4, <1>5, <1>6

(* For every text that compiles, the lines that are ignored are those the  *)
(* directives in its comments name.                                        *)
THEOREM DirectivesAreObeyed == Spec => []DirectivesReachTheirLines
<1>1. ASSUME TextInv, done PROVE DirectivesReachTheirLines
  <2> DEFINE directives == {i \in DOMAIN text : text[i] \in Words /\ Kind(Scanned(text), i) \in Comments}
             names(i) == NamesFrom(text, i, StopOf(text, i))
             others(i) == {j \in directives \ {i} : StopOf(text, j) = StopOf(text, i)}
  <2>1. PICK at : Cut(text, tokens, at) /\ at[Len(tokens) + 1] = Len(text)
    BY <1>1, TextIsCut
  <2>2. /\ text \in Seq(Symbols) /\ Len(tokens) \in Nat /\ DOMAIN tokens = 1..Len(tokens)
        /\ tokens \in Seq(ReadTokens) /\ ignored = LinesToIgnore(tokens) /\ DOMAIN text = 1..Len(text)
    BY <1>1 DEF TextInv, DoneInv, OrderInv, TextIsRead, TokensAreRead
  <2>3. ASSUME NEW k \in DOMAIN tokens PROVE Piece(text, tokens[k], at[k], at[k + 1])
    BY <2>1, <2>2, <2>3 DEF Cut
  <2>4. ASSUME NEW k \in DOMAIN tokens, tokens[k].kind \in Comments,
               NEW i \in DOMAIN tokens[k].content, tokens[k].content[i] \in Words
        PROVE  /\ at[k] + i \in directives /\ StopOf(text, at[k] + i) = at[k + 1]
               /\ text[at[k] + i] = tokens[k].content[i] /\ at[k] \in Nat /\ i \in Nat
    <3>1. PICK n, q : n = at[k] /\ q = at[k + 1]
      OBVIOUS
    <3>2. Piece(text, tokens[k], n, q)
      BY <2>3, <2>4, <3>1
    <3>3. /\ n \in Nat /\ i \in 1..(q - n) /\ tokens[k].content[i] = text[n + i] /\ n + i \in 1..Len(text)
          /\ Kind(Scanned(text), n + i) \in Comments /\ StopOf(text, n + i) = q
      BY <2>2, <2>4, <3>2, CommentIs
    <3>4. i \in Nat
      BY <3>3
    <3> QED BY <2>2, <2>4, <3>1, <3>3, <3>4
  <2>5. ASSUME NEW ig \in ignored
        PROVE  \E i \in directives :
                  ig = [when |-> IF names(i) THEN "named" ELSE "always", which |-> LineFor(text, i)]
    <3>1. PICK k \in DOMAIN tokens : tokens[k].kind \in Comments /\ ig \in IgnoredBy(tokens[k])
      BY <2>2, <2>5 DEF LinesToIgnore, IsCode
    <3>2. PICK n : n = at[k] /\ Piece(text, tokens[k], n, at[k + 1])
      BY <2>3, <3>1
    <3>3. PICK i \in DOMAIN tokens[k].content :
             /\ tokens[k].content[i] \in Words
             /\ ig = [when |-> IF NamesFrom(text, n + i, StopOf(text, n + i)) THEN "named" ELSE "always",
                      which |-> LineFor(text, n + i)]
      BY <2>2, <3>1, <3>2, IgnoredIsWritten
    <3>4. n + i \in directives
      BY <2>4, <3>1, <3>2, <3>3
    <3> HIDE DEF directives
    <3> QED BY <3>3, <3>4
  <2>6. ASSUME NEW i \in directives
        PROVE  \/ \E ig \in ignored : ig.which = LineFor(text, i) /\ (names(i) <=> ig.when = "named")
               \/ ~names(i) /\ \E j \in others(i) : names(j) \/ text[j] = "next"
    <3>1. i \in 1..Len(text) /\ text[i] \in Words /\ Kind(Scanned(text), i) \in Comments
      BY <2>2
    <3>2. PICK k \in 1..Len(tokens) : i \in (at[k] + 1)..at[k + 1]
      BY <2>1, <2>2, <3>1, SymbolHasToken
    <3>3. PICK n, q : n = at[k] /\ q = at[k + 1]
      OBVIOUS
    <3>4. k \in DOMAIN tokens /\ Piece(text, tokens[k], n, q)
      BY <2>2, <2>3, <3>2, <3>3
    <3>5. tokens[k].kind \in Comments
      BY <3>1, <3>2, <3>3, <3>4 DEF Piece, ReadFrom
    <3>6. PICK l : l = i - n
      OBVIOUS
    <3>7. l \in DOMAIN tokens[k].content /\ n + l = i /\ tokens[k].content[l] = text[i] /\ n \in Nat /\ l \in Nat
      <4>1. /\ n \in Nat /\ q \in Nat /\ DOMAIN tokens[k].content = 1..(q - n)
            /\ \A j \in 1..(q - n) : tokens[k].content[j] = text[n + j]
        BY <2>2, <3>4, <3>5, CommentIs
      <4>2. l \in 1..(q - n) /\ n + l = i /\ l \in Nat
        BY <3>2, <3>3, <3>6, <4>1
      <4> QED BY <4>1, <4>2
    <3>8. \/ \E ig \in IgnoredBy(tokens[k]) :
               /\ ig.which = LineFor(text, n + l)
               /\ NamesFrom(text, n + l, StopOf(text, n + l)) <=> ig.when = "named"
          \/ /\ ~NamesFrom(text, n + l, StopOf(text, n + l))
             /\ \E j \in DOMAIN tokens[k].content :
                  /\ j # l /\ tokens[k].content[j] \in Words
                  /\ NamesFrom(text, n + j, StopOf(text, n + j)) \/ tokens[k].content[j] = "next"
      <4>1. l \in DOMAIN tokens[k].content /\ tokens[k].content[l] \in Words
        BY <3>1, <3>7
      <4> QED BY <2>2, <3>4, <3>5, <4>1, WrittenIsIgnored
    <3>9. CASE \E ig \in IgnoredBy(tokens[k]) :
               /\ ig.which = LineFor(text, n + l)
               /\ NamesFrom(text, n + l, StopOf(text, n + l)) <=> ig.when = "named"
      <4>1. PICK ig \in IgnoredBy(tokens[k]) :
               /\ ig.which = LineFor(text, n + l)
               /\ NamesFrom(text, n + l, StopOf(text, n + l)) <=> ig.when = "named"
        BY <3>9
      <4>2. ig \in ignored
        BY <2>2, <3>4, <3>5 DEF LinesToIgnore, IsCode
      <4> QED BY <3>7, <4>1, <4>2
    <3>10. CASE /\ ~NamesFrom(text, n + l, StopOf(text, n + l))
                /\ \E j \in DOMAIN tokens[k].content :
                     /\ j # l /\ tokens[k].content[j] \in Words
                     /\ NamesFrom(text, n + j, StopOf(text, n + j)) \/ tokens[k].content[j] = "next"
      <4>1. PICK j \in DOMAIN tokens[k].content :
               /\ j # l /\ tokens[k].content[j] \in Words
               /\ NamesFrom(text, n + j, StopOf(text, n + j)) \/ tokens[k].content[j] = "next"
        BY <3>10
      <4>2. /\ n + j \in directives /\ StopOf(text, n + j) = q /\ text[n + j] = tokens[k].content[j]
            /\ j \in Nat
        BY <2>4, <3>3, <3>4, <3>5, <4>1
      <4>3. StopOf(text, n + l) = q
        <5>1. tokens[k].content[l] \in Words
          BY <3>1, <3>7
        <5> QED BY <2>4, <3>3, <3>4, <3>5, <3>7, <5>1
      <4>4. n + j # i
        BY <3>7, <4>1, <4>2
      <4> HIDE DEF directives
      <4>5. n + j \in others(i)
        BY <3>7, <4>2, <4>3, <4>4
      <4> HIDE DEF others
      <4> QED BY <3>7, <3>10, <4>1, <4>2, <4>5
    <3> QED BY <3>8, <3>9, <3>10
  <2> QED BY <2>5, <2>6 DEF DirectivesReachTheirLines, StopOf, NamesFrom, LineFor, LineOf, LineIn, Words
<1>2. TextInv => DirectivesReachTheirLines
  <2>1. CASE done
    BY <1>1, <2>1
  <2>2. CASE ~done
    BY <2>2 DEF DirectivesReachTheirLines
  <2> QED BY <2>1, <2>2
<1> QED BY <1>2, TextInvariant, PTL

-------------------------------------------------------------------------------
(* What the lines of code are counted from. *)
Insights == [start : Nat, end : Nat, isCode : BOOLEAN, info : Int, first : Int, last : BOOLEAN]
GroupsOfInsights == Seq(Insights) \ {<<>>}

LEMMA MaxOfNumbers ==
  ASSUME NEW n \in Nat, NEW s \in SUBSET (1..n), s # {}
  PROVE  Max(s) \in s /\ \A x \in s : x <= Max(s)
<1> DEFINE rank == [x \in s |-> n - x]
<1>1. \A x \in s : rank[x] \in Nat
  OBVIOUS
<1>2. PICK m \in s : \A x \in s : rank[m] <= rank[x]
  <2> HIDE DEF rank
  <2> QED BY <1>1, LeastElement
<1>3. \A x \in s : m >= x
  BY <1>2
<1>4. Max(s) \in s /\ \A y \in s : Max(s) >= y
  BY <1>3 DEF Max
<1> QED BY <1>4

(* An insight is the last of the last group, or a group of its own.        *)
LEMMA AddInsightType ==
  ASSUME NEW gs \in Seq(GroupsOfInsights), NEW i \in Insights
  PROVE  /\ AddInsight(gs, i) \in Seq(GroupsOfInsights)
         /\ gs # <<>> /\ Joins(gs[Len(gs)], i) =>
              /\ Len(AddInsight(gs, i)) = Len(gs) /\ Len(gs) \in 1..Len(gs)
              /\ AddInsight(gs, i)[Len(gs)] = Append(gs[Len(gs)], i)
              /\ \A k \in 1..(Len(gs) - 1) : AddInsight(gs, i)[k] = gs[k]
         /\ ~(gs # <<>> /\ Joins(gs[Len(gs)], i)) =>
              /\ Len(AddInsight(gs, i)) = Len(gs) + 1
              /\ AddInsight(gs, i)[Len(gs) + 1] = <<i>>
              /\ \A k \in 1..Len(gs) : AddInsight(gs, i)[k] = gs[k]
<1>1. Len(gs) \in Nat /\ DOMAIN gs = 1..Len(gs) /\ (gs # <<>> => Len(gs) \in 1..Len(gs))
  OBVIOUS
<1>2. CASE gs # <<>> /\ Joins(gs[Len(gs)], i)
  <2>1. AddInsight(gs, i) = [gs EXCEPT ![Len(gs)] = Append(@, i)]
    BY <1>2 DEF AddInsight, Last
  <2>2. gs[Len(gs)] \in GroupsOfInsights
    BY <1>1, <1>2
  <2>3. Append(gs[Len(gs)], i) \in GroupsOfInsights
    BY <2>2 DEF GroupsOfInsights
  <2> HIDE DEF GroupsOfInsights
  <2>4. PICK n, g : n = Len(gs) /\ g = Append(gs[n], i)
    OBVIOUS
  <2>5. n \in 1..Len(gs) /\ n \in Nat /\ g \in GroupsOfInsights
    BY <1>1, <1>2, <2>3, <2>4
  <2>6. PICK hs : hs = [gs EXCEPT ![n] = g]
    OBVIOUS
  <2>7. /\ hs \in Seq(GroupsOfInsights) /\ Len(hs) = n /\ hs[n] = g
        /\ \A k \in 1..(n - 1) : hs[k] = gs[k]
    <3>1. DOMAIN gs = 1..n /\ \A k \in 1..n : gs[k] \in GroupsOfInsights
      BY <1>1, <2>4
    <3>2. DOMAIN hs = 1..n /\ hs[n] = g /\ \A k \in 1..n : k # n => hs[k] = gs[k]
      BY <2>5, <2>6, <3>1
    <3>3. hs \in [1..n -> GroupsOfInsights]
      BY <2>5, <2>6, <3>1
    <3>4. hs \in Seq(GroupsOfInsights) /\ Len(hs) = n
      BY <2>5, <3>3
    <3>5. \A k \in 1..(n - 1) : k \in 1..n /\ k # n
      BY <2>5
    <3> QED BY <3>2, <3>4, <3>5
  <2>8. AddInsight(gs, i) = hs
    BY <2>1, <2>4, <2>6
  <2> QED BY <1>2, <2>4, <2>5, <2>7, <2>8
<1>3. CASE ~(gs # <<>> /\ Joins(gs[Len(gs)], i))
  <2>1. AddInsight(gs, i) = Append(gs, <<i>>)
    BY <1>3 DEF AddInsight, Last
  <2>2. PICK g : g = <<i>>
    OBVIOUS
  <2>3. g \in GroupsOfInsights
    BY <2>2 DEF GroupsOfInsights
  <2> HIDE DEF GroupsOfInsights
  <2>4. /\ Append(gs, g) \in Seq(GroupsOfInsights)
        /\ Len(Append(gs, g)) = Len(gs) + 1 /\ Append(gs, g)[Len(gs) + 1] = g
        /\ \A k \in 1..Len(gs) : Append(gs, g)[k] = gs[k]
    BY <1>1, <2>3
  <2> QED BY <1>3, <2>1, <2>2, <2>4
<1> QED BY <1>2, <1>3

(* The groups grow by one insight after the other.                         *)
LEMMA GroupsGrow ==
  ASSUME NEW v \in Seq(Insights)
  PROVE  \E G : /\ G \in [0..Len(v) -> Seq(GroupsOfInsights)]
                /\ G[0] = <<>> /\ Groups(v) = G[Len(v)]
                /\ \A k \in 1..Len(v) : G[k] = AddInsight(G[k - 1], v[k])
<1> DEFINE D == DOMAIN v
           V == Seq(GroupsOfInsights)
           first == [s \in SUBSET D |-> Max(s)]
           step == [a \in D \X V |-> AddInsight(a[2], v[a[1]])]
           Folds(f) == f = [s \in SUBSET D |->
                              IF s = {} THEN <<>> ELSE LET x == Max(s) IN AddInsight(f[s \ {x}], v[x])]
<1>1. Len(v) \in Nat /\ D = 1..Len(v) /\ IsFiniteSet(D)
  BY FS_Interval
<1>2. \A s \in SUBSET D : s # {} => Max(s) \in s /\ first[s] = Max(s) /\ s \ {Max(s)} \in SUBSET D
  <2>1. ASSUME NEW s \in SUBSET D, s # {} PROVE Max(s) \in s
    <3> HIDE DEF D
    <3> QED BY <1>1, <2>1, MaxOfNumbers
  <2> QED BY <2>1
<1>3. step \in [D \X V -> V] /\ \A x \in D : \A g \in V : step[<<x, g>>] = AddInsight(g, v[x])
  <2>1. \A x \in D : \A g \in V : AddInsight(g, v[x]) \in V
    <3> HIDE DEF V
    <3> QED BY <1>1, AddInsightType DEF V
  <2> HIDE DEF V, D
  <2> QED BY <2>1
<1>4. <<>> \in V
  OBVIOUS
<1> HIDE DEF D, V, first, step
<1>5. PICK F : F \in [SUBSET D -> V] /\ Folded(F, D, <<>>, step, first)
  <2>1. \A s \in SUBSET D : s # {} => first[s] \in s
    BY <1>2
  <2>2. PICK base : base = <<>>
    OBVIOUS
  <2>3. base \in V /\ step \in [D \X V -> V] /\ IsFiniteSet(D)
    BY <1>1, <1>3, <1>4, <2>2
  <2>4. \E F : F \in [SUBSET D -> V] /\ Folded(F, D, base, step, first)
    BY <2>1, <2>3, FoldExists
  <2> QED BY <2>2, <2>4
<1>6. Folds(F)
  <2>1. ASSUME NEW s \in SUBSET D
        PROVE  F[s] = IF s = {} THEN <<>> ELSE LET x == Max(s) IN AddInsight(F[s \ {x}], v[x])
    <3>1. F[s] = IF s = {} THEN <<>> ELSE step[<<first[s], F[s \ {first[s]}]>>]
      BY <1>5 DEF Folded
    <3>2. CASE s # {}
      <4>1. F[s \ {Max(s)}] \in V /\ Max(s) \in D
        BY <1>2, <1>5, <3>2
      <4> QED BY <1>2, <1>3, <3>1, <3>2, <4>1
    <3> QED BY <3>1, <3>2
  <2>2. F = [s \in SUBSET D |-> F[s]]
    BY <1>5
  <2> QED BY <2>1, <2>2
<1> DEFINE H == CHOOSE f : Folds(f)
<1>7. Folds(H)
  <2> HIDE DEF Folds
  <2> QED BY <1>6
<1>8. Groups(v) = H[D]
  BY DEF Groups, FoldLeft, MapThenFoldSet, D
<1> HIDE DEF H
<1>9. \A s \in SUBSET D : H[s] = IF s = {} THEN <<>> ELSE AddInsight(H[s \ {Max(s)}], v[Max(s)])
  BY <1>7
<1> DEFINE G == [k \in 0..Len(v) |-> H[1..k]]
<1>10. G[0] = <<>> /\ Groups(v) = G[Len(v)]
  <2>1. 1..0 = {} /\ {} \in SUBSET D /\ 0 \in 0..Len(v) /\ Len(v) \in 0..Len(v)
    BY <1>1
  <2> QED BY <1>1, <1>8, <1>9, <2>1
<1>11. ASSUME NEW k \in 1..Len(v) PROVE G[k] = AddInsight(G[k - 1], v[k])
  <2>1. /\ 1..k \in SUBSET D /\ 1..k # {} /\ (1..k) \ {k} = 1..(k - 1)
        /\ k \in 0..Len(v) /\ k - 1 \in 0..Len(v)
    <3>1. PICK m \in Nat : m = Len(v) /\ D = 1..m /\ k \in 1..m
      BY <1>1
    <3> HIDE DEF D
    <3>2. 1..k \in SUBSET (1..m) /\ k \in 1..k
      BY <3>1
    <3>3. (1..k) \ {k} = 1..(k - 1) /\ k \in 0..m /\ k - 1 \in 0..m
      BY <3>1
    <3> QED BY <3>1, <3>2, <3>3
  <2>2. Max(1..k) = k
    <3>1. k \in 1..k /\ k \in Nat /\ 1..k \in SUBSET (1..k)
      BY <1>1
    <3>2. Max(1..k) \in 1..k /\ k <= Max(1..k)
      BY <3>1, MaxOfNumbers
    <3> QED BY <3>1, <3>2
  <2>3. H[1..k] = AddInsight(H[1..(k - 1)], v[k])
    BY <1>9, <2>1, <2>2
  <2> QED BY <2>1, <2>3
<1>12. G \in [0..Len(v) -> V]
  <2> DEFINE N == {k \in Nat : k <= Len(v) => G[k] \in V}
  <2>1. 0 \in N
    BY <1>4, <1>10
  <2>2. ASSUME NEW k \in 0..Len(v) - 1, k \in N PROVE k + 1 \in N
    <3>1. k + 1 \in 1..Len(v) /\ (k + 1) - 1 = k /\ k <= Len(v)
      BY <1>1
    <3>2. G[k] \in V /\ v[k + 1] \in Insights
      BY <2>2, <3>1
    <3>3. AddInsight(G[k], v[k + 1]) \in V
      BY <3>2, AddInsightType DEF V
    <3>4. G[k + 1] = AddInsight(G[k], v[k + 1])
      BY <1>11, <3>1
    <3> HIDE DEF G
    <3> QED BY <3>3, <3>4
  <2>3. 0..Len(v) \subseteq N
    <3> HIDE DEF N
    <3> QED BY <1>1, <2>1, <2>2, RangeInduction
  <2>4. \A k \in 0..Len(v) : G[k] \in V
    <3> HIDE DEF G
    <3> QED BY <1>1, <2>3
  <2> QED BY <2>4
<1> HIDE DEF G
<1> QED BY <1>10, <1>11, <1>12 DEF V

-------------------------------------------------------------------------------
(* What holds of every insight, and what the grouping of n of them is.     *)
Sound(i) ==
  /\ i \in Insights
  /\ ~i.isCode => i.first = -1
  /\ i.first = -1 => i.info = 0
  /\ i.first = 0 => i.info >= 1
  /\ i.isCode /\ i.last => i.first # -1

(* A group of one counts the lines of its insight,                         *)
LEMMA ContributionOfOne ==
  ASSUME NEW i, Sound(i)
  PROVE  Contribution(<<i>>) = i.info
<1> DEFINE some == {k \in DOMAIN <<i>> : <<i>>[k].first # -1}
           f == [k \in some |-> <<i>>[k].info - IF SharesLine(<<i>>, k) THEN 1 ELSE 0]
<1>1. i.info \in Int /\ DOMAIN <<i>> = {1} /\ <<i>>[1] = i
  BY DEF Sound, Insights
<1>2. Contribution(<<i>>) = SumFunction(f)
  BY DEF Contribution
<1>3. CASE i.first = -1
  <2>1. some = {}
    BY <1>1, <1>3
  <2>2. Summable(f, {})
    <3> HIDE DEF some
    <3> QED BY <2>1, FS_EmptySet DEF Summable
  <2> HIDE DEF f
  <2>3. SumFunction(f) = 0
    BY <2>2, SumOfNothing
  <2> QED BY <1>2, <1>3, <2>3 DEF Sound
<1>4. CASE i.first # -1
  <2>1. some = {1}
    BY <1>1, <1>4
  <2>2. ~SharesLine(<<i>>, 1)
    BY DEF SharesLine
  <2>3. Summable(f, {1}) /\ f[1] = i.info
    <3>1. f \in [{1} -> Int] /\ f[1] = i.info
      <4> HIDE DEF some
      <4> QED BY <1>1, <2>1, <2>2
    <3> QED BY <3>1, FS_Singleton DEF Summable
  <2> HIDE DEF f
  <2>4. PICK e : e = [x \in {} |-> 0]
    OBVIOUS
  <2>5. Summable(e, {})
    BY <2>4, FS_EmptySet DEF Summable
  <2>6. SumFunction(f) = SumFunction(e) + f[1]
    <3>1. 1 \notin {} /\ {1} = {} \cup {1} /\ \A s \in {} : f[s] = e[s]
      OBVIOUS
    <3> QED BY <2>3, <2>5, <3>1, SumGrows
  <2>7. SumFunction(e) = 0
    BY <2>5, SumOfNothing
  <2> QED BY <1>1, <1>2, <2>3, <2>6, <2>7
<1> QED BY <1>3, <1>4

(* every group a number,                                                   *)
LEMMA ContributionType ==
  ASSUME NEW g \in Seq(Insights)
  PROVE  Contribution(g) \in Int
<1> DEFINE some == {k \in DOMAIN g : g[k].first # -1}
           f == [k \in some |-> g[k].info - IF SharesLine(g, k) THEN 1 ELSE 0]
<1>1. Contribution(g) = SumFunction(f)
  BY DEF Contribution
<1>2. Len(g) \in Nat /\ DOMAIN g = 1..Len(g) /\ IsFiniteSet(1..Len(g))
  BY FS_Interval
<1>3. IsFiniteSet(some)
  BY <1>2, FS_Subset
<1>4. \A k \in some : g[k].info \in Int
  <2>1. \A k \in 1..Len(g) : g[k] \in Insights
    OBVIOUS
  <2> QED BY <1>2, <2>1 DEF Insights
<1>5. f \in [some -> Int]
  <2> HIDE DEF some
  <2> QED BY <1>4
<1>6. Summable(f, some)
  <2> HIDE DEF some, f
  <2> QED BY <1>3, <1>5 DEF Summable
<1> HIDE DEF some, f
<1> QED BY <1>1, <1>6, SumIsNumber

(* and one more insight adds its lines but for the one it shares.          *)
LEMMA ContributionGrows ==
  ASSUME NEW g \in Seq(Insights), g # <<>>, NEW i, Sound(i), i.first = 0,
         i.start = g[Len(g)].end, g[Len(g)].first # -1
  PROVE  Contribution(Append(g, i)) = Contribution(g) + i.info - 1
<1> DEFINE some == {k \in DOMAIN g : g[k].first # -1}
           f == [k \in some |-> g[k].info - IF SharesLine(g, k) THEN 1 ELSE 0]
<1>1. PICK n, h : n = Len(g) /\ h = Append(g, i)
  OBVIOUS
<1>2. /\ n \in Nat /\ n >= 1 /\ DOMAIN g = 1..n /\ DOMAIN h = 1..(n + 1) /\ h[n + 1] = i
      /\ \A k \in 1..n : h[k] = g[k]
  <2>1. i \in Insights
    BY DEF Sound
  <2> QED BY <1>1, <2>1
<1> DEFINE more == {k \in DOMAIN h : h[k].first # -1}
           e == [k \in more |-> h[k].info - IF SharesLine(h, k) THEN 1 ELSE 0]
<1>3. more = some \cup {n + 1} /\ n + 1 \notin some
  BY <1>2
<1>4. \A k \in some : k \in 1..n /\ k # 0 /\ (SharesLine(h, k) <=> SharesLine(g, k)) /\ h[k] = g[k]
  BY <1>2 DEF SharesLine
<1>5. SharesLine(h, n + 1)
  <2>1. n + 1 > 1 /\ (n + 1) - 1 = n /\ n \in 1..n
    BY <1>2
  <2> QED BY <1>1, <1>2, <2>1 DEF SharesLine
<1>6. IsFiniteSet(some)
  <2>1. IsFiniteSet(1..n) /\ some \subseteq 1..n
    BY <1>2, FS_Interval
  <2> HIDE DEF some
  <2> QED BY <2>1, FS_Subset
<1>7. (\A k \in some : g[k].info \in Int) /\ i.info \in Int
  <2>1. \A k \in 1..n : g[k] \in Insights
    BY <1>1, <1>2
  <2>2. i \in Insights
    BY DEF Sound
  <2> QED BY <1>4, <2>1, <2>2 DEF Insights
<1>8. Contribution(g) = SumFunction(f) /\ Contribution(h) = SumFunction(e)
  BY DEF Contribution
<1> HIDE DEF some, more
<1>9. Summable(f, some)
  BY <1>6, <1>7 DEF Summable
<1>10. Summable(e, more) /\ (\A k \in some : e[k] = f[k]) /\ e[n + 1] = i.info - 1
  <2>1. \A k \in some : e[k] = f[k] /\ e[k] \in Int
    BY <1>3, <1>4, <1>7
  <2>2. e[n + 1] = i.info - 1 /\ e[n + 1] \in Int
    BY <1>2, <1>3, <1>5, <1>7
  <2> HIDE DEF f
  <2>3. \A k \in more : e[k] \in Int
    BY <1>3, <2>1, <2>2
  <2>4. e = [k \in more |-> e[k]]
    OBVIOUS
  <2>5. IsFiniteSet(more)
    BY <1>3, <1>6, FS_AddElement
  <2> HIDE DEF e
  <2> QED BY <2>1, <2>2, <2>3, <2>4, <2>5 DEF Summable
<1> HIDE DEF f, e
<1>11. SumFunction(f) \in Int /\ SumFunction(e) = SumFunction(f) + e[n + 1]
  BY <1>3, <1>9, <1>10, SumGrows
<1> QED BY <1>1, <1>7, <1>8, <1>10, <1>11

-------------------------------------------------------------------------------
(* What the groups count. *)
Counted(gs) ==
  SumFunction([k \in GroupsOfCode(gs) |-> Contribution(gs[k]) - IF Continues(gs, k) THEN 1 ELSE 0])

(* p is the last of the first n insights that is of code, if there is one. *)
LastOfCode(v, n, p) ==
  /\ p \in 0..n /\ (p # 0 => v[p].isCode)
  /\ \A j \in (p + 1)..n : ~v[j].isCode
(* gs are the groups of the first n insights. *)
GroupsOf(gs, v, n) ==
  /\ gs \in Seq(GroupsOfInsights)
  /\ gs = <<>> <=> n = 0
  /\ n # 0 => gs[Len(gs)][Len(gs[Len(gs)])] = v[n]
  /\ \A k \in DOMAIN gs : gs[k][1].isCode = gs[k][Len(gs[k])].isCode
  /\ \A k \in DOMAIN gs : gs[k][1].first = 0 => Contribution(gs[k]) >= 1
  /\ \A p : LastOfCode(v, n, p) =>
       /\ GroupsOfCode(gs) = {} <=> p = 0
       /\ p # 0 => Last(gs[Max(GroupsOfCode(gs))]) = v[p]
(* An insight goes on where the code before it ended. *)
GoesOn(v, p, i) == p # 0 /\ i.first = 0 /\ i.start = v[p].end /\ v[p].last

LEMMA CountedIs ==
  ASSUME NEW gs \in Seq(GroupsOfInsights)
  PROVE  /\ Len(gs) \in Nat /\ DOMAIN gs = 1..Len(gs) /\ IsFiniteSet(GroupsOfCode(gs))
         /\ GroupsOfCode(gs) \subseteq 1..Len(gs)
         /\ \A k \in 1..Len(gs) : gs[k] \in GroupsOfInsights /\ Contribution(gs[k]) \in Int
         /\ Summable([k \in GroupsOfCode(gs) |-> Contribution(gs[k]) - IF Continues(gs, k) THEN 1 ELSE 0],
                     GroupsOfCode(gs))
         /\ Counted(gs) \in Int
<1> DEFINE S == GroupsOfCode(gs)
           f == [k \in S |-> Contribution(gs[k]) - IF Continues(gs, k) THEN 1 ELSE 0]
<1>1. Len(gs) \in Nat /\ DOMAIN gs = 1..Len(gs) /\ IsFiniteSet(1..Len(gs))
  BY FS_Interval
<1>2. S \subseteq 1..Len(gs)
  BY <1>1 DEF GroupsOfCode
<1>3. IsFiniteSet(S)
  <2> HIDE DEF S
  <2> QED BY <1>1, <1>2, FS_Subset
<1>4. \A k \in 1..Len(gs) : gs[k] \in GroupsOfInsights
  BY <1>1
<1>5. \A k \in 1..Len(gs) : Contribution(gs[k]) \in Int
  BY <1>4, ContributionType DEF GroupsOfInsights
<1> HIDE DEF S
<1>6. f \in [S -> Int]
  <2>1. \A k \in S : Contribution(gs[k]) \in Int
    BY <1>2, <1>5
  <2> QED BY <2>1
<1> HIDE DEF f
<1>7. Summable(f, S)
  BY <1>3, <1>6 DEF Summable
<1>8. SumFunction(f) \in Int
  BY <1>7, SumIsNumber
<1> QED BY <1>1, <1>2, <1>3, <1>4, <1>5, <1>7, <1>8 DEF Counted, f, S

(* Whether a group goes on from the one before it, in two groupings.       *)
LEMMA ContinuesAlike ==
  ASSUME NEW gs, NEW hs, NEW k, NEW n \in Nat,
         NEW before, before \in SUBSET (1..n),
         before = {j \in GroupsOfCode(gs) : j < k}, before = {j \in GroupsOfCode(hs) : j < k},
         \A j \in before : hs[j] = gs[j], hs[k][1] = gs[k][1],
         gs[k][1].first = 0 => (Contribution(gs[k]) >= 1 <=> Contribution(hs[k]) >= 1)
  PROVE  Continues(gs, k) <=> Continues(hs, k)
<1>1. before # {} => Max(before) \in before
  BY MaxOfNumbers
<1>2. before # {} => hs[Max(before)] = gs[Max(before)]
  BY <1>1
<1> QED BY <1>2 DEF Continues

(* The same groups of code are counted the same. *)
LEMMA CountedAlike ==
  ASSUME NEW gs \in Seq(GroupsOfInsights), NEW hs, GroupsOfCode(hs) = GroupsOfCode(gs),
         \A k \in GroupsOfCode(gs) : hs[k] = gs[k]
  PROVE  Counted(hs) = Counted(gs)
<1> DEFINE S == GroupsOfCode(gs)
           f(g) == [k \in S |-> Contribution(g[k]) - IF Continues(g, k) THEN 1 ELSE 0]
<1>1. S \subseteq 1..Len(gs) /\ Len(gs) \in Nat
  BY CountedIs
<1>2. ASSUME NEW k \in S PROVE Continues(hs, k) <=> Continues(gs, k)
  <2>1. PICK before : before = {j \in S : j < k}
    OBVIOUS
  <2>2. before \in SUBSET (1..Len(gs)) /\ before \subseteq S
    BY <1>1, <2>1
  <2> QED BY <1>1, <2>1, <2>2, ContinuesAlike
<1>3. f(hs) = f(gs)
  <2> HIDE DEF S
  <2>1. \A k \in S : hs[k] = gs[k]
    BY DEF S
  <2> QED BY <1>2, <2>1
<1>4. Counted(gs) = SumFunction(f(gs)) /\ Counted(hs) = SumFunction(f(hs))
  BY DEF Counted
<1> HIDE DEF f
<1> QED BY <1>3, <1>4

-------------------------------------------------------------------------------
(* An insight that joins the last group counts but for the line they share. *)
LEMMA InsightJoins ==
  ASSUME NEW v \in Seq(Insights), NEW n \in Nat, n + 1 <= Len(v), \A k \in 1..Len(v) : Sound(v[k]),
         NEW gs, GroupsOf(gs, v, n), NEW i, i = v[n + 1],
         gs # <<>>, Joins(gs[Len(gs)], i), NEW hs, hs = AddInsight(gs, i),
         NEW p, LastOfCode(v, n, p)
  PROVE  /\ GroupsOf(hs, v, n + 1)
         /\ GoesOn(v, p, i) /\ Counted(hs) = Counted(gs) + i.info - 1
<1>1. PICK m, g, h : m = Len(gs) /\ g = gs[m] /\ h = Append(g, i)
  OBVIOUS
<1>2. /\ gs \in Seq(GroupsOfInsights) /\ n # 0 /\ n \in 1..Len(v) /\ n + 1 \in 1..Len(v)
      /\ m \in 1..m /\ m \in Nat /\ DOMAIN gs = 1..m
  BY <1>1 DEF GroupsOf
<1>3. g \in Seq(Insights) /\ g # <<>> /\ Len(g) \in 1..Len(g) /\ Len(g) \in Nat
  <2>1. g \in GroupsOfInsights
    BY <1>1, <1>2
  <2> QED BY <2>1 DEF GroupsOfInsights
<1>4. /\ g[Len(g)] = v[n] /\ g[1].isCode = v[n].isCode
      /\ g[1].first = 0 => Contribution(g) >= 1
  BY <1>1, <1>2 DEF GroupsOf
<1>5. i.start = v[n].end /\ i.first = 0 /\ v[n].last /\ v[n].isCode = i.isCode
  BY <1>1, <1>4 DEF Joins, Last
<1>6. Sound(i) /\ Sound(v[n]) /\ i \in Insights
  BY <1>2 DEF Sound
<1>7. i.isCode /\ v[n].isCode /\ v[n].first # -1 /\ i.info >= 1 /\ i.info \in Int
  <2>1. i.isCode
    BY <1>5, <1>6 DEF Sound
  <2>2. v[n].isCode
    BY <1>5, <2>1
  <2>3. v[n].first # -1
    BY <1>5, <1>6, <2>2 DEF Sound
  <2>4. i.info \in Int
    BY <1>6 DEF Insights
  <2>5. i.info >= 1
    BY <1>5, <1>6 DEF Sound
  <2> QED BY <2>1, <2>2, <2>3, <2>4, <2>5
<1>8. p = n
  <2>1. p \in 0..n /\ (\A j \in (p + 1)..n : ~v[j].isCode)
    BY DEF LastOfCode
  <2>2. n \notin (p + 1)..n
    BY <1>7, <2>1
  <2> QED BY <1>2, <2>1, <2>2
<1>9. GoesOn(v, p, i)
  BY <1>2, <1>5, <1>8 DEF GoesOn
<1>10. /\ hs \in Seq(GroupsOfInsights) /\ Len(hs) = m /\ DOMAIN hs = 1..m
       /\ hs[m] = h /\ \A k \in 1..(m - 1) : hs[k] = gs[k]
  <2>1. hs \in Seq(GroupsOfInsights) /\ Len(hs) = m /\ hs[m] = h /\ \A k \in 1..(m - 1) : hs[k] = gs[k]
    BY <1>1, <1>2, <1>6, AddInsightType
  <2> QED BY <2>1
<1>11. h[1] = g[1] /\ Len(h) = Len(g) + 1 /\ h[Len(h)] = i
  BY <1>1, <1>3, <1>6
<1>12. \A k \in 1..m : hs[k][1] = gs[k][1] /\ (k # m => hs[k] = gs[k])
  <2>1. \A k \in 1..m : k = m \/ k \in 1..(m - 1)
    BY <1>2
  <2> QED BY <1>1, <1>10, <1>11, <2>1
<1>13. GroupsOfCode(hs) = GroupsOfCode(gs) /\ m \in GroupsOfCode(gs) /\ GroupsOfCode(gs) \in SUBSET (1..m)
  BY <1>1, <1>2, <1>4, <1>7, <1>10, <1>12 DEF GroupsOfCode
<1>14. Max(GroupsOfCode(hs)) = m
  <2>1. Max(GroupsOfCode(gs)) \in GroupsOfCode(gs) /\ m <= Max(GroupsOfCode(gs))
    BY <1>2, <1>13, MaxOfNumbers
  <2> QED BY <1>2, <1>13, <2>1
<1>15. Contribution(h) = Contribution(g) + i.info - 1 /\ Contribution(g) \in Int
  BY <1>1, <1>3, <1>4, <1>5, <1>6, <1>7, ContributionGrows, ContributionType
<1>16. GroupsOf(hs, v, n + 1)
  <2>1. hs # <<>> /\ n + 1 # 0 /\ hs[Len(hs)][Len(hs[Len(hs)])] = v[n + 1]
    BY <1>2, <1>10, <1>11
  <2>2. \A k \in 1..m : hs[k][1].isCode = hs[k][Len(hs[k])].isCode
    <3>1. ASSUME NEW k \in 1..m, k # m PROVE hs[k][1].isCode = hs[k][Len(hs[k])].isCode
      BY <1>2, <1>12, <3>1 DEF GroupsOf
    <3>2. h[1].isCode = h[Len(h)].isCode
      BY <1>4, <1>5, <1>11
    <3> QED BY <1>10, <3>1, <3>2
  <2>3. \A k \in 1..m : hs[k][1].first = 0 => Contribution(hs[k]) >= 1
    <3>1. h[1].first = 0 => Contribution(h) >= 1
      BY <1>4, <1>7, <1>11, <1>15
    <3> QED BY <1>2, <1>10, <1>12, <3>1 DEF GroupsOf
  <2>4. ASSUME NEW q, LastOfCode(v, n + 1, q) PROVE q = n + 1
    BY <1>2, <1>7, <2>4 DEF LastOfCode
  <2>5. GroupsOfCode(hs) # {} /\ Last(hs[Max(GroupsOfCode(hs))]) = v[n + 1]
    BY <1>10, <1>11, <1>13, <1>14 DEF Last
  <2> QED BY <1>2, <1>10, <2>1, <2>2, <2>3, <2>4, <2>5 DEF GroupsOf
<1> DEFINE S == GroupsOfCode(gs)
           f(x) == [k \in S |-> Contribution(x[k]) - IF Continues(x, k) THEN 1 ELSE 0]
<1>17. \A k \in S : Continues(hs, k) <=> Continues(gs, k)
  <2>1. ASSUME NEW k \in S PROVE Continues(hs, k) <=> Continues(gs, k)
    <3>1. PICK before : before = {j \in S : j < k}
      OBVIOUS
    <3>2. k \in 1..m /\ before \in SUBSET (1..m) /\ \A j \in before : j \in 1..m /\ j # m
      BY <1>2, <1>13, <3>1
    <3>3. before = {j \in GroupsOfCode(hs) : j < k}
      BY <1>13, <3>1
    <3>4. hs[k][1] = gs[k][1] /\ \A j \in before : hs[j] = gs[j]
      BY <1>12, <3>2
    <3>5. gs[k][1].first = 0 => Contribution(gs[k]) >= 1 /\ Contribution(hs[k]) >= 1
      BY <1>2, <1>10, <1>12, <1>16, <3>2, <3>4 DEF GroupsOf
    <3> QED BY <1>2, <3>1, <3>2, <3>3, <3>4, <3>5, ContinuesAlike
  <2> QED BY <2>1
<1>18. Summable(f(gs), S) /\ Summable(f(hs), S)
  <2>1. Summable(f(gs), S)
    BY <1>2, CountedIs
  <2>2. Summable([k \in GroupsOfCode(hs) |-> Contribution(hs[k]) - IF Continues(hs, k) THEN 1 ELSE 0],
                 GroupsOfCode(hs))
    BY <1>10, CountedIs
  <2> QED BY <1>13, <2>1, <2>2
<1>19. Counted(gs) = SumFunction(f(gs)) /\ Counted(hs) = SumFunction(f(hs)) /\ Counted(gs) \in Int
  BY <1>2, <1>13, CountedIs DEF Counted
<1>20. /\ \A k \in S \ {m} : f(hs)[k] = f(gs)[k]
       /\ f(gs)[m] \in Int /\ f(hs)[m] = f(gs)[m] + i.info - 1
  <2>1. \A k \in S \ {m} : f(hs)[k] = f(gs)[k]
    BY <1>12, <1>13, <1>17
  <2>2. /\ f(gs)[m] = Contribution(g) - IF Continues(gs, m) THEN 1 ELSE 0
        /\ f(hs)[m] = Contribution(h) - IF Continues(gs, m) THEN 1 ELSE 0
    BY <1>1, <1>10, <1>13, <1>17
  <2> HIDE DEF f
  <2> QED BY <1>7, <1>15, <2>1, <2>2
<1>21. PICK a, b : a = f(gs) /\ b = f(hs)
  OBVIOUS
<1> HIDE DEF f, S
<1>22. SumFunction(b) = SumFunction(a) - a[m] + b[m]
  BY <1>13, <1>18, <1>20, <1>21, SumChanges DEF S
<1> QED BY <1>7, <1>9, <1>16, <1>19, <1>20, <1>21, <1>22

(* Any other insight begins a group of its own. *)
LEMMA InsightIsApart ==
  ASSUME NEW v \in Seq(Insights), NEW n \in Nat, n + 1 <= Len(v), \A k \in 1..Len(v) : Sound(v[k]),
         NEW gs, GroupsOf(gs, v, n), NEW i, i = v[n + 1],
         ~(gs # <<>> /\ Joins(gs[Len(gs)], i)), NEW hs, hs = AddInsight(gs, i),
         NEW p, LastOfCode(v, n, p)
  PROVE  /\ GroupsOf(hs, v, n + 1)
         /\ Counted(hs) = Counted(gs) + i.info - IF GoesOn(v, p, i) THEN 1 ELSE 0
<1>1. PICK m, g : m = Len(gs) /\ g = <<i>>
  OBVIOUS
<1>2. gs \in Seq(GroupsOfInsights) /\ m \in Nat /\ DOMAIN gs = 1..m /\ n + 1 \in 1..Len(v)
  BY <1>1 DEF GroupsOf
<1>3. Sound(i) /\ i \in Insights /\ i.info \in Int
  <2>1. Sound(i)
    BY <1>2
  <2> QED BY <2>1 DEF Sound, Insights
<1>4. /\ hs \in Seq(GroupsOfInsights) /\ Len(hs) = m + 1 /\ DOMAIN hs = 1..(m + 1)
      /\ hs[m + 1] = g /\ \A k \in 1..m : hs[k] = gs[k]
  <2>1. hs \in Seq(GroupsOfInsights) /\ Len(hs) = m + 1 /\ hs[m + 1] = g /\ \A k \in 1..m : hs[k] = gs[k]
    BY <1>1, <1>2, <1>3, AddInsightType
  <2> QED BY <2>1
<1>5. g[1] = i /\ Len(g) = 1 /\ Contribution(g) = i.info
  BY <1>1, <1>3, ContributionOfOne
<1>6. \A k \in 1..(m + 1) : k = m + 1 \/ k \in 1..m
  BY <1>2
<1>7. /\ GroupsOfCode(gs) \in SUBSET (1..m) /\ m + 1 \notin GroupsOfCode(gs)
      /\ GroupsOfCode(hs) = IF i.isCode THEN GroupsOfCode(gs) \cup {m + 1} ELSE GroupsOfCode(gs)
  <2>1. GroupsOfCode(gs) \in SUBSET (1..m)
    BY <1>2 DEF GroupsOfCode
  <2>2. \A k \in 1..m : k \in GroupsOfCode(hs) <=> k \in GroupsOfCode(gs)
    BY <1>2, <1>4 DEF GroupsOfCode
  <2>3. m + 1 \in GroupsOfCode(hs) <=> i.isCode
    BY <1>2, <1>4, <1>5 DEF GroupsOfCode
  <2>4. GroupsOfCode(hs) \in SUBSET (1..(m + 1)) /\ m + 1 \notin 1..m
    BY <1>2, <1>4 DEF GroupsOfCode
  <2>5. PICK A, B, x, R : A = GroupsOfCode(gs) /\ B = GroupsOfCode(hs) /\ x = m + 1 /\ R = 1..m
    OBVIOUS
  <2>6. A \subseteq R /\ x \notin R /\ B \subseteq R \cup {x}
    BY <1>6, <2>1, <2>4, <2>5
  <2>7. (\A k \in R : k \in B <=> k \in A) /\ (x \in B <=> i.isCode)
    BY <2>2, <2>3, <2>5
  <2>8. CASE i.isCode
    <3>1. B = A \cup {x}
      BY <2>6, <2>7, <2>8
    <3> QED BY <2>1, <2>4, <2>5, <2>8, <3>1
  <2>9. CASE ~i.isCode
    <3>1. B = A
      BY <2>6, <2>7, <2>9
    <3> QED BY <2>1, <2>4, <2>5, <2>9, <3>1
  <2> QED BY <2>8, <2>9
<1>8. /\ GroupsOfCode(gs) = {} <=> p = 0
      /\ p # 0 => Last(gs[Max(GroupsOfCode(gs))]) = v[p]
  BY DEF GroupsOf
<1>9. p # 0 => Max(GroupsOfCode(gs)) \in GroupsOfCode(gs) /\ Max(GroupsOfCode(gs)) \in 1..m
  BY <1>2, <1>7, <1>8, MaxOfNumbers
<1>10. i.isCode => Max(GroupsOfCode(hs)) = m + 1
  <2>1. ASSUME i.isCode PROVE Max(GroupsOfCode(hs)) = m + 1
    <3>1. GroupsOfCode(hs) \in SUBSET (1..(m + 1)) /\ m + 1 \in GroupsOfCode(hs) /\ m + 1 \in Nat
      BY <1>2, <1>7, <2>1
    <3>2. Max(GroupsOfCode(hs)) \in GroupsOfCode(hs) /\ m + 1 <= Max(GroupsOfCode(hs))
      BY <3>1, MaxOfNumbers
    <3> QED BY <3>1, <3>2
  <2> QED BY <2>1
<1>11. GroupsOf(hs, v, n + 1)
  <2>1. hs # <<>> /\ n + 1 # 0 /\ hs[Len(hs)][Len(hs[Len(hs)])] = v[n + 1]
    BY <1>2, <1>4, <1>5
  <2>2. \A k \in 1..(m + 1) : hs[k][1].isCode = hs[k][Len(hs[k])].isCode
    <3>1. ASSUME NEW k \in 1..m PROVE hs[k][1].isCode = hs[k][Len(hs[k])].isCode
      BY <1>2, <1>4, <3>1 DEF GroupsOf
    <3> QED BY <1>4, <1>5, <1>6, <3>1
  <2>3. \A k \in 1..(m + 1) : hs[k][1].first = 0 => Contribution(hs[k]) >= 1
    <3>1. ASSUME NEW k \in 1..m PROVE hs[k][1].first = 0 => Contribution(hs[k]) >= 1
      BY <1>2, <1>4, <3>1 DEF GroupsOf
    <3>2. i.first = 0 => i.info >= 1
      BY <1>3 DEF Sound
    <3> QED BY <1>4, <1>5, <1>6, <3>1, <3>2
  <2>4. ASSUME NEW q, LastOfCode(v, n + 1, q)
        PROVE  /\ GroupsOfCode(hs) = {} <=> q = 0
               /\ q # 0 => Last(hs[Max(GroupsOfCode(hs))]) = v[q]
    <3>1. CASE i.isCode
      <4>1. q = n + 1 /\ q # 0
        <5>1. q \in 0..(n + 1) /\ n + 1 \notin (q + 1)..(n + 1)
          BY <2>4, <3>1 DEF LastOfCode
        <5> QED BY <5>1
      <4>2. GroupsOfCode(hs) # {}
        BY <1>7, <3>1
      <4>3. Last(hs[Max(GroupsOfCode(hs))]) = v[q]
        BY <1>4, <1>5, <1>10, <3>1, <4>1 DEF Last
      <4> QED BY <4>1, <4>2, <4>3
    <3>2. CASE ~i.isCode
      <4>1. LastOfCode(v, n, q)
        <5>1. q \in 0..(n + 1) /\ (q # 0 => v[q].isCode) /\ \A j \in (q + 1)..(n + 1) : ~v[j].isCode
          BY <2>4 DEF LastOfCode
        <5>2. q # n + 1
          BY <3>2, <5>1
        <5>3. q \in 0..n /\ \A j \in (q + 1)..n : j \in (q + 1)..(n + 1)
          BY <5>1, <5>2
        <5> QED BY <5>1, <5>3 DEF LastOfCode
      <4>2. /\ GroupsOfCode(gs) = {} <=> q = 0
            /\ q # 0 => Last(gs[Max(GroupsOfCode(gs))]) = v[q]
        BY <4>1 DEF GroupsOf
      <4>3. q # 0 => Max(GroupsOfCode(gs)) \in 1..m
        BY <1>2, <1>7, <4>2, MaxOfNumbers
      <4> QED BY <1>4, <1>7, <3>2, <4>2, <4>3
    <3> QED BY <3>1, <3>2
  <2> QED BY <1>4, <2>1, <2>2, <2>3, <2>4 DEF GroupsOf
<1>12. CASE ~i.isCode
  <2>1. i.info = 0 /\ i.first = -1
    BY <1>3, <1>12 DEF Sound
  <2>2. ~GoesOn(v, p, i)
    BY <2>1 DEF GoesOn
  <2>3. GroupsOfCode(hs) = GroupsOfCode(gs) /\ \A k \in GroupsOfCode(gs) : hs[k] = gs[k]
    BY <1>4, <1>7, <1>12
  <2>4. Counted(hs) = Counted(gs) /\ Counted(gs) \in Int
    BY <1>2, <2>3, CountedAlike, CountedIs
  <2> QED BY <1>11, <2>1, <2>2, <2>4
<1>13. CASE i.isCode
  <2> DEFINE S == GroupsOfCode(gs)
             T == GroupsOfCode(hs)
             f(x) == [k \in GroupsOfCode(x) |-> Contribution(x[k]) - IF Continues(x, k) THEN 1 ELSE 0]
  <2>1. T = S \cup {m + 1} /\ m + 1 \notin S /\ S \in SUBSET (1..m)
    BY <1>7, <1>13
  <2>2. \A k \in S : Continues(hs, k) <=> Continues(gs, k)
    <3>1. ASSUME NEW k \in S PROVE Continues(hs, k) <=> Continues(gs, k)
      <4>1. PICK before : before = {j \in S : j < k}
        OBVIOUS
      <4>2. k \in 1..m /\ before \in SUBSET (1..m) /\ before \subseteq S
        BY <2>1, <4>1
      <4>3. before = {j \in T : j < k}
        BY <1>2, <2>1, <4>1, <4>2
      <4>4. hs[k] = gs[k] /\ \A j \in before : hs[j] = gs[j]
        BY <1>4, <4>2
      <4> QED BY <1>2, <4>1, <4>2, <4>3, <4>4, ContinuesAlike
    <3> QED BY <3>1
  <2>3. Continues(hs, m + 1) <=> GoesOn(v, p, i)
    <3>1. {j \in T : j < m + 1} = S
      BY <1>2, <2>1
    <3>2. S # {} => Last(hs[Max(S)]) = v[p]
      BY <1>4, <1>8, <1>9
    <3>3. i.first = 0 => Contribution(hs[m + 1]) >= 1
      BY <1>3, <1>4, <1>5 DEF Sound
    <3>4. hs[m + 1][1] = i
      BY <1>4, <1>5
    <3>5. PICK prev, one : prev = Last(hs[Max(S)]) /\ one = Contribution(hs[m + 1])
      OBVIOUS
    <3>6. Continues(hs, m + 1) <=>
            S # {} /\ i.start = prev.end /\ i.first = 0 /\ prev.last /\ one >= 1
      BY <3>1, <3>4, <3>5 DEF Continues
    <3>7. S # {} <=> p # 0
      BY <1>8
    <3>8. S # {} => prev = v[p]
      BY <3>2, <3>5
    <3> QED BY <3>3, <3>5, <3>6, <3>7, <3>8 DEF GoesOn
  <2>4. Summable(f(gs), S) /\ Summable(f(hs), T)
    BY <1>2, <1>4, CountedIs
  <2>5. Counted(gs) = SumFunction(f(gs)) /\ Counted(hs) = SumFunction(f(hs)) /\ Counted(gs) \in Int
    BY <1>2, CountedIs DEF Counted
  <2>6. \A k \in S : f(hs)[k] = f(gs)[k]
    BY <1>4, <2>1, <2>2
  <2>7. f(hs)[m + 1] = i.info - IF GoesOn(v, p, i) THEN 1 ELSE 0
    BY <1>4, <1>5, <2>1, <2>3
  <2>8. PICK a, b : a = f(gs) /\ b = f(hs)
    OBVIOUS
  <2> HIDE DEF f, S, T
  <2>9. SumFunction(b) = SumFunction(a) + b[m + 1]
    <3>1. PICK x : x = m + 1
      OBVIOUS
    <3>2. Summable(a, S) /\ Summable(b, T) /\ x \notin S /\ T = S \cup {x} /\ \A k \in S : b[k] = a[k]
      BY <2>1, <2>4, <2>6, <2>8, <3>1
    <3>3. SumFunction(b) = SumFunction(a) + b[x]
      BY <3>2, SumGrows
    <3> QED BY <3>1, <3>3
  <2> QED BY <1>3, <1>11, <2>5, <2>7, <2>8, <2>9
<1> QED BY <1>12, <1>13

-------------------------------------------------------------------------------
(* Lines go up one at a time. *)
LEMMA LinesAscend ==
  ASSUME NEW t \in Seq(Symbols), NEW i \in 1..(Len(t) + 1), NEW j \in 1..(Len(t) + 1), i <= j
  PROVE  /\ LineIn(t, i) \in Nat /\ LineIn(t, j) \in Nat /\ LineIn(t, i) <= LineIn(t, j)
         /\ \A l \in LineIn(t, i)..LineIn(t, j) : \E k \in i..j : LineIn(t, k) = l
<1> DEFINE len == Len(t)
           From(k) == /\ LineIn(t, i) \in Nat /\ LineIn(t, k) \in Nat /\ LineIn(t, i) <= LineIn(t, k)
                      /\ \A l \in LineIn(t, i)..LineIn(t, k) : \E m \in i..k : LineIn(t, m) = l
           N == {n \in Nat : i + n <= len + 1 => From(i + n)}
<1>1. len \in Nat /\ i \in Nat /\ j \in Nat /\ i >= 1
  OBVIOUS
<1>2. \A k \in 1..len : LineIn(t, k) \in Nat /\ LineIn(t, k + 1) = LineIn(t, k) + IF t[k] = "nl" THEN 1 ELSE 0
  BY LineGoesOn
<1>3. LineIn(t, i) \in Nat
  <2>1. CASE i = 1
    BY <2>1, FirstLine
  <2>2. CASE i # 1
    <3>1. i - 1 \in 1..len /\ (i - 1) + 1 = i
      BY <1>1, <2>2
    <3> QED BY <1>2, <3>1
  <2> QED BY <2>1, <2>2
<1> HIDE DEF len
<1>4. 0 \in N
  <2>1. i + 0 = i /\ i \in i..i
    BY <1>1
  <2>2. From(i)
    BY <1>3, <2>1
  <2> HIDE DEF From
  <2> QED BY <2>1, <2>2
<1>5. ASSUME NEW n \in Nat, n \in N PROVE n + 1 \in N
  <2> SUFFICES ASSUME i + (n + 1) <= len + 1 PROVE From(i + (n + 1))
    BY <1>5
  <2>1. PICK k : k = i + n
    OBVIOUS
  <2>2. k \in 1..len /\ i + (n + 1) = k + 1 /\ k \in Nat /\ i <= k
    BY <1>1, <2>1
  <2>3. From(k)
    <3>1. i + n <= len + 1
      BY <1>1, <2>1, <2>2
    <3> HIDE DEF From
    <3> QED BY <1>5, <2>1, <3>1
  <2>4. LineIn(t, k + 1) = LineIn(t, k) + IF t[k] = "nl" THEN 1 ELSE 0
    BY <1>2, <2>2
  <2>5. LineIn(t, k + 1) \in Nat /\ LineIn(t, i) <= LineIn(t, k + 1)
    BY <2>3, <2>4
  <2>6. ASSUME NEW l \in LineIn(t, i)..LineIn(t, k + 1) PROVE \E m \in i..(k + 1) : LineIn(t, m) = l
    <3>1. CASE l <= LineIn(t, k)
      <4>1. l \in LineIn(t, i)..LineIn(t, k)
        BY <2>3, <2>5, <3>1
      <4>2. PICK m \in i..k : LineIn(t, m) = l
        BY <2>3, <4>1
      <4>3. m \in i..(k + 1)
        BY <1>1, <2>2
      <4> QED BY <4>2, <4>3
    <3>2. CASE ~(l <= LineIn(t, k))
      <4>1. l = LineIn(t, k + 1)
        BY <2>3, <2>4, <2>5, <3>2
      <4>2. k + 1 \in i..(k + 1)
        BY <1>1, <2>2
      <4> QED BY <4>1, <4>2
    <3> QED BY <3>1, <3>2
  <2> QED BY <1>3, <2>2, <2>5, <2>6
<1>6. Nat \subseteq N
  <2> HIDE DEF N
  <2> QED BY <1>4, <1>5, SetInduction
<1>7. PICK n \in Nat : j = i + n
  <2>1. j - i \in Nat /\ j = i + (j - i)
    BY <1>1
  <2> QED BY <2>1
<1>8. From(j)
  <2>1. n \in N /\ i + n <= len + 1
    BY <1>6, <1>7 DEF len
  <2> HIDE DEF From
  <2> QED BY <1>7, <2>1
<1> QED BY <1>8

(* The lines of a piece are those before it and those in it. *)
LEMMA LinesInPiece ==
  ASSUME NEW t \in Seq(Symbols), NEW tok, NEW n, NEW q, Piece(t, tok, n, q)
  PROVE  /\ n \in Nat /\ q \in Nat /\ n < q /\ q <= Len(t) /\ Len(t) \in Nat
         /\ tok.content \in Seq(Symbols) /\ DOMAIN tok.content = 1..(q - n)
         /\ \A r \in 1..(q - n) : tok.content[r] = t[n + r] /\ n + r \in 1..Len(t)
         /\ \A r \in 1..(q - n) :
              BrokenBefore(tok.content, r) \in Nat /\ LineIn(t, n + r) = LineIn(t, n + 1) + BrokenBefore(tok.content, r)
         /\ Breaks(tok.content) \in Nat
         /\ LineIn(t, q + 1) = LineIn(t, n + 1) + Breaks(tok.content)
<1> DEFINE s == tok.content
<1>1. /\ n \in Nat /\ q \in Nat /\ n < q /\ q <= Len(t) /\ Len(t) \in Nat
      /\ s = SubSeq(t, n + 1, q)
  BY DEF Piece, ReadFrom
<1>2. s \in Seq(Symbols) /\ Len(s) = q - n /\ DOMAIN s = 1..(q - n)
  BY <1>1
<1>3. \A r \in 1..(q - n) : s[r] = t[n + r] /\ n + r \in 1..Len(t)
  BY <1>1
<1> HIDE DEF s
<1> DEFINE m == q - n
           N == {r \in Nat : r + 1 <= m + 1 =>
                   LineIn(s, r + 1) \in Nat /\ LineIn(t, n + (r + 1)) = LineIn(t, n + 1) + LineIn(s, r + 1) - 1}
<1>4. m \in Nat /\ m >= 1 /\ LineIn(t, n + 1) \in Nat
  <2>1. m \in Nat /\ m >= 1 /\ n + 1 \in 1..Len(t)
    BY <1>1
  <2> QED BY <2>1, LineGoesOn
<1>5. 0 \in N
  <2>1. LineIn(s, 1) = 1
    BY FirstLine
  <2> HIDE DEF m
  <2> QED BY <1>1, <1>4, <2>1
<1>6. ASSUME NEW r \in Nat, r \in N PROVE r + 1 \in N
  <2> SUFFICES ASSUME r + 1 <= m
               PROVE  /\ LineIn(s, (r + 1) + 1) \in Nat
                      /\ LineIn(t, n + ((r + 1) + 1)) = LineIn(t, n + 1) + LineIn(s, (r + 1) + 1) - 1
    BY <1>4
  <2>1. PICK k : k = r + 1
    OBVIOUS
  <2>2. k \in 1..m /\ n + k \in 1..Len(t) /\ s[k] = t[n + k] /\ n + (k + 1) = (n + k) + 1
    BY <1>1, <1>3, <1>4, <2>1
  <2>3. LineIn(s, k) \in Nat /\ LineIn(t, n + k) = LineIn(t, n + 1) + LineIn(s, k) - 1
    BY <1>4, <1>6, <2>1
  <2>4. LineIn(s, k + 1) = LineIn(s, k) + IF s[k] = "nl" THEN 1 ELSE 0
    BY <1>2, <2>2, LineGoesOn
  <2>5. LineIn(t, (n + k) + 1) = LineIn(t, n + k) + IF t[n + k] = "nl" THEN 1 ELSE 0
    BY <2>2, LineGoesOn
  <2>6. PICK a, b, c : a = LineIn(s, k) /\ b = LineIn(t, n + 1) /\ c = IF s[k] = "nl" THEN 1 ELSE 0
    OBVIOUS
  <2>7. LineIn(s, k + 1) = a + c /\ LineIn(t, n + (k + 1)) = (b + a - 1) + c
    BY <2>2, <2>3, <2>4, <2>5, <2>6
  <2>8. a \in Nat /\ b \in Nat /\ c \in {0, 1}
    BY <1>4, <2>3, <2>6
  <2> QED BY <2>1, <2>6, <2>7, <2>8
<1>7. Nat \subseteq N
  <2> HIDE DEF N
  <2> QED BY <1>5, <1>6, SetInduction
<1>8. ASSUME NEW r \in 1..(m + 1)
      PROVE  BrokenBefore(s, r) \in Nat /\ LineIn(t, n + r) = LineIn(t, n + 1) + BrokenBefore(s, r)
  <2>1. PICK k \in Nat : r = k + 1
    <3>1. r - 1 \in Nat /\ r = (r - 1) + 1
      BY <1>4
    <3> QED BY <3>1
  <2>2. k \in N /\ k + 1 <= m + 1
    BY <1>4, <1>7, <2>1
  <2>3. LineIn(s, r) \in Nat /\ LineIn(t, n + r) = LineIn(t, n + 1) + LineIn(s, r) - 1
    BY <2>1, <2>2
  <2>4. LineIn(s, r) = 1 + BrokenBefore(s, r)
    BY DEF LineIn
  <2>5. BrokenBefore(s, r) \in Nat
    <3>1. PICK B : B = {j \in 1..(r - 1) : s[j] = "nl"}
      OBVIOUS
    <3>2. IsFiniteSet(1..(r - 1)) /\ B \in SUBSET (1..(r - 1))
      <4>1. 1 \in Int /\ r - 1 \in Int
        BY <1>4
      <4>2. IsFiniteSet(1..(r - 1))
        BY <4>1, FS_Interval
      <4> QED BY <3>1, <4>2
    <3>3. IsFiniteSet(B)
      BY <3>2, FS_Subset
    <3> QED BY <3>1, <3>3, FS_CardinalityType DEF BrokenBefore
  <2> QED BY <1>4, <2>3, <2>4, <2>5
<1>9. Breaks(s) = BrokenBefore(s, m + 1)
  <2>1. (m + 1) - 1 = m
    BY <1>4
  <2> QED BY <1>2, <2>1 DEF Breaks, BrokenBefore
<1>10. m + 1 \in 1..(m + 1) /\ n + (m + 1) = q + 1 /\ \A r \in 1..m : r \in 1..(m + 1)
  BY <1>1, <1>4
<1> QED BY <1>1, <1>2, <1>3, <1>8, <1>9, <1>10 DEF s

-------------------------------------------------------------------------------
(* The symbols that make their line a line of code, and these lines, from  *)
(* symbol n + 1 to symbol q.                                               *)
CodeIn(t, i) ==
  \/ Kind(Scanned(t), i) \in Strings
  \/ Kind(Scanned(t), i) = "code" /\ t[i] \notin Blanks
LinesOfCode(t, n, q) == {LineIn(t, i) : i \in {j \in (n + 1)..q : CodeIn(t, j)}}

(* An insight of each kind of token.                                       *)
LEMMA InsightIs ==
  ASSUME NEW tok
  PROVE  LET i == Insight(tok)
             printed == Printed(tok.content)
         IN  /\ i.start = tok.start /\ i.end = tok.end /\ i.isCode = IsCode(tok)
             /\ i = [ start |-> i.start, end |-> i.end, isCode |-> i.isCode,
                      info |-> i.info, first |-> i.first, last |-> i.last ]
             /\ tok.kind \in Strings => i.info = tok.end - tok.start + 1 /\ i.first = 0 /\ i.last = TRUE
             /\ tok.kind = "code" =>
                  /\ i.info = Cardinality(printed)
                  /\ i.first = IF printed = {} THEN -1 ELSE Min(printed)
                  /\ i.last = (Breaks(tok.content) \in printed)
             /\ tok.kind \in Comments => i.info = 0 /\ i.first = -1 /\ i.last = TRUE
<1>1. "code" \notin Strings /\ "code" \notin Comments /\ Strings \cap Comments = {}
  BY DEF Strings, Comments
<1>2. CASE tok.kind \in Strings
  BY <1>1, <1>2 DEF Insight
<1>3. CASE tok.kind = "code"
  BY <1>1, <1>3 DEF Insight
<1>4. CASE tok.kind \notin Strings /\ tok.kind # "code"
  BY <1>1, <1>4 DEF Insight
<1> QED BY <1>2, <1>3, <1>4

LEMMA MinOfNumbers ==
  ASSUME NEW s \in SUBSET Nat, s # {}
  PROVE  Min(s) \in s /\ \A x \in s : Min(s) <= x
<1> DEFINE rank == [x \in s |-> x]
<1>1. \A x \in s : rank[x] \in Nat
  OBVIOUS
<1>2. PICK m \in s : \A x \in s : rank[m] <= rank[x]
  <2> HIDE DEF rank
  <2> QED BY <1>1, LeastElement
<1>3. \A x \in s : m <= x
  BY <1>2
<1>4. Min(s) \in s /\ \A y \in s : Min(s) <= y
  BY <1>3 DEF Min
<1> QED BY <1>4

(* As many lines as numbers, whatever line they are counted from. *)
Moved(P, a, L) ==
  P \in SUBSET Nat /\ IsFiniteSet(P) /\ a \in Nat /\ L = {a + r : r \in P}
LEMMA MovedLines ==
  ASSUME NEW P, NEW a, NEW L, Moved(P, a, L)
  PROVE  IsFiniteSet(L) /\ Cardinality(L) = Cardinality(P)
<1> DEFINE F == [r \in P |-> a + r]
<1>0. P \in SUBSET Nat /\ IsFiniteSet(P) /\ a \in Nat /\ L = {a + r : r \in P}
  BY DEF Moved
<1>1. F \in [P -> L]
  <2>1. \A r \in P : a + r \in L
    BY <1>0
  <2> QED BY <2>1
<1>2. \A r \in P : F[r] = a + r
  OBVIOUS
<1>3. ASSUME NEW r \in P, NEW u \in P, F[r] = F[u] PROVE r = u
  <2>1. r \in Nat /\ u \in Nat /\ a \in Nat /\ a + r = a + u
    BY <1>0, <1>2, <1>3
  <2> QED BY <2>1
<1>4. \A l \in L : \E r \in P : F[r] = l
  BY <1>0, <1>2
<1> HIDE DEF F
<1>5. F \in Bijection(P, L)
  BY <1>1, <1>3, <1>4, Fun_IsBij
<1>6. ExistsBijection(P, L)
  BY <1>5 DEF ExistsBijection
<1> QED BY <1>0, <1>6, FS_Bijection

(* What is known of a string, *)
LEMMA InsightOfString ==
  ASSUME NEW t \in Seq(Symbols), NEW tok \in ReadTokens, NEW n, NEW q, Piece(t, tok, n, q),
         tok.kind \in Strings,
         NEW i, i = Insight(tok), NEW L, L = LinesOfCode(t, n, q), NEW a, a = LineIn(t, n + 1), NEW b, b = LineIn(t, q)
  PROVE  /\ Sound(i) /\ i.isCode /\ i.start = a /\ i.end = b /\ i.last /\ i.first = 0
         /\ IsFiniteSet(L) /\ Cardinality(L) = i.info /\ L \subseteq a..b
         /\ a \in L /\ b \in L
<1>1. /\ n \in Nat /\ q \in Nat /\ n < q /\ q <= Len(t) /\ Len(t) \in Nat
      /\ tok.start = a /\ tok.end = b /\ \A j \in (n + 1)..q : Kind(Scanned(t), j) = tok.kind
  BY LinesInPiece DEF Piece, ReadFrom
<1>2. /\ i.start = a /\ i.end = b /\ i.isCode = IsCode(tok)
      /\ i.info = b - a + 1 /\ i.first = 0 /\ i.last = TRUE
      /\ i = [ start |-> i.start, end |-> i.end, isCode |-> i.isCode,
               info |-> i.info, first |-> i.first, last |-> i.last ]
  BY <1>1, InsightIs
<1>3. IsCode(tok)
  BY DEF IsCode, Strings, Comments
<1>4. i.isCode = TRUE
  BY <1>2, <1>3 DEF IsCode
<1>5. n + 1 \in 1..(Len(t) + 1) /\ q \in 1..(Len(t) + 1) /\ n + 1 <= q
  BY <1>1
<1>6. /\ a \in Nat /\ b \in Nat /\ a <= b
      /\ \A l \in a..b : \E k \in (n + 1)..q : LineIn(t, k) = l
  BY <1>5, LinesAscend
<1>7. \A k \in (n + 1)..q : LineIn(t, k) \in a..b
  <2>1. ASSUME NEW k \in (n + 1)..q PROVE LineIn(t, k) \in a..b
    <3>1. k \in 1..(Len(t) + 1) /\ n + 1 <= k /\ k <= q
      BY <1>1
    <3>2. a <= LineIn(t, k) /\ LineIn(t, k) <= b /\ LineIn(t, k) \in Nat
      BY <1>5, <3>1, LinesAscend
    <3> QED BY <1>6, <3>2
  <2> QED BY <2>1
<1>8. L = a..b
  <2>1. L = {LineIn(t, k) : k \in (n + 1)..q}
    BY <1>1 DEF LinesOfCode, CodeIn
  <2> QED BY <1>6, <1>7, <2>1
<1>9. IsFiniteSet(a..b) /\ Cardinality(a..b) = b - a + 1
  <2>1. a \in Int /\ b \in Int /\ ~(a > b)
    BY <1>6
  <2> QED BY <2>1, FS_Interval
<1>10. i \in Insights
  <2>1. PICK x \in Int : x = i.info
    BY <1>2, <1>6
  <2>2. i = [start |-> a, end |-> b, isCode |-> TRUE, info |-> x, first |-> 0, last |-> TRUE]
    BY <1>2, <1>4, <2>1
  <2>3. a \in Nat /\ b \in Nat /\ 0 \in Int
    BY <1>6
  <2> QED BY <2>1, <2>2, <2>3 DEF Insights
<1>11. Sound(i)
  BY <1>2, <1>4, <1>6, <1>10 DEF Sound
<1> QED BY <1>2, <1>4, <1>6, <1>8, <1>9, <1>11

(* of a comment, *)
LEMMA InsightOfComment ==
  ASSUME NEW t \in Seq(Symbols), NEW tok \in ReadTokens, NEW n, NEW q, Piece(t, tok, n, q),
         tok.kind \in Comments,
         NEW i, i = Insight(tok), NEW L, L = LinesOfCode(t, n, q)
  PROVE  Sound(i) /\ ~i.isCode /\ i.info = 0 /\ i.first = -1 /\ L = {}
<1>1. /\ n \in Nat /\ q \in Nat /\ n < q /\ q <= Len(t) /\ Len(t) \in Nat
      /\ \A j \in (n + 1)..q : Kind(Scanned(t), j) = tok.kind
  BY LinesInPiece DEF Piece, ReadFrom
<1>2. /\ i.start = tok.start /\ i.end = tok.end /\ i.isCode = IsCode(tok)
      /\ i.info = 0 /\ i.first = -1 /\ i.last = TRUE
      /\ i = [ start |-> i.start, end |-> i.end, isCode |-> i.isCode,
               info |-> i.info, first |-> i.first, last |-> i.last ]
  BY InsightIs
<1>3. i.isCode = FALSE
  BY <1>2 DEF IsCode
<1>4. i \in Insights
  <2>1. tok.start \in Nat /\ tok.end \in Nat
    BY DEF ReadTokens
  <2>2. i = [start |-> tok.start, end |-> tok.end, isCode |-> FALSE, info |-> 0, first |-> -1, last |-> TRUE]
    BY <1>2, <1>3
  <2>3. 0 \in Int /\ -1 \in Int
    OBVIOUS
  <2> QED BY <2>1, <2>2, <2>3 DEF Insights
<1>5. Sound(i)
  BY <1>2, <1>3, <1>4 DEF Sound
<1>6. \A j \in (n + 1)..q : ~CodeIn(t, j)
  BY <1>1 DEF CodeIn, Comments, Strings
<1>7. L = {}
  BY <1>6 DEF LinesOfCode
<1> QED BY <1>2, <1>3, <1>5, <1>7

-------------------------------------------------------------------------------
(* and of code: its lines are those printed in, counted from its first.    *)
LEMMA InsightOfCode ==
  ASSUME NEW t \in Seq(Symbols), NEW tok \in ReadTokens, NEW n, NEW q, Piece(t, tok, n, q),
         tok.kind = "code",
         NEW i, i = Insight(tok), NEW L, L = LinesOfCode(t, n, q), NEW a, a = LineIn(t, n + 1),
         NEW b, b = LineIn(t, q), NEW z, z = LineIn(t, q + 1),
         a \in Nat, b \in Nat, z \in Nat, a <= b, b <= z, z <= b + 1,
         \A k \in (n + 1)..q : LineIn(t, k) \in a..b
  PROVE  /\ Sound(i) /\ i.isCode /\ i.start = a /\ i.end = b
         /\ IsFiniteSet(L) /\ Cardinality(L) = i.info /\ L \subseteq a..b
         /\ i.first = 0 <=> a \in L
         /\ i.last <=> z \in L
<1>1. PICK m, s : m = q - n /\ s = tok.content
  OBVIOUS
<1>2. /\ n \in Nat /\ q \in Nat /\ n < q /\ q <= Len(t) /\ Len(t) \in Nat /\ m \in Nat
      /\ DOMAIN s = 1..m
      /\ \A r \in 1..m : s[r] = t[n + r] /\ n + r \in 1..Len(t)
      /\ \A r \in 1..m : BrokenBefore(s, r) \in Nat /\ LineIn(t, n + r) = a + BrokenBefore(s, r)
      /\ Breaks(s) \in Nat /\ z = a + Breaks(s)
  <2>1. /\ n \in Nat /\ q \in Nat /\ n < q /\ q <= Len(t) /\ Len(t) \in Nat
        /\ DOMAIN tok.content = 1..(q - n)
        /\ \A r \in 1..(q - n) : tok.content[r] = t[n + r] /\ n + r \in 1..Len(t)
        /\ \A r \in 1..(q - n) :
             BrokenBefore(tok.content, r) \in Nat /\ LineIn(t, n + r) = LineIn(t, n + 1) + BrokenBefore(tok.content, r)
        /\ Breaks(tok.content) \in Nat /\ LineIn(t, q + 1) = LineIn(t, n + 1) + Breaks(tok.content)
    BY LinesInPiece
  <2>2. m \in Nat
    BY <1>1, <2>1
  <2> QED BY <1>1, <2>1, <2>2
<1>3. PICK P : P = Printed(s)
  OBVIOUS
<1>4. tok.start = a /\ tok.end = b /\ \A j \in (n + 1)..q : Kind(Scanned(t), j) = "code"
  BY DEF Piece, ReadFrom
<1>5. \A j \in (n + 1)..q : CodeIn(t, j) <=> t[j] \notin Blanks
  BY <1>4 DEF CodeIn, Strings
<1>6. P = {BrokenBefore(s, r) : r \in {j \in 1..m : s[j] \notin Blanks}}
  BY <1>2, <1>3 DEF Printed
<1>7. \A r \in 1..m : n + r \in (n + 1)..q
  BY <1>1, <1>2
<1>8. P \in SUBSET (0..(b - a))
  <2>1. ASSUME NEW r \in 1..m PROVE BrokenBefore(s, r) \in 0..(b - a)
    <3>1. LineIn(t, n + r) \in a..b /\ LineIn(t, n + r) = a + BrokenBefore(s, r) /\ BrokenBefore(s, r) \in Nat
      BY <1>2, <1>7
    <3> QED BY <3>1
  <2> QED BY <1>6, <2>1
<1>9. P \in SUBSET Nat /\ IsFiniteSet(P)
  <2>1. 0 \in Int /\ b - a \in Int
    OBVIOUS
  <2>2. PICK S : S = 0..(b - a)
    OBVIOUS
  <2>3. IsFiniteSet(S) /\ P \in SUBSET S
    BY <1>8, <2>1, <2>2, FS_Interval
  <2>4. IsFiniteSet(P)
    BY <2>3, FS_Subset
  <2>5. S \subseteq Nat
    BY <2>2
  <2> QED BY <2>3, <2>4, <2>5
<1>10. L = {a + r : r \in P}
  <2>1. ASSUME NEW l \in L PROVE \E r \in P : l = a + r
    <3>1. PICK j \in (n + 1)..q : CodeIn(t, j) /\ l = LineIn(t, j)
      BY DEF LinesOfCode
    <3>2. PICK r \in 1..m : j = n + r
      <4>1. j - n \in 1..m /\ j = n + (j - n)
        BY <1>1, <1>2
      <4> QED BY <4>1
    <3>3. s[r] \notin Blanks /\ l = a + BrokenBefore(s, r)
      BY <1>2, <1>5, <3>1, <3>2
    <3> QED BY <1>6, <3>3
  <2>2. ASSUME NEW r \in P PROVE a + r \in L
    <3>1. PICK k \in 1..m : s[k] \notin Blanks /\ r = BrokenBefore(s, k)
      BY <1>6
    <3>2. n + k \in (n + 1)..q /\ CodeIn(t, n + k) /\ LineIn(t, n + k) = a + r
      BY <1>2, <1>5, <1>7, <3>1
    <3> QED BY <3>2 DEF LinesOfCode
  <2> QED BY <2>1, <2>2
<1>11. IsFiniteSet(L) /\ Cardinality(L) = Cardinality(P) /\ Cardinality(P) \in Nat
  <2>1. Cardinality(P) \in Nat
    BY <1>9, FS_CardinalityType
  <2>2. IsFiniteSet(L) /\ Cardinality(L) = Cardinality(P)
    <3>1. Moved(P, a, L)
      BY <1>9, <1>10 DEF Moved
    <3> QED BY <3>1, MovedLines
  <2> QED BY <2>1, <2>2
<1>12. L \subseteq a..b
  BY <1>8, <1>10
<1>13. /\ i.start = a /\ i.end = b /\ i.isCode = IsCode(tok) /\ i.info = Cardinality(P)
       /\ i.first = IF P = {} THEN -1 ELSE Min(P)
       /\ i.last = (Breaks(s) \in P)
       /\ i = [ start |-> i.start, end |-> i.end, isCode |-> i.isCode,
                info |-> i.info, first |-> i.first, last |-> i.last ]
  BY <1>1, <1>3, <1>4, InsightIs
<1>14. i.isCode = TRUE
  BY <1>13 DEF IsCode, Comments
<1>15. P # {} => Min(P) \in P /\ \A x \in P : Min(P) <= x
  BY <1>9, MinOfNumbers
<1>16. i.first = 0 <=> 0 \in P
  <2>1. CASE P = {}
    BY <1>13, <2>1
  <2>2. CASE P # {}
    <3>1. Min(P) \in Nat /\ Min(P) \in P /\ (0 \in P => Min(P) <= 0)
      BY <1>9, <1>15, <2>2
    <3>2. i.first = Min(P)
      BY <1>13, <2>2
    <3> QED BY <3>1, <3>2
  <2> QED BY <2>1, <2>2
<1>17. i.first = 0 <=> a \in L
  <2>1. ASSUME 0 \in P PROVE a \in L
    <3>1. a + 0 = a
      OBVIOUS
    <3> QED BY <1>10, <2>1, <3>1
  <2>2. ASSUME a \in L PROVE 0 \in P
    <3>1. PICK r \in P : a = a + r
      BY <1>10, <2>2
    <3>2. r \in Nat
      BY <1>9
    <3>3. r = 0
      BY <3>1, <3>2
    <3> QED BY <3>3
  <2> QED BY <1>16, <2>1, <2>2
<1>18. i.last <=> Breaks(s) \in P
  BY <1>13
<1>19. Breaks(s) \in P <=> z \in L
  BY <1>2, <1>9, <1>10
<1>20. i.first \in Int /\ (i.first = -1 <=> P = {})
  <2>1. CASE P = {}
    BY <1>13, <2>1
  <2>2. CASE P # {}
    <3>1. Min(P) \in Nat /\ i.first = Min(P)
      BY <1>9, <1>13, <1>15, <2>2
    <3> QED BY <2>2, <3>1
  <2> QED BY <2>1, <2>2
<1>21. Cardinality(P) = 0 <=> P = {}
  BY <1>9, FS_EmptySet
<1>22. i \in Insights
  <2>1. PICK x, y, w : x = i.info /\ y = i.first /\ w = i.last
    OBVIOUS
  <2>2. x \in Int /\ y \in Int
    BY <1>11, <1>13, <1>20, <2>1
  <2>3. w \in BOOLEAN
    BY <1>13, <2>1
  <2>4. i = [start |-> a, end |-> b, isCode |-> TRUE, info |-> x, first |-> y, last |-> w]
    BY <1>13, <1>14, <2>1
  <2> QED BY <2>2, <2>3, <2>4 DEF Insights
<1>23. Sound(i)
  <2>1. i.first = -1 => i.info = 0
    BY <1>13, <1>20, <1>21
  <2>2. i.first = 0 => i.info >= 1
    <3>1. i.first = 0 => Cardinality(P) # 0
      BY <1>16, <1>21
    <3> QED BY <1>11, <1>13, <3>1
  <2>3. i.last => i.first # -1
    BY <1>18, <1>20
  <2> QED BY <1>14, <1>22, <2>1, <2>2, <2>3 DEF Sound
<1> QED BY <1>11, <1>12, <1>13, <1>14, <1>17, <1>18, <1>19, <1>23

(* A piece of code on one line, with nothing printed, is blanks. *)
LEMMA NothingPrinted ==
  ASSUME NEW t \in Seq(Symbols), NEW tok, NEW n, NEW q, Piece(t, tok, n, q), tok.kind = "code",
         LinesOfCode(t, n, q) = {}, LineIn(t, n + 1) = LineIn(t, q + 1)
  PROVE  OnlyBlanks(tok)
<1>1. PICK m, s : m = q - n /\ s = tok.content
  OBVIOUS
<1>2. /\ n \in Nat /\ q \in Nat /\ n < q /\ q <= Len(t) /\ Len(t) \in Nat /\ m \in Nat /\ m >= 1
      /\ DOMAIN s = 1..m
      /\ \A r \in 1..m : s[r] = t[n + r] /\ n + r \in 1..Len(t)
      /\ \A j \in (n + 1)..q : Kind(Scanned(t), j) = "code"
  BY <1>1, LinesInPiece DEF Piece, ReadFrom
<1>3. ASSUME NEW r \in 1..m PROVE s[r] = " "
  <2>1. PICK k : k = n + r
    OBVIOUS
  <2>2. k \in (n + 1)..q /\ s[r] = t[k] /\ k \in 1..Len(t) /\ k \in Nat
    BY <1>1, <1>2, <2>1
  <2>3. t[k] \in Blanks
    BY <1>2, <2>2 DEF LinesOfCode, CodeIn
  <2>4. t[k] # "nl"
    <3> SUFFICES ASSUME t[k] = "nl" PROVE FALSE
      OBVIOUS
    <3>1. /\ n + 1 \in 1..(Len(t) + 1) /\ k \in 1..(Len(t) + 1) /\ k + 1 \in 1..(Len(t) + 1)
          /\ q + 1 \in 1..(Len(t) + 1) /\ n + 1 <= k /\ k + 1 <= q + 1
      BY <1>2, <2>2
    <3>2. LineIn(t, n + 1) <= LineIn(t, k) /\ LineIn(t, k) \in Nat /\ LineIn(t, n + 1) \in Nat
      BY <3>1, LinesAscend
    <3>3. LineIn(t, k + 1) <= LineIn(t, q + 1) /\ LineIn(t, q + 1) \in Nat
      BY <3>1, LinesAscend
    <3>4. LineIn(t, k + 1) = LineIn(t, k) + 1
      BY <2>2, LineGoesOn
    <3> QED BY <3>2, <3>3, <3>4
  <2> QED BY <2>2, <2>3, <2>4 DEF Blanks
<1>4. ToSet(s) = {" "}
  <2>1. 1 \in 1..m
    BY <1>2
  <2> QED BY <1>2, <1>3, <2>1 DEF ToSet
<1> QED BY <1>1, <1>4 DEF OnlyBlanks

(* What is known of any piece. *)
Shown(t, tok, n, q, i, L) ==
  /\ Sound(i) /\ i.isCode = IsCode(tok) /\ i.start = LineIn(t, n + 1) /\ i.end = LineIn(t, q)
  /\ IsFiniteSet(L) /\ Cardinality(L) = i.info /\ L \subseteq i.start..i.end
  /\ i.first = 0 <=> i.start \in L
  /\ i.isCode /\ i.last => i.end \in L
  /\ ~i.isCode => L = {}
  /\ i.isCode /\ ~i.last =>
       /\ LineIn(t, q + 1) \notin L
       /\ L = {} /\ i.start = LineIn(t, q + 1) => OnlyBlanks(tok)
LEMMA InsightOfPiece ==
  ASSUME NEW t \in Seq(Symbols), NEW tok \in ReadTokens, NEW n, NEW q, Piece(t, tok, n, q),
         NEW i, i = Insight(tok), NEW L, L = LinesOfCode(t, n, q)
  PROVE  /\ Shown(t, tok, n, q, i, L)
         /\ n \in Nat /\ q \in Nat /\ n < q /\ q <= Len(t)
         /\ i.start \in Nat /\ i.end \in Nat /\ LineIn(t, q + 1) \in Nat
         /\ i.start <= i.end /\ i.end <= LineIn(t, q + 1) /\ LineIn(t, q + 1) <= i.end + 1
<1>1. PICK a, b, z : a = LineIn(t, n + 1) /\ b = LineIn(t, q) /\ z = LineIn(t, q + 1)
  OBVIOUS
<1>2. n \in Nat /\ q \in Nat /\ n < q /\ q <= Len(t) /\ Len(t) \in Nat
  BY LinesInPiece
<1>3. n + 1 \in 1..(Len(t) + 1) /\ q \in 1..(Len(t) + 1) /\ n + 1 <= q /\ q \in 1..Len(t)
  BY <1>2
<1>4. a \in Nat /\ b \in Nat /\ a <= b
  BY <1>1, <1>3, LinesAscend
<1>5. z \in Nat /\ b <= z /\ z <= b + 1
  <2>1. z = b + IF t[q] = "nl" THEN 1 ELSE 0
    BY <1>1, <1>3, LineGoesOn
  <2> QED BY <1>4, <2>1
<1>6. ASSUME NEW k \in (n + 1)..q PROVE LineIn(t, k) \in a..b
  <2>1. k \in 1..(Len(t) + 1) /\ n + 1 <= k /\ k <= q
    BY <1>2
  <2>2. a <= LineIn(t, k) /\ LineIn(t, k) <= b /\ LineIn(t, k) \in Nat
    BY <1>1, <1>3, <2>1, LinesAscend
  <2> QED BY <1>4, <2>2
<1>7. i.start = a /\ i.end = b /\ i.isCode = IsCode(tok)
  BY <1>1, InsightIs DEF Piece
<1>8. CASE tok.kind \in Strings
  <2>1. /\ Sound(i) /\ i.isCode /\ i.last /\ i.first = 0
        /\ IsFiniteSet(L) /\ Cardinality(L) = i.info /\ L \subseteq a..b /\ a \in L /\ b \in L
    BY <1>1, <1>8, InsightOfString
  <2>2. Shown(t, tok, n, q, i, L)
    BY <1>1, <1>7, <2>1 DEF Shown
  <2> QED BY <1>1, <1>2, <1>4, <1>5, <1>7, <2>2
<1>9. CASE tok.kind \in Comments
  <2>1. Sound(i) /\ ~i.isCode /\ i.info = 0 /\ i.first = -1 /\ L = {}
    BY <1>9, InsightOfComment
  <2>2. IsFiniteSet({}) /\ Cardinality({}) = 0
    BY FS_EmptySet
  <2>3. Shown(t, tok, n, q, i, L)
    BY <1>1, <1>7, <2>1, <2>2 DEF Shown
  <2> QED BY <1>1, <1>2, <1>4, <1>5, <1>7, <2>3
<1>10. CASE tok.kind = "code"
  <2>1. /\ Sound(i) /\ i.isCode
        /\ IsFiniteSet(L) /\ Cardinality(L) = i.info /\ L \subseteq a..b
        /\ i.first = 0 <=> a \in L
        /\ i.last <=> z \in L
    BY <1>1, <1>4, <1>5, <1>6, <1>10, InsightOfCode
  <2>2. i.last => b \in L
    BY <1>4, <1>5, <2>1
  <2>3. L = {} /\ a = z => OnlyBlanks(tok)
    BY <1>1, <1>10, NothingPrinted
  <2>4. Shown(t, tok, n, q, i, L)
    BY <1>1, <1>7, <2>1, <2>2, <2>3 DEF Shown
  <2> QED BY <1>1, <1>2, <1>4, <1>5, <1>7, <2>4
<1>11. tok.kind \in Strings \/ tok.kind \in Comments \/ tok.kind = "code"
  BY DEF ReadTokens, Kinds
<1> QED BY <1>8, <1>9, <1>10, <1>11

-------------------------------------------------------------------------------
(* The lines of code of each piece, one piece after the other.             *)
Shares(tok, i, L, next) ==
  /\ IsFiniteSet(L) /\ Cardinality(L) = i.info /\ L \subseteq i.start..i.end
  /\ i.first = 0 <=> i.start \in L
  /\ i.isCode /\ i.last => i.end \in L
  /\ ~i.isCode => L = {}
  /\ i.isCode /\ ~i.last => next \notin L /\ (L = {} /\ i.start = next => OnlyBlanks(tok))
Laid(ts, v, Ls) ==
  /\ v \in Seq(Insights)
  /\ \A k \in 1..Len(v) : Sound(v[k]) /\ v[k].start <= v[k].end
  /\ \A k \in 1..Len(v) : \A l \in 1..Len(v) : k < l => v[k].end <= v[l].start
  /\ \A k \in 1..Len(v) : IsFiniteSet(Ls[k])
  /\ \A k \in 1..(Len(v) - 1) : Shares(ts[k], v[k], Ls[k], v[k + 1].start)
  /\ \A k \in 1..Len(v) : \E next : Shares(ts[k], v[k], Ls[k], next)
LinesUpTo(Ls, n) == UNION {Ls[j] : j \in 1..n}

(* The pieces of a text are laid so.                                       *)
LEMMA PiecesAreLaid ==
  ASSUME NEW t \in Seq(Symbols), NEW ts \in Seq(ReadTokens), NEW at, Cut(t, ts, at),
         \A k \in 1..Len(ts) : \A l \in 1..Len(ts) : k < l => ts[k].end <= ts[l].start
  PROVE  Laid(ts, [k \in DOMAIN ts |-> Insight(ts[k])], [k \in 1..Len(ts) |-> LinesOfCode(t, at[k], at[k + 1])])
<1> DEFINE v == [k \in DOMAIN ts |-> Insight(ts[k])]
           Ls == [k \in 1..Len(ts) |-> LinesOfCode(t, at[k], at[k + 1])]
<1>1. PICK top \in Nat : top = Len(ts) /\ DOMAIN ts = 1..top
  OBVIOUS
<1>2. ASSUME NEW k \in 1..top
      PROVE  /\ Shown(t, ts[k], at[k], at[k + 1], v[k], Ls[k]) /\ v[k].start <= v[k].end
             /\ v[k].start = ts[k].start /\ v[k].end = ts[k].end
             /\ ts[k].start = LineIn(t, at[k] + 1)
  <2>1. Piece(t, ts[k], at[k], at[k + 1]) /\ ts[k] \in ReadTokens
    BY <1>1 DEF Cut
  <2>2. PICK tok, n, q, i, L : /\ tok = ts[k] /\ n = at[k] /\ q = at[k + 1]
                               /\ i = Insight(tok) /\ L = LinesOfCode(t, n, q)
    OBVIOUS
  <2>3. Shown(t, tok, n, q, i, L) /\ i.start <= i.end
    BY <2>1, <2>2, InsightOfPiece
  <2>4. i.start = tok.start /\ i.end = tok.end
    BY <2>2, InsightIs
  <2>5. tok.start = LineIn(t, n + 1)
    BY <2>1, <2>2 DEF Piece
  <2>6. v[k] = i /\ Ls[k] = L
    BY <1>1, <2>2
  <2> QED BY <2>2, <2>3, <2>4, <2>5, <2>6
<1>3. \A k \in 1..top : v[k] \in Insights
  BY <1>2 DEF Shown, Sound
<1>4. v \in Seq(Insights) /\ Len(v) = top
  <2>1. v \in [1..top -> Insights]
    BY <1>1, <1>3
  <2> HIDE DEF v
  <2>2. v \in Seq(Insights) /\ DOMAIN v = 1..top
    BY <1>1, <2>1
  <2>3. Len(v) \in Nat /\ DOMAIN v = 1..Len(v)
    BY <2>2
  <2> QED BY <1>1, <2>2, <2>3
<1> HIDE DEF v, Ls
<1>5. ASSUME NEW k \in 1..top PROVE Shares(ts[k], v[k], Ls[k], LineIn(t, at[k + 1] + 1))
  BY <1>2 DEF Shown, Shares
<1>6. ASSUME NEW k \in 1..(top - 1) PROVE Shares(ts[k], v[k], Ls[k], v[k + 1].start)
  <2>1. k \in 1..top /\ k + 1 \in 1..top
    BY <1>1
  <2>2. v[k + 1].start = LineIn(t, at[k + 1] + 1)
    BY <1>2, <2>1
  <2> QED BY <1>5, <2>1, <2>2
<1>7. \A k \in 1..top : \A l \in 1..top : k < l => v[k].end <= v[l].start
  BY <1>1, <1>2
<1>8. \A k \in 1..top : Sound(v[k]) /\ v[k].start <= v[k].end /\ IsFiniteSet(Ls[k])
  BY <1>2 DEF Shown
<1>9. Laid(ts, v, Ls)
  <2>1. \A k \in 1..top : \E next : Shares(ts[k], v[k], Ls[k], next)
    BY <1>5
  <2> QED BY <1>4, <1>6, <1>7, <1>8, <2>1 DEF Laid
<1> QED BY <1>9 DEF v, Ls

(* A piece shares at most the line it begins on with those before it: it   *)
(* does where it goes on, and nowhere else unless a piece is blank.        *)
LEMMA LinesShared ==
  ASSUME NEW ts, NEW v, NEW Ls, Laid(ts, v, Ls), NEW n \in Nat, n + 1 <= Len(v),
         NEW p, LastOfCode(v, n, p), NEW i, i = v[n + 1], NEW L, L = Ls[n + 1],
         NEW U, U = LinesUpTo(Ls, n)
  PROVE  /\ U \cap L \subseteq {i.start}
         /\ GoesOn(v, p, i) => i.start \in U \cap L
         /\ i.start \in U \cap L /\ ~GoesOn(v, p, i) => p \in 1..n /\ OnlyBlanks(ts[p])
<1>1. PICK top \in Nat : top = Len(v)
  BY DEF Laid
<1>2. /\ n + 1 \in 1..top /\ v[n + 1] = i /\ n + 1 \in Nat
      /\ \A k \in 1..n : k \in 1..top /\ k < n + 1 /\ k \in 1..(top - 1) /\ k + 1 \in 1..top /\ k \in Nat
  BY <1>1
<1>3. \A k \in 1..top : v[k].start \in Nat /\ v[k].end \in Nat /\ v[k].start <= v[k].end
  <2>1. \A k \in 1..top : v[k] \in Insights /\ v[k].start <= v[k].end
    BY <1>1 DEF Laid, Sound
  <2>2. \A x \in Insights : x.start \in Nat /\ x.end \in Nat
    BY DEF Insights
  <2> QED BY <2>1, <2>2
<1>4. \A k \in 1..n : v[k].end <= i.start
  BY <1>1, <1>2 DEF Laid
<1>5. /\ L \subseteq i.start..i.end
      /\ i.first = 0 <=> i.start \in L
  BY <1>1, <1>2 DEF Laid, Shares
<1>6. \A k \in 1..n : Shares(ts[k], v[k], Ls[k], v[k + 1].start)
  BY <1>1, <1>2 DEF Laid
<1>7. \A x \in U : \E j \in 1..n : x \in Ls[j]
  BY DEF LinesUpTo
<1>8. p \in 0..n /\ (p # 0 => v[p].isCode) /\ \A j \in (p + 1)..n : ~v[j].isCode
  BY DEF LastOfCode
<1>9. ASSUME NEW x \in U, x \in L PROVE x = i.start
  <2>1. PICK j \in 1..n : x \in Ls[j]
    BY <1>7, <1>9
  <2>2. x \in v[j].start..v[j].end
    BY <1>6, <2>1 DEF Shares
  <2>3. x \in i.start..i.end
    BY <1>5, <1>9
  <2>4. v[j].end <= i.start /\ v[j].end \in Nat /\ v[j].start \in Nat /\ i.start \in Nat /\ i.end \in Nat
    BY <1>2, <1>3, <1>4
  <2> QED BY <2>2, <2>3, <2>4
<1>10. ASSUME GoesOn(v, p, i) PROVE i.start \in U /\ i.start \in L
  <2>1. p \in 1..n /\ v[p].isCode /\ v[p].last /\ v[p].end = i.start /\ i.first = 0
    BY <1>8, <1>10 DEF GoesOn
  <2>2. v[p].end \in Ls[p]
    BY <1>6, <2>1 DEF Shares
  <2>3. i.start \in U
    BY <2>1, <2>2 DEF LinesUpTo
  <2> QED BY <1>5, <2>1, <2>3
<1>11. ASSUME i.start \in U, i.start \in L, ~GoesOn(v, p, i) PROVE p \in 1..n /\ OnlyBlanks(ts[p])
  <2>1. PICK a : a = i.start
    OBVIOUS
  <2>2. PICK j \in 1..n : a \in Ls[j]
    BY <1>7, <1>11, <2>1
  <2>3. v[j].isCode /\ a \in v[j].start..v[j].end
    BY <1>6, <2>2 DEF Shares
  <2>4. p \in 1..n /\ j <= p
    <3>1. ~(j \in (p + 1)..n)
      BY <1>8, <2>3
    <3> QED BY <1>8, <2>2, <3>1
  <2>5. a \in Nat /\ v[j].start \in Nat /\ v[j].end = a
    <3>1. v[j].end <= a /\ v[j].end \in Nat /\ a \in Nat /\ v[j].start \in Nat
      BY <1>2, <1>3, <1>4, <2>1
    <3> QED BY <2>3, <3>1
  <2>6. v[p].start \in Nat /\ v[p].end \in Nat /\ v[p].start <= v[p].end /\ v[p].end <= a
    BY <1>2, <1>3, <1>4, <2>1, <2>4
  <2>7. j # p => a <= v[p].start
    <3>1. j # p => j < p
      BY <1>2, <2>2, <2>4
    <3>2. j < p => v[j].end <= v[p].start
      BY <1>1, <1>2, <2>2, <2>4 DEF Laid
    <3> QED BY <2>5, <3>1, <3>2
  <2>8. v[p].end = a
    BY <2>5, <2>6, <2>7
  <2>9. i.first = 0
    BY <1>5, <1>11
  <2>10. ~v[p].last
    BY <1>11, <2>1, <2>4, <2>8, <2>9 DEF GoesOn
  <2>11. v[p].isCode
    BY <1>8, <2>4
  <2>12. v[p + 1].start = a
    <3>1. PICK r : r = p + 1
      OBVIOUS
    <3>2. r \in 1..top /\ p \in 1..top /\ p < r /\ (r = n + 1 \/ r \in 1..n)
      BY <1>2, <2>4, <3>1
    <3>3. a <= v[r].start /\ v[r].start \in Nat
      BY <1>1, <1>3, <2>8, <3>2 DEF Laid
    <3>4. CASE r = n + 1
      BY <1>2, <2>1, <3>1, <3>4
    <3>5. CASE r \in 1..n
      <4>1. v[r].end <= a /\ v[r].start <= v[r].end /\ v[r].end \in Nat
        BY <1>3, <1>4, <2>1, <3>2, <3>5
      <4>2. v[r].start = a
        BY <2>5, <3>3, <4>1
      <4> QED BY <3>1, <4>2
    <3> QED BY <3>2, <3>4, <3>5
  <2>13. a \notin Ls[p] /\ (Ls[p] = {} /\ v[p].start = a => OnlyBlanks(ts[p]))
    BY <1>6, <2>4, <2>10, <2>11, <2>12 DEF Shares
  <2>14. j # p
    BY <2>2, <2>13
  <2>15. v[p].start = a
    BY <2>5, <2>6, <2>7, <2>14
  <2>16. Ls[p] = {}
    <3>1. Ls[p] \subseteq a..a
      BY <1>6, <2>4, <2>8, <2>15 DEF Shares
    <3>2. a..a = {a}
      BY <2>5
    <3> QED BY <2>13, <3>1, <3>2
  <2> QED BY <2>4, <2>13, <2>15, <2>16
<1> QED BY <1>9, <1>10, <1>11

-------------------------------------------------------------------------------
(* What is counted of the first pieces is their lines of code, but for     *)
(* what a blank piece hides.                                               *)
CountedOnce(ts, v, Ls, gs, n) ==
  /\ GroupsOf(gs, v, n)
  /\ IsFiniteSet(LinesUpTo(Ls, n))
  /\ \/ Counted(gs) = Cardinality(LinesUpTo(Ls, n))
     \/ /\ Counted(gs) > Cardinality(LinesUpTo(Ls, n))
        /\ \E k \in 1..Len(v) : OnlyBlanks(ts[k])

(* Of no piece, nothing is counted;                                        *)
LEMMA NothingCounted ==
  ASSUME NEW ts, NEW v, NEW Ls
  PROVE  CountedOnce(ts, v, Ls, <<>>, 0)
<1>1. <<>> \in Seq(GroupsOfInsights) /\ DOMAIN <<>> = {}
  OBVIOUS
<1>2. GroupsOfCode(<<>>) = {}
  BY <1>1 DEF GroupsOfCode
<1>3. \A p : LastOfCode(v, 0, p) => p = 0
  BY DEF LastOfCode
<1>4. GroupsOf(<<>>, v, 0)
  BY <1>1, <1>2, <1>3 DEF GroupsOf
<1>5. PICK f : f = [k \in GroupsOfCode(<<>>) |-> Contribution(<<>>[k]) - IF Continues(<<>>, k) THEN 1 ELSE 0]
  OBVIOUS
<1>6. Summable(f, {})
  <2>1. Summable(f, GroupsOfCode(<<>>))
    BY <1>1, <1>5, CountedIs
  <2> QED BY <1>2, <2>1
<1>7. Counted(<<>>) = 0
  <2>1. Counted(<<>>) = SumFunction(f)
    BY <1>5 DEF Counted
  <2> QED BY <1>6, <2>1, SumOfNothing
<1>8. LinesUpTo(Ls, 0) = {}
  BY DEF LinesUpTo
<1> QED BY <1>4, <1>7, <1>8, FS_EmptySet DEF CountedOnce

(* an insight counts the same in a group and apart;                        *)
LEMMA InsightIsGrouped ==
  ASSUME NEW v \in Seq(Insights), NEW n \in Nat, n + 1 <= Len(v), \A k \in 1..Len(v) : Sound(v[k]),
         NEW gs, GroupsOf(gs, v, n), NEW i, i = v[n + 1], NEW hs, hs = AddInsight(gs, i),
         NEW p, LastOfCode(v, n, p)
  PROVE  /\ GroupsOf(hs, v, n + 1)
         /\ Counted(hs) = Counted(gs) + i.info - IF GoesOn(v, p, i) THEN 1 ELSE 0
<1>1. CASE gs # <<>> /\ Joins(gs[Len(gs)], i)
  BY <1>1, InsightJoins
<1>2. CASE ~(gs # <<>> /\ Joins(gs[Len(gs)], i))
  BY <1>2, InsightIsApart
<1> QED BY <1>1, <1>2

LEMMA LastOfCodeExists ==
  ASSUME NEW v, NEW n \in Nat
  PROVE  \E p : LastOfCode(v, n, p)
<1>1. PICK s : s = {j \in 1..n : v[j].isCode}
  OBVIOUS
<1>2. CASE s = {}
  <2>1. LastOfCode(v, n, 0)
    BY <1>1, <1>2 DEF LastOfCode
  <2> QED BY <2>1
<1>3. CASE s # {}
  <2>1. PICK m : m = Max(s)
    OBVIOUS
  <2>2. m \in s /\ \A x \in s : x <= m
    BY <1>1, <1>3, <2>1, MaxOfNumbers
  <2>3. m \in 1..n /\ v[m].isCode
    BY <1>1, <2>2
  <2>4. ASSUME NEW j \in (m + 1)..n PROVE ~v[j].isCode
    <3>1. j \in 1..n /\ ~(j <= m)
      BY <2>3
    <3> QED BY <1>1, <2>2, <3>1
  <2>5. LastOfCode(v, n, m)
    BY <2>3, <2>4 DEF LastOfCode
  <2> QED BY <2>5
<1> QED BY <1>2, <1>3

(* each piece keeps the count right, and so do all of them.                *)
LEMMA PieceIsCounted ==
  ASSUME NEW ts, NEW v, NEW Ls, Laid(ts, v, Ls), NEW n \in Nat, n + 1 <= Len(v),
         NEW gs, CountedOnce(ts, v, Ls, gs, n), NEW hs, hs = AddInsight(gs, v[n + 1])
  PROVE  CountedOnce(ts, v, Ls, hs, n + 1)
<1>1. PICK m, i, L, U : m = n + 1 /\ i = v[m] /\ L = Ls[m] /\ U = LinesUpTo(Ls, n)
  OBVIOUS
<1>2. v \in Seq(Insights) /\ m \in 1..Len(v) /\ Len(v) \in Nat /\ \A k \in 1..Len(v) : Sound(v[k])
  BY <1>1 DEF Laid
<1>3. PICK p : LastOfCode(v, n, p)
  BY LastOfCodeExists
<1>4. /\ GroupsOf(hs, v, m)
      /\ Counted(hs) = Counted(gs) + i.info - IF GoesOn(v, p, i) THEN 1 ELSE 0
  <2>1. GroupsOf(gs, v, n)
    BY DEF CountedOnce
  <2> QED BY <1>1, <1>2, <1>3, <2>1, InsightIsGrouped
<1>5. IsFiniteSet(L) /\ Cardinality(L) = i.info
  BY <1>1, <1>2 DEF Laid, Shares
<1>6. IsFiniteSet(U)
  BY <1>1 DEF CountedOnce
<1>7. LinesUpTo(Ls, m) = U \cup L
  <2>1. 1..m = (1..n) \cup {m}
    BY <1>1
  <2> QED BY <1>1, <2>1 DEF LinesUpTo
<1>8. /\ U \cap L \subseteq {i.start}
      /\ GoesOn(v, p, i) => i.start \in U \cap L
      /\ i.start \in U \cap L /\ ~GoesOn(v, p, i) => p \in 1..n /\ OnlyBlanks(ts[p])
  BY <1>1, <1>3, LinesShared
<1>9. PICK x, y, c, d, w : /\ x = Cardinality(U) /\ y = Cardinality(L) /\ c = Counted(gs)
                           /\ d = Counted(hs) /\ w = Cardinality(U \cap L)
  OBVIOUS
<1>10. x \in Nat /\ y \in Nat /\ IsFiniteSet(U \cup L) /\ Cardinality(U \cup L) = x + y - w
  BY <1>5, <1>6, <1>9, FS_CardinalityType, FS_Union
<1>11. c \in Int
  <2>1. gs \in Seq(GroupsOfInsights)
    BY DEF CountedOnce, GroupsOf
  <2> QED BY <1>9, <2>1, CountedIs
<1>12. d = c + y - IF GoesOn(v, p, i) THEN 1 ELSE 0
  BY <1>4, <1>5, <1>9
<1>13. c = x \/ (c > x /\ \E k \in 1..Len(v) : OnlyBlanks(ts[k]))
  BY <1>1, <1>9 DEF CountedOnce
<1>14. d = x + y - w \/ (d > x + y - w /\ \E k \in 1..Len(v) : OnlyBlanks(ts[k]))
  <2>1. CASE i.start \in U \cap L
    <3>1. w = 1
      <4>1. U \cap L = {i.start}
        BY <1>8, <2>1
      <4> QED BY <1>9, <4>1, FS_Singleton
    <3>2. CASE GoesOn(v, p, i)
      <4>1. d = c + y - 1
        BY <1>12, <3>2
      <4> QED BY <1>10, <1>11, <1>13, <3>1, <4>1
    <3>3. CASE ~GoesOn(v, p, i)
      <4>1. d = c + y
        BY <1>10, <1>11, <1>12, <3>3
      <4>2. p \in 1..Len(v) /\ OnlyBlanks(ts[p])
        BY <1>1, <1>2, <1>8, <2>1, <3>3
      <4>3. d > x + y - w
        BY <1>10, <1>11, <1>13, <3>1, <4>1
      <4> QED BY <4>2, <4>3
    <3> QED BY <3>2, <3>3
  <2>2. CASE i.start \notin U \cap L
    <3>1. w = 0
      <4>1. U \cap L = {}
        BY <1>8, <2>2
      <4> QED BY <1>9, <4>1, FS_EmptySet
    <3>2. d = c + y
      BY <1>8, <1>10, <1>11, <1>12, <2>2
    <3> QED BY <1>10, <1>11, <1>13, <3>1, <3>2
  <2> QED BY <2>1, <2>2
<1>15. CountedOnce(ts, v, Ls, hs, m)
  BY <1>4, <1>7, <1>9, <1>10, <1>14 DEF CountedOnce
<1> QED BY <1>1, <1>15

LEMMA PiecesAreCounted ==
  ASSUME NEW ts, NEW v, NEW Ls, Laid(ts, v, Ls)
  PROVE  CountedOnce(ts, v, Ls, Groups(v), Len(v))
<1>1. v \in Seq(Insights)
  BY DEF Laid
<1>2. PICK top \in Nat : top = Len(v)
  BY <1>1
<1>3. PICK G : /\ G[0] = <<>> /\ Groups(v) = G[top]
               /\ \A k \in 1..top : G[k] = AddInsight(G[k - 1], v[k])
  BY <1>1, <1>2, GroupsGrow
<1> DEFINE N == {n \in Nat : CountedOnce(ts, v, Ls, G[n], n)}
<1>4. 0 \in N
  BY <1>3, NothingCounted
<1>5. ASSUME NEW n \in 0..(top - 1), n \in N PROVE n + 1 \in N
  <2>1. n \in Nat /\ n + 1 <= Len(v) /\ n + 1 \in Nat /\ n + 1 \in 1..top /\ (n + 1) - 1 = n
    BY <1>2
  <2>2. PICK gs, hs : gs = G[n] /\ hs = G[n + 1]
    OBVIOUS
  <2>3. hs = AddInsight(gs, v[n + 1])
    BY <1>3, <2>1, <2>2
  <2>4. CountedOnce(ts, v, Ls, gs, n)
    BY <1>5, <2>2
  <2>5. CountedOnce(ts, v, Ls, hs, n + 1)
    BY <2>1, <2>3, <2>4, PieceIsCounted
  <2> QED BY <2>1, <2>2, <2>5
<1>6. 0..top \subseteq N
  <2> HIDE DEF N
  <2> QED BY <1>2, <1>4, <1>5, RangeInduction
<1>7. top \in N
  <2> HIDE DEF N
  <2>1. top \in 0..top
    BY <1>2
  <2> QED BY <1>6, <2>1
<1> QED BY <1>2, <1>3, <1>7

(* The lines of the pieces are those of the text.                          *)
LEMMA LinesAreOfPieces ==
  ASSUME NEW t \in Seq(Symbols), NEW ts \in Seq(ReadTokens), NEW at, Cut(t, ts, at), at[Len(ts) + 1] = Len(t)
  PROVE  LinesUpTo([k \in 1..Len(ts) |-> LinesOfCode(t, at[k], at[k + 1])], Len(ts)) = LinesOfCode(t, 0, Len(t))
<1>1. PICK top \in Nat, len \in Nat : top = Len(ts) /\ len = Len(t)
  OBVIOUS
<1> DEFINE Ls == [k \in 1..top |-> LinesOfCode(t, at[k], at[k + 1])]
<1>2. ASSUME NEW k \in 1..top
      PROVE  at[k] \in Nat /\ at[k + 1] \in Nat /\ at[k + 1] <= len
  BY <1>1, <1>2 DEF Cut, Piece, ReadFrom
<1>3. ASSUME NEW l \in LinesUpTo(Ls, top) PROVE l \in LinesOfCode(t, 0, len)
  <2>1. PICK k \in 1..top : l \in LinesOfCode(t, at[k], at[k + 1])
    BY <1>3 DEF LinesUpTo
  <2>2. PICK n, q : n = at[k] /\ q = at[k + 1]
    OBVIOUS
  <2>3. PICK j \in (n + 1)..q : CodeIn(t, j) /\ l = LineIn(t, j)
    BY <2>1, <2>2 DEF LinesOfCode
  <2>4. j \in (0 + 1)..len
    BY <1>2, <2>2
  <2> QED BY <2>3, <2>4 DEF LinesOfCode
<1>4. ASSUME NEW l \in LinesOfCode(t, 0, len) PROVE l \in LinesUpTo(Ls, top)
  <2>1. PICK j \in 1..len : CodeIn(t, j) /\ l = LineIn(t, j)
    BY <1>4 DEF LinesOfCode
  <2>2. PICK k \in 1..top : j \in (at[k] + 1)..at[k + 1]
    BY <1>1, SymbolHasToken
  <2>3. l \in LinesOfCode(t, at[k], at[k + 1])
    BY <2>1, <2>2 DEF LinesOfCode
  <2> QED BY <2>3 DEF LinesUpTo
<1> HIDE DEF Ls
<1>5. LinesUpTo(Ls, top) = LinesOfCode(t, 0, len)
  BY <1>3, <1>4
<1> QED BY <1>1, <1>5 DEF Ls

(* What is counted in the end. *)
LEMMA LinesAreExact ==
  ASSUME TextInv, done
  PROVE  LET exact == Cardinality(LinesWithCode)
         IN  /\ code \in Int /\ exact \in Nat
             /\ code = exact \/ (code > exact /\ \E k \in DOMAIN tokens : OnlyBlanks(tokens[k]))
<1>1. PICK at : Cut(text, tokens, at) /\ at[Len(tokens) + 1] = Len(text)
  BY TextIsCut
<1>2. /\ text \in Seq(Symbols) /\ tokens \in Seq(ReadTokens) /\ code = CodeLines(tokens)
      /\ DOMAIN tokens = 1..Len(tokens) /\ DOMAIN text = 1..Len(text)
  BY DEF TextInv, DoneInv, OrderInv, TextIsRead, TokensAreRead
<1>3. \A k \in 1..Len(tokens) : \A l \in 1..Len(tokens) : k < l => tokens[k].end <= tokens[l].start
  BY <1>2 DEF TextInv, OrderInv, TokensAreInOrder
<1>4. PICK v, Ls : /\ v = [k \in DOMAIN tokens |-> Insight(tokens[k])]
                   /\ Ls = [k \in 1..Len(tokens) |-> LinesOfCode(text, at[k], at[k + 1])]
  OBVIOUS
<1>5. Laid(tokens, v, Ls)
  BY <1>1, <1>2, <1>3, <1>4, PiecesAreLaid
<1>6. Len(v) = Len(tokens)
  <2>1. v \in Seq(Insights)
    BY <1>5 DEF Laid
  <2>2. DOMAIN v = 1..Len(tokens) /\ DOMAIN v = 1..Len(v) /\ Len(v) \in Nat /\ Len(tokens) \in Nat
    BY <1>2, <1>4, <2>1
  <2> QED BY <2>2
<1>7. PICK gs : gs = Groups(v)
  OBVIOUS
<1>8. CountedOnce(tokens, v, Ls, gs, Len(tokens))
  BY <1>5, <1>6, <1>7, PiecesAreCounted
<1>9. code = Counted(gs)
  BY <1>2, <1>4, <1>7 DEF CodeLines, Counted
<1>10. code \in Int
  <2>1. gs \in Seq(GroupsOfInsights)
    BY <1>8 DEF CountedOnce, GroupsOf
  <2> QED BY <1>9, <2>1, CountedIs
<1>11. LinesWithCode = LinesUpTo(Ls, Len(tokens))
  <2>1. LinesUpTo(Ls, Len(tokens)) = LinesOfCode(text, 0, Len(text))
    BY <1>1, <1>2, <1>4, LinesAreOfPieces
  <2>2. LinesWithCode = LinesOfCode(text, 0, Len(text))
    BY <1>2 DEF LinesWithCode, LinesOfCode, CodeIn, LineOf, LineIn
  <2> QED BY <2>1, <2>2
<1>12. Cardinality(LinesWithCode) \in Nat
  BY <1>8, <1>11, FS_CardinalityType DEF CountedOnce
<1> QED BY <1>2, <1>6, <1>8, <1>9, <1>10, <1>11, <1>12 DEF CountedOnce

(* For every text that compiles, every line with code is counted, and      *)
(* counted once unless a blank piece is between two comments or strings.   *)
THEOREM LinesAreCounted == Spec => []LinesAreCountedOnce
<1>1. TextInv => LinesAreCountedOnce
  <2>1. CASE done
    BY <2>1, LinesAreExact DEF LinesAreCountedOnce
  <2>2. CASE ~done
    BY <2>2 DEF LinesAreCountedOnce
  <2> QED BY <2>1, <2>2
<1> QED BY <1>1, TextInvariant, PTL

-------------------------------------------------------------------------------
(* No line has the number 0. *)
LEMMA LinesAreNumbered ==
  ASSUME NEW t \in Seq(Symbols), NEW i \in 1..(Len(t) + 1)
  PROVE  LineIn(t, i) \in Nat \ {0}
<1>1. 1 \in 1..(Len(t) + 1) /\ 1 <= i
  OBVIOUS
<1>2. LineIn(t, 1) <= LineIn(t, i) /\ LineIn(t, i) \in Nat
  BY <1>1, LinesAscend
<1> QED BY <1>2, FirstLine

LEMMA TokenHasType ==
  ASSUME NEW tok \in ReadTokens, tok.start # 0, tok.end # 0
  PROVE  tok \in TokenType
BY DEF ReadTokens, TokenType

LEMMA TokenReadHasType ==
  ASSUME TextInv, reading # Nothing
  PROVE  token \in TokenType /\ token.kind = reading /\ reading \in Kinds
<1>1. PICK p : p = pos
  OBVIOUS
<1>2. /\ text \in Seq(Symbols) /\ Len(text) \in Nat /\ p \in Nat /\ p <= Len(text) + 1
      /\ token \in ReadTokens /\ token.kind = reading /\ reading \in Kinds
  BY <1>1, TokenIsWithin
<1>3. PICK n : IsAt(text, reading, token, p, line, n)
  BY <1>1 DEF TextInv, CutInv
<1>4. n \in Nat /\ n < p - 1 /\ token.start = LineIn(text, n + 1)
  BY <1>3 DEF IsAt, ReadFrom
<1>5. n + 1 \in 1..(Len(text) + 1)
  BY <1>2, <1>4
<1>6. token.start # 0
  BY <1>2, <1>4, <1>5, LinesAreNumbered
<1>7. token.start \in Nat /\ token.end \in Nat /\ token.start <= token.end
  BY DEF TextInv, OrderInv, TokenIsRead, Lines
<1>8. token.end # 0
  BY <1>6, <1>7
<1> QED BY <1>2, <1>6, <1>8, TokenHasType

(* The tokens have the lines their pieces have.                            *)
LEMMA TokensHaveType ==
  ASSUME TextInv
  PROVE  tokens \in Seq(TokenType)
<1>1. PICK at : Cut(text, tokens, at)
  BY DEF TextInv, CutInv
<1>2. text \in Seq(Symbols) /\ tokens \in Seq(ReadTokens) /\ DOMAIN tokens = 1..Len(tokens) /\ Len(tokens) \in Nat
  BY DEF TextInv, OrderInv, TextIsRead, TokensAreRead
<1>3. ASSUME NEW k \in 1..Len(tokens) PROVE tokens[k] \in TokenType
  <2>1. PICK tok, n, q : tok = tokens[k] /\ n = at[k] /\ q = at[k + 1]
    OBVIOUS
  <2>2. Piece(text, tok, n, q) /\ tok \in ReadTokens
    BY <1>1, <1>2, <2>1 DEF Cut
  <2>3. n \in Nat /\ q \in Nat /\ n < q /\ q <= Len(text) /\ Len(text) \in Nat
    BY <1>2, <2>2, LinesInPiece
  <2>4. n + 1 \in 1..(Len(text) + 1) /\ q \in 1..(Len(text) + 1)
    BY <2>3
  <2>5. tok.start = LineIn(text, n + 1) /\ tok.end = LineIn(text, q)
    BY <2>2 DEF Piece
  <2>6. tok.start # 0 /\ tok.end # 0
    BY <1>2, <2>4, <2>5, LinesAreNumbered
  <2> QED BY <2>1, <2>2, <2>6, TokenHasType
<1> QED BY <1>2, <1>3

(* The token that was read last has its lines too; there are no results    *)
(* before the text is read.                                                *)
TypeInv ==
  /\ reading = Nothing => token \in TokenType
  /\ done \in BOOLEAN /\ (~done => code = 0 /\ ignored = {})

LEMMA NextKeepsTypes ==
  ASSUME TextInv, TypeInv, [Next]_vars
  PROVE  TypeInv'
<1>1. token \in TokenType
  BY TokenReadHasType DEF TypeInv
<1>2. CASE BeginToken
  <2>1. reading' \in Kinds
    BY <1>2, KindType DEF BeginToken
  <2>2. reading' # Nothing
    BY <2>1 DEF Kinds, Strings, Comments, Nothing
  <2> QED BY <1>2, <2>2 DEF BeginToken, TypeInv, results
<1>3. ASSUME reading # Nothing, NEW n, NEW end, Read(n, end) \/ Close(n, end) PROVE TypeInv'
  BY <1>1, <1>3 DEF Read, Close, TypeInv, results
<1>4. CASE ReadBlock \/ ReadLine \/ ReadString \/ ReadCode \/ TextEnds
  <2>1. reading # Nothing
    BY <1>4 DEF ReadBlock, ReadLine, ReadString, ReadCode, TextEnds, Nothing, Strings
  <2>2. \E n, end : Read(n, end) \/ Close(n, end)
    BY <1>4 DEF ReadBlock, ReadLine, ReadString, ReadCode, TextEnds
  <2> QED BY <1>3, <2>1, <2>2
<1>5. CASE GetStats
  BY <1>1, <1>5 DEF GetStats, TypeInv
<1>6. CASE UNCHANGED vars
  BY <1>6 DEF vars, TypeInv
<1> QED BY <1>2, <1>4, <1>5, <1>6 DEF Next

(* The lines ignored come after a line.                                    *)
LEMMA IgnoredHasType ==
  ASSUME NEW ts \in Seq(TokenType), NEW i \in LinesToIgnore(ts)
  PROVE  i.when \in {"always", "named"} /\ i.which \in Nat \ {0}
<1>1. PICK k \in DOMAIN ts : i \in IgnoredBy(ts[k])
  BY DEF LinesToIgnore
<1>2. PICK tok : tok = ts[k]
  OBVIOUS
<1>3. tok \in TokenType
  BY <1>1, <1>2
<1>4. tok.end \in Nat \ {0}
  BY <1>3 DEF TokenType
<1>5. \A word : LineIgnored(tok, word) \in Nat \ {0}
  BY <1>4 DEF LineIgnored
<1>6. i \in IgnoredBy(tok)
  BY <1>1, <1>2
<1>7. \E when \in {"always", "named"} : \E word : i = [when |-> when, which |-> LineIgnored(tok, word)]
  BY <1>6 DEF IgnoredBy
<1> QED BY <1>5, <1>7

(* For every text that compiles, what is read is of the text, every count  *)
(* is a number, and no line is numbered 0.                                 *)
THEOREM TextHasItsType == Spec => []TypeOK
<1>1. Init => TypeInv
  <2> SUFFICES ASSUME Init PROVE TypeInv
    OBVIOUS
  <2>1. token = [kind |-> Nothing, start |-> 1, end |-> 1, content |-> <<>>] /\ <<>> \in Seq(Symbols)
    BY DEF Init
  <2>2. token \in TokenType
    BY <2>1 DEF TokenType
  <2>3. done = FALSE /\ code = 0 /\ ignored = {}
    BY DEF Init
  <2> QED BY <2>2, <2>3 DEF TypeInv
<1>2. TextInv /\ TypeInv /\ [Next]_vars => TypeInv'
  BY NextKeepsTypes
<1>3. ASSUME TextInv, TypeInv PROVE TypeOK
  <2>1. PICK p : p = pos
    OBVIOUS
  <2>2. text \in Texts /\ text \in Seq(Symbols) /\ p \in 1..(Len(text) + 1)
    BY <1>3, <2>1 DEF TextInv, OrderInv, TextIsRead
  <2>3. line \in Nat \ {0}
    <3>1. line = LineIn(text, p)
      BY <1>3, <2>1 DEF TextInv, CutInv, IsAt
    <3> QED BY <2>2, <3>1, LinesAreNumbered
  <2>4. reading \in Kinds \cup {Nothing} /\ token \in TokenType /\ (reading # Nothing => token.kind = reading)
    BY <1>3, TokenReadHasType DEF TypeInv
  <2>5. tokens \in Seq(TokenType)
    BY <1>3, TokensHaveType
  <2>6. code \in Nat
    <3>1. CASE done
      BY <1>3, <3>1, LinesAreExact
    <3>2. CASE ~done
      BY <1>3, <3>2 DEF TypeInv
    <3> QED BY <3>1, <3>2
  <2>7. \A i \in ignored : i.when \in {"always", "named"} /\ i.which \in Nat \ {0}
    <3>1. CASE done
      <4>1. ignored = LinesToIgnore(tokens)
        BY <1>3, <3>1 DEF TextInv, DoneInv
      <4> QED BY <2>5, <4>1, IgnoredHasType
    <3>2. CASE ~done
      BY <1>3, <3>2 DEF TypeInv
    <3> QED BY <3>1, <3>2
  <2> QED BY <1>3, <2>1, <2>2, <2>3, <2>4, <2>5, <2>6, <2>7 DEF TypeOK, TypeInv
<1> QED BY <1>1, <1>2, <1>3, TextInvariant, PTL DEF Spec
===============================================================================
