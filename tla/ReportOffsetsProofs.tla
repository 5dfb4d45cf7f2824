-------------------------- MODULE ReportOffsetsProofs --------------------------
(***************************************************************************)
(* Bytes and characters, for every source of every length: the location of *)
(* an instance in characters is the one its key gives in bytes, and the    *)
(* editor's range is that location on the line of the key.                 *)
(***************************************************************************)
EXTENDS ReportOffsets, DataInduction, SequenceTheorems

NewlinesBefore(k) == Cardinality(Newlines(source, k))

(* The key of an instance, by the characters it was made from.             *)
Located(node, name, last) ==
  /\ node \in 0 .. Len(source) /\ name \in 0 .. Len(source) /\ last \in 0 .. Len(source)
  /\ node <= name /\ name < last
  /\ KeyOf(node, name, last)

(* What the first loop has counted after r characters: the line's first    *)
(* character, once the newline before it was read, stays what is taken off *)
(* the offset.                                                             *)
Counted(r) ==
  /\ char_offset = r
  /\ current_line_no = NewlinesBefore(r)
  /\ stop_counting_preline_offset \in BOOLEAN
  /\ stop_counting_preline_offset <=> line_no > 1 /\ NewlinesBefore(r) >= line_no - 1
  /\ IF stop_counting_preline_offset
     THEN LineStart \in Newlines(source, r) /\ pre_line_char_offset = LineStart - 1
     ELSE pre_line_char_offset = r

Answer(name, last) ==
  IF line_no = 1 THEN None
  ELSE [sent |-> TRUE, line |-> line_no - 1, start |-> name - LineStart, end |-> last - LineStart]

Scanned(name, last) ==
  /\ loop \in {"offset", "length", "diagnose", "done"}
  /\ loop = "offset" => read \in 0 .. name /\ Counted(read) /\ char_len = 0
  /\ loop = "length" => read \in name .. last /\ Counted(name) /\ char_len = read - name
  /\ loop \in {"diagnose", "done"} => Counted(name) /\ char_len = last - name
  /\ diagnostic = IF loop = "done" THEN Answer(name, last) ELSE None

OffsetsInv ==
  /\ source \in Seq(Chars)
  /\ \E node, name, last \in 0 .. Len(source) :
        Located(node, name, last) /\ Scanned(name, last)

-------------------------------------------------------------------------------
(* Byte offsets add up the widths, so characters and the offsets they are  *)
(* at determine each other.                                                *)
LEMMA ByteOffsetAdds ==
  ASSUME NEW s \in Seq(Chars)
  PROVE  /\ ByteOffset(s, 0) = 0
         /\ \A k \in 1 .. Len(s) : ByteOffset(s, k) = ByteOffset(s, k - 1) + Width[s[k]]
         /\ \A k \in 0 .. Len(s) : ByteOffset(s, k) \in Nat
<1> DEFINE top == Len(s)
           step == [z \in Nat \X (1 .. top) |-> z[1] + Width[s[z[2]]]]
           Adds(g) == g = [i \in 0 .. top |-> IF i = 0 THEN 0 ELSE g[i - 1] + Width[s[i]]]
<1>1. top \in Nat /\ \A i \in 1 .. top : Width[s[i]] \in 1 .. 4
  BY OffsetsAssumption
<1>2. \A x \in Nat, i \in 1 .. top : step[<<x, i>>] = x + Width[s[i]]
  OBVIOUS
<1> HIDE DEF top, step
<1>3. PICK g : Follows(g, top, 0, step)
  BY <1>1, RecursionOnRange
<1>4. g[0] = 0 /\ \A i \in 1 .. top : g[i] = step[<<g[i - 1], i>>]
  BY <1>1, <1>3 DEF Follows
<1>5. \A i \in 0 .. top : g[i] \in Nat
  <2> DEFINE S == {i \in Nat : g[i] \in Nat}
  <2>1. 0 \in S
    BY <1>4
  <2>2. ASSUME NEW i \in 0 .. top - 1, i \in S PROVE i + 1 \in S
    <3>1. i + 1 \in 1 .. top /\ (i + 1) - 1 = i
      BY <1>1
    <3>2. g[i + 1] = g[i] + Width[s[i + 1]]
      BY <1>2, <1>4, <2>2, <3>1
    <3>3. i \in Nat /\ g[i] \in Nat
      BY <2>2
    <3>4. Width[s[i + 1]] \in Nat
      BY <1>1, <3>1
    <3> QED BY <3>2, <3>3, <3>4
  <2>3. 0 .. top \subseteq S
    <3> HIDE DEF S
    <3> QED BY <1>1, <2>1, <2>2, RangeInduction
  <2> QED BY <2>3
<1>6. Adds(g)
  <2>1. \A i \in 0 .. top : i # 0 => i \in 1 .. top /\ i - 1 \in 0 .. top
    BY <1>1
  <2>2. \A i \in 0 .. top : (IF i = 0 THEN 0 ELSE step[<<g[i - 1], i>>])
                            = (IF i = 0 THEN 0 ELSE g[i - 1] + Width[s[i]])
    BY <1>2, <1>5, <2>1
  <2> QED BY <1>3, <2>2 DEF Follows
<1> DEFINE offset == CHOOSE h : Adds(h)
<1>7. Adds(offset)
  <2> HIDE DEF Adds
  <2> QED BY <1>6
<1>8. \A k : ByteOffset(s, k) = offset[k]
  BY DEF ByteOffset, top
<1> HIDE DEF offset
<1>9. offset[0] = 0 /\ \A k \in 1 .. top : offset[k] = offset[k - 1] + Width[s[k]]
  BY <1>1, <1>7
<1>10. \A k \in 0 .. top : offset[k] \in Nat
  <2> DEFINE S == {i \in Nat : offset[i] \in Nat}
  <2>1. 0 \in S
    BY <1>9
  <2>2. ASSUME NEW i \in 0 .. top - 1, i \in S PROVE i + 1 \in S
    <3>1. i + 1 \in 1 .. top /\ (i + 1) - 1 = i
      BY <1>1
    <3> QED BY <1>1, <1>9, <2>2, <3>1
  <2>3. 0 .. top \subseteq S
    <3> HIDE DEF S
    <3> QED BY <1>1, <2>1, <2>2, RangeInduction
  <2> QED BY <2>3
<1> QED BY <1>8, <1>9, <1>10 DEF top

LEMMA ByteOffsetGrows ==
  ASSUME NEW s \in Seq(Chars), NEW j \in 0 .. Len(s), NEW k \in 0 .. Len(s), j < k
  PROVE  ByteOffset(s, j) < ByteOffset(s, k)
<1> DEFINE S == {i \in Nat : i <= j \/ i > Len(s) \/ ByteOffset(s, j) < ByteOffset(s, i)}
<1>1. 0 \in S
  OBVIOUS
<1>2. ASSUME NEW i \in Nat \cap S PROVE i + 1 \in S
  <2>1. CASE i < j \/ i + 1 > Len(s)
    BY <2>1
  <2>2. CASE i >= j /\ i + 1 <= Len(s)
    <3>1. i + 1 \in 1 .. Len(s) /\ i \in 0 .. Len(s) /\ (i + 1) - 1 = i
      BY <2>2
    <3>2. ByteOffset(s, i + 1) = ByteOffset(s, i) + Width[s[i + 1]]
      BY <3>1, ByteOffsetAdds
    <3>3. Width[s[i + 1]] \in 1 .. 4
      BY <3>1, OffsetsAssumption
    <3>4. ByteOffset(s, i) \in Nat /\ ByteOffset(s, j) \in Nat
      BY <3>1, ByteOffsetAdds
    <3>5. ByteOffset(s, j) <= ByteOffset(s, i)
      BY <1>2, <2>2, <3>4
    <3> QED BY <3>2, <3>3, <3>4, <3>5
  <2> QED BY <2>1, <2>2
<1>3. Nat \subseteq S
  <2> HIDE DEF S
  <2> QED BY <1>1, <1>2, SetInduction
<1>4. k \in S
  BY <1>3
<1> QED BY <1>4

LEMMA CharAtByteOffset ==
  ASSUME source \in Seq(Chars), NEW k \in 0 .. Len(source)
  PROVE  CharAt(ByteOffset(source, k)) = k
<1>1. ASSUME NEW j \in 0 .. Len(source), ByteOffset(source, j) = ByteOffset(source, k)
      PROVE  j = k
  <2>1. ByteOffset(source, j) \in Nat /\ ByteOffset(source, k) \in Nat
    BY ByteOffsetAdds
  <2>2. ~(j < k) /\ ~(k < j)
    BY <1>1, <2>1, ByteOffsetGrows
  <2> QED BY <2>2
<1> QED BY <1>1 DEF CharAt


-------------------------------------------------------------------------------
(* Newlines before a character are counted one by one.                     *)
LEMMA NewlinesCount ==
  ASSUME source \in Seq(Chars), NEW k \in 0 .. Len(source)
  PROVE  /\ IsFiniteSet(Newlines(source, k)) /\ NewlinesBefore(k) \in Nat
         /\ k = 0 => NewlinesBefore(k) = 0
         /\ k < Len(source) =>
              /\ NewlinesBefore(k + 1) =
                   IF source[k + 1] = Newline THEN NewlinesBefore(k) + 1 ELSE NewlinesBefore(k)
              /\ Newlines(source, k) \subseteq Newlines(source, k + 1)
              /\ source[k + 1] = Newline => k + 1 \in Newlines(source, k + 1)
<1>1. IsFiniteSet(1 .. k)
  BY FS_Interval
<1>2. Newlines(source, k) \in SUBSET (1 .. k)
  BY DEF Newlines
<1>3. IsFiniteSet(Newlines(source, k))
  BY <1>1, <1>2, FS_Subset
<1>4. NewlinesBefore(k) \in Nat
  BY <1>3, FS_CardinalityType DEF NewlinesBefore
<1>5. ASSUME k = 0 PROVE NewlinesBefore(k) = 0
  <2>1. Newlines(source, k) = {}
    BY <1>5 DEF Newlines
  <2> QED BY <2>1, FS_EmptySet DEF NewlinesBefore
<1>6. ASSUME k < Len(source)
      PROVE  /\ NewlinesBefore(k + 1) =
                  IF source[k + 1] = Newline THEN NewlinesBefore(k) + 1 ELSE NewlinesBefore(k)
             /\ Newlines(source, k) \subseteq Newlines(source, k + 1)
             /\ source[k + 1] = Newline => k + 1 \in Newlines(source, k + 1)
  <2>1. 1 .. k + 1 = (1 .. k) \cup {k + 1} /\ k + 1 \notin 1 .. k
    OBVIOUS
  <2>2. CASE source[k + 1] = Newline
    <3>1. Newlines(source, k + 1) = Newlines(source, k) \cup {k + 1}
      BY <2>1, <2>2 DEF Newlines
    <3>2. k + 1 \notin Newlines(source, k)
      BY <2>1 DEF Newlines
    <3> QED BY <1>3, <2>2, <3>1, <3>2, FS_AddElement DEF NewlinesBefore
  <2>3. CASE source[k + 1] # Newline
    <3>1. Newlines(source, k + 1) = Newlines(source, k)
      BY <2>1, <2>3 DEF Newlines
    <3> QED BY <2>3, <3>1 DEF NewlinesBefore
  <2> QED BY <2>2, <2>3
<1> QED BY <1>3, <1>4, <1>5, <1>6

LEMMA NewlinesGrow ==
  ASSUME source \in Seq(Chars), NEW j \in 0 .. Len(source), NEW k \in 0 .. Len(source), j <= k
  PROVE  NewlinesBefore(j) <= NewlinesBefore(k) /\ Newlines(source, j) \subseteq Newlines(source, k)
<1>1. 1 .. j \subseteq 1 .. k
  OBVIOUS
<1>2. Newlines(source, j) \in SUBSET Newlines(source, k)
  BY <1>1 DEF Newlines
<1>3. IsFiniteSet(Newlines(source, k))
  BY NewlinesCount
<1> QED BY <1>2, <1>3, FS_Subset DEF NewlinesBefore

(* One newline has a given number up to it, so LineStart is that one.      *)
LEMMA NewlinesDiffer ==
  ASSUME source \in Seq(Chars), NEW i \in Newlines(source, Len(source)),
         NEW j \in 0 .. Len(source), j < i
  PROVE  NewlinesBefore(j) < NewlinesBefore(i)
<1>1. i \in 1 .. Len(source) /\ source[i] = Newline /\ i - 1 \in 0 .. Len(source)
  BY DEF Newlines
<1>2. NewlinesBefore(i) = NewlinesBefore(i - 1) + 1 /\ NewlinesBefore(i - 1) \in Nat
  <2>1. i - 1 < Len(source) /\ (i - 1) + 1 = i
    BY <1>1
  <2> QED BY <1>1, <2>1, NewlinesCount
<1>3. NewlinesBefore(j) <= NewlinesBefore(i - 1) /\ NewlinesBefore(j) \in Nat
  BY <1>1, NewlinesGrow, NewlinesCount
<1> QED BY <1>2, <1>3

LEMMA LineStartIs ==
  ASSUME source \in Seq(Chars), NEW i \in Newlines(source, Len(source)), line_no # 1,
         NewlinesBefore(i) = line_no - 1
  PROVE  LineStart = i
<1>1. ASSUME NEW j \in Newlines(source, Len(source)), NewlinesBefore(j) = line_no - 1
      PROVE  j = i
  <2>1. i \in 0 .. Len(source) /\ j \in 0 .. Len(source)
    BY DEF Newlines
  <2>2. ~(i < j) /\ ~(j < i)
    BY <1>1, <2>1, NewlinesDiffer, NewlinesCount
  <2> QED BY <2>1, <2>2
<1> QED BY <1>1 DEF LineStart, NewlinesBefore


-------------------------------------------------------------------------------
(* What the key says of its characters.                                    *)
LEMMA KeyFacts ==
  ASSUME source \in Seq(Chars), NEW node, NEW name, NEW last, Located(node, name, last)
  PROVE  /\ node \in Nat /\ name \in Nat /\ last \in Nat
         /\ name \in 0 .. Len(source) /\ last \in 0 .. Len(source) /\ name < last
         /\ line_no \in Nat /\ line_no >= 1 /\ NewlinesBefore(name) >= line_no - 1
         /\ byte_offset = ByteOffset(source, name)
         /\ byte_offset + byte_length = ByteOffset(source, last)
         /\ CharAt(byte_offset) = name /\ CharAt(byte_offset + byte_length) = last
<1>1. /\ node \in 0 .. Len(source) /\ name \in 0 .. Len(source) /\ last \in 0 .. Len(source)
      /\ node <= name /\ name < last
      /\ line_no = NewlinesBefore(node) + 1
      /\ byte_offset = ByteOffset(source, name)
      /\ byte_length = ByteOffset(source, last) - ByteOffset(source, name)
  BY DEF Located, KeyOf, SourceLine, NewlinesBefore
<1>2. NewlinesBefore(node) \in Nat /\ NewlinesBefore(node) <= NewlinesBefore(name)
  BY <1>1, NewlinesCount, NewlinesGrow
<1>3. ByteOffset(source, name) \in Nat /\ ByteOffset(source, last) \in Nat
  BY <1>1, ByteOffsetAdds
<1>4. byte_offset + byte_length = ByteOffset(source, last)
  BY <1>1, <1>3
<1>5. CharAt(byte_offset) = name /\ CharAt(byte_offset + byte_length) = last
  BY <1>1, <1>4, CharAtByteOffset
<1>6. NewlinesBefore(name) \in Nat
  BY <1>1, NewlinesCount
<1> QED BY <1>1, <1>2, <1>4, <1>5, <1>6

LEMMA KeyIsStable ==
  ASSUME UNCHANGED key
  PROVE  /\ \A node, name, last : Located(node, name, last) => Located(node, name, last)'
         /\ \A k : NewlinesBefore(k)' = NewlinesBefore(k)
         /\ \A k : Newlines(source, k)' = Newlines(source, k)
         /\ LineStart' = LineStart
         /\ \A name, last : Answer(name, last)' = Answer(name, last)
BY DEF key, Located, KeyOf, SourceLine, NewlinesBefore, Newlines, ByteOffset, LineStart, Answer, None

LEMMA InitOffsets == Init => OffsetsInv
<1> SUFFICES ASSUME Init PROVE OffsetsInv
  OBVIOUS
<1>1. source \in Seq(Chars)
  <2>1. PICK n \in 0 .. MaxLength : source \in [1 .. n -> Chars]
    BY DEF Init
  <2> QED BY <2>1, SeqDef, OffsetsAssumption
<1>2. PICK node, name, last \in 0 .. Len(source) :
        node <= name /\ name < last /\ KeyOf(node, name, last)
  BY DEF Init
<1>3. Located(node, name, last)
  BY <1>2 DEF Located
<1>4. Counted(0)
  <2>1. NewlinesBefore(0) = 0
    BY <1>1, NewlinesCount
  <2>2. line_no \in Nat /\ line_no >= 1
    BY <1>1, <1>3, KeyFacts
  <2>3. ~(line_no > 1 /\ 0 >= line_no - 1)
    BY <2>2
  <2>4. /\ char_offset = 0 /\ current_line_no = 0 /\ pre_line_char_offset = 0
        /\ stop_counting_preline_offset = FALSE
    BY DEF Init
  <2> QED BY <2>1, <2>3, <2>4 DEF Counted
<1>5. Scanned(name, last)
  BY <1>1, <1>3, <1>4, KeyFacts DEF Scanned, Init
<1> QED BY <1>1, <1>3, <1>5 DEF OffsetsInv

(* One character of the first loop.                                        *)
LEMMA ScanCharCounts ==
  ASSUME source \in Seq(Chars), NEW node, NEW name, NEW last,
         Located(node, name, last), Scanned(name, last), ScanChar
  PROVE  Scanned(name, last)'
<1>1. /\ loop = "offset" /\ read \in 0 .. name /\ Counted(read) /\ char_len = 0
      /\ read # name /\ diagnostic = None
  BY KeyFacts DEF ScanChar, Scanned
<1>2. /\ read \in 0 .. Len(source) /\ read < Len(source)
      /\ read + 1 \in 0 .. name /\ read + 1 \in 0 .. Len(source)
  BY <1>1, KeyFacts
<1> DEFINE line == NewlinesBefore(read + 1)
           stop == stop_counting_preline_offset \/ (source[read + 1] = Newline /\ line = line_no - 1)
<1>3. /\ NewlinesBefore(read) \in Nat /\ line \in Nat
      /\ line = IF source[read + 1] = Newline THEN NewlinesBefore(read) + 1 ELSE NewlinesBefore(read)
      /\ Newlines(source, read) \subseteq Newlines(source, read + 1)
      /\ source[read + 1] = Newline => read + 1 \in Newlines(source, read + 1)
  BY <1>2, NewlinesCount
<1>4. /\ current_line_no' = line /\ char_offset' = read + 1
      /\ stop_counting_preline_offset' = stop
      /\ pre_line_char_offset' = IF stop THEN pre_line_char_offset ELSE pre_line_char_offset + 1
      /\ read' = read + 1
      /\ UNCHANGED <<key, loop, char_len, diagnostic>>
  BY <1>1, <1>3 DEF ScanChar, Counted
<1>5. line_no \in Nat /\ line_no >= 1
  BY KeyFacts
<1>6. stop \in BOOLEAN /\ (stop <=> line_no > 1 /\ line >= line_no - 1)
  <2>1. stop_counting_preline_offset <=> line_no > 1 /\ NewlinesBefore(read) >= line_no - 1
    BY <1>1 DEF Counted
  <2>2. CASE source[read + 1] = Newline
    BY <1>3, <1>5, <2>1, <2>2
  <2>3. CASE source[read + 1] # Newline
    BY <1>3, <1>5, <2>1, <2>3
  <2> QED BY <2>2, <2>3
<1>7. ASSUME stop
      PROVE  LineStart \in Newlines(source, read + 1) /\ pre_line_char_offset = LineStart - 1
  <2>1. CASE stop_counting_preline_offset
    BY <1>1, <1>3, <2>1 DEF Counted
  <2>2. CASE ~stop_counting_preline_offset
    <3>1. source[read + 1] = Newline /\ line = line_no - 1
      BY <1>7, <2>2
    <3>2. read + 1 \in Newlines(source, Len(source))
      BY <1>2, <1>3, <3>1, NewlinesGrow
    <3>3. LineStart = read + 1
      <4>1. line_no # 1
        BY <1>3, <3>1
      <4> QED BY <3>1, <3>2, <4>1, LineStartIs
    <3>4. pre_line_char_offset = read
      BY <1>1, <2>2 DEF Counted
    <3> QED BY <1>2, <1>3, <3>1, <3>3, <3>4
  <2> QED BY <2>1, <2>2
<1>8. ASSUME ~stop PROVE pre_line_char_offset = read
  BY <1>1, <1>8 DEF Counted
<1> HIDE DEF stop, line
<1>9. /\ UNCHANGED <<source, line_no>> /\ LineStart' = LineStart
      /\ Cardinality(Newlines(source', read')) = line
      /\ Newlines(source', read') = Newlines(source, read + 1)
  <2>1. UNCHANGED key /\ UNCHANGED <<source, line_no>>
    BY <1>4 DEF key
  <2> QED BY <1>4, <2>1, KeyIsStable DEF line, NewlinesBefore
<1>10. Counted(read)'
  BY <1>4, <1>6, <1>7, <1>8, <1>9 DEF Counted, NewlinesBefore
<1> QED BY <1>1, <1>2, <1>4, <1>10 DEF Scanned, Answer, None


(* The other steps leave the first loop's counters alone.                  *)
LEMMA CountedIsStable ==
  ASSUME UNCHANGED <<key, counters>>, NEW r, Counted(r)
  PROVE  Counted(r)'
<1>1. /\ LineStart' = LineStart /\ UNCHANGED <<source, line_no, counters>>
  BY KeyIsStable DEF key
<1> QED BY <1>1 DEF Counted, NewlinesBefore, counters

LEMMA OtherStepsCount ==
  ASSUME source \in Seq(Chars), NEW node, NEW name, NEW last,
         Located(node, name, last), Scanned(name, last),
         OffsetFound \/ MeasureChar \/ LengthFound \/ Diagnose
  PROVE  Scanned(name, last)'
<1>1. /\ name \in 0 .. Len(source) /\ last \in 0 .. Len(source) /\ name < last
      /\ name \in Nat /\ last \in Nat
      /\ byte_offset = ByteOffset(source, name)
      /\ byte_offset + byte_length = ByteOffset(source, last)
      /\ line_no \in Nat /\ line_no >= 1 /\ NewlinesBefore(name) >= line_no - 1
  BY KeyFacts
<1>2. CASE OffsetFound
  <2>1. /\ loop = "offset" /\ read \in 0 .. name /\ Counted(read) /\ char_len = 0
        /\ read = Len(source) \/ ByteOffset(source, read) = byte_offset
        /\ diagnostic = None
    BY <1>2 DEF OffsetFound, Scanned
  <2>2. read = name
    <3>1. read \in 0 .. Len(source)
      BY <1>1, <2>1
    <3>2. CharAt(ByteOffset(source, read)) = read /\ CharAt(byte_offset) = name
      BY <3>1, CharAtByteOffset, KeyFacts
    <3>3. Len(source) \in Nat
      OBVIOUS
    <3> QED BY <1>1, <2>1, <3>2, <3>3
  <2>3. Counted(name)'
    BY <1>2, <2>1, <2>2, CountedIsStable DEF OffsetFound
  <2> QED BY <1>1, <1>2, <2>1, <2>2, <2>3 DEF OffsetFound, Scanned
<1>3. CASE MeasureChar
  <2>1. /\ loop = "length" /\ read \in name .. last /\ Counted(name) /\ char_len = read - name
        /\ ByteOffset(source, read) - byte_offset # byte_length
        /\ diagnostic = None
    BY <1>3 DEF MeasureChar, AtEnd, Scanned
  <2>2. read # last
    <3>1. ByteOffset(source, name) \in Nat /\ ByteOffset(source, last) \in Nat
      BY <1>1, ByteOffsetAdds
    <3>2. byte_length = ByteOffset(source, last) - ByteOffset(source, name)
      BY DEF Located, KeyOf
    <3> QED BY <1>1, <2>1, <3>1, <3>2
  <2>3. Counted(name)'
    BY <1>3, <2>1, CountedIsStable DEF MeasureChar
  <2> QED BY <1>1, <1>3, <2>1, <2>2, <2>3 DEF MeasureChar, Scanned
<1>4. CASE LengthFound
  <2>1. /\ loop = "length" /\ read \in name .. last /\ Counted(name) /\ char_len = read - name
        /\ read = Len(source) \/ ByteOffset(source, read) - byte_offset = byte_length
        /\ diagnostic = None
    BY <1>4 DEF LengthFound, AtEnd, Scanned
  <2>2. read = last
    <3>1. read \in 0 .. Len(source) /\ Len(source) \in Nat
      BY <1>1, <2>1
    <3>2. CASE read = Len(source)
      BY <1>1, <2>1, <3>1, <3>2
    <3>3. CASE ByteOffset(source, read) - byte_offset = byte_length
      <4>1. /\ ByteOffset(source, name) \in Nat /\ ByteOffset(source, last) \in Nat
            /\ ByteOffset(source, read) \in Nat
        BY <1>1, <3>1, ByteOffsetAdds
      <4>2. byte_length = ByteOffset(source, last) - ByteOffset(source, name)
        BY DEF Located, KeyOf
      <4>3. ByteOffset(source, read) = ByteOffset(source, last)
        BY <1>1, <3>3, <4>1, <4>2
      <4> QED BY <1>1, <3>1, <4>3, CharAtByteOffset
    <3> QED BY <2>1, <3>2, <3>3
  <2>3. Counted(name)'
    BY <1>4, <2>1, CountedIsStable DEF LengthFound
  <2> QED BY <1>1, <1>4, <2>1, <2>2, <2>3 DEF LengthFound, Scanned
<1>5. CASE Diagnose
  <2>1. /\ loop = "diagnose" /\ Counted(name) /\ char_len = last - name /\ diagnostic = None
    BY <1>5 DEF Diagnose, Scanned
  <2>2. Counted(name)'
    BY <1>5, <2>1, CountedIsStable DEF Diagnose
  <2>3. diagnostic' = Answer(name, last)
    <3>1. CASE line_no = 1
      <4>1. pre_line_char_offset = name /\ char_offset = name
        BY <2>1, <3>1 DEF Counted
      <4> QED BY <1>1, <1>5, <3>1, <4>1 DEF Diagnose, LineOffset, Answer
    <3>2. CASE line_no # 1
      <4>1. /\ LineStart \in Newlines(source, name)
            /\ pre_line_char_offset = LineStart - 1 /\ char_offset = name
        BY <1>1, <2>1, <3>2 DEF Counted
      <4>2. LineStart \in 1 .. name
        BY <4>1 DEF Newlines
      <4>3. LineOffset = name - LineStart + 1 /\ ~(LineOffset < 1) /\ ~(line_no < 1)
        BY <1>1, <4>1, <4>2 DEF LineOffset
      <4>4. LineOffset - 1 = name - LineStart /\ LineOffset - 1 + char_len = last - LineStart
        BY <1>1, <2>1, <4>2, <4>3
      <4> HIDE DEF LineOffset
      <4> QED BY <1>5, <3>2, <4>3, <4>4 DEF Diagnose, Answer
    <3> QED BY <3>1, <3>2
  <2>4. Answer(name, last)' = Answer(name, last)
    BY <1>5, KeyIsStable DEF Diagnose
  <2> QED BY <1>5, <2>1, <2>2, <2>3, <2>4 DEF Diagnose, Scanned
<1> QED BY <1>2, <1>3, <1>4, <1>5

LEMMA OffsetsStep == OffsetsInv /\ [Next]_vars => OffsetsInv'
<1> SUFFICES ASSUME OffsetsInv, [Next]_vars PROVE OffsetsInv'
  OBVIOUS
<1>1. source \in Seq(Chars)
  BY DEF OffsetsInv
<1>2. PICK node, name, last \in 0 .. Len(source) : Located(node, name, last) /\ Scanned(name, last)
  BY DEF OffsetsInv
<1>3. UNCHANGED key
  BY DEF Next, vars, key, ScanChar, OffsetFound, MeasureChar, LengthFound, Diagnose
<1>4. Scanned(name, last)'
  <2>1. CASE Next
    BY <1>1, <1>2, <2>1, ScanCharCounts, OtherStepsCount DEF Next
  <2>2. CASE UNCHANGED vars
    <3>1. UNCHANGED <<key, counters>> /\ UNCHANGED <<loop, read, char_len, diagnostic>>
      BY <2>2 DEF vars, key, counters
    <3>2. /\ \A r : Counted(r) => Counted(r)'
          /\ Answer(name, last)' = Answer(name, last)
      BY <3>1, CountedIsStable, KeyIsStable
    <3>3. Counted(read) => Counted(read)'
      BY <3>1, <3>2 DEF Counted, NewlinesBefore, counters, key, LineStart
    <3> QED BY <1>2, <3>1, <3>2, <3>3 DEF Scanned
  <2> QED BY <2>1, <2>2
<1>5. Located(node, name, last)' /\ UNCHANGED source
  BY <1>2, <1>3, KeyIsStable DEF key
<1> QED BY <1>1, <1>2, <1>4, <1>5 DEF OffsetsInv

(* The invariant of the two loops and the diagnostic, for every source.    *)
THEOREM OffsetsInvariant == Spec => []OffsetsInv
BY InitOffsets, OffsetsStep, PTL DEF Spec

(* The characters that extract_issue_bodies counts are the bytes of the    *)
(* key, in sources of any length and mixture of widths.                    *)
THEOREM CharactersAreTheBytes == Spec => []SrcCharIsTheKey
<1>1. OffsetsInv => SrcCharIsTheKey
  <2> SUFFICES ASSUME OffsetsInv, loop \in {"diagnose", "done"}
               PROVE  /\ char_offset = CharAt(byte_offset)
                      /\ char_offset + char_len = CharAt(byte_offset + byte_length)
    BY DEF SrcCharIsTheKey
  <2>1. PICK node, name, last \in 0 .. Len(source) : Located(node, name, last) /\ Scanned(name, last)
    BY DEF OffsetsInv
  <2>2. char_offset = name /\ char_len = last - name
    BY <2>1 DEF Scanned, Counted
  <2> QED BY <2>1, <2>2, KeyFacts DEF OffsetsInv
<1> QED BY <1>1, OffsetsInvariant, PTL

(* What the editor is sent is on the key's line and covers the location;   *)
(* only instances of the first line are not sent.                          *)
THEOREM DiagnosticsAreLocated == Spec => []DiagnosticIsAtTheLocation
<1>1. OffsetsInv => DiagnosticIsAtTheLocation
  <2> SUFFICES ASSUME OffsetsInv PROVE DiagnosticIsAtTheLocation
    OBVIOUS
  <2>1. PICK node, name, last \in 0 .. Len(source) : Located(node, name, last) /\ Scanned(name, last)
    BY DEF OffsetsInv
  <2>2. diagnostic = IF loop = "done" THEN Answer(name, last) ELSE None
    BY <2>1 DEF Scanned
  <2>3. CharAt(byte_offset) = name /\ CharAt(byte_offset + byte_length) = last
    BY <2>1, KeyFacts DEF OffsetsInv
  <2> QED BY <2>2, <2>3 DEF DiagnosticIsAtTheLocation, Answer, None
<1> QED BY <1>1, OffsetsInvariant, PTL
================================================================================
