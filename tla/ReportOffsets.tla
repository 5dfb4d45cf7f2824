----------------------------- MODULE ReportOffsets -----------------------------
(***************************************************************************)
(* Where a report says an instance is. A node of the AST has byte offsets  *)
(* in its source; its key in a report (get_node_sort_key) pairs the line   *)
(* the node starts on with the location of its name; extract_issue_bodies  *)
(* (aderyn_core/src/detect/entrypoint.rs) turns that location into         *)
(* characters, one pass over the source; and LspReport::from               *)
(* (aderyn_driver/src/interface/lsp.rs) into a range for the editor.       *)
(***************************************************************************)
EXTENDS Integers, Sequences, FiniteSets

CONSTANTS
  Chars,      \* the characters of sources
  Newline,    \* '\n', one of them
  Width,      \* how many bytes UTF-8 takes for each character
  MaxLength   \* bound: characters of a source

ASSUME OffsetsAssumption ==
  /\ Newline \in Chars
  /\ Width \in [Chars -> 1..4]
  /\ MaxLength \in Nat

VARIABLES
  source,       \* the source file
  line_no,      \* of the instance's key
  byte_offset,  \* of the instance's key
  byte_length,  \* of the instance's key
  loop,         \* which loop of extract_issue_bodies is running
  read,         \* characters taken from the source by the current loop
  current_line_no, pre_line_char_offset, char_offset, char_len,
  stop_counting_preline_offset,
  diagnostic    \* what the editor is sent

key == <<source, line_no, byte_offset, byte_length>>
counters == <<current_line_no, pre_line_char_offset, char_offset, stop_counting_preline_offset>>
vars == <<source, line_no, byte_offset, byte_length, loop, read, current_line_no,
          pre_line_char_offset, char_offset, char_len, stop_counting_preline_offset, diagnostic>>

(* The byte offset after the first k characters of a source. *)
ByteOffset(s, k) ==
  LET offset[i \in 0..Len(s)] == IF i = 0 THEN 0 ELSE offset[i - 1] + Width[s[i]]
  IN  offset[k]

Newlines(s, k) == {i \in 1..k : s[i] = Newline}

(* SourceUnit::source_line of a node that starts after k characters. *)
SourceLine(s, k) == Cardinality(Newlines(s, k)) + 1

None == [sent |-> FALSE, line |-> 0, start |-> 0, end |-> 0]

(* The key of a node that starts after node characters and whose name (or  *)
(* the node itself, when it has none) is the characters name+1..last.      *)
KeyOf(node, name, last) ==
  /\ line_no = SourceLine(source, node)
  /\ byte_offset = ByteOffset(source, name)
  /\ byte_length = ByteOffset(source, last) - ByteOffset(source, name)

Init ==
  /\ source \in UNION {[1..n -> Chars] : n \in 0..MaxLength}
  /\ \E node, name, last \in 0..Len(source) : node <= name /\ name < last /\ KeyOf(node, name, last)
  /\ loop = "offset" /\ read = 0
  /\ current_line_no = 0 /\ pre_line_char_offset = 0 /\ char_offset = 0 /\ char_len = 0
  /\ stop_counting_preline_offset = FALSE
  /\ diagnostic = None

(* One character of the loop over content.char_indices(): the flag is set  *)
(* by the newline that ends the line before line_no, which is not counted. *)
ScanChar ==
  /\ loop = "offset" /\ read < Len(source) /\ ByteOffset(source, read) # byte_offset
  /\ LET newline == source[read + 1] = Newline
         line == IF newline THEN current_line_no + 1 ELSE current_line_no
         stop == stop_counting_preline_offset \/ (newline /\ line = line_no - 1)
     IN /\ current_line_no' = line
        /\ stop_counting_preline_offset' = stop
        /\ pre_line_char_offset' = IF stop THEN pre_line_char_offset ELSE pre_line_char_offset + 1
  /\ char_offset' = char_offset + 1
  /\ read' = read + 1
  /\ UNCHANGED <<key, loop, char_len, diagnostic>>

OffsetFound ==
  /\ loop = "offset" /\ (read = Len(source) \/ ByteOffset(source, read) = byte_offset)
  /\ loop' = "length"
  /\ UNCHANGED <<key, read, counters, char_len, diagnostic>>

(* The second loop counts from byte_offset on, to the end of the source at *)
(* the latest.                                                             *)
AtEnd == ByteOffset(source, read) - byte_offset = byte_length

(* Mutant: a length in bytes. *)
MeasureBytes ==
  /\ loop = "length" /\ read < Len(source) /\ ~AtEnd
  /\ char_len' = char_len + Width[source[read + 1]]
  /\ read' = read + 1
  /\ UNCHANGED <<key, loop, counters, diagnostic>>

MeasureChar ==
  /\ loop = "length" /\ read < Len(source) /\ ~AtEnd
  /\ char_len' = char_len + 1
  /\ read' = read + 1
  /\ UNCHANGED <<key, loop, counters, diagnostic>>

LengthFound ==
  /\ loop = "length" /\ (read = Len(source) \/ AtEnd)
  /\ loop' = "diagnose"
  /\ UNCHANGED <<key, read, counters, char_len, diagnostic>>

(* The offset in src_char2. *)
LineOffset == char_offset - pre_line_char_offset

(* Mutant: the range ends at the length, not that far from its start.      *)
DiagnoseByLength ==
  /\ loop = "diagnose" /\ loop' = "done"
  /\ diagnostic' =
       IF line_no < 1 \/ LineOffset < 1 THEN None
       ELSE [sent |-> TRUE, line |-> line_no - 1, start |-> LineOffset - 1, end |-> char_len]
  /\ UNCHANGED <<key, read, counters, char_len>>

(* create_diagnostic_from_issue: each checked_sub(1)? gives up below zero. *)
Diagnose ==
  /\ loop = "diagnose" /\ loop' = "done"
  /\ diagnostic' =
       IF line_no < 1 \/ LineOffset < 1 THEN None
       ELSE [sent |-> TRUE, line |-> line_no - 1, start |-> LineOffset - 1,
             end |-> LineOffset - 1 + char_len]
  /\ UNCHANGED <<key, read, counters, char_len>>

Next == ScanChar \/ OffsetFound \/ MeasureChar \/ LengthFound \/ Diagnose

Spec == Init /\ [][Next]_vars

--------------------------------------------------------------------------------
(* The character a byte offset of the source falls on. *)
CharAt(b) == CHOOSE k \in 0..Len(source) : ByteOffset(source, k) = b

(* How many characters the line a node starts on has before character k,   *)
(* those of later lines included when the name is not on that line.        *)
LineStart == IF line_no = 1 THEN 0
             ELSE CHOOSE i \in Newlines(source, Len(source)) :
                    Cardinality(Newlines(source, i)) = line_no - 1

(* src_char is in characters what the key says in bytes, wherever wide     *)
(* characters are: before the location, within it or after it.             *)
SrcCharIsTheKey ==
  loop \in {"diagnose", "done"} =>
    /\ char_offset = CharAt(byte_offset)
    /\ char_offset + char_len = CharAt(byte_offset + byte_length)

(* Every instance that is not on the first line reaches the editor; and    *)
(* what reaches it is on the line of the key, starts at the character of   *)
(* the location, counted from the start of that line, and ends with it.    *)
DiagnosticIsAtTheLocation ==
  /\ loop = "done" /\ line_no > 1 => diagnostic.sent
  /\ diagnostic.sent =>
       /\ diagnostic.line = line_no - 1
       /\ diagnostic.start = CharAt(byte_offset) - LineStart
       /\ diagnostic.end = CharAt(byte_offset + byte_length) - LineStart

(* "char_offset is counted from the beginning of the line_no"              *)
(* (entrypoint.rs:84): on every line, with the first character of the line *)
(* as 0 or, on every line, as 1. The code does not count on the first line.*)
LineOffsetIsCounted ==
  loop = "done" => LineOffset - (CharAt(byte_offset) - LineStart) \in {0, 1}
================================================================================
