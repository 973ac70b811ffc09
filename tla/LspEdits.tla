------------------------------ MODULE LspEdits ------------------------------
(***************************************************************************)
(* Positions and edits that cross the language server protocol: the        *)
(* conversion of columns between the public contract (zero-based UTF-16    *)
(* columns) and the encoding a server negotiated                           *)
(* (src/intelligence/position.rs), and the compilation of a WorkspaceEdit  *)
(* into whole-file replacements (src/intelligence/workspace_edit.rs).      *)
(*                                                                         *)
(* A text is a sequence of characters; Units gives the code units of each  *)
(* in each encoding.  A place in a text is the number of characters before *)
(* it, which stands for the byte offset: both count the same boundaries.   *)
(***************************************************************************)
EXTENDS Naturals, Sequences, FiniteSets, SequencesExt, Orderings

CONSTANTS
    Documents,      \* the texts a document may have
    Units,          \* [encoding -> [character -> its code units]]
    LineEnd,        \* the character '\n'
    MaxLine, MaxColumn,     \* bounds of the positions that are tried
    MaxEdits,       \* edits of one document
    Invalid,        \* an error
    Pending         \* not compiled yet

Encodings == {"utf-8", "utf-16", "utf-32"}
Glyphs == DOMAIN Units["utf-16"]

ASSUME LspEditsAssumption ==
    /\ MaxLine \in Nat /\ MaxColumn \in Nat /\ MaxEdits \in Nat
    /\ DOMAIN Units = Encodings /\ LineEnd \in Glyphs
    /\ \A e \in Encodings : /\ DOMAIN Units[e] = Glyphs
                            /\ \A c \in Glyphs : Units[e][c] \in Nat \ {0}
    /\ \A c \in Glyphs : Units["utf-32"][c] = 1
    /\ Documents \subseteq Seq(Glyphs)
    /\ Invalid \notin Nat

VARIABLES
    document,   \* [text, encoding]
    converted,  \* the last public position converted, with both results
    ranges,     \* the edits resolved so far, in the order of the array
    compiled    \* the text after the edits, Invalid, or Pending

lspEditVars == <<document, converted, ranges, compiled>>

Positions == (0..MaxLine) \X (0..MaxColumn)

-----------------------------------------------------------------------------
(* Lines and columns *)

UnitsOf(encoding, s) ==
    LET upTo[k \in 0..Len(s)] ==
            IF k = 0 THEN 0 ELSE upTo[k - 1] + Units[encoding][s[k]]
    IN  upTo[Len(s)]

LineEnds(text) == {i \in DOMAIN text : text[i] = LineEnd}

\* The place at which zero-based line n of text.split('\n') begins.
LineStart(text, n) ==
    IF n = 0 THEN 0
    ELSE CHOOSE i \in LineEnds(text) : Cardinality({j \in LineEnds(text) : j <= i}) = n

LineTail(text, n) ==
    LET from == LineStart(text, n)
        ends == {i \in LineEnds(text) : i > from}
    IN  SubSeq(text, from + 1,
               IF ends = {} THEN Len(text)
               ELSE (CHOOSE i \in ends : \A j \in ends : i <= j) - 1)

\* line_content finds the line.
HasLine(text, n) == n <= Cardinality(LineEnds(text))

\* Mutant: a column inside a surrogate pair goes to the character before it.
PrefixForUtf16Floor(line, column) ==
    CHOOSE k \in 0..Len(line) :
        /\ UnitsOf("utf-16", SubSeq(line, 1, k)) <= column
        /\ k = Len(line) \/ UnitsOf("utf-16", SubSeq(line, 1, k + 1)) > column

\* prefix_for_utf16_column: how many characters make up the column.  The
\* scan stops at the column, fails once it is past it, and fails when the
\* line ends before it.
PrefixForUtf16(line, column) ==
    LET Scan(at, c) ==
            IF at.stopped \/ at.units = column
            THEN [stopped |-> TRUE, units |-> at.units, k |-> at.k]
            ELSE IF at.units + Units["utf-16"][c] > column
            THEN [stopped |-> TRUE, units |-> at.units, k |-> Invalid]
            ELSE [stopped |-> FALSE, units |-> at.units + Units["utf-16"][c], k |-> at.k + 1]
        upTo[k \in 0..Len(line)] ==
            IF k = 0 THEN [stopped |-> FALSE, units |-> 0, k |-> 0]
            ELSE Scan(upTo[k - 1], line[k])
        end == upTo[Len(line)]
    IN  IF end.k # Invalid /\ end.units # column THEN Invalid ELSE end.k

\* prefix_for_server_column
PrefixForServer(line, column, encoding) ==
    CASE encoding = "utf-8" ->
             IF \E k \in 0..Len(line) : UnitsOf("utf-8", SubSeq(line, 1, k)) = column
             THEN CHOOSE k \in 0..Len(line) :
                      UnitsOf("utf-8", SubSeq(line, 1, k)) = column
             ELSE Invalid
      [] encoding = "utf-16" -> PrefixForUtf16(line, column)
      [] encoding = "utf-32" -> IF column <= Len(line) THEN column ELSE Invalid

\* server_character_from_utf16, with the line zero-based
ServerFromUtf16(text, line, column, encoding) ==
    IF ~HasLine(text, line) THEN Invalid
    ELSE LET k == PrefixForUtf16(LineTail(text, line), column)
         IN  IF k = Invalid THEN Invalid
             ELSE UnitsOf(encoding, SubSeq(LineTail(text, line), 1, k))

\* utf16_character_from_server
Utf16FromServer(text, line, column, encoding) ==
    IF ~HasLine(text, line) THEN Invalid
    ELSE LET k == PrefixForServer(LineTail(text, line), column, encoding)
         IN  IF k = Invalid THEN Invalid
             ELSE UnitsOf("utf-16", SubSeq(LineTail(text, line), 1, k))

\* Mutant: the position after a final line ending is not a line of its own.
OffsetForServerNoTail(text, line, column, encoding) ==
    IF line >= Cardinality(LineEnds(text)) + (IF text # <<>> /\ Last(text) # LineEnd
                                              THEN 1 ELSE 0) THEN Invalid
    ELSE LET k == PrefixForServer(LineTail(text, line), column, encoding)
         IN  IF k = Invalid THEN Invalid ELSE LineStart(text, line) + k

\* offset_for_server_position: the lines are those of split_inclusive, which
\* has none for an empty text and none after a final line ending; the latter
\* is put back.
OffsetForServer(text, line, column, encoding) ==
    LET pieces == Cardinality(LineEnds(text))
                  + (IF text # <<>> /\ Last(text) # LineEnd THEN 1 ELSE 0)
        tail == text # <<>> /\ Last(text) = LineEnd /\ line = pieces
        k == IF line < pieces THEN PrefixForServer(LineTail(text, line), column, encoding)
             ELSE IF tail THEN PrefixForServer(<<>>, column, encoding)
             ELSE Invalid
    IN  IF k = Invalid THEN Invalid
        ELSE (IF tail THEN Len(text) ELSE LineStart(text, line)) + k

-----------------------------------------------------------------------------
LspEditsInit ==
    /\ document \in [text : Documents, encoding : Encodings]
    /\ converted = Invalid
    /\ ranges = <<>>
    /\ compiled = Pending

\* position_params for a request, and a location of the answer turned back
\* (normalize_location).
Convert(line, column) ==
    LET server == ServerFromUtf16(document.text, line, column, document.encoding)
    IN  /\ ranges = <<>> /\ compiled = Pending
        /\ converted' = [line |-> line, column |-> column, server |-> server,
                     back |-> IF server = Invalid THEN Invalid
                              ELSE Utf16FromServer(document.text, line, server,
                                                   document.encoding)]
        /\ UNCHANGED <<document, ranges, compiled>>

\* One edit of the document's array: its range is resolved, or the whole
\* WorkspaceEdit refused.
ResolveEdit(from, to, text) ==
    LET start == OffsetForServer(document.text, from[1], from[2], document.encoding)
        end == OffsetForServer(document.text, to[1], to[2], document.encoding)
    IN  /\ compiled = Pending /\ Len(ranges) < MaxEdits
        /\ converted' = Invalid
        /\ IF start = Invalid \/ end = Invalid \/ end < start
           THEN /\ compiled' = Invalid
                /\ ranges' = <<>>
           ELSE /\ compiled' = compiled
                /\ ranges' = Append(ranges, [from |-> start, to |-> end, text |-> text])
        /\ UNCHANGED document

\* ranges.sort_by_key on the start: a stable sort.
Sorted(s) == StableSorted(s, [k \in DOMAIN s |-> s[k].from])

\* Mutant: only edits that start at one place count as overlapping.
OverlappingStarts(s) == \E k \in 1..(Len(s) - 1) : s[k].to > s[k].from
                                                   /\ s[k].from = s[k + 1].from

\* Neighbours may share a line but not a character.
Overlapping(s) == \E k \in 1..(Len(s) - 1) : s[k].to > s[k + 1].from

\* The edits applied from the back.
Applied(text, s) ==
    LET Replaced(t, r) == SubSeq(t, 1, r.from) \o r.text \o SubSeq(t, r.to + 1, Len(t))
        upTo[k \in 0..Len(s)] ==
            IF k = 0 THEN text ELSE Replaced(upTo[k - 1], s[Len(s) + 1 - k])
    IN  upTo[Len(s)]

\* The array is at its end: sort, refuse overlaps, apply.
Compile ==
    /\ compiled = Pending
    /\ compiled' = IF Overlapping(Sorted(ranges)) THEN Invalid
                   ELSE Applied(document.text, Sorted(ranges))
    /\ converted' = Invalid
    /\ UNCHANGED <<document, ranges>>

LspEditsNext ==
    \/ \E p \in Positions : Convert(p[1], p[2])
    \/ \E p, q \in Positions, t \in {<<>>, <<Len(ranges) + 1>>} : ResolveEdit(p, q, t)
    \/ Compile

LspEditsSpec == LspEditsInit /\ [][LspEditsNext]_lspEditVars

-----------------------------------------------------------------------------
(* Properties *)

\* The type invariant: every resolved range lies within the document, so
\* replace_range never panics (src/intelligence/workspace_edit.rs:109-111).
LspEditsTypeOK ==
    /\ document \in [text : Documents, encoding : Encodings]
    /\ converted # Invalid => <<converted.line, converted.column>> \in Positions
    /\ \A k \in DOMAIN ranges :
           ranges[k].from \in 0..ranges[k].to /\ ranges[k].to \in 0..Len(document.text)

\* A public position is accepted exactly when it lies between two characters
\* of a line of the document; what the server is asked about is that very
\* place in its own encoding, and the place comes back as the column that was
\* asked for (src/intelligence/position.rs:21-88).
ConversionFaithful ==
    converted # Invalid =>
        LET text == document.text
            At(i) == [line |-> Cardinality({j \in LineEnds(text) : j <= i}),
                      before |-> SubSeq(text,
                                   1 + LineStart(text, Cardinality({j \in LineEnds(text) : j <= i})), i)]
            places == {At(i) : i \in {j \in 0..Len(text) :
                           /\ At(j).line = converted.line
                           /\ UnitsOf("utf-16", At(j).before) = converted.column}}
        IN  IF places = {} THEN converted.server = Invalid
            ELSE \A p \in places :
                     /\ converted.server = UnitsOf(document.encoding, p.before)
                     /\ converted.back = converted.column

\* Edits and locations read a server's positions alike: of a document that is
\* not empty, a position is refused in an edit exactly when it is refused in a
\* location, although the two split the text into lines in different ways
\* (src/intelligence/position.rs:14-19 and 91-117).  An empty document has a
\* first line for a location and none for an edit.
PlacesAgree ==
    document.text # <<>> =>
        \A p \in Positions :
            LET offset == OffsetForServer(document.text, p[1], p[2], document.encoding)
            IN  /\ (offset = Invalid) = (Utf16FromServer(document.text, p[1], p[2],
                                             document.encoding) = Invalid)
                /\ offset # Invalid =>
                       offset \in LineStart(document.text, p[1])..Len(document.text)

\* A compiled document is the simultaneous replacement: each character
\* outside every range stays, each new text stands where its range was, and
\* texts for the same place keep the order of the array
\* (src/intelligence/workspace_edit.rs:102-111).
EditsSimultaneous ==
    compiled \notin {Pending, Invalid} =>
        LET text == document.text
            Covered(i) == \E k \in DOMAIN ranges : ranges[k].from < i /\ i <= ranges[k].to
            NewAt(i) == FlattenSeq([k \in DOMAIN ranges |->
                            IF ranges[k].from = i THEN ranges[k].text ELSE <<>>])
            Kept(i) == IF i < Len(text) /\ ~Covered(i + 1) THEN <<text[i + 1]>> ELSE <<>>
        IN  compiled = FlattenSeq([k \in 1..(Len(text) + 1) |->
                                      NewAt(k - 1) \o Kept(k - 1)])

\* Positions mean the same place on both sides of the protocol
\* (src/intelligence/position.rs).
PositionsFaithful == LspEditsTypeOK /\ ConversionFaithful /\ PlacesAgree

=============================================================================
