------------------------------ MODULE RunOutput ------------------------------
(***************************************************************************)
(* What a Bash run printed and how clients read it: the decoders and tail  *)
(* buffers of src/bash/output.rs and the replies of output_stream and      *)
(* status (view) in src/bash.rs.                                           *)
(*                                                                         *)
(* Two reader tasks ingest the chunks of stdout and stderr as they come;   *)
(* a chunk may end inside a UTF-8 sequence or an ANSI escape.  Clients     *)
(* page through a buffer by absolute offsets while its front is dropped.   *)
(*                                                                         *)
(* A byte is named by what the decoder tells apart: "e2" and "e3" start a  *)
(* sequence of two and of three bytes, "tail" continues one, every other   *)
(* name is an ASCII character: "x" and "1" stand for letters and digits,   *)
(* "esc", "[", "]", "bel" and "bs" (backslash) take part in escapes.       *)
(***************************************************************************)
EXTENDS Naturals, Sequences, SequencesExt

CONSTANTS
  OutputLoads,   \* bounds: the chunks each pipe may deliver, the bytes written
                 \* in all, the calls of output_stream and status
  OutputLimit,   \* the characters a buffer retains
  PageChars,     \* policy.bash.max_output_chars
  NoToken        \* a call without a continuation, a page without a next one

Pipes == {"stdout", "stderr"}
Streams == Pipes \union {"combined"}
Bytes == {"e2", "e3", "tail", "x", "1", "esc", "[", "]", "bel", "bs"}
Chars == (Bytes \ {"e2", "e3", "tail"}) \union {"two", "three", "bad"}
AnsiStates == {"Text", "Escape", "Csi", "Osc", "OscEscape"}

ASSUME OutputAssumption ==
  /\ OutputLoads \subseteq [chunks : [Pipes -> SUBSET (Seq(Bytes) \ {<<>>})],
                            bytes : Nat, reads : Nat]
  /\ OutputLimit \in Nat \ {0} /\ PageChars \in Nat \ {0}
  /\ NoToken \notin Nat

VARIABLES
  written,   \* the bytes each pipe has delivered
  decoder,   \* StreamDecoder of each pipe: pending bytes and ANSI state
  open,      \* pipes that have not ended
  buffer,    \* TailBuffer of each stream
  printed,   \* history: every character appended to each stream
  reader,    \* the client that pages: its stream, next offset and last page
  shown,     \* the last status view: its text and output_truncated
  work       \* what is left of the load

outputVars == <<written, decoder, open, buffer, printed, reader, shown, work>>

-----------------------------------------------------------------------------
(* Bytes to characters. *)

(* What std::str::from_utf8 makes of the bytes from i on: a character and  *)
(* the bytes it takes, "bad" (U+FFFD) and the bytes of the maximal invalid *)
(* prefix (error_len), or no bytes for a sequence that the end cuts short. *)
SequenceAt(bytes, i) ==
  LET n == Len(bytes)
      Continues(j) == j <= n /\ bytes[j] = "tail" IN
    IF bytes[i] \notin {"e2", "e3"}
    THEN [char |-> IF bytes[i] = "tail" THEN "bad" ELSE bytes[i], size |-> 1]
    ELSE IF i = n THEN [char |-> "bad", size |-> 0]
    ELSE IF ~Continues(i + 1) THEN [char |-> "bad", size |-> 1]
    ELSE IF bytes[i] = "e2" THEN [char |-> "two", size |-> 2]
    ELSE IF i + 1 = n THEN [char |-> "bad", size |-> 0]
    ELSE IF ~Continues(i + 2) THEN [char |-> "bad", size |-> 2]
    ELSE [char |-> "three", size |-> 3]

(* The loop of decode from each place: the characters of what is consumed, *)
(* and the bytes left over.                                                *)
Utf8From(bytes) ==
  LET n == Len(bytes)
      from[i \in 1..n + 3] ==
        IF i > n THEN [chars |-> <<>>, left |-> <<>>]
        ELSE LET first == SequenceAt(bytes, i) IN
          IF first.size = 0
          THEN [chars |-> <<>>, left |-> SubSeq(bytes, i, n)]
          ELSE [chars |-> <<first.char>> \o from[i + first.size].chars,
                left |-> from[i + first.size].left]
  IN from

Utf8(bytes) == Utf8From(bytes)[1]

(* The bytes '@' to '~', which end a CSI sequence. *)
Final == {"x", "[", "]", "bs"}

(* One character of strip_ansi. *)
NextAnsi(state, c) ==
  CASE state = "Text" -> IF c = "esc" THEN "Escape" ELSE "Text"
    [] state = "Escape" -> CASE c = "[" -> "Csi" [] c = "]" -> "Osc"
                             [] c = "esc" -> "Escape" [] OTHER -> "Text"
    [] state = "Csi" -> IF c \in Final THEN "Text" ELSE "Csi"
    [] state = "Osc" -> CASE c = "bel" -> "Text" [] c = "esc" -> "OscEscape"
                          [] OTHER -> "Osc"
    [] state = "OscEscape" -> CASE c = "bs" -> "Text" [] c = "esc" -> "OscEscape"
                                [] OTHER -> "Osc"

(* strip_ansi: the state and what is visible after each number of chars.   *)
AnsiAfter(state, chars) ==
  LET after[k \in 0..Len(chars)] ==
        IF k = 0 THEN [ansi |-> state, out |-> <<>>]
        ELSE [ansi |-> NextAnsi(after[k - 1].ansi, chars[k]),
              out |-> IF after[k - 1].ansi = "Text" /\ chars[k] # "esc"
                      THEN Append(after[k - 1].out, chars[k])
                      ELSE after[k - 1].out]
  IN after

StripAnsi(state, chars) == AnsiAfter(state, chars)[Len(chars)]

(* Mutant: a chunk that ends inside a sequence is flushed. *)
DecodeFlushing(d, bytes) ==
  LET text == Utf8(d.pending \o bytes)
      chars == IF text.left = <<>> THEN text.chars ELSE Append(text.chars, "bad")
      seen == StripAnsi(d.ansi, chars) IN
    [decoder |-> [pending |-> <<>>, ansi |-> seen.ansi], out |-> seen.out]

(* StreamDecoder::decode. *)
Decode(d, bytes) ==
  LET text == Utf8(d.pending \o bytes)
      seen == StripAnsi(d.ansi, text.chars) IN
    [decoder |-> [pending |-> text.left, ansi |-> seen.ansi], out |-> seen.out]

NewDecoder == [pending |-> <<>>, ansi |-> "Text"]

(* StreamDecoder::finish: an incomplete sequence becomes one "bad". *)
Flush(d) ==
  StripAnsi(d.ansi, IF d.pending = <<>> THEN <<>> ELSE <<"bad">>).out

-----------------------------------------------------------------------------
(* Tail buffers. *)

Width(c) == CASE c = "two" -> 2 [] c \in {"three", "bad"} -> 3 [] OTHER -> 1
ByteLength(text) == FoldLeft(LAMBDA n, c : n + Width(c), 0, text)

(* start is in characters here; compaction looks at bytes. *)
NewBuffer == [text |-> <<>>, start |-> 0, retained |-> 0, dropped |-> 0]
Retained(b) == SubSeq(b.text, b.start + 1, Len(b.text))

(* Mutant: the characters dropped from the front are not counted. *)
PushUncounted(b, text) ==
  LET all == b.text \o text
      kept == b.retained + Len(text)
      excess == IF kept <= OutputLimit THEN 0 ELSE kept - OutputLimit IN
    [b EXCEPT !.text = all, !.start = b.start + excess, !.retained = kept - excess]

(* TailBuffer::push. *)
Push(b, text) ==
  LET all == b.text \o text
      kept == b.retained + Len(text)
      excess == IF kept <= OutputLimit THEN 0 ELSE kept - OutputLimit
      start == b.start + excess
      compact == /\ excess > 0
                 /\ ByteLength(SubSeq(all, 1, start)) > ByteLength(all) \div 2 IN
    [text |-> IF compact THEN SubSeq(all, start + 1, Len(all)) ELSE all,
     start |-> IF compact THEN 0 ELSE start,
     retained |-> kept - excess,
     dropped |-> b.dropped + excess]

Least(m, n) == IF m <= n THEN m ELSE n

(* Mutant: an offset is taken to be relative to what is retained. *)
PageRelative(b, from) ==
  LET skip == Least(from, b.retained)
      rest == SubSeq(Retained(b), skip + 1, b.retained)
      end == Least(PageChars, Len(rest)) IN
    [text |-> SubSeq(rest, 1, end), begin |-> b.dropped + skip,
     next |-> IF end < Len(rest) THEN b.dropped + skip + end ELSE NoToken]

(* TailBuffer::page; begin is where the page starts in the whole stream. *)
PageOf(b, from) ==
  LET skip == Least(IF from > b.dropped THEN from - b.dropped ELSE 0, b.retained)
      rest == SubSeq(Retained(b), skip + 1, b.retained)
      end == Least(PageChars, Len(rest)) IN
    [text |-> SubSeq(rest, 1, end), begin |-> b.dropped + skip,
     next |-> IF end < Len(rest) THEN b.dropped + skip + end ELSE NoToken]

(* continuation_offset: a token counts for its own stream; the short form  *)
(* without a stream counts for the combined one.                           *)
ContinuationOffset(token, stream) ==
  LET names == {stream} \union (IF stream = "combined" THEN {"short"} ELSE {}) IN
    IF token # NoToken /\ token.stream \in names THEN token.offset ELSE NoToken

(* clamp_chars: the first or the last PageChars characters. *)
ClampChars(text, keepTail) ==
  IF Len(text) <= PageChars THEN text
  ELSE IF keepTail THEN SubSeq(text, Len(text) - PageChars + 1, Len(text))
  ELSE SubSeq(text, 1, PageChars)

-----------------------------------------------------------------------------
OutputTypeOK ==
  /\ written \in [Pipes -> Seq(Bytes)]
  /\ \A p \in Pipes : /\ decoder[p].ansi \in AnsiStates
                      /\ decoder[p].pending \in
                           {<<>>, <<"e2">>, <<"e3">>, <<"e3", "tail">>}
  /\ open \subseteq Pipes
  /\ \A s \in Streams : /\ buffer[s].text \in Seq(Chars)
                        /\ buffer[s].retained <= OutputLimit
                        /\ printed[s] \in Seq(Chars)
  /\ work.bytes \in Nat /\ work.reads \in Nat

OutputInit ==
  /\ written = [p \in Pipes |-> <<>>]
  /\ decoder = [p \in Pipes |-> NewDecoder]
  /\ open = Pipes
  /\ buffer = [s \in Streams |-> NewBuffer]
  /\ printed = [s \in Streams |-> <<>>]
  /\ reader = [stream |-> "combined", token |-> NoToken, end |-> 0,
               page |-> NoToken, dropped |-> 0]
  /\ shown = [text |-> <<>>, truncated |-> FALSE, whole |-> <<>>]
  /\ work \in OutputLoads

(* RunOutput::append. *)
AppendText(pipe, text) ==
  LET into == {pipe, "combined"} IN
    /\ buffer' = [s \in Streams |-> IF s \in into /\ text # <<>>
                                    THEN Push(buffer[s], text) ELSE buffer[s]]
    /\ printed' = [s \in Streams |-> IF s \in into THEN printed[s] \o text
                                     ELSE printed[s]]

(* RunOutput::ingest. *)
Ingest(pipe, bytes) ==
  /\ pipe \in open
  /\ Len(bytes) <= work.bytes
  /\ LET decoded == Decode(decoder[pipe], bytes) IN
       /\ decoder' = [decoder EXCEPT ![pipe] = decoded.decoder]
       /\ AppendText(pipe, decoded.out)
  /\ written' = [written EXCEPT ![pipe] = @ \o bytes]
  /\ work' = [work EXCEPT !.bytes = @ - Len(bytes)]
  /\ UNCHANGED <<open, reader, shown>>

(* RunOutput::finish, at the end of the pipe. *)
FinishPipe(pipe) ==
  /\ pipe \in open
  /\ AppendText(pipe, Flush(decoder[pipe]))
  /\ decoder' = [decoder EXCEPT ![pipe] = NewDecoder]
  /\ open' = open \ {pipe}
  /\ UNCHANGED <<written, reader, shown, work>>

(* What a client presents: nothing, the token of its last page, or that in *)
(* the short form.                                                         *)
Tokens ==
  {NoToken, reader.token} \union
  {[reader.token EXCEPT !.stream = "short"] : t \in {reader.token} \ {NoToken}}

(* output_stream. *)
OutputStream(stream, token) ==
  /\ work.reads > 0
  /\ LET b == buffer[stream]
         asked == ContinuationOffset(token, stream)
         page == PageOf(b, IF asked = NoToken THEN b.dropped ELSE asked) IN
       reader' = [stream |-> stream,
                  token |-> IF page.next = NoToken THEN NoToken
                            ELSE [stream |-> stream, offset |-> page.next],
                  page |-> page,
                  dropped |-> b.dropped,
                  end |-> IF asked = NoToken THEN page.begin ELSE asked]
  /\ work' = [work EXCEPT !.reads = @ - 1]
  /\ UNCHANGED <<written, decoder, open, buffer, printed, shown>>

(* Mutant: only what the buffer has dropped counts as truncated. *)
StatusDropped(keepTail) ==
  /\ work.reads > 0
  /\ LET text == Retained(buffer["combined"])
         clamped == ClampChars(text, keepTail) IN
       shown' = [text |-> clamped, whole |-> printed["combined"],
                 truncated |-> buffer["combined"].dropped > 0]
  /\ work' = [work EXCEPT !.reads = @ - 1]
  /\ UNCHANGED <<written, decoder, open, buffer, printed, reader>>

(* status: view clamps the retained combined output to its head for a      *)
(* success and to its tail otherwise.                                      *)
Status(keepTail) ==
  /\ work.reads > 0
  /\ LET text == Retained(buffer["combined"])
         clamped == ClampChars(text, keepTail) IN
       shown' = [text |-> clamped, whole |-> printed["combined"],
                 truncated |-> clamped # text \/ buffer["combined"].dropped > 0]
  /\ work' = [work EXCEPT !.reads = @ - 1]
  /\ UNCHANGED <<written, decoder, open, buffer, printed, reader>>

OutputNext ==
  \/ \E pipe \in Pipes : \E bytes \in work.chunks[pipe] : Ingest(pipe, bytes)
  \/ \E pipe \in Pipes : FinishPipe(pipe)
  \/ \E stream \in Streams : \E token \in Tokens :
       OutputStream(stream, token)
  \/ \E keepTail \in BOOLEAN : Status(keepTail)

OutputSpec == OutputInit /\ [][OutputNext]_outputVars

-----------------------------------------------------------------------------
(* Properties. *)

(* How the process's output was cut into chunks does not show: a pipe that *)
(* has ended printed what decoding all of its bytes at once gives.         *)
ChunksInvisible ==
  \A p \in Pipes \ open :
    LET whole == Decode(NewDecoder, written[p]) IN
      printed[p] = whole.out \o Flush(whole.decoder)

(* A buffer holds exactly the end of its stream, compacted or not, and     *)
(* knows the offset at which it starts.                                    *)
TailExact ==
  \A s \in Streams :
    /\ buffer[s].dropped + buffer[s].retained = Len(printed[s])
    /\ Retained(buffer[s]) =
         SubSeq(printed[s], buffer[s].dropped + 1, Len(printed[s]))

(* A page is the part of the stream it says it is, whatever was dropped    *)
(* since the client got its token: it starts where the last one ended, or, *)
(* if that is gone, at the first character retained.                       *)
PageFaithful ==
  reader.page # NoToken =>
    LET page == reader.page
        first == IF reader.end > reader.dropped THEN reader.end
                 ELSE reader.dropped IN
      /\ page.begin = first
      /\ page.text = SubSeq(printed[reader.stream], first + 1,
                            first + Len(page.text))
      /\ page.next # NoToken => page.next = first + Len(page.text)

(* A status that does not say the output was truncated shows all of it.    *)
UntruncatedIsWhole == ~shown.truncated => shown.text = shown.whole

(* What clients are told of the output while it is cut, dropped and        *)
(* compacted (bash/output.rs TailBuffer, bash.rs output_stream and view).  *)
OutputFaithful ==
  OutputTypeOK /\ TailExact /\ PageFaithful /\ UntruncatedIsWhole

=============================================================================
