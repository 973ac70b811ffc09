----------------------------- MODULE Retrieval -----------------------------
(***************************************************************************)
(* code_retrieve: the operations of one call, run one after the other,     *)
(* each on its own read view of an index that a writer changes in between  *)
(* (src/workspace/retrieve.rs, src/retrieval/), the exact reads and their  *)
(* continuations (src/workspace/fetch.rs), text and file name search       *)
(* (src/index/search.rs), windows (src/index/windows.rs), lexical          *)
(* references (src/reference_service/mod.rs) and range handles             *)
(* (src/index/handle.rs).                                                  *)
(*                                                                         *)
(* A file's text is a sequence of tokens: NewLine, or a character with a   *)
(* width in bytes, some of which are occurrences of the one identifier     *)
(* that is searched for and so have a role.  The hash of a text is the     *)
(* text itself.  Paths are numbered in their lexical order.                *)
(***************************************************************************)
EXTENDS Naturals, Sequences, FiniteSets, SequencesExt, Orderings

CONSTANTS
    NumPaths,       \* indexed paths, in lexical order
    FileTexts,       \* the texts a file may have
    NewLine,        \* the token that ends a line
    CharWidth,          \* [token -> bytes of its UTF-8 form]
    Role,           \* [token -> its reference kind, or NoRole]
    Calls,          \* [ops, fail_fast]: the calls a client may begin with
    PerFile,        \* TEXT_WINDOWS_PER_FILE
    PerWindow,      \* OCCURRENCES_PER_WINDOW
    RefsPerFile,    \* WINDOWS_PER_FILE
    PageSizes,      \* the max_chars a client follows a token with
    NoRole, Nil, MaxIndexChanges

IndexPaths == 1..NumPaths

\* Lines a read is limited to: none, or a first and a last line that
\* scope_from_bounds has put in order.
Scopes == {<<>>} \union {s \in (Nat \ {0}) \X Nat : s[1] <= s[2]}

\* Where a read goes on.
Continuations == [path : IndexPaths, hash : FileTexts, scope : Scopes, offset : Nat]

\* Operations as they are parsed.  Tokens are those a client was given, so
\* they are not among the ones it begins with.
ClientOperation(op) ==
    /\ op.kind \notin {"read_handle", "read_continuation"}
    /\ op.kind = "read_path" => op.path \in IndexPaths /\ op.scope \in Scopes
    /\ op.kind \in {"read_path", "read_symbol"} => op.chars \in Nat /\ op.compact \in BOOLEAN
    /\ op.kind \in {"find_references", "read_symbol", "search_text"} => op.context \in Nat
    /\ op.kind \in {"find_file", "find_references", "search_text"} => op.max \in Nat

ASSUME RetrievalAssumption ==
    /\ NumPaths \in Nat \ {0} /\ MaxIndexChanges \in Nat
    /\ PerFile \in Nat \ {0} /\ PerWindow \in Nat \ {0}
    /\ RefsPerFile \in Nat \ {0}
    /\ NewLine \in DOMAIN CharWidth /\ DOMAIN Role = DOMAIN CharWidth
    /\ \A t \in DOMAIN CharWidth : CharWidth[t] \in Nat \ {0}
    /\ FileTexts \subseteq Seq(DOMAIN CharWidth) /\ Nil \notin FileTexts
    /\ Nil \notin Continuations /\ PageSizes \subseteq Nat
    /\ \A c \in Calls : /\ Len(c.ops) \in Nat \ {0} /\ DOMAIN c.ops = 1..Len(c.ops)
                       /\ \A i \in DOMAIN c.ops : ClientOperation(c.ops[i])

VARIABLES
    indexed,    \* [path -> the indexed text, or Nil]
    changed,    \* index changes made
    call,       \* the call being served, or Nil
    answered,   \* the last answer to a client, or Nil
    reading     \* what the client has assembled of one read, or Nil

retrievalVars == <<indexed, changed, call, answered, reading>>

-----------------------------------------------------------------------------
(* Lines and pages *)

\* The positions at which the lines of a text begin, as str::lines counts
\* them: a final line ending begins no further line.
Starts(text) ==
    {i \in 1..Len(text) : i = 1 \/ text[i - 1] = NewLine}

LineOf(text, i) == Cardinality({s \in Starts(text) : s <= i})

LineCount(text) == IF text = <<>> THEN 1 ELSE Cardinality(Starts(text))

LineText(text, n) ==
    Picked(text, {i \in 1..Len(text) : LineOf(text, i) = n /\ text[i] # NewLine})

\* slice_lines: the separator goes in only once the output is not empty.
SliceLines(text, from, to) ==
    LET last == IF to > Cardinality(Starts(text))
                THEN Cardinality(Starts(text)) ELSE to
        count == IF last < from THEN 0 ELSE last - from + 1
        upTo[k \in 0..count] ==
            IF k = 0 THEN <<>>
            ELSE IF upTo[k - 1] = <<>> THEN LineText(text, from + k - 1)
            ELSE upTo[k - 1] \o <<NewLine>> \o LineText(text, from + k - 1)
    IN  upTo[count]

ByteCount(s) ==
    LET upTo[k \in 0..Len(s)] == IF k = 0 THEN 0 ELSE upTo[k - 1] + CharWidth[s[k]]
    IN  upTo[Len(s)]

\* How many characters of s fit in the first n bytes (floor_char_boundary).
Fitting(s, n) ==
    CHOOSE k \in 0..Len(s) :
        /\ ByteCount(SubSeq(s, 1, k)) <= n
        /\ k = Len(s) \/ ByteCount(SubSeq(s, 1, k + 1)) > n

\* A range as the response and its handle state it: within the file.
Clamped(text, from, to) ==
    LET n == LineCount(text)
        lo == IF from > n THEN n ELSE from
        hi == IF to < lo THEN lo ELSE IF to > n THEN n ELSE to
    IN  <<lo, hi>>

Scoped(text, scope) ==
    IF scope = <<>> THEN text
    ELSE LET range == Clamped(text, scope[1], scope[2])
         IN  SliceLines(text, range[1], range[2])

RangeHandle(path, text, from, to) ==
    [path |-> path, hash |-> text, from |-> from, to |-> to]

\* bounded_content and the continuation: the offset counts characters here,
\* since every offset handed out is a character boundary.
Page(path, text, scope, offset, chars) ==
    LET content == Scoped(text, scope)
        end == offset + Fitting(SubSeq(content, offset + 1, Len(content)), chars)
        range == IF scope = <<>> THEN <<1, LineCount(text)>>
                 ELSE Clamped(text, scope[1], scope[2])
    IN  [content |-> SubSeq(content, offset + 1, end),
         handle |-> RangeHandle(path, text, range[1], range[2]),
         next |-> IF end < Len(content)
                  THEN [path |-> path, hash |-> text,
                        scope |-> scope, offset |-> end]
                  ELSE Nil]

Failed(code) == [error |-> code]
IsError(outcome) == DOMAIN outcome = {"error"}

\* Mutant: a continuation or handle is read without comparing the hash.
FetchIndexedPathAnyHash(path, scope, offset, chars, expected) ==
    IF indexed[path] = Nil
    THEN Failed(IF expected = Nil THEN "not_indexed" ELSE "stale")
    ELSE Page(path, indexed[path], scope, offset, chars)

\* A read bound to a hash: the file has gone, or has changed.
FetchIndexedPath(path, scope, offset, chars, expected) ==
    IF indexed[path] = Nil
    THEN Failed(IF expected = Nil THEN "not_indexed" ELSE "stale")
    ELSE IF expected # Nil /\ indexed[path] # expected THEN Failed("stale")
    ELSE Page(path, indexed[path], scope, offset, chars)

-----------------------------------------------------------------------------
(* Windows *)

\* WindowBuilder::push for the hits of one file, in line order.
Windows(text, hits, context, room) ==
    LET Lo(h) == IF h.line > context + 1 THEN h.line - context ELSE 1
        Hi(h) == IF h.line + context < LineCount(text)
                 THEN h.line + context ELSE LineCount(text)
        Joins(ws, h) ==
            ws # <<>> /\ Lo(h) <= Last(ws).to + 1 /\ Len(Last(ws).hits) < room
        Joined(w, h) ==
            [line |-> w.line, from |-> w.from,
             to |-> IF Hi(h) > w.to THEN Hi(h) ELSE w.to, hits |-> Append(w.hits, h)]
        upTo[k \in 0..Len(hits)] ==
            IF k = 0 THEN <<>>
            ELSE LET ws == upTo[k - 1]
                     h == hits[k]
                 IN  IF Joins(ws, h)
                     THEN Append(SubSeq(ws, 1, Len(ws) - 1), Joined(Last(ws), h))
                     ELSE Append(ws, [line |-> h.line, from |-> Lo(h), to |-> Hi(h),
                                      hits |-> <<h>>])
    IN  upTo[Len(hits)]

Take(s, n) == SubSeq(s, 1, IF n < Len(s) THEN n ELSE Len(s))

\* Mutant: the groups are emptied one after the other.
GroupByGroup(groups, limit) == Take(FlattenSeq(groups), limit)

\* FileGroups::interleave: one result of each group in turn, until limit
\* results are taken.
TakeTurns(groups, limit) ==
    LET rounds == IF groups = <<>> THEN 0
                  ELSE CHOOSE n \in {Len(g) : g \in Range(groups)} :
                           \A g \in Range(groups) : Len(g) <= n
        Turn(r) == FlattenSeq([k \in DOMAIN groups |->
                       IF r <= Len(groups[k]) THEN <<groups[k][r]>> ELSE <<>>])
    IN  Take(FlattenSeq([r \in 1..rounds |-> Turn(r)]), limit)

Total(groups) ==
    LET upTo[k \in 0..Len(groups)] == IF k = 0 THEN 0 ELSE upTo[k - 1] + Len(groups[k])
    IN  upTo[Len(groups)]

AtLeastOne(n) == IF n = 0 THEN 1 ELSE n

\* The files in scope, in path order; an empty scope is every file.
FilesIn(paths) ==
    Ascending({p \in IndexPaths : indexed[p] # Nil /\ (paths = {} \/ p \in paths)})

\* Mutant: the handle leaves out the context lines its preview shows.
WithHandleBare(path, window) ==
    [path |-> path, line |-> window.line, hits |-> window.hits,
     handle |-> RangeHandle(path, indexed[path], window.line, window.to),
     preview |-> SliceLines(indexed[path], window.from, window.to)]

WithHandle(path, window) ==
    [path |-> path, line |-> window.line, hits |-> window.hits,
     handle |-> RangeHandle(path, indexed[path], window.from, window.to),
     preview |-> SliceLines(indexed[path], window.from, window.to)]

\* Mutant: the windows of a file are counted after the per-file cut.
SearchResultCut(windows, taken, extra, limit) ==
    LET results == TakeTurns(extra \o taken, limit)
    IN  [results |-> results, truncated |-> Total(taken) > Len(results)]

\* The groups of the files as taken, and whether windows were left out.
SearchResult(windows, taken, extra, limit) ==
    LET results == TakeTurns(extra \o taken, limit)
    IN  [results |-> results, truncated |-> Total(windows) > Len(results)]

NonEmpty(groups) == Picked(groups, {k \in DOMAIN groups : groups[k] # <<>>})

\* The lines of a text with a match, from the first to the last.
TextHits(text, pattern) ==
    LET lines == Ascending({LineOf(text, i) : i \in {j \in DOMAIN text : text[j] \in pattern}})
    IN  [k \in DOMAIN lines |-> [line |-> lines[k], at |-> 0, role |-> NoRole]]

\* The windows of a file as results.
Given(path, windows) == [j \in DOMAIN windows |-> WithHandle(path, windows[j])]

SearchText(op) ==
    LET files == FilesIn(op.paths)
        limit == AtLeastOne(op.max)
        each == IF Cardinality(op.paths) = 1 \/ limit < PerFile
                THEN limit ELSE PerFile
        WindowsOf(text) ==
            Windows(text, TextHits(text, op.pattern), op.context, LineCount(text))
        found == [k \in DOMAIN files |-> Given(files[k], WindowsOf(indexed[files[k]]))]
    IN  SearchResult(found,
                     NonEmpty([k \in DOMAIN found |-> Take(found[k], each)]),
                     <<>>, limit)

SearchFilenames(op) ==
    LET files == FilesIn(op.paths)
        shown == Take(files, AtLeastOne(op.max))
    IN  [results |-> [k \in DOMAIN shown |-> [path |-> shown[k]]],
         truncated |-> Len(files) > Len(shown)]

-----------------------------------------------------------------------------
(* References to the identifier, and its declarations *)

\* kind_priority
Priority(role) ==
    IF role = "declaration" THEN 0 ELSE IF role = "call" THEN 1
    ELSE IF role = "read" THEN 5 ELSE 6

\* identifier_occurrences_with_symbols: in text order.  The roles come from
\* the syntax tree and are the tokens' own here.
Occurrences(text) ==
    LET found == Ascending({i \in DOMAIN text : Role[text[i]] # NoRole})
    IN  [k \in DOMAIN found |-> [line |-> LineOf(text, found[k]), at |-> found[k],
                                 role |-> Role[text[found[k]]]]]

\* find_symbols of the identifier: its declarations, in path and line order,
\* held to a path and to a line where the caller gave them.  A declaration
\* is taken to span the line of its name.
Definitions(path, line) ==
    LET Declarations(all) ==
            Picked(all, {k \in DOMAIN all : all[k].role = "declaration"
                                             /\ line \in {Nil, all[k].line}})
        Named(p, all) == [j \in DOMAIN all |-> [path |-> p, occurrence |-> all[j]]]
        files == FilesIn(IF path = Nil THEN {} ELSE {path})
    IN  FlattenSeq([k \in DOMAIN files |->
                       Named(files[k], Declarations(Occurrences(indexed[files[k]])))])

LeadPriority(window) ==
    CHOOSE n \in {Priority(h.role) : h \in Range(window.hits)} :
        \A h \in Range(window.hits) : n <= Priority(h.role)

\* Windows or groups of results with the most telling kinds first.
ByPriority(windows) ==
    StableSorted(windows, [j \in DOMAIN windows |-> LeadPriority(windows[j])])

GroupsByPriority(groups) ==
    StableSorted(groups, [k \in DOMAIN groups |-> LeadPriority(groups[k][1])])

\* The occurrences in a file that a request asks for: its target is no
\* reference to itself.
Wanted(op, target, path) ==
    LET all == Occurrences(indexed[path])
    IN  Picked(all, {k \in DOMAIN all :
                         /\ ~(path = target.path /\ all[k].at = target.occurrence.at)
                         /\ op.kinds = {} \/ all[k].role \in op.kinds})

\* The declaration itself, where it is asked for.
TargetResult(op, target) ==
    LET line == target.occurrence.line
    IN  IF "declaration" \in op.kinds /\ (op.paths = {} \/ target.path \in op.paths)
        THEN << <<WithHandle(target.path, [line |-> line, from |-> line, to |-> line,
                                           hits |-> <<target.occurrence>>])>> >>
        ELSE <<>>

FindReferences(op) ==
    LET definitions == Definitions(op.definition, op.line)
        files == FilesIn(op.paths)
        limit == AtLeastOne(op.max)
        each == IF limit < RefsPerFile THEN limit ELSE RefsPerFile
        WindowsOf(p) == Windows(indexed[p], Wanted(op, definitions[1], p),
                                op.context, PerWindow)
        found == [k \in DOMAIN files |-> Given(files[k], ByPriority(WindowsOf(files[k])))]
        taken == [k \in DOMAIN found |-> Take(found[k], each)]
    IN  IF definitions = <<>> THEN Failed("symbol_not_found")
        ELSE IF Len(definitions) > 1 THEN Failed("ambiguous_symbol")
        ELSE SearchResult(found, GroupsByPriority(NonEmpty(taken)),
                          TargetResult(op, definitions[1]), limit)

FetchSymbol(op) ==
    LET definitions == Definitions(op.path, Nil)
    IN  IF definitions = <<>> THEN Failed("symbol_not_found")
        ELSE IF Len(definitions) > 1 THEN Failed("ambiguous_symbol")
        ELSE LET line == definitions[1].occurrence.line
             IN  Page(definitions[1].path, indexed[definitions[1].path],
                      <<AtLeastOne(IF line > op.context THEN line - op.context ELSE 0),
                        line + op.context>>, 0, op.chars)

-----------------------------------------------------------------------------
(* The call *)

\* prepare_retrieval_operation has parsed the operation; search_index or
\* read_target runs it.
Retrieved(op) ==
    IF op.kind = "search_text" THEN SearchText(op)
    ELSE IF op.kind = "find_file" THEN SearchFilenames(op)
    ELSE IF op.kind = "find_references" THEN FindReferences(op)
    ELSE IF op.kind = "read_path"
    THEN FetchIndexedPath(op.path, op.scope, 0, op.chars, Nil)
    ELSE IF op.kind = "read_handle"
    THEN FetchIndexedPath(op.token.path, <<op.token.from, op.token.to>>,
                          0, op.chars, op.token.hash)
    ELSE IF op.kind = "read_symbol" THEN FetchSymbol(op)
    ELSE IF op.kind = "read_continuation"
    THEN FetchIndexedPath(op.token.path, op.token.scope, op.token.offset,
                          op.chars, op.token.hash)
    ELSE Failed("invalid_operation")

IsRead(op) == op.kind \in {"read_path", "read_handle", "read_symbol",
                           "read_continuation"}

\* compact_fetch_result: a compact answer to a read tells neither whether the
\* text was cut off nor where to go on, and has no handle.
Compacted(op, outcome) ==
    IF IsRead(op) /\ op.compact /\ ~IsError(outcome)
    THEN [content |-> outcome.content] ELSE outcome

RetrievalInit ==
    /\ indexed \in [IndexPaths -> FileTexts \union {Nil}]
    /\ changed = 0
    /\ call = Nil
    /\ answered = Nil
    /\ reading = Nil

\* The writer publishes an index in which one file has changed.
ChangeIndex(p, text) ==
    /\ changed < MaxIndexChanges
    /\ text # indexed[p]
    /\ indexed' = [indexed EXCEPT ![p] = text]
    /\ changed' = changed + 1
    /\ UNCHANGED <<call, answered, reading>>

\* The tokens of the last answer a client may read with next: the
\* continuation of a read, or the handle of a search result, whose preview
\* it remembers.
Follows ==
    IF answered = Nil \/ answered.results = <<>> THEN {}
    ELSE LET last == Last(answered.results).outcome
             Of(kind, token, preview) ==
                 {[ops |-> <<[id |-> 1, kind |-> kind, token |-> token,
                              preview |-> preview, chars |-> how.chars,
                              compact |-> how.compact]>>,
                   fail_fast |-> FALSE] : how \in [chars : PageSizes, compact : BOOLEAN]}
         IN  IF "next" \in DOMAIN last
             THEN IF last.next = Nil THEN {}
                  ELSE Of("read_continuation", last.next, Nil)
             ELSE IF "results" \notin DOMAIN last THEN {}
             ELSE UNION {Of("read_handle", r.handle, r.preview) :
                            r \in {x \in Range(last.results) : "handle" \in DOMAIN x}}

\* What a client that names a snapshot names: the one it was last told.
Pins == {Nil} \union (IF answered = Nil THEN {} ELSE {answered.snapshot})

\* code_retrieve up to its loop.  The client drops what it assembled unless
\* it goes on reading it.
StartCall(c, pin) ==
    /\ call = Nil
    /\ pin \in {Nil, indexed}
    /\ call' = [ops |-> c.ops, fail_fast |-> c.fail_fast, snapshot |-> indexed,
                seen |-> {}, done |-> 0, results |-> <<>>, errors |-> <<>>]
    /\ answered' = Nil
    /\ reading' = IF c.ops[1].kind = "read_continuation" THEN reading ELSE Nil
    /\ UNCHANGED <<indexed, changed>>

\* A named snapshot that is no longer the index's own refuses the call.
RefuseCall(pin) ==
    /\ call = Nil
    /\ pin \notin {Nil, indexed}
    /\ answered' = Nil
    /\ reading' = Nil
    /\ UNCHANGED <<indexed, changed, call>>

\* What the client holds of a read after one more page of it; a page alone
\* is nothing once it has dropped those before.  The handle and the place to
\* go on at are history after a compact answer.
Assembled(op, outcome) ==
    IF IsError(outcome) \/ (op.kind = "read_continuation" /\ reading = Nil) THEN Nil
    ELSE IF op.kind = "read_continuation"
    THEN [reading EXCEPT !.got = @ \o outcome.content, !.next = outcome.next]
    ELSE [handle |-> outcome.handle, got |-> outcome.content,
          next |-> outcome.next,
          whole |-> op.kind = "read_path" /\ op.scope = <<>>,
          preview |-> IF op.kind = "read_handle" THEN op.preview ELSE Nil]

\* Mutant: a failure ends the call whether or not the client asked for that.
RecordedStopping(op, outcome, seen) ==
    LET entry == [id |-> op.id, at |-> call.done + 1, view |-> indexed,
                  outcome |-> outcome]
    IN  [call EXCEPT !.seen = seen,
                     !.done = IF IsError(outcome) THEN Len(call.ops) ELSE @ + 1,
                     !.results = IF IsError(outcome) THEN @ ELSE Append(@, entry),
                     !.errors = IF IsError(outcome) THEN Append(@, entry) ELSE @]

\* The answer to an operation goes after those before it, with the
\* operations that follow left out once one has failed under fail_fast.
Recorded(op, outcome, seen) ==
    LET entry == [id |-> op.id, at |-> call.done + 1, view |-> indexed,
                  outcome |-> outcome]
    IN  [call EXCEPT !.seen = seen,
                     !.done = IF IsError(outcome) /\ call.fail_fast
                              THEN Len(call.ops) ELSE @ + 1,
                     !.results = IF IsError(outcome) THEN @ ELSE Append(@, entry),
                     !.errors = IF IsError(outcome) THEN Append(@, entry) ELSE @]

\* One turn of the loop.  A repeated id is an error; the operation is not run.
\* The client holds the text that it was given, compact or not.
Operate ==
    /\ call # Nil /\ call.done < Len(call.ops)
    /\ LET op == call.ops[call.done + 1]
           outcome == IF op.id \in call.seen THEN Failed("duplicate_id")
                      ELSE Retrieved(op)
       IN  /\ call' = Recorded(op, Compacted(op, outcome), call.seen \union {op.id})
           /\ reading' = IF IsRead(op) /\ op.id \notin call.seen
                         THEN Assembled(op, outcome) ELSE reading
    /\ UNCHANGED <<indexed, changed, answered>>

AnswerCall ==
    /\ call # Nil /\ call.done = Len(call.ops)
    /\ answered' = call
    /\ call' = Nil
    /\ UNCHANGED <<indexed, changed, reading>>

RetrievalNext ==
    \/ \E p \in IndexPaths, t \in FileTexts \union {Nil} : ChangeIndex(p, t)
    \/ \E c \in Calls \union Follows, pin \in Pins : StartCall(c, pin)
    \/ \E pin \in Pins : RefuseCall(pin)
    \/ Operate
    \/ AnswerCall

RetrievalSpec == RetrievalInit /\ [][RetrievalNext]_retrievalVars

-----------------------------------------------------------------------------
(* Properties *)

IsHandle(h) ==
    /\ h.path \in IndexPaths /\ h.hash \in FileTexts
    /\ h.from \in 1..h.to /\ h.to \in 1..LineCount(h.hash)

\* The type invariant.  A handle that is given out names a range that lies
\* within its text and does not end before it starts, so that decode_handle,
\* which checks this, never refuses it (src/index/handle.rs:43).
RetrievalTypeOK ==
    /\ indexed \in [IndexPaths -> FileTexts \union {Nil}]
    /\ changed \in 0..MaxIndexChanges
    /\ call # Nil => /\ call.done \in 0..Len(call.ops)
                        /\ Len(call.results) + Len(call.errors) <= call.done
    /\ reading # Nil => IsHandle(reading.handle)

\* The pages a client reads with continuations, however the index changes in
\* between, are together the scoped text of one version of the file: what it
\* has is a prefix of it, and all of it once the read ended with no place to
\* go on at (src/workspace/fetch.rs:400-460, 587-628).  An answer that is not
\* compact tells that place; a compact one does not (fetch.rs:519-544), so
\* that its client cannot tell a text that was cut off from a whole one, and
\* the property says of it only that it is one or the other.
PagesFaithful ==
    reading # Nil =>
        LET h == reading.handle
            whole == IF reading.whole THEN h.hash
                     ELSE SliceLines(h.hash, h.from, h.to)
        IN  /\ IsPrefix(reading.got, whole)
            /\ reading.next = Nil => reading.got = whole

\* A handle reads back what the preview beside it in the search result
\* showed, or is refused as stale (src/index/search.rs:61-71,
\* src/reference_service/mod.rs:563-610, src/workspace/fetch.rs:176-200).
HandleShowsPreview ==
    reading # Nil /\ reading.preview # Nil =>
        /\ IsPrefix(reading.got, reading.preview)
        /\ reading.next = Nil => reading.got = reading.preview

ResultsGiven == IF answered = Nil THEN {} ELSE Range(answered.results)

AskedFor(entry) == answered.ops[entry.at]

\* The search results of a kind that the client was given, each with the
\* index as it stood when the operation ran.
Searches(kind) == {entry \in ResultsGiven : AskedFor(entry).kind = kind}

InScope(entry) ==
    {p \in IndexPaths : /\ entry.view[p] # Nil
                        /\ AskedFor(entry).paths = {} \/ p \in AskedFor(entry).paths}

ShownOf(entry, p) == {r \in Range(entry.outcome.results) : r.path = p}

\* Every matching line of p lies in the range of some result.
AllShown(entry, p) ==
    LET text == entry.view[p]
    IN  \A i \in DOMAIN text : text[i] \in AskedFor(entry).pattern =>
            \E r \in ShownOf(entry, p) :
                LineOf(text, i) \in r.handle.from..r.handle.to

\* A text search that does not say it was truncated shows every matching line
\* of every file of its scope (src/index/search.rs:30-84,
\* src/index/windows.rs:38-60, 92-140).
SearchComplete ==
    \A entry \in Searches("search_text") :
        ~entry.outcome.truncated => \A p \in InScope(entry) : AllShown(entry, p)

\* Results take turns: a file gives at most one result more than another
\* unless that one has given all it had, so one noisy file cannot fill the
\* answer (src/index/windows.rs:5-6, 113-140).
TurnsTaken ==
    \A entry \in Searches("search_text") : \A p, q \in InScope(entry) :
        \/ Cardinality(ShownOf(entry, p)) <= Cardinality(ShownOf(entry, q)) + 1
        \/ AllShown(entry, q)

\* Every operation of a call is answered once, under its place in the
\* request, and results and errors each keep the order of the request; only
\* after an error under fail_fast is the rest left out
\* (src/workspace/retrieve.rs:40-112).
OneAnswerEach ==
    answered # Nil =>
        LET At(s) == [k \in DOMAIN s |-> s[k].at]
            places == Range(At(answered.results)) \union Range(At(answered.errors))
            Rising(s) == \A j, k \in DOMAIN s : j < k => s[j] < s[k]
        IN  /\ Rising(At(answered.results)) /\ Rising(At(answered.errors))
            /\ Len(answered.results) + Len(answered.errors) = Cardinality(places)
            /\ \/ places = DOMAIN answered.ops
               \/ /\ answered.fail_fast /\ answered.errors # <<>>
                  /\ places = 1..Last(answered.errors).at

\* A reference search that does not say it was truncated shows every
\* occurrence of the selected kinds ("whether windows were left out",
\* src/index/windows.rs:74).  The declaration that is added ahead of the
\* matches is counted among the results but not among the windows, so this
\* does not hold.
ReferencesComplete ==
    \A entry \in Searches("find_references") : ~entry.outcome.truncated =>
        \A p \in InScope(entry) : \A o \in Range(Occurrences(entry.view[p])) :
            o.role \in AskedFor(entry).kinds =>
                \E r \in ShownOf(entry, p) : o \in Range(r.hits)

\* What a client reads through handles and continuations is what they were
\* given out for (src/workspace/fetch.rs:362-460).
ReadsFaithful == RetrievalTypeOK /\ PagesFaithful /\ HandleShowsPreview

\* The limits of a text search are announced and shared fairly
\* (src/index/windows.rs:92-140).
SearchFair == SearchComplete /\ TurnsTaken

=============================================================================
