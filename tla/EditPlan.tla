------------------------------ MODULE EditPlan ------------------------------
(***************************************************************************)
(* How an edit request becomes a plan of file writes: the requests of      *)
(* src/requests/edit.rs, the snapshot the application supplies when the    *)
(* client sends none (src/manager.rs), prepare_edit with                   *)
(* preflight_overlaps, plan_change and recheck_preconditions of            *)
(* src/workspace/edit.rs, and the text helpers of src/workspace/util.rs.   *)
(* The plan is what the commit modelled in ReconciledState writes.         *)
(*                                                                         *)
(* A text is a sequence of characters: "r" and "n" are CR and LF, "f"      *)
(* begins a line that declares the symbol an insertion may name, "x" and   *)
(* "y" are other text.  The hash of a text is the text; a snapshot id is   *)
(* what the index holds (HEAD, which only makes more snapshots stale, is   *)
(* left out).                                                              *)
(***************************************************************************)
EXTENDS Naturals, Sequences, SequencesExt, FiniteSets

CONSTANTS
  EditJobs,    \* bound: lists of changes and the index they meet
  EditPaths,   \* workspace-relative paths
  Absent       \* no file, no precondition

VARIABLES
  job,        \* the request, with the index as the client knows it
  snapshot,   \* request.snapshot_id: what the index held then, or Absent
  indexNow,   \* the index as the last reconcile or commit left it
  onDisk,     \* the files, which another program may write meanwhile
  stage,      \* where prepare_edit stands
  done,       \* changes planned so far
  plan        \* plan[p]: before and after of a planned file, or Absent

editVars == <<job, snapshot, indexNow, onDisk, stage, done, plan>>

Characters == {"f", "x", "y", "r", "n"}
ChangeKinds == {"create", "replace", "replace_range", "insert", "delete", "rename"}
Stages == {"arrived", "snapshot", "preflight", "planning", "syntax", "recheck", "commit",
           "previewed", "refused"}

-----------------------------------------------------------------------------
(* Requests: the six narrow tools; a transaction is a list of changes.     *)

Blank == [kind |-> "delete", path |-> Absent, to |-> Absent, old |-> <<>>,
          new |-> <<>>, count |-> 1, overwrite |-> FALSE, position |-> Absent,
          hash |-> Absent, handle |-> Absent]
CodeWrite(p, text, overwrite, hash) ==
  [Blank EXCEPT !.kind = "create", !.path = p, !.new = text,
                !.overwrite = overwrite, !.hash = hash]
CodeReplace(p, old, new, count, hash, handle) ==
  [Blank EXCEPT !.kind = "replace", !.path = p, !.old = old, !.new = new,
                !.count = count, !.hash = hash, !.handle = handle]
CodeReplaceRange(p, handle, new) ==
  [Blank EXCEPT !.kind = "replace_range", !.path = p, !.handle = handle, !.new = new]
CodeInsert(p, text, position, hash) ==
  [Blank EXCEPT !.kind = "insert", !.path = p, !.new = text,
                !.position = position, !.hash = hash]
CodeDelete(p, hash) == [Blank EXCEPT !.path = p, !.hash = hash]
CodeRename(p, to, hash) ==
  [Blank EXCEPT !.kind = "rename", !.path = p, !.to = to, !.hash = hash]

(* RangeHandle: a range of lines of one version of a file.                 *)
Handle(p, first, last, text) ==
  [path |-> p, first |-> first, last |-> last, hash |-> text]

(* What a client may send: the handle is there in the two tools that have  *)
(* one, and replace_range has nothing else.                                *)
FileTextsOrNone == Seq(Characters) \union {Absent}
PlannedFiles == [before : FileTextsOrNone, after : FileTextsOrNone]
HandleRecords == [path : EditPaths, first : Nat, last : Nat, hash : Seq(Characters)]
ChangeRecords ==
  [kind : ChangeKinds, path : EditPaths, to : EditPaths \union {Absent},
   old : Seq(Characters), new : Seq(Characters), count : Nat, overwrite : BOOLEAN,
   position : {"before", "after", "inside_start", "inside_end", Absent},
   hash : FileTextsOrNone, handle : HandleRecords \union {Absent}]
WellFormed(c) ==
  /\ c.handle # Absent => c.kind \in {"replace", "replace_range"}
  /\ c.kind = "replace_range" => c.handle # Absent
  /\ c.kind = "rename" => c.to # Absent

ASSUME EditAssumption ==
  /\ Absent \notin Seq(Characters)
  /\ Absent \notin PlannedFiles
  /\ Absent \notin HandleRecords /\ Absent \notin EditPaths
  /\ \A e \in EditJobs : /\ e.index \in [EditPaths -> FileTextsOrNone]
                         /\ e.lists \subseteq Seq(ChangeRecords)
                         /\ \A l \in e.lists : \A i \in DOMAIN l : WellFormed(l[i])

-----------------------------------------------------------------------------
(* Text helpers. *)

Smaller(m, n) == IF m <= n THEN m ELSE n
Most(m, n) == IF m >= n THEN m ELSE n

(* line_offset: how many characters precede the line.                      *)
LineOffset(text, line) ==
  LET ends == {i \in 1..Len(text) : text[i] = "n"}
      Before(i) == Cardinality({j \in ends : j <= i})
      at == {i \in ends : Before(i) = line - 1} IN
    IF line <= 1 THEN 0 ELSE IF at = {} THEN Len(text) ELSE CHOOSE i \in at : TRUE

(* Mutant: the range ends before its last line. *)
LineRangeShort(text, handle) ==
  [from |-> LineOffset(text, handle.first), to |-> LineOffset(text, handle.last)]

(* line_range_bytes, as the characters before and up to its end.           *)
LineRange(text, handle) ==
  [from |-> LineOffset(text, handle.first), to |-> LineOffset(text, handle.last + 1)]

LineEndingLabel(text) ==
  LET Lf(i) == text[i] = "n"
      Cr(i) == text[i] = "r"
      both == {i \in 1..Len(text) : Lf(i) /\ i > 1 /\ Cr(i - 1)}
      lf == {i \in 1..Len(text) : Lf(i)} \ both
      cr == {i \in 1..Len(text) : Cr(i) /\ i + 1 \notin both} IN
    IF both = {} /\ lf = {} /\ cr = {} THEN "none"
    ELSE IF lf = {} /\ cr = {} THEN "crlf"
    ELSE IF both = {} /\ cr = {} THEN "lf"
    ELSE "mixed"

(* Mutant: text is written as the client sent it. *)
NormalizedNot(content, text) == text

(* normalize_line_endings_for_content: text is written with the uniform    *)
(* line ending of content, if it has one.                                  *)
Normalized(content, text) ==
  LET label == LineEndingLabel(content)
      ending == IF label = "crlf" THEN <<"r", "n">> ELSE <<"n">>
      Piece(i) == IF text[i] \notin {"r", "n"} THEN <<text[i]>>
                  ELSE IF text[i] = "n" /\ i > 1 /\ text[i - 1] = "r" THEN <<>>
                  ELSE ending IN
    IF label \in {"crlf", "lf"} THEN FlattenSeq([i \in 1..Len(text) |-> Piece(i)])
    ELSE text

EndsWith(text, end) ==
  Len(text) >= Len(end) /\ SubSeq(text, Len(text) - Len(end) + 1, Len(text)) = end

(* preserve_terminal_line_ending. *)
PreserveTerminal(selected, new) ==
  IF new = <<>> \/ EndsWith(new, <<"n">>) \/ ~EndsWith(selected, <<"n">>) THEN new
  ELSE new \o (IF EndsWith(selected, <<"r", "n">>) THEN <<"r", "n">> ELSE <<"n">>)

(* match_indices: where old matches, leftmost first and without overlap;   *)
(* the empty text matches at every position.                               *)
MatchIndices(text, old) ==
  LET n == Len(text)
      m == Len(old)
      from[i \in 1..n + m + 2] ==
        IF i + m > n + 1 THEN <<>>
        ELSE IF SubSeq(text, i, i + m - 1) = old THEN <<i>> \o from[i + Most(1, m)]
        ELSE from[i + 1]
  IN from[1]

(* matching_old_text: the spelling of old to look for.                     *)
MatchingOld(content, selected, old, count) ==
  LET other == Normalized(content, old) IN
    IF other # old /\ Len(MatchIndices(selected, other)) = count THEN other ELSE old

Spliced(text, from, to, new) ==
  SubSeq(text, 1, from) \o new \o SubSeq(text, to + 1, Len(text))

(* replacen for as many matches as there are: upTo[k] is the text up to    *)
(* the end of the k-th match, EndOfMatch(k) where that is.                 *)
Replaced(text, old, new) ==
  LET found == MatchIndices(text, old)
      EndOfMatch(k) == IF k = 0 THEN 0 ELSE found[k] + Len(old) - 1
      upTo[k \in 0..Len(found)] ==
        IF k = 0 THEN <<>>
        ELSE upTo[k - 1] \o SubSeq(text, EndOfMatch(k - 1) + 1, found[k] - 1) \o new
  IN upTo[Len(found)] \o SubSeq(text, EndOfMatch(Len(found)) + 1, Len(text))

(* External: extract_symbols finds the anchor on the first line that       *)
(* begins with "f"; 0 if there is none.                                    *)
SymbolLine(text) ==
  LET lines == {l \in 1..Len(text) + 1 :
                  /\ LineOffset(text, l) < Len(text)
                  /\ text[LineOffset(text, l) + 1] = "f"} IN
    IF lines = {} THEN 0 ELSE CHOOSE l \in lines : \A k \in lines : l <= k

-----------------------------------------------------------------------------
(* Preconditions and overlaps. *)

Index == indexNow
SnapshotMatches == snapshot = Index
Changes == job.changes

(* changes_without_independent_preconditions. *)
Unprotected ==
  {i \in DOMAIN Changes :
     /\ ~ (Changes[i].kind = "create" /\ ~Changes[i].overwrite)
     /\ Changes[i].hash = Absent /\ Changes[i].handle = Absent}

(* The part of text a change may touch.                                    *)
Scope(change, text) ==
  IF change.handle = Absent THEN [from |-> 0, to |-> Len(text)]
  ELSE LineRange(text, change.handle)
Selected(change, text) ==
  SubSeq(text, Scope(change, text).from + 1, Scope(change, text).to)

(* The ranges, as first and last plus one, an exact or range edit replaces. *)
FoundRanges(change) ==
  LET text == Index[change.path]
      scope == Scope(change, text)
      selected == Selected(change, text)
      old == MatchingOld(text, selected, change.old, change.count) IN
    IF change.kind = "replace_range" THEN {<<scope.from, scope.to>>}
    ELSE {<<scope.from + i - 1, scope.from + i - 1 + Len(old)>> :
            i \in Range(MatchIndices(selected, old))}

Overlap(a, b) == a[1] < b[2] /\ b[1] < a[2]

(* preflight_overlaps accepts. *)
PreflightOk ==
  LET exact == {i \in DOMAIN Changes : Changes[i].kind \in {"replace", "replace_range"}}
      Same(i) == {j \in DOMAIN Changes : Changes[j].path = Changes[i].path}
      HandleFits(c) ==
        c.handle # Absent => c.handle.path = c.path /\ c.handle.first <= c.handle.last
      Counted(c) == c.kind = "replace" => Cardinality(FoundRanges(c)) = c.count IN
    /\ \A i \in DOMAIN Changes : Changes[i].handle # Absent => Same(i) = {i}
    /\ \A i \in exact : /\ Index[Changes[i].path] # Absent
                        /\ HandleFits(Changes[i])
                        /\ Counted(Changes[i])
    /\ \A i, j \in exact :
         (i < j /\ Changes[i].path = Changes[j].path) =>
           \A a \in FoundRanges(Changes[i]), b \in FoundRanges(Changes[j]) : ~Overlap(a, b)

-----------------------------------------------------------------------------
(* plan_change. *)

(* Mutant: a second change of a file forgets what was there before. *)
PutPlanAfresh(pl, p, before, after) ==
  [pl EXCEPT ![p] = [before |-> before, after |-> after]]

(* put_plan. *)
PutPlan(pl, p, before, after) ==
  [pl EXCEPT ![p] = [before |-> IF pl[p] = Absent THEN before ELSE pl[p].before,
                     after |-> after]]

Current(p) == IF plan[p] = Absent THEN Index[p] ELSE plan[p].after
OriginalHash(p) ==
  IF plan[p] # Absent /\ plan[p].before # Absent THEN plan[p].before ELSE Current(p)

(* The content after a change of an existing file.                         *)
ReplaceIn(c, text) ==
  LET scope == Scope(c, text)
      selected == Selected(c, text)
      old == MatchingOld(text, selected, c.old, c.count)
      new == PreserveTerminal(old, Normalized(text, c.new)) IN
    Spliced(text, scope.from, scope.to, Replaced(selected, old, new))

ReplaceRangeIn(c, text) ==
  LET scope == Scope(c, text) IN
    Spliced(text, scope.from, scope.to,
            PreserveTerminal(Selected(c, text), Normalized(text, c.new)))

InsertIn(c, text) ==
  LET l == SymbolLine(text)
      line == IF c.position \in {"after", "inside_start"} THEN l + 1 ELSE l
      at == LineOffset(text, line) IN
    Spliced(text, at, at, Normalized(text, c.new))

(* Mutant: the hash a change states is not compared. *)
AdmissibleUnchecked(c) ==
  /\ c.handle # Absent => c.handle.path = c.path
  /\ \/ c.kind = "create" /\ Current(c.path) = Absent
     \/ SnapshotMatches \/ c.hash # Absent \/ c.handle # Absent

(* The checks that come before the change itself.                          *)
Admissible(c) ==
  LET stated == IF c.hash # Absent THEN c.hash
                ELSE IF c.handle # Absent THEN c.handle.hash ELSE Absent IN
    /\ c.handle # Absent => c.handle.path = c.path
    /\ \/ c.kind = "create" /\ Current(c.path) = Absent
       \/ SnapshotMatches \/ stated # Absent
    /\ stated # Absent => OriginalHash(c.path) = stated

Applicable(c) ==
  LET text == Current(c.path)
      count == IF text = Absent THEN 0
               ELSE Len(MatchIndices(Selected(c, text),
                        MatchingOld(text, Selected(c, text), c.old, c.count))) IN
    CASE c.kind = "create" -> text = Absent \/ c.overwrite
      [] c.kind = "replace" -> text # Absent /\ count = c.count
      [] c.kind = "insert" -> text # Absent /\ SymbolLine(text) # 0
      [] c.kind = "rename" -> /\ text # Absent /\ Index[c.to] = Absent
                              /\ plan[c.to] = Absent \/ plan[c.to].after = Absent
      [] OTHER -> text # Absent

PlanWith(c) ==
  LET text == Current(c.path)
      Put(after) == PutPlan(plan, c.path, text, after) IN
    CASE c.kind = "create" -> Put(IF text = Absent THEN c.new ELSE Normalized(text, c.new))
      [] c.kind = "replace" -> Put(ReplaceIn(c, text))
      [] c.kind = "replace_range" -> Put(ReplaceRangeIn(c, text))
      [] c.kind = "insert" -> Put(InsertIn(c, text))
      [] c.kind = "delete" -> Put(Absent)
      [] c.kind = "rename" -> PutPlan(Put(Absent), c.to, Absent, text)

-----------------------------------------------------------------------------
(* prepare_edit. *)

Planned == {p \in EditPaths : plan[p] # Absent}

EditTypeOK ==
  /\ {onDisk, indexNow} \subseteq [EditPaths -> FileTextsOrNone]
  /\ snapshot \in [EditPaths -> FileTextsOrNone] \union {Absent}
  /\ stage \in Stages
  /\ done \in 0..Len(Changes)
  /\ \A p \in Planned : {plan[p].before, plan[p].after} \subseteq Seq(Characters) \union {Absent}
  /\ stage \in {"syntax", "recheck", "commit", "previewed"} =>
       done = Len(Changes) /\ Planned # {}

(* A transaction or a rename preview may send the snapshot its client      *)
(* knows, the tools for a single change send none (job.sends).             *)
EditInit ==
  /\ \E e \in EditJobs, sends, preview \in BOOLEAN :
       \E changes \in e.lists :
         job = [index |-> e.index, changes |-> changes, sends |-> sends,
                preview |-> preview]
  /\ snapshot = (IF job.sends THEN job.index ELSE Absent)
  /\ indexNow = job.index /\ onDisk = job.index
  /\ stage = "arrived"
  /\ done = 0
  /\ plan = [p \in EditPaths |-> Absent]

To(s) == stage' = s /\ UNCHANGED <<job, snapshot, indexNow, onDisk, done, plan>>

(* Another edit, or a program whose change is reconciled, until the writer *)
(* is taken and the reconcile of prepare_edit is over; once (a bound).     *)
IndexMoves(p, text) ==
  /\ stage \in {"arrived", "snapshot"}
  /\ indexNow = job.index /\ text # Index[p]
  /\ indexNow' = [indexNow EXCEPT ![p] = text]
  /\ onDisk' = [onDisk EXCEPT ![p] = text]
  /\ UNCHANGED <<job, snapshot, stage, done, plan>>

(* Another program changes a file while the edit is prepared.              *)
WriteMeanwhile(p) ==
  /\ stage \in {"planning", "recheck"}
  /\ onDisk[p] = Index[p]
  /\ onDisk' = [onDisk EXCEPT ![p] = IF Index[p] = Absent THEN <<"y">> ELSE Absent]
  /\ UNCHANGED <<job, snapshot, indexNow, stage, done, plan>>

(* Mutant: the snapshot the client sent is replaced by the current one. *)
FillAlways ==
  /\ stage = "arrived"
  /\ snapshot' = Index
  /\ stage' = "snapshot"
  /\ UNCHANGED <<job, indexNow, onDisk, done, plan>>

(* Application::code_edit: an edit without a snapshot is planned against   *)
(* the current one.                                                        *)
FillSnapshot ==
  /\ stage = "arrived"
  /\ snapshot' = (IF job.sends THEN snapshot ELSE Index)
  /\ stage' = "snapshot"
  /\ UNCHANGED <<job, indexNow, onDisk, done, plan>>

(* A stale snapshot is tolerated when every change protects itself; an     *)
(* empty request is refused.                                               *)
CheckSnapshot ==
  /\ stage = "snapshot"
  /\ To(IF Changes = <<>> \/ (~SnapshotMatches /\ Unprotected # {})
        THEN "refused" ELSE "preflight")

Preflight ==
  /\ stage = "preflight"
  /\ To(IF PreflightOk THEN "planning" ELSE "refused")

PlanChange ==
  /\ stage = "planning" /\ done < Len(Changes)
  /\ LET c == Changes[done + 1] IN
       IF Admissible(c) /\ Applicable(c)
       THEN /\ plan' = PlanWith(c)
            /\ done' = done + 1
            /\ stage' = IF done + 1 = Len(Changes) THEN "syntax" ELSE "planning"
            /\ UNCHANGED <<job, snapshot, indexNow, onDisk>>
       ELSE To("refused")

(* Tree-sitter may find an error in what is planned; a preview ends here.  *)
CheckSyntax ==
  /\ stage = "syntax"
  /\ \/ To(IF job.preview THEN "previewed" ELSE "recheck")
     \/ /\ \E p \in Planned : plan[p].after # Absent
        /\ To("refused")

(* recheck_preconditions. *)
Recheck ==
  /\ stage = "recheck"
  /\ To(IF \A p \in Planned : onDisk[p] = plan[p].before THEN "commit" ELSE "refused")

EditNext ==
  \/ FillSnapshot \/ CheckSnapshot \/ Preflight \/ PlanChange \/ CheckSyntax \/ Recheck
  \/ \E p \in EditPaths : WriteMeanwhile(p) \/ \E t \in {<<"y">>, Absent} : IndexMoves(p, t)

EditSpec == EditInit /\ [][EditNext]_editVars

-----------------------------------------------------------------------------
(* Properties. *)

(* Whatever the order and number of changes of a file, the plan states     *)
(* what the index had there, which is what recheck, commit and rollback go *)
(* by; a plan that reaches the commit found the same on disk.              *)
PlanFromIndex ==
  \A p \in Planned : /\ plan[p].before = Index[p]
                     /\ stage = "commit" => onDisk[p] = Index[p]

(* No file is overwritten, deleted or moved away blindly: what is there is *)
(* what the client knew and said so, by a snapshot or by the content named *)
(* in a change of the file.  A client that says neither (code_write with   *)
(* overwrite, code_delete and the other tools for one change) gets less:   *)
(* the file is as it was when the application took the request, however    *)
(* long that waited for other edits and for the writer.                    *)
Known == IF job.sends THEN job.index ELSE snapshot
NoBlindOverwrite ==
  stage = "commit" =>
    \A p \in Planned :
      \/ Index[p] = Absent
      \/ Index[p] = Known[p]
      \/ \E i \in DOMAIN Changes :
           /\ Changes[i].path = p
           /\ \/ Changes[i].hash = Index[p]
              \/ Changes[i].handle # Absent /\ Changes[i].handle.hash = Index[p]

(* An edit through a handle changes nothing outside of the lines the       *)
(* handle was issued for, and replace_range replaces all of them.          *)
HandleConfined ==
  stage = "commit" =>
    \A i \in DOMAIN Changes : Changes[i].handle # Absent =>
      LET h == Changes[i].handle
          p == h.path
          head == SubSeq(Index[p], 1, LineOffset(Index[p], h.first))
          tail == SubSeq(Index[p], LineOffset(Index[p], h.last + 1) + 1, Len(Index[p]))
          new == Normalized(Index[p], Changes[i].new) IN
        /\ IsPrefix(head, plan[p].after)
        /\ EndsWith(plan[p].after, tail)
        /\ Changes[i].kind = "replace_range" =>
             plan[p].after \in {head \o new \o end \o tail :
                                  end \in {<<>>, <<"n">>, <<"r", "n">>}}

(* A change of a file with uniform line endings keeps them, whichever ones *)
(* the client writes in its texts.  Text to look for that has a CR which   *)
(* ends no line, or that is empty, is left out: the code searches for it   *)
(* as it is.                                                               *)
NoBareCr(text) == \A i \in DOMAIN text : text[i] = "r" => i < Len(text) /\ text[i + 1] = "n"
LineEndingsKept ==
  (stage = "planning" /\ done < Len(Changes)) =>
    LET c == Changes[done + 1]
        text == Current(c.path) IN
      (/\ Admissible(c) /\ Applicable(c)
       /\ c.kind \in {"create", "replace", "replace_range", "insert"}
       /\ c.kind = "replace" => NoBareCr(c.old) /\ c.old # <<>>
       /\ text # Absent /\ LineEndingLabel(text) \in {"lf", "crlf"})
        => LineEndingLabel(PlanWith(c)[c.path].after) \in {"none", LineEndingLabel(text)}

(* A change stays in the lines and the line endings it was made for        *)
(* (workspace/edit.rs plan_change, workspace/util.rs).                     *)
ChangesConfined == HandleConfined /\ LineEndingsKept

(* The plan itself (workspace/edit.rs put_plan, recheck_preconditions).    *)
PlanSound == EditTypeOK /\ PlanFromIndex

=============================================================================
