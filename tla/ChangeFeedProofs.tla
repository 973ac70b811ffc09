-------------------------- MODULE ChangeFeedProofs --------------------------
(***************************************************************************)
(* That following the mutation log skips nothing, that the changes of an   *)
(* ended run are settled once and that CodeWeave's own writes are never    *)
(* taken for somebody else's, for any number of requests, files and steps  *)
(* and any bound of the log and of a reply (src/workspace/state/ledger.rs, *)
(* reconcile.rs, commit.rs, run.rs, bash/lifecycle.rs).                    *)
(***************************************************************************)
EXTENDS ChangeFeed, FiniteSetTheorems, WellFoundedInduction, TLAPS

(* The type invariant, one part for each group of variables.               *)
FilesOK ==
  /\ disk \in [Paths -> Nat] /\ mtime \in [Paths -> Nat] /\ head \in [Paths -> Nat]
  /\ clock \in Nat /\ events \subseteq Paths \union {None}
QueueOK == pending \subseteq Paths \union {None} /\ flag \in BOOLEAN /\ marker \subseteq Paths
StateOK ==
  /\ index \in [Paths -> Nat] /\ dirty \subseteq Paths /\ generation \in Nat
  /\ log \in Seq(RecordType) /\ Len(log) <= MaxLog
PlacesOK ==
  /\ writer \in Requests \union {None}
  /\ op \in [Requests -> {"none", "edit", "changes", "start", "poll"}]
  /\ pc \in [Requests -> Places]
EditOK ==
  /\ drained \in [git : BOOLEAN, paths : SUBSET Paths, external : SUBSET Paths]
  /\ batch \in SUBSET RecordType /\ before \in [Paths -> Nat] /\ stamp \in Nat
  /\ todo \subseteq Paths /\ done \subseteq Paths
FollowersOK ==
  /\ since \in [Requests -> Nat] /\ seen \in [Requests -> SUBSET RecordType]
  /\ cut \in [Requests -> BOOLEAN]
RunTyped ==
  run \in [state : {"none", "running", "ended"}, ended : Nat,
           baseline : Baseline \union {None}, frozen : Frozen \union {None}]
LocalTyped ==
  local \in [Requests -> [current : Baseline \union {None},
                          window : Baseline \union Frozen \union {None},
                          terminal : BOOLEAN, started : BOOLEAN]]
GhostsOK ==
  /\ ours \subseteq Nat /\ late \subseteq Paths /\ touched \subseteq Paths
  /\ ever \in SUBSET RecordType /\ replies \in SUBSET Frozen
LeftOK == left \in [Bounded -> Nat]

(* Where the holder of the state writer stands.                            *)
Held == {"drain", "publish", "record", "plan", "write", "undo", "commit"}
HolderAt == IF writer = None THEN "idle" ELSE pc[writer]

(* The generation of the next records: already published while they are on *)
(* their way to the log.                                                   *)
Fresh == IF HolderAt \in {"commit", "record"} THEN generation ELSE generation + 1

FollowInv ==
  /\ writer # None => HolderAt \in Held
  /\ batch # {} => HolderAt \in {"write", "commit", "record"}
  /\ IsFiniteSet(batch)
  /\ \A e \in batch : e.generation = Fresh
  /\ \A i \in 1..Len(log) : log[i].generation < Fresh
  /\ \A i, j \in 1..Len(log) : i < j => log[i].generation <= log[j].generation
  /\ \A r \in Requests : since[r] < Fresh
  /\ FollowComplete

(* What is dirty, indexed or recorded was written once; what was written   *)
(* or recorded by the end of the run has been touched by then.             *)
Written == {p \in Paths : mtime[p] > 0}
WrittenIn(b) == b \in Baseline /\ b.dirty \subseteq Written
ByEnd(t) == run.state = "ended" => t <= run.ended

FilesInv ==
  /\ run.ended <= clock
  /\ \A p \in Paths : disk[p] # 0 \/ head[p] # 0 \/ index[p] # 0 => p \in Written
  /\ dirty \subseteq Written
  /\ run.baseline # None => WrittenIn(run.baseline)
  /\ \A p \in Written : ByEnd(mtime[p]) => p \in touched
  /\ \A e \in Logged \union batch : e.path \in Written /\ (ByEnd(e.time) => e.path \in touched)

(* What a request that starts or polls the run carries.                    *)
Carries(r) ==
  /\ local[r].terminal => run.state = "ended"
  /\ pc[r] \in {"launch", "wait", "window", "attribute"} => WrittenIn(local[r].current)
  /\ pc[r] = "attribute" => WrittenIn(local[r].window)
  /\ pc[r] = "freeze" => local[r].window \in Frozen /\ local[r].window.paths \subseteq touched
  /\ pc[r] \in {"baseline", "launch"} => op[r] = "start" /\ ~local[r].started
  /\ op[r] = "start" /\ ~local[r].started /\ pc[r] # "wait" => run.state = "none"

RunInv ==
  /\ \A r \in Requests : Carries(r)
  /\ \A r, q \in Requests : op[r] = "start" /\ op[q] = "start" => r = q
  /\ run.frozen \in Frozen => run.frozen.paths \subseteq touched
  /\ replies \subseteq {run.frozen}

(* What an edit wrote is no external record, unless its marker was lost.   *)
TextsKnown ==
  /\ \A t \in ours : t <= clock
  /\ \A p \in Paths : disk[p] <= clock /\ before[p] <= clock
  /\ \A e \in ever \union batch :
       e.text <= clock /\ (e.source = "external" /\ e.text \in ours => e.path \in late)

(* What the holder of the writer may rely on.                              *)
Indexed(p) == disk[p] \in ours => index[p] = disk[p]
HolderKnows ==
  /\ HolderAt \notin {"publish", "record"} => drained = NoDrain
  /\ HolderAt = "publish" => \A p \in drained.external \ late : Indexed(p)
  /\ HolderAt = "record" => \A p \in drained.paths : Indexed(p)
  /\ HolderAt = "write" => \A p \in todo : Indexed(p)
  /\ HolderAt = "undo" => done \union todo \subseteq marker \union late

(* A text of CodeWeave's own that the index does not have and the watcher  *)
(* is going to report has its marker, or is being reconciled.              *)
MarkersKept ==
  \A p \in Paths : ~Indexed(p) /\ p \in events \union pending
                    => p \in marker \union late \union drained.paths

OwnInv == TextsKnown /\ HolderKnows /\ MarkersKept

FeedInv == FeedTypeOK /\ FollowInv /\ FilesInv /\ RunInv /\ OwnInv

-----------------------------------------------------------------------------
(* The type invariant.                                                     *)

LEMMA TypeParts ==
  /\ FeedTypeOK <=> /\ FilesOK /\ QueueOK /\ StateOK /\ PlacesOK /\ EditOK
                    /\ FollowersOK /\ RunTyped /\ LocalTyped /\ GhostsOK /\ LeftOK
  /\ FeedTypeOK' <=> /\ FilesOK' /\ QueueOK' /\ StateOK' /\ PlacesOK' /\ EditOK'
                     /\ FollowersOK' /\ RunTyped' /\ LocalTyped' /\ GhostsOK' /\ LeftOK'
BY Zenon DEF FeedTypeOK, FilesOK, QueueOK, StateOK, PlacesOK, EditOK, FollowersOK,
             RunTyped, LocalTyped, GhostsOK, LeftOK

(* What a step leaves alone stays typed.                                   *)
LEMMA Frames ==
  /\ FilesOK /\ UNCHANGED fileVars => FilesOK'
  /\ QueueOK /\ UNCHANGED queueVars => QueueOK'
  /\ StateOK /\ UNCHANGED stateVars => StateOK'
  /\ PlacesOK /\ UNCHANGED <<writer, op, pc>> => PlacesOK'
  /\ EditOK /\ UNCHANGED editVars => EditOK'
  /\ FollowersOK /\ UNCHANGED feedVars => FollowersOK'
  /\ RunTyped /\ UNCHANGED run => RunTyped'
  /\ LocalTyped /\ UNCHANGED local => LocalTyped'
  /\ GhostsOK /\ UNCHANGED ghostVars => GhostsOK'
  /\ LeftOK /\ UNCHANGED left => LeftOK'
<1>1. FilesOK /\ UNCHANGED fileVars => FilesOK'  BY Zenon DEF FilesOK, fileVars
<1>2. QueueOK /\ UNCHANGED queueVars => QueueOK'  BY Zenon DEF QueueOK, queueVars
<1>3. StateOK /\ UNCHANGED stateVars => StateOK'  BY Zenon DEF StateOK, stateVars
<1>4. PlacesOK /\ UNCHANGED <<writer, op, pc>> => PlacesOK'  BY Zenon DEF PlacesOK
<1>5. EditOK /\ UNCHANGED editVars => EditOK'  BY Zenon DEF EditOK, editVars
<1>6. FollowersOK /\ UNCHANGED feedVars => FollowersOK'
  BY Zenon DEF FollowersOK, feedVars
<1>7. RunTyped /\ UNCHANGED run => RunTyped'  BY Zenon DEF RunTyped
<1>8. LocalTyped /\ UNCHANGED local => LocalTyped'  BY Zenon DEF LocalTyped
<1>9. GhostsOK /\ UNCHANGED ghostVars => GhostsOK'  BY Zenon DEF GhostsOK, ghostVars
<1>10. LeftOK /\ UNCHANGED left => LeftOK'  BY Zenon DEF LeftOK
<1> QED  BY <1>1, <1>2, <1>3, <1>4, <1>5, <1>6, <1>7, <1>8, <1>9, <1>10, Zenon

LEMMA SpendTyped ==
  ASSUME LeftOK, NEW k \in Bounded, Spend(k)
  PROVE  LeftOK'
BY SMT DEF LeftOK, Spend

LEMMA GotoTyped ==
  ASSUME PlacesOK, NEW r \in Requests, NEW place \in Places, Goto(r, place),
         writer' \in Requests \union {None}, UNCHANGED op
  PROVE  PlacesOK'
BY SMT DEF PlacesOK, Goto

LEMMA FinishTyped ==
  ASSUME PlacesOK, NEW r \in Requests, Finish(r), writer' \in Requests \union {None}
  PROVE  PlacesOK'
<1>1. "idle" \in Places  BY DEF Places
<1> QED  BY <1>1, SMT DEF PlacesOK, Finish

LEMMA AfterTyped ==
  ASSUME NEW r \in Requests
  PROVE  After(r) \in {"records", "plan", "baseline", "current"}
BY DEF After

LEMMA WriteTyped ==
  ASSUME FilesOK, NEW p \in Paths, NEW t \in Nat, NEW begun, WriteText(p, t, begun),
         UNCHANGED head, touched \subseteq Paths
  PROVE  FilesOK' /\ touched' \subseteq Paths
BY SMT DEF FilesOK, WriteText

LEMMA RefreshedTyped ==
  ASSUME FilesOK, StateOK, NEW paths
  PROVE  Refreshed(paths) \in [Paths -> Nat]
BY SMT DEF FilesOK, StateOK, Refreshed

LEMMA RecordsTyped ==
  ASSUME FilesOK, StateOK, NEW paths \in SUBSET Paths, NEW source \in Sources
  PROVE  RecordsOf(paths, source) \in SUBSET RecordType
BY SMT DEF FilesOK, StateOK, RecordsOf, RecordType, Now

(* The log after a batch has entered it: what is left of the old records,  *)
(* in their order, then records of the batch.                              *)
LEMMA RecordedFacts ==
  ASSUME StateOK, NEW records \in SUBSET RecordType, IsFiniteSet(records),
         log' \in Recorded(records)
  PROVE  /\ log' \in Seq(RecordType)
         /\ Len(log') <= MaxLog
         /\ \E k \in Nat : \A i \in 1..Len(log') :
              \/ i + k \in 1..Len(log) /\ log'[i] = log[i + k]
              \/ i + k > Len(log) /\ log'[i] \in records
<1> PICK s \in Orders(records) : log' = Newest(log \o s)  BY Zenon DEF Recorded
<1>1. Cardinality(records) \in Nat  BY FS_CardinalityType
<1>2. /\ s \in [1..Cardinality(records) -> records]
      /\ Len(s) = Cardinality(records)
      /\ s \in Seq(RecordType)
  BY <1>1, SMT DEF Orders
<1> DEFINE all == log \o s
<1>3. /\ all \in Seq(RecordType)
      /\ Len(all) = Len(log) + Len(s)
      /\ \A i \in 1..Len(log) : all[i] = log[i]
      /\ \A i \in 1..Len(all) : i > Len(log) => all[i] \in records
      /\ Len(log) \in Nat
  <2>1. log \in Seq(RecordType) /\ Len(log) \in Nat  BY SMT DEF StateOK
  <2>2. Len(s) \in Nat /\ \A i \in 1..Len(s) : s[i] \in records  BY <1>2, SMT
  <2>3. /\ all \in Seq(RecordType)
        /\ Len(all) = Len(log) + Len(s)
        /\ \A i \in 1..Len(all) : all[i] = IF i <= Len(log) THEN log[i] ELSE s[i - Len(log)]
    BY <1>2, <2>1, SMT
  <2> HIDE DEF all
  <2>4. ASSUME NEW i \in 1..Len(log)  PROVE all[i] = log[i]
    <3>1. i \in 1..Len(all) /\ i <= Len(log)  BY <2>1, <2>2, <2>3, SMT
    <3> QED  BY <2>3, <3>1, Zenon
  <2>5. ASSUME NEW i \in 1..Len(all), i > Len(log)  PROVE all[i] \in records
    <3>1. i - Len(log) \in 1..Len(s) /\ ~(i <= Len(log))  BY <2>1, <2>2, <2>3, <2>5, SMT
    <3>2. all[i] = s[i - Len(log)]  BY <2>3, <3>1, Zenon
    <3> QED  BY <2>2, <3>1, <3>2, Zenon
  <2> QED  BY <2>1, <2>3, <2>4, <2>5, Zenon
<1> HIDE DEF all
<1>4. Len(all) \in Nat /\ MaxLog \in Nat  BY <1>3, FeedAssumption
<1> DEFINE k == IF Len(all) > MaxLog THEN Len(all) - MaxLog ELSE 0
<1>5. k \in Nat /\ k <= Len(all) /\ Len(all) - k <= MaxLog  BY <1>4, SMT
<1>6. log' = SubSeq(all, k + 1, Len(all))  BY <1>4, SMT DEF Newest, all
<1> HIDE DEF k
<1>7. /\ log' \in Seq(RecordType)
      /\ Len(log') = Len(all) - k
      /\ \A i \in 1..Len(log') : log'[i] = all[i + k] /\ i + k \in 1..Len(all)
  BY <1>3, <1>4, <1>5, <1>6, SMT
<1>8. \A i \in 1..Len(log') :
        \/ i + k \in 1..Len(log) /\ log'[i] = log[i + k]
        \/ i + k > Len(log) /\ log'[i] \in records
  BY <1>3, <1>4, <1>5, <1>7, SMT
<1> QED  BY <1>5, <1>7, <1>8, SMT

(* Every step keeps the types.                                             *)
LEMMA OutsideTyped ==
  ASSUME FeedTypeOK, Outside
  PROVE  FeedTypeOK'
<1>0. /\ FilesOK /\ QueueOK /\ StateOK /\ PlacesOK /\ EditOK
      /\ FollowersOK /\ RunTyped /\ LocalTyped /\ GhostsOK /\ LeftOK
  BY TypeParts
<1>1. ASSUME NEW p \in Paths, OutsideWrites(p) \/ RunWrites(p)
      PROVE  FeedTypeOK'
  <2>1. UNCHANGED <<queueVars, stateVars, writer, op, pc, editVars, feedVars, run, local>>
    BY <1>1, Zenon DEF OutsideWrites, RunWrites, runVars
  <2>2. /\ WriteText(p, clock + 1, Now) /\ UNCHANGED <<head, ours, late, ever, replies>>
        /\ Spend("outside") \/ Spend("runwrite")
    BY <1>1, Zenon DEF OutsideWrites, RunWrites
  <2>3. clock + 1 \in Nat /\ touched \subseteq Paths  BY <1>0 DEF FilesOK, GhostsOK
  <2>4. FilesOK' /\ touched' \subseteq Paths  BY <1>0, <2>2, <2>3, WriteTyped
  <2>5. GhostsOK'  BY <1>0, <2>2, <2>4 DEF GhostsOK
  <2>6. LeftOK'  BY <1>0, <2>2, SpendTyped DEF Bounded
  <2> QED  BY <1>0, <2>1, <2>4, <2>5, <2>6, Frames, TypeParts, Zenon
<1>2. CASE OutsideCommits
  <2>1. UNCHANGED <<queueVars, stateVars, writer, op, pc, editVars, feedVars, run, local,
                    ghostVars>>
    BY <1>2, Zenon DEF OutsideCommits, runVars
  <2>2. FilesOK'  BY <1>0, <1>2, SMT DEF OutsideCommits, FilesOK
  <2>3. LeftOK'  BY <1>0, <1>2, SpendTyped DEF OutsideCommits, Bounded
  <2> QED  BY <1>0, <2>1, <2>2, <2>3, Frames, TypeParts, Zenon
<1>3. CASE RunEnds
  <2>1. UNCHANGED <<queueVars, stateVars, writer, op, pc, editVars, feedVars, local,
                    ghostVars, left>>
    BY <1>3, Zenon DEF RunEnds
  <2>2. FilesOK'  BY <1>0, <1>3, SMT DEF RunEnds, FilesOK
  <2>3. clock + 1 \in Nat /\ run' = [run EXCEPT !.state = "ended", !.ended = clock + 1]
    BY <1>0, <1>3 DEF RunEnds, FilesOK
  <2>4. RunTyped'  BY <1>0, <2>3, Zenon DEF RunTyped
  <2> QED  BY <1>0, <2>1, <2>2, <2>4, Frames, TypeParts, Zenon
<1>4. ASSUME NEW p \in Paths \union {None}, Observe(p)
      PROVE  FeedTypeOK'
  <2>1. UNCHANGED <<stateVars, writer, op, pc, editVars, feedVars, run, local,
                    ghostVars, left>>
    BY <1>4, Zenon DEF Observe, runVars
  <2>2. FilesOK'  BY <1>0, <1>4, SMT DEF Observe, FilesOK
  <2>3. QueueOK'  BY <1>0, <1>4, SMT DEF Observe, QueueOK
  <2> QED  BY <1>0, <2>1, <2>2, <2>3, Frames, TypeParts, Zenon
<1>5. ASSUME NEW p \in Paths, Expire(p)
      PROVE  FeedTypeOK'
  <2>1. UNCHANGED <<fileVars, stateVars, writer, op, pc, editVars, feedVars, run, local>>
    BY <1>5, Zenon DEF Expire, runVars
  <2>2. QueueOK'  BY <1>0, <1>5, SMT DEF Expire, QueueOK
  <2>3. GhostsOK'  BY <1>0, <1>5, SMT DEF Expire, GhostsOK
  <2>4. LeftOK'  BY <1>0, <1>5, SpendTyped DEF Expire, Bounded
  <2> QED  BY <1>0, <2>1, <2>2, <2>3, <2>4, Frames, TypeParts, Zenon
<1> QED  BY <1>1, <1>2, <1>3, <1>4, <1>5, Zenon DEF Outside

LEMMA CallTyped ==
  ASSUME FeedTypeOK, NEW r \in Requests, Changes(r) \/ Edit(r) \/ StartRun(r) \/ PollRun(r)
  PROVE  FeedTypeOK'
<1>0. /\ FilesOK /\ QueueOK /\ StateOK /\ PlacesOK /\ EditOK
      /\ FollowersOK /\ RunTyped /\ LocalTyped /\ GhostsOK /\ LeftOK
  BY TypeParts
<1>1. PICK kind \in {"changes", "edit", "start", "poll"} : Call(r, kind, "reconcile")
  BY Zenon DEF Changes, Edit, StartRun, PollRun
<1>2. UNCHANGED <<fileVars, queueVars, stateVars, writer, editVars, feedVars, ghostVars>>
  BY <1>1, Zenon DEF Call
<1>3. UNCHANGED run  BY Zenon DEF Changes, Edit, StartRun, PollRun, runVars
<1>4. LeftOK'  BY <1>0, <1>1, SpendTyped DEF Call, Bounded
<1>5. PlacesOK'  BY <1>0, <1>1, SMT DEF Call, Goto, PlacesOK, Places
<1>6. LocalTyped'
  <2>1. CASE UNCHANGED local  BY <1>0, <2>1, Frames
  <2>2. CASE StartRun(r)  BY <1>0, <2>2, SMT DEF StartRun, LocalTyped, NoLocal
  <2>3. CASE PollRun(r)
    <3>1. Begun(FALSE) \in
            [current : Baseline \union {None}, window : Baseline \union Frozen \union {None},
             terminal : BOOLEAN, started : BOOLEAN]
      BY Zenon DEF Begun
    <3> QED  BY <1>0, <2>3, <3>1, Zenon DEF PollRun, LocalTyped
  <2> QED  BY <2>1, <2>2, <2>3, Zenon DEF Changes, Edit, runVars
<1> QED  BY <1>0, <1>2, <1>3, <1>4, <1>5, <1>6, Frames, TypeParts, Zenon

LEMMA SettleTyped ==
  ASSUME PlacesOK, NEW r \in Requests, Settle(r), UNCHANGED op
  PROVE  PlacesOK'
<1>1. After(r) \in Places  BY AfterTyped DEF Places
<1> QED  BY <1>1, GotoTyped DEF Settle

LEMMA ReconcileTyped ==
  ASSUME FeedTypeOK, IsFiniteSet(batch), NEW r \in Requests, ReconcileStep(r)
  PROVE  FeedTypeOK'
<1>0. /\ FilesOK /\ QueueOK /\ StateOK /\ PlacesOK /\ EditOK
      /\ FollowersOK /\ RunTyped /\ LocalTyped /\ GhostsOK /\ LeftOK
  BY TypeParts
<1>1. CASE SkipReconcile(r)
  <2>1. UNCHANGED <<fileVars, queueVars, stateVars, writer, op, editVars, feedVars, run, local,
                    ghostVars, left>>
    BY <1>1, Zenon DEF SkipReconcile, runVars
  <2>2. After(r) \in Places  BY AfterTyped DEF Places
  <2>3. PlacesOK'  BY <1>0, <1>1, <2>2, GotoTyped DEF SkipReconcile, PlacesOK
  <2> QED  BY <1>0, <2>1, <2>3, Frames, TypeParts, Zenon
<1>2. CASE TakeWriter(r)
  <2>1. UNCHANGED <<fileVars, queueVars, stateVars, op, editVars, feedVars, run, local,
                    ghostVars, left>>
    BY <1>2, Zenon DEF TakeWriter, runVars
  <2>2. PlacesOK'  BY <1>0, <1>2, GotoTyped DEF TakeWriter, Places
  <2> QED  BY <1>0, <2>1, <2>2, Frames, TypeParts, Zenon
<1>3. CASE Drain(r)
  <2>1. UNCHANGED <<fileVars, stateVars, op, feedVars, run, local, ghostVars, left>>
    BY <1>3, Zenon DEF Drain, runVars
  <2>2. CASE Settle(r) /\ UNCHANGED <<queueVars, before, stamp, todo, done>>
    <3>1. PlacesOK'  BY <1>0, <2>1, <2>2, SettleTyped
    <3>2. EditOK'  BY <1>0, <2>2, SMT DEF Settle, EditOK, NoDrain
    <3> QED  BY <1>0, <2>1, <2>2, <3>1, <3>2, Frames, TypeParts, Zenon
  <2>3. CASE ~ (Settle(r) /\ UNCHANGED <<queueVars, before, stamp, todo, done>>)
    <3>1. /\ flag' = FALSE /\ pending' = {} /\ marker' = marker \ pending
          /\ drained' = [git |-> None \in pending, paths |-> pending \ {None},
                         external |-> Unmarked(pending \ {None})]
          /\ Goto(r, "publish")
          /\ UNCHANGED <<writer, batch, before, stamp, todo, done>>
      BY <1>3, <2>3, Zenon DEF Drain
    <3>2. QueueOK'  BY <1>0, <3>1, Zenon DEF QueueOK
    <3>3. PlacesOK'
      BY <1>0, <2>1, <3>1, GotoTyped DEF PlacesOK, Places
    <3>4. EditOK'  BY <1>0, <3>1, SMT DEF EditOK, QueueOK, Unmarked
    <3> QED  BY <1>0, <2>1, <3>2, <3>3, <3>4, Frames, TypeParts, Zenon
  <2> QED  BY <2>2, <2>3
<1>4. CASE Publish(r)
  <2> DEFINE changed == {p \in drained.paths : index[p] # disk[p]}
             status == IF drained.git \/ changed # {} THEN GitDirty ELSE dirty
             found == drained.external \intersect changed
  <2>1. UNCHANGED <<fileVars, queueVars, op, feedVars, run, local, ghostVars, left>>
    BY <1>4, Zenon DEF Publish, runVars, ghostVars
  <2>2. /\ index' = Refreshed(changed) /\ dirty' = status
        /\ UNCHANGED <<log, before, stamp, todo, done>>
        /\ \/ Settle(r) /\ UNCHANGED generation
           \/ /\ generation' = generation + 1 /\ batch' = RecordsOf(found, "external")
              /\ Goto(r, "record") /\ UNCHANGED <<writer, drained>>
    BY <1>4, Zenon DEF Publish
  <2>3. found \in SUBSET Paths /\ status \in SUBSET Paths
    BY <1>0, SMT DEF EditOK, StateOK, GitDirty
  <2> HIDE DEF changed, status, found
  <2>4. index' \in [Paths -> Nat]  BY <1>0, <2>2, RefreshedTyped
  <2>5. StateOK'  BY <1>0, <2>2, <2>3, <2>4, SMT DEF StateOK, Settle
  <2>6. RecordsOf(found, "external") \in SUBSET RecordType
    BY <1>0, <2>3, RecordsTyped DEF Sources
  <2>7. EditOK'
    <3>1. NoDrain \in [git : BOOLEAN, paths : SUBSET Paths, external : SUBSET Paths]
      BY Zenon DEF NoDrain
    <3> QED  BY <1>0, <2>2, <2>6, <3>1, Zenon DEF EditOK, Settle
  <2>8. PlacesOK'
    BY <1>0, <2>1, <2>2, SettleTyped, GotoTyped DEF PlacesOK, Places
  <2> QED  BY <1>0, <2>1, <2>5, <2>7, <2>8, Frames, TypeParts, Zenon
<1>5. CASE ReconcileFails(r)
  <2>1. UNCHANGED <<fileVars, queueVars, feedVars, run, local>>
    BY <1>5, Zenon DEF ReconcileFails, runVars
  <2>2. PlacesOK'  BY <1>0, <1>5, FinishTyped DEF ReconcileFails
  <2>3. EditOK'  BY <1>0, <1>5, SMT DEF ReconcileFails, EditOK, NoDrain
  <2>4. index' \in [Paths -> Nat]  BY <1>0, <1>5, RefreshedTyped DEF ReconcileFails
  <2>5. StateOK'  BY <1>0, <1>5, <2>4, Zenon DEF ReconcileFails, StateOK
  <2>6. GhostsOK'  BY <1>0, <1>5, SMT DEF ReconcileFails, GhostsOK, EditOK
  <2>7. LeftOK'  BY <1>0, <1>5, SpendTyped DEF ReconcileFails, Bounded
  <2> QED  BY <1>0, <2>1, <2>2, <2>3, <2>5, <2>6, <2>7, Frames, TypeParts, Zenon
<1>6. CASE RecordExternal(r)
  <2>1. UNCHANGED <<fileVars, queueVars, feedVars, run, local, left>>
    BY <1>6, Zenon DEF RecordExternal, runVars
  <2>2. PlacesOK'  BY <1>0, <1>6, SettleTyped DEF RecordExternal
  <2>3. EditOK'  BY <1>0, <1>6, SMT DEF RecordExternal, Settle, EditOK, NoDrain
  <2>4. log' \in Seq(RecordType) /\ Len(log') <= MaxLog
    BY <1>0, <1>6, RecordedFacts DEF RecordExternal, EditOK
  <2>5. StateOK'  BY <1>0, <1>6, <2>4, Zenon DEF RecordExternal, StateOK
  <2>6. GhostsOK'  BY <1>0, <1>6, SMT DEF RecordExternal, GhostsOK, EditOK
  <2> QED  BY <1>0, <2>1, <2>2, <2>3, <2>5, <2>6, Frames, TypeParts, Zenon
<1> QED  BY <1>1, <1>2, <1>3, <1>4, <1>5, <1>6 DEF ReconcileStep

LEMMA EndEditTyped ==
  ASSUME PlacesOK, NEW r \in Requests, EndEdit(r)
  PROVE  PlacesOK'
BY FinishTyped DEF EndEdit

LEMMA EditTyped ==
  ASSUME FeedTypeOK, IsFiniteSet(batch), NEW r \in Requests, EditStep(r)
  PROVE  FeedTypeOK'
<1>0. /\ FilesOK /\ QueueOK /\ StateOK /\ PlacesOK /\ EditOK
      /\ FollowersOK /\ RunTyped /\ LocalTyped /\ GhostsOK /\ LeftOK
  BY TypeParts
<1>1. ASSUME NEW paths \in SUBSET Paths, Plan(r, paths)
      PROVE  FeedTypeOK'
  <2>1. UNCHANGED <<fileVars, queueVars, stateVars, feedVars, run, local, ghostVars, left>>
    BY <1>1, Zenon DEF Plan, runVars
  <2>2. CASE EndEdit(r) /\ UNCHANGED <<drained, before, stamp>>
    <3>1. PlacesOK'  BY <1>0, <2>2, EndEditTyped
    <3>2. EditOK'  BY <1>0, <2>2, Zenon DEF EndEdit, EditOK
    <3> QED  BY <1>0, <2>1, <3>1, <3>2, Frames, TypeParts, Zenon
  <2>3. CASE ~ (EndEdit(r) /\ UNCHANGED <<drained, before, stamp>>)
    <3>1. /\ before' = [p \in Paths |-> IF p \in paths THEN disk[p] ELSE before[p]]
          /\ stamp' = Now /\ todo' = paths /\ Goto(r, "write")
          /\ UNCHANGED <<writer, op, batch, done, drained>>
      BY <1>1, <2>3, Zenon DEF Plan
    <3>2. PlacesOK'  BY <1>0, <3>1, GotoTyped DEF Places, PlacesOK
    <3>3. before' \in [Paths -> Nat] /\ stamp' \in Nat
      BY <1>0, <3>1, SMT DEF EditOK, FilesOK, Now
    <3>4. EditOK'  BY <1>0, <3>1, <3>3, Zenon DEF EditOK
    <3> QED  BY <1>0, <2>1, <3>2, <3>4, Frames, TypeParts, Zenon
  <2> QED  BY <2>2, <2>3
<1>2. ASSUME NEW p \in Paths, WriteFile(r, p)
      PROVE  FeedTypeOK'
  <2>1. UNCHANGED <<stateVars, writer, op, pc, feedVars, run, local, left>>
    BY <1>2, Zenon DEF WriteFile, runVars
  <2>2. clock + 1 \in Nat /\ generation + 1 \in Nat /\ touched \subseteq Paths
    BY <1>0 DEF FilesOK, GhostsOK, StateOK
  <2>3. FilesOK' /\ touched' \subseteq Paths
    BY <1>0, <1>2, <2>2, WriteTyped DEF WriteFile
  <2>4. QueueOK'  BY <1>0, <1>2, SMT DEF WriteFile, QueueOK
  <2>5. GhostsOK'  BY <1>0, <1>2, <2>2, <2>3, Zenon DEF WriteFile, GhostsOK
  <2>6. [path |-> p, source |-> "mcp_edit", generation |-> generation + 1,
         text |-> clock + 1, time |-> stamp] \in RecordType
    BY <1>0, <2>2, Zenon DEF RecordType, Sources, EditOK
  <2>7. EditOK'  BY <1>0, <1>2, <2>6, Zenon DEF WriteFile, EditOK
  <2> QED  BY <1>0, <2>1, <2>3, <2>4, <2>5, <2>7, Frames, TypeParts, Zenon
<1>3. ASSUME NEW p \in Paths, WriteFails(r, p)
      PROVE  FeedTypeOK'
  <2>1. UNCHANGED <<fileVars, stateVars, feedVars, run, local, ghostVars>>
    BY <1>3, Zenon DEF WriteFails, runVars
  <2>2. QueueOK'  BY <1>0, <1>3, SMT DEF WriteFails, QueueOK, EditOK
  <2>3. LeftOK'  BY <1>0, <1>3, SpendTyped DEF WriteFails, Bounded
  <2>4. PlacesOK'
    BY <1>0, <1>3, EndEditTyped, GotoTyped DEF WriteFails, Places, PlacesOK
  <2>5. EditOK'  BY <1>0, <1>3, Zenon DEF WriteFails, EndEdit, EditOK
  <2> QED  BY <1>0, <2>1, <2>2, <2>3, <2>4, <2>5, Frames, TypeParts, Zenon
<1>4. ASSUME NEW p \in Paths, Restore(r, p)
      PROVE  FeedTypeOK'
  <2>1. UNCHANGED <<queueVars, stateVars, writer, op, pc, feedVars, run, local>>
    BY <1>4, Zenon DEF Restore, runVars
  <2>2. before[p] \in Nat /\ touched \subseteq Paths  BY <1>0 DEF EditOK, GhostsOK
  <2>3. FilesOK' /\ touched' \subseteq Paths /\ LeftOK'
    <3>1. CASE WriteText(p, before[p], Now) /\ UNCHANGED left
      BY <1>0, <1>4, <2>2, <3>1, WriteTyped, Frames DEF Restore
    <3>2. CASE Spend("fault") /\ UNCHANGED <<disk, mtime, clock, events, touched>>
      <4>1. LeftOK'  BY <1>0, <3>2, SpendTyped DEF Bounded
      <4>2. UNCHANGED fileVars  BY <1>4, <3>2 DEF Restore, fileVars
      <4> QED  BY <1>0, <2>2, <3>2, <4>1, <4>2, Frames, Zenon
    <3> QED  BY <1>4, <3>1, <3>2, Zenon DEF Restore
  <2>4. GhostsOK'  BY <1>0, <1>4, <2>3, Zenon DEF Restore, GhostsOK
  <2>5. EditOK'  BY <1>0, <1>4, Zenon DEF Restore, EditOK
  <2> QED  BY <1>0, <2>1, <2>3, <2>4, <2>5, Frames, TypeParts, Zenon
<1>5. CASE PublishEdit(r)
  <2>1. UNCHANGED <<fileVars, queueVars, editVars, feedVars, run, local, ghostVars, left>>
    BY <1>5, Zenon DEF PublishEdit, runVars
  <2>2. index' \in [Paths -> Nat]  BY <1>0, <1>5, RefreshedTyped DEF PublishEdit
  <2>3. generation' \in Nat /\ dirty' \subseteq Paths
    BY <1>0, <1>5 DEF PublishEdit, StateOK, GitDirty
  <2>4. StateOK'  BY <1>0, <1>5, <2>2, <2>3, Zenon DEF PublishEdit, StateOK
  <2>5. PlacesOK'  BY <1>0, <1>5, GotoTyped DEF PublishEdit, Places, PlacesOK
  <2> QED  BY <1>0, <2>1, <2>4, <2>5, Frames, TypeParts, Zenon
<1>6. CASE PublishFails(r)
  <2>1. UNCHANGED <<fileVars, feedVars, run, local, ghostVars>>
    BY <1>6, Zenon DEF PublishFails, runVars
  <2>2. index' \in [Paths -> Nat]  BY <1>0, <1>6, RefreshedTyped DEF PublishFails
  <2>3. StateOK'  BY <1>0, <1>6, <2>2, Zenon DEF PublishFails, StateOK
  <2>4. QueueOK'  BY <1>0, <1>6, SMT DEF PublishFails, QueueOK, EditOK
  <2>5. EditOK'  BY <1>0, <1>6, Zenon DEF PublishFails, EditOK
  <2>6. PlacesOK'  BY <1>0, <1>6, GotoTyped DEF PublishFails, Places, PlacesOK
  <2>7. LeftOK'  BY <1>0, <1>6, SpendTyped DEF PublishFails, Bounded
  <2> QED  BY <1>0, <2>1, <2>3, <2>4, <2>5, <2>6, <2>7, Frames, TypeParts, Zenon
<1>7. CASE Compensated(r)
  <2>1. UNCHANGED <<fileVars, feedVars, run, local, ghostVars>>
    BY <1>7, Zenon DEF Compensated, runVars
  <2>2. index' \in [Paths -> Nat]  BY <1>0, <1>7, RefreshedTyped DEF Compensated
  <2>3. StateOK'  BY <1>0, <1>7, <2>2, Zenon DEF Compensated, StateOK
  <2>4. QueueOK'  BY <1>0, <1>7, Zenon DEF Compensated, QueueOK, EditOK
  <2>5. EditOK'  BY <1>0, <1>7, Zenon DEF Compensated, EndEdit, EditOK
  <2>6. PlacesOK'  BY <1>0, <1>7, EndEditTyped DEF Compensated
  <2>7. LeftOK'  BY <1>0, <1>7, SpendTyped, Frames DEF Compensated, Bounded
  <2> QED  BY <1>0, <2>1, <2>3, <2>4, <2>5, <2>6, <2>7, Frames, TypeParts, Zenon
<1>8. CASE RecordEdit(r)
  <2>1. UNCHANGED <<fileVars, queueVars, feedVars, run, local, left>>
    BY <1>8, Zenon DEF RecordEdit, runVars
  <2>2. PlacesOK'  BY <1>0, <1>8, EndEditTyped DEF RecordEdit
  <2>3. EditOK'  BY <1>0, <1>8, Zenon DEF RecordEdit, EndEdit, EditOK
  <2>4. log' \in Seq(RecordType) /\ Len(log') <= MaxLog
    BY <1>0, <1>8, RecordedFacts DEF RecordEdit, EditOK
  <2>5. StateOK'  BY <1>0, <1>8, <2>4, Zenon DEF RecordEdit, StateOK
  <2>6. GhostsOK'  BY <1>0, <1>8, SMT DEF RecordEdit, GhostsOK, EditOK
  <2> QED  BY <1>0, <2>1, <2>2, <2>3, <2>5, <2>6, Frames, TypeParts, Zenon
<1> QED  BY <1>1, <1>2, <1>3, <1>4, <1>5, <1>6, <1>7, <1>8, Zenon DEF EditStep

LEMMA ReadTyped ==
  ASSUME FeedTypeOK, NEW r \in Requests, ReadRecords(r)
  PROVE  FeedTypeOK'
<1>0. /\ FilesOK /\ QueueOK /\ StateOK /\ PlacesOK /\ EditOK
      /\ FollowersOK /\ RunTyped /\ LocalTyped /\ GhostsOK /\ LeftOK
  BY TypeParts
<1>1. UNCHANGED <<fileVars, queueVars, stateVars, writer, editVars, run, local, ghostVars, left>>
  BY Zenon DEF ReadRecords, runVars
<1>2. PlacesOK'  BY <1>0, FinishTyped DEF ReadRecords, PlacesOK
<1> DEFINE records == RecordsSince(since[r])
<1>3. \A i \in records : log[i] \in RecordType /\ log[i].generation \in Nat
  <2>1. records \subseteq 1..Len(log)  BY Zenon DEF RecordsSince
  <2>2. \A i \in 1..Len(log) : log[i] \in RecordType  BY <1>0, SMT DEF StateOK
  <2>3. \A e \in RecordType : e.generation \in Nat  BY SMT DEF RecordType
  <2> QED  BY <2>1, <2>2, <2>3, Zenon
<1>4. /\ seen' = [seen EXCEPT ![r] = seen[r] \union {log[i] : i \in records}]
      /\ cut' = [cut EXCEPT ![r] = cut[r] \/ Cardinality(records) = Limit]
      /\ \/ UNCHANGED since
         \/ \E i \in records : since' = [since EXCEPT ![r] = log[i].generation]
  BY Zenon DEF ReadRecords
<1> HIDE DEF records
<1>5. {log[i] : i \in records} \subseteq RecordType  BY <1>3, Zenon
<1>6. seen' \in [Requests -> SUBSET RecordType]  BY <1>0, <1>4, <1>5, Zenon DEF FollowersOK
<1>7. cut' \in [Requests -> BOOLEAN]  BY <1>0, <1>4, Zenon DEF FollowersOK
<1>8. since' \in [Requests -> Nat]  BY <1>0, <1>3, <1>4, Zenon DEF FollowersOK
<1>9. FollowersOK'  BY <1>6, <1>7, <1>8, Zenon DEF FollowersOK
<1> QED  BY <1>0, <1>1, <1>2, <1>9, Frames, TypeParts, Zenon

(* What a request keeps about the run.                                     *)
Kept == [current : Baseline \union {None}, window : Baseline \union Frozen \union {None},
         terminal : BOOLEAN, started : BOOLEAN]

LEMMA KeepTyped ==
  ASSUME LocalTyped, NEW r \in Requests, NEW l \in Kept, Keep(r, l)
  PROVE  LocalTyped'
BY Zenon DEF LocalTyped, Keep, Kept

LEMMA KeptParts ==
  ASSUME LocalTyped, NEW r \in Requests
  PROVE  /\ local[r] \in Kept
         /\ \A b \in Baseline \union {None} : [local[r] EXCEPT !.current = b] \in Kept
         /\ \A w \in Baseline \union Frozen \union {None} : [local[r] EXCEPT !.window = w] \in Kept
<1>1. local[r] \in Kept  BY Zenon DEF LocalTyped, Kept
<1>2. ASSUME NEW b \in Baseline \union {None}
      PROVE  [local[r] EXCEPT !.current = b] \in Kept
  BY <1>1, Zenon DEF Kept
<1>3. ASSUME NEW w \in Baseline \union Frozen \union {None}
      PROVE  [local[r] EXCEPT !.window = w] \in Kept
  BY <1>1, Zenon DEF Kept
<1> QED  BY <1>1, <1>2, <1>3, Zenon

LEMMA RunStepTyped ==
  ASSUME FeedTypeOK, NEW r \in Requests, RunStep(r),
         pc[r] = "freeze" => local[r].window \in Frozen,
         pc[r] = "attribute" => local[r].current \in Baseline
  PROVE  FeedTypeOK'
<1>0. /\ FilesOK /\ QueueOK /\ StateOK /\ PlacesOK /\ EditOK
      /\ FollowersOK /\ RunTyped /\ LocalTyped /\ GhostsOK /\ LeftOK
  BY TypeParts
<1>1. UNCHANGED <<fileVars, queueVars, stateVars, writer, editVars, feedVars, ours, late, ever,
                  touched, left>>
  <2>1. CASE ReadBaseline(r)  BY <2>1, Zenon DEF ReadBaseline, ghostVars
  <2>2. CASE Launch(r)  BY <2>2, Zenon DEF Launch, ghostVars
  <2>3. CASE SetBaseline(r)  BY <2>3, Zenon DEF SetBaseline, ghostVars
  <2>4. CASE ReadCurrent(r)  BY <2>4, Zenon DEF ReadCurrent, ghostVars
  <2>5. CASE ChangeWindow(r)  BY <2>5, Zenon DEF ChangeWindow
  <2>6. CASE Attribute(r)  BY <2>6, Zenon DEF Attribute, ghostVars
  <2>7. CASE FreezeChanges(r)  BY <2>7, Zenon DEF FreezeChanges
  <2> QED  BY <2>1, <2>2, <2>3, <2>4, <2>5, <2>6, <2>7 DEF RunStep
<1>2. PlacesOK'
  <2>1. writer' \in Requests \union {None}  BY <1>0, <1>1, Zenon DEF PlacesOK
  <2>2. ASSUME NEW place \in {"launch", "wait", "reconcile", "window", "attribute", "freeze"},
               Goto(r, place), UNCHANGED op
        PROVE  PlacesOK'
    BY <1>0, <2>1, <2>2, GotoTyped DEF Places
  <2>3. CASE Finish(r)  BY <1>0, <2>1, <2>3, FinishTyped
  <2> QED
    BY <2>2, <2>3, Zenon DEF RunStep, ReadBaseline, Launch, SetBaseline, ReadCurrent,
       ChangeWindow, Attribute, FreezeChanges
<1>3. Current \in Baseline  BY <1>0, Zenon DEF Current, Baseline, StateOK
<1>4. RunTyped'
  <2>1. local[r].current \in Baseline \union {None}
    BY <1>0, KeptParts, SMT DEF Kept
  <2>2. ASSUME NEW b \in Baseline \union {None}
        PROVE  [run EXCEPT !.baseline = b] \in
                 [state : {"none", "running", "ended"}, ended : Nat,
                  baseline : Baseline \union {None}, frozen : Frozen \union {None}]
    BY <1>0, Zenon DEF RunTyped
  <2>3. CASE Launch(r)  BY <1>0, <2>3, Zenon DEF Launch, RunTyped
  <2>4. CASE SetBaseline(r)
    BY <2>1, <2>2, <2>4, Zenon DEF SetBaseline, RunTyped
  <2>5. CASE ChangeWindow(r)
    <3>1. run.baseline \in Baseline \union {None}  BY <1>0, SMT DEF RunTyped
    <3> DEFINE b == IF run.baseline = None THEN local[r].current ELSE run.baseline
    <3>2. b \in Baseline \union {None} /\ run' = [run EXCEPT !.baseline = b]
      BY <2>1, <2>5, <3>1, Zenon DEF ChangeWindow
    <3> HIDE DEF b
    <3> QED  BY <2>2, <3>2, Zenon DEF RunTyped
  <2>6. CASE FreezeChanges(r)
    <3>1. run.frozen \in Frozen \union {None}  BY <1>0, SMT DEF RunTyped
    <3>2. FreezeWith(local[r].window) \in Frozen
      BY <2>6, <3>1, Zenon DEF FreezeChanges, FreezeWith
    <3>3. run' = [run EXCEPT !.frozen = FreezeWith(local[r].window)]
      BY <2>6, Zenon DEF FreezeChanges
    <3> QED  BY <1>0, <3>2, <3>3, Zenon DEF RunTyped
  <2>7. CASE UNCHANGED run  BY <1>0, <2>7, Frames
  <2> QED
    BY <2>3, <2>4, <2>5, <2>6, <2>7, Zenon DEF RunStep, ReadBaseline, ReadCurrent, Attribute
<1>5. LocalTyped'
  <2>1. CASE UNCHANGED local  BY <1>0, <2>1, Frames
  <2>2. CASE Keep(r, [local[r] EXCEPT !.current = Current])
    BY <1>0, <1>3, <2>2, KeepTyped, KeptParts, Zenon
  <2>3. CASE SetBaseline(r)
    <3>1. Begun(TRUE) \in Kept  BY Zenon DEF Begun, Kept
    <3> QED  BY <1>0, <2>3, <3>1, KeepTyped, Zenon DEF SetBaseline
  <2>4. CASE ChangeWindow(r)
    <3>1. run'.baseline \in Baseline \union {None}  BY <1>4, SMT DEF RunTyped
    <3> QED  BY <1>0, <2>1, <2>4, <3>1, KeepTyped, KeptParts, Zenon DEF ChangeWindow
  <2>5. CASE Attribute(r)
    <3> DEFINE changes == [generation |-> local[r].current.generation,
                           paths |-> Attributed(local[r])]
    <3>1. local[r].current.generation \in Nat  BY <2>5, SMT DEF Attribute, Baseline
    <3>2. Attributed(local[r]) \in SUBSET Paths  BY Zenon DEF Attributed
    <3>3. changes \in Frozen  BY <3>1, <3>2, Zenon DEF Frozen
    <3>4. Keep(r, [local[r] EXCEPT !.window = changes]) \/ UNCHANGED local
      BY <2>5, Zenon DEF Attribute
    <3> HIDE DEF changes
    <3> QED  BY <1>0, <2>1, <3>3, <3>4, KeepTyped, KeptParts, Zenon
  <2> QED
    BY <2>1, <2>2, <2>3, <2>4, <2>5, Zenon DEF RunStep, ReadBaseline, Launch, ReadCurrent,
       FreezeChanges
<1>6. GhostsOK'
  <2>1. replies' \subseteq Frozen
    <3>1. replies \subseteq Frozen /\ run.frozen \in Frozen \union {None}
      BY <1>0, SMT DEF GhostsOK, RunTyped
    <3>2. CASE ChangeWindow(r)  BY <3>1, <3>2, Zenon DEF ChangeWindow
    <3>3. CASE FreezeChanges(r)  BY <3>1, <3>3, Zenon DEF FreezeChanges, FreezeWith
    <3>4. CASE UNCHANGED replies  BY <3>1, <3>4
    <3> QED
      BY <3>2, <3>3, <3>4, Zenon DEF RunStep, ReadBaseline, Launch, SetBaseline, ReadCurrent,
         Attribute, ghostVars
  <2> QED  BY <1>0, <1>1, <2>1, Zenon DEF GhostsOK
<1> QED  BY <1>0, <1>1, <1>2, <1>4, <1>5, <1>6, Frames, TypeParts, Zenon

LEMMA TypeKept ==
  ASSUME FeedTypeOK, FollowInv, RunInv, [Next]_vars
  PROVE  FeedTypeOK'
<1>0. /\ FilesOK /\ QueueOK /\ StateOK /\ PlacesOK /\ EditOK
      /\ FollowersOK /\ RunTyped /\ LocalTyped /\ GhostsOK /\ LeftOK
  BY TypeParts
<1>1. CASE UNCHANGED vars
  <2>1. UNCHANGED <<fileVars, queueVars, stateVars, writer, op, pc, editVars, feedVars,
                    run, local, ghostVars, left>>
    BY <1>1, Zenon DEF vars, runVars
  <2> QED  BY <1>0, <2>1, Frames, TypeParts, Zenon
<1>2. CASE Outside  BY <1>2, OutsideTyped
<1>3. ASSUME NEW r \in Requests,
             \/ Changes(r) \/ Edit(r) \/ StartRun(r) \/ PollRun(r)
             \/ ReconcileStep(r) \/ EditStep(r) \/ ReadRecords(r) \/ RunStep(r)
      PROVE  FeedTypeOK'
  <2>1. IsFiniteSet(batch)  BY Zenon DEF FollowInv
  <2>2. /\ pc[r] = "freeze" => local[r].window \in Frozen
        /\ pc[r] = "attribute" => local[r].current \in Baseline
    BY Zenon DEF RunInv, Carries, WrittenIn
  <2> QED
    BY <1>3, <2>1, <2>2, CallTyped, ReconcileTyped, EditTyped, ReadTyped, RunStepTyped, Zenon
<1> QED  BY <1>1, <1>2, <1>3, Zenon DEF Next

-----------------------------------------------------------------------------
(* Following the log.                                                      *)

(* The first and the last member of a set of positions.                    *)
LEMMA LeastExists ==
  ASSUME NEW S \in SUBSET Nat, S # {}
  PROVE  \E m \in S : \A i \in S : m <= i
<1>1. PICK m \in S : \A i \in S : ~ (<<i, m>> \in OpToRel(<, Nat))
  BY WFMin, NatLessThanWellFounded
<1>2. ASSUME NEW i \in S, i < m PROVE FALSE
  <2>1. <<i, m>> \in Nat \X Nat  BY Zenon
  <2>2. <<i, m>> \in OpToRel(<, Nat)  BY <1>2, <2>1 DEF OpToRel
  <2> QED  BY <1>1, <2>2
<1> QED  BY <1>2, SMT

LEMMA GreatestExists ==
  ASSUME NEW n \in Nat, NEW S \in SUBSET (1..n), S # {}
  PROVE  \E m \in S : \A i \in S : i <= m
<1> DEFINE T == {k \in Nat : n - k \in S}
<1>1. PICK s \in S : TRUE  OBVIOUS
<1>2. n - s \in T  BY SMT
<1>3. T \in SUBSET Nat /\ T # {}  BY <1>2
<1> HIDE DEF T
<1>4. PICK k \in T : \A j \in T : k <= j  BY <1>3, LeastExists
<1> USE DEF T
<1>5. n - k \in S /\ k \in Nat  BY <1>4
<1>6. ASSUME NEW i \in S PROVE i <= n - k
  <2>1. n - i \in T  BY SMT
  <2> QED  BY <1>4, <1>5, <2>1, SMT
<1> QED  BY <1>5, <1>6

(* A reply that leaves out one of the records it was asked for is full.    *)
LEMMA FullReply ==
  ASSUME NEW n \in Nat, NEW S \in SUBSET (1..n), NEW L \in Nat \ {0}
  PROVE  LET T == {i \in S : Cardinality({j \in S : j > i}) < L}
         IN  T # S => Cardinality(T) = L
<1> DEFINE Above(i) == {j \in S : j > i}
           T == {i \in S : Cardinality(Above(i)) < L}
<1>1. SUFFICES ASSUME T # S PROVE Cardinality(T) = L  OBVIOUS
<1>2. IsFiniteSet(S) /\ S \subseteq Nat
  <2>1. IsFiniteSet(1..n)  BY FS_Interval
  <2>2. IsFiniteSet(S)  BY <2>1, FS_Subset
  <2> QED  BY <2>2, SMT
<1>3. ASSUME NEW U \in SUBSET S
      PROVE  IsFiniteSet(U) /\ Cardinality(U) \in Nat
  BY <1>2, FS_Subset, FS_CardinalityType
<1>4. T \in SUBSET S /\ S \ T # {} /\ S \ T \in SUBSET (1..n)  BY <1>1
<1>5. PICK m \in S \ T : \A i \in S \ T : i <= m
  <2> HIDE DEF T
  <2> QED  BY <1>4, GreatestExists
<1>6. ASSUME NEW i \in S, NEW k \in S, i < k
      PROVE  Cardinality(Above(k)) <= Cardinality(Above(i))
  <2>1. \A j \in S : j > k => j > i  BY <1>2, <1>6, SMT
  <2>2. Above(k) \in SUBSET Above(i)  BY <2>1, Zenon
  <2>3. IsFiniteSet(Above(i))  BY <1>3
  <2> QED  BY <2>2, <2>3, FS_Subset
<1>7. \A i \in S : Cardinality(Above(i)) \in Nat  BY <1>3
<1>8. ~ (Cardinality(Above(m)) < L)  OBVIOUS
<1>9. T = Above(m)
  <2>1. ASSUME NEW j \in Above(m) PROVE j \in T
    <3>1. j \in S /\ j > m /\ j \in Nat /\ m \in Nat  BY <1>2
    <3> HIDE DEF T
    <3> QED  BY <1>5, <3>1, SMT
  <2>2. ASSUME NEW t \in T PROVE t \in Above(m)
    <3>1. t \in Nat /\ m \in Nat /\ t # m /\ t \in S /\ Cardinality(Above(t)) < L  BY <1>2
    <3>2. ~ (t < m)
      <4> HIDE DEF T, Above
      <4> QED  BY <1>6, <1>7, <1>8, <3>1, SMT
    <3> QED  BY <3>1, <3>2, SMT
  <2> QED  BY <2>1, <2>2, Zenon
<1>10. Cardinality(T) \in Nat /\ ~ (Cardinality(T) < L)  BY <1>7, <1>8, <1>9
<1>11. \A t \in T : Cardinality(Above(t)) < L  OBVIOUS
<1> HIDE DEF T
<1>12. T # {} /\ T \in SUBSET Nat
  <2>1. Cardinality({}) = 0  BY FS_EmptySet
  <2>2. T # {}  BY <1>10, <2>1, SMT
  <2> QED  BY <1>2, <1>4, <2>2
<1>13. PICK t \in T : \A i \in T : t <= i  BY <1>12, LeastExists
<1>14. T \ {t} \in SUBSET Above(t)  BY <1>4, <1>12, <1>13, SMT
<1> HIDE DEF Above
<1>15. IsFiniteSet(Above(t)) /\ Cardinality(Above(t)) \in Nat
  <2>1. Above(t) \in SUBSET S  BY DEF Above
  <2> QED  BY <1>3, <2>1
<1>16. Cardinality(T \ {t}) <= Cardinality(Above(t)) /\ Cardinality(Above(t)) < L
  BY <1>11, <1>14, <1>15, FS_Subset
<1>17. Cardinality(T \ {t}) = Cardinality(T) - 1  BY <1>3, <1>4, FS_RemoveElement
<1> QED  BY <1>10, <1>15, <1>16, <1>17, SMT

(* Whoever moves without the writer leaves its holder where it stands.     *)
LEMMA HolderStays ==
  ASSUME PlacesOK, FollowInv, UNCHANGED writer, NEW r \in Requests, pc[r] \notin Held,
         \A q \in Requests : q # r => pc'[q] = pc[q]
  PROVE  HolderAt' = HolderAt
BY FeedAssumption DEF PlacesOK, FollowInv, HolderAt

LEMMA HolderIs ==
  ASSUME NEW r \in Requests, writer = r
  PROVE  HolderAt = pc[r]
BY FeedAssumption DEF HolderAt

(* A step that adds nothing to the log and tells no follower anything.     *)
LEMMA FollowFrame ==
  ASSUME FollowInv, Fresh' = Fresh, UNCHANGED <<log, feedVars>>,
         writer' # None => HolderAt' \in Held,
         batch' # {} => HolderAt' \in {"write", "commit", "record"},
         IsFiniteSet(batch'), \A e \in batch' : e.generation = Fresh
  PROVE  FollowInv'
<1>1. UNCHANGED <<since, seen, cut, Logged>>  BY Zenon DEF feedVars, Logged
<1>2. FollowComplete'  BY <1>1, Zenon DEF FollowInv, FollowComplete
<1>3. \A e \in batch' : e.generation = Fresh'  BY Zenon
<1>4. /\ \A i \in 1..Len(log') : log'[i].generation < Fresh'
      /\ \A i, j \in 1..Len(log') : i < j => log'[i].generation <= log'[j].generation
      /\ \A r \in Requests : since'[r] < Fresh'
  BY <1>1, Zenon DEF FollowInv
<1> QED  BY <1>2, <1>3, <1>4, Zenon DEF FollowInv

(* The same for one that publishes nothing either.                         *)
LEMMA FollowQuiet ==
  ASSUME FollowInv, UNCHANGED <<generation, log, feedVars>>,
         \/ HolderAt' = HolderAt /\ UNCHANGED <<writer, batch>>
         \/ /\ batch' = {} /\ (writer' # None => HolderAt' \in Held)
            /\ HolderAt' \notin {"commit", "record"} /\ HolderAt \notin {"commit", "record"}
  PROVE  FollowInv'
<1>1. Fresh' = Fresh  BY Zenon DEF Fresh
<1>2. /\ writer' # None => HolderAt' \in Held
      /\ batch' # {} => HolderAt' \in {"write", "commit", "record"}
      /\ IsFiniteSet(batch') /\ \A e \in batch' : e.generation = Fresh
  BY FS_EmptySet, Zenon DEF FollowInv
<1> QED  BY <1>1, <1>2, FollowFrame, Zenon

(* The batch enters the log.                                               *)
LEMMA FollowRecorded ==
  ASSUME FeedTypeOK, FollowInv, FollowersOK', HolderAt \in {"commit", "record"},
         log' \in Recorded(batch), UNCHANGED <<generation, feedVars>>,
         batch' = {}, HolderAt' \notin {"commit", "record"},
         writer' # None => HolderAt' \in Held
  PROVE  FollowInv'
<1>0. StateOK /\ EditOK /\ FollowersOK  BY TypeParts
<1>1. Fresh = generation /\ Fresh' = generation + 1 /\ generation \in Nat
  BY <1>0, SMT DEF Fresh, StateOK
<1>2. IsFiniteSet(batch) /\ batch \in SUBSET RecordType  BY <1>0 DEF FollowInv, EditOK
<1>3. PICK k \in Nat : \A i \in 1..Len(log') :
              \/ i + k \in 1..Len(log) /\ log'[i] = log[i + k]
              \/ i + k > Len(log) /\ log'[i] \in batch
  BY <1>0, <1>2, RecordedFacts
<1>4. log \in Seq(RecordType) /\ log' \in Seq(RecordType)
  BY <1>0, <1>2, RecordedFacts, Zenon DEF StateOK
<1>5. /\ Len(log) \in Nat /\ Len(log') \in Nat
      /\ \A i \in 1..Len(log') : log'[i].generation \in Nat
      /\ \A i \in 1..Len(log) : log[i].generation \in Nat
  <2>1. \A e \in RecordType : e.generation \in Nat  BY SMT DEF RecordType
  <2>2. /\ Len(log) \in Nat /\ Len(log') \in Nat
        /\ \A i \in 1..Len(log') : log'[i] \in RecordType
        /\ \A i \in 1..Len(log) : log[i] \in RecordType
    BY <1>4, SMT
  <2> QED  BY <2>1, <2>2, Zenon
<1>6. \A i \in 1..Len(log') :
        /\ i + k <= Len(log) =>
             i + k \in 1..Len(log) /\ log'[i] = log[i + k] /\ log'[i].generation < generation
        /\ i + k > Len(log) => log'[i].generation = generation
  <2>1. /\ \A e \in batch : e.generation = generation
        /\ \A i \in 1..Len(log) : log[i].generation < generation
    BY <1>1, Zenon DEF FollowInv
  <2> TAKE i \in 1..Len(log')
  <2>2. i \in Nat /\ i + k \in Nat  BY <1>5, SMT
  <2>3. \/ i + k \in 1..Len(log) /\ log'[i] = log[i + k]
        \/ i + k > Len(log) /\ log'[i] \in batch
    BY <1>3, Zenon
  <2>4. CASE i + k \in 1..Len(log) /\ log'[i] = log[i + k]
    <3>1. ~(i + k > Len(log))  BY <1>5, <2>2, <2>4, SMT
    <3>2. log'[i].generation < generation  BY <2>1, <2>4, Zenon
    <3> QED  BY <2>4, <3>1, <3>2, Zenon
  <2>5. CASE i + k > Len(log) /\ log'[i] \in batch
    <3>1. ~(i + k <= Len(log))  BY <1>5, <2>2, <2>5, SMT
    <3> QED  BY <2>1, <2>5, <3>1, Zenon
  <2> QED  BY <2>3, <2>4, <2>5, Zenon
<1>7. ASSUME NEW i \in 1..Len(log')  PROVE log'[i].generation < Fresh'
  <2>1. i + k <= Len(log) \/ i + k > Len(log)  BY <1>5, SMT
  <2>2. log'[i].generation \in Nat  BY <1>5, Zenon
  <2>3. log'[i].generation < generation \/ log'[i].generation = generation
    BY <1>6, <2>1, Zenon
  <2> QED  BY ONLY <1>1, <2>2, <2>3, SMT
<1>8. ASSUME NEW i \in 1..Len(log'), NEW j \in 1..Len(log'), i < j
      PROVE  log'[i].generation <= log'[j].generation
  <2>1. \A a, b \in 1..Len(log) : a < b => log[a].generation <= log[b].generation
    BY Zenon DEF FollowInv
  <2>2. CASE j + k <= Len(log)
    <3>1. i + k <= Len(log) /\ i + k < j + k  BY <1>5, <1>8, <2>2, SMT
    <3> QED  BY <1>6, <2>1, <2>2, <3>1
  <2>3. CASE j + k > Len(log)
    <3>1. log'[j].generation = generation /\ log'[i].generation \in Nat
      BY <1>5, <1>6, <2>3
    <3>2. log'[i].generation < generation \/ log'[i].generation = generation
      BY <1>5, <1>6, SMT
    <3> QED  BY <1>1, <3>1, <3>2, SMT
  <2> QED  BY <1>5, <2>2, <2>3, SMT
<1>9. \A r \in Requests : since[r] \in Nat /\ since[r] < generation /\ since'[r] < Fresh'
  <2>1. \A r \in Requests : since[r] \in Nat /\ since[r] < generation
    BY <1>0, <1>1 DEF FollowInv, FollowersOK
  <2> QED  BY <1>1, <2>1, SMT DEF feedVars
<1>10. FollowComplete'
  <2>1. SUFFICES ASSUME NEW r \in Requests, NEW i \in 1..Len(log'),
                        log'[i].generation <= since[r]
                 PROVE  log'[i] \in seen[r] \/ cut[r]
    BY Zenon DEF FollowComplete, Logged, feedVars
  <2>2. log'[i].generation < generation  BY <1>1, <1>5, <1>9, <2>1, SMT
  <2>3. i + k \in 1..Len(log) /\ log'[i] = log[i + k]  BY <1>1, <1>3, <1>5, <1>6, <2>2, SMT
  <2>4. log'[i] \in Logged  BY <2>3, Zenon DEF Logged
  <2> QED  BY <2>1, <2>4, Zenon DEF FollowInv, FollowComplete
<1>11. IsFiniteSet(batch')  BY FS_EmptySet
<1> QED  BY <1>7, <1>8, <1>9, <1>10, <1>11, Zenon DEF FollowInv

LEMMA RecordsFinite ==
  ASSUME NEW paths \in SUBSET Paths, NEW source
  PROVE  IsFiniteSet(RecordsOf(paths, source))
<1> DEFINE rec(p) == [path |-> p, source |-> source, generation |-> generation + 1,
                      text |-> disk[p], time |-> Now]
           f == [p \in paths |-> rec(p)]
<1>1. IsFiniteSet(paths)  BY FeedAssumption, FS_Subset
<1>2. RecordsOf(paths, source) = {rec(p) : p \in paths}  BY DEF RecordsOf
<1> HIDE DEF rec
<1>3. f \in Surjection(paths, {rec(p) : p \in paths})  BY Zenon DEF Surjection
<1> HIDE DEF f
<1>4. IsFiniteSet({rec(p) : p \in paths})  BY <1>1, <1>3, FS_Surjection, Zenon
<1> QED  BY <1>2, <1>4, Zenon

(* Settling an edit leaves it at its plan, any other request without the   *)
(* writer.                                                                 *)
LEMMA SettledAt ==
  ASSUME PlacesOK, NEW r \in Requests, Settle(r)
  PROVE  /\ HolderAt' = IF op[r] = "edit" THEN "plan" ELSE "idle"
         /\ writer' # None => HolderAt' \in Held
         /\ batch' = {} /\ drained' = NoDrain
<1>1. CASE op[r] = "edit"
  <2>1. writer' = r /\ pc'[r] = "plan"
    BY <1>1 DEF Settle, Goto, After, PlacesOK
  <2> QED  BY <1>1, <2>1, FeedAssumption DEF Settle, HolderAt, Held
<1>2. CASE op[r] # "edit"  BY <1>2 DEF Settle, HolderAt
<1> QED  BY <1>1, <1>2

LEMMA EndedAt ==
  ASSUME NEW r \in Requests, EndEdit(r)
  PROVE  HolderAt' = "idle" /\ writer' = None /\ batch' = {} /\ todo' = {} /\ done' = {}
BY DEF EndEdit, HolderAt

LEMMA GoneTo ==
  ASSUME PlacesOK, NEW r \in Requests, writer' = r, NEW place, Goto(r, place)
  PROVE  HolderAt' = place
BY FeedAssumption DEF PlacesOK, Goto, HolderAt

LEMMA ReconcileFollowed ==
  ASSUME FeedTypeOK, FollowInv, FeedTypeOK', NEW r \in Requests, ReconcileStep(r)
  PROVE  FollowInv'
<1>0. StateOK /\ PlacesOK /\ EditOK /\ FilesOK /\ FollowersOK' /\ PlacesOK'  BY TypeParts
<1>1. CASE SkipReconcile(r)
  <2>1. pc[r] \notin Held /\ \A q \in Requests : q # r => pc'[q] = pc[q]
    BY <1>0, <1>1 DEF SkipReconcile, Goto, PlacesOK, Held
  <2>2. UNCHANGED <<writer, batch, generation, log, feedVars>>
    BY <1>1, Zenon DEF SkipReconcile, editVars, stateVars
  <2>3. HolderAt' = HolderAt  BY <1>0, <2>1, <2>2, HolderStays
  <2> QED  BY <2>2, <2>3, FollowQuiet
<1>2. CASE TakeWriter(r)
  <2>1. HolderAt = "idle" /\ batch = {}  BY <1>2 DEF TakeWriter, FollowInv, HolderAt
  <2>2. HolderAt' = "drain"  BY <1>0, <1>2, GoneTo DEF TakeWriter
  <2>3. UNCHANGED <<batch, generation, log, feedVars>>
    BY <1>2, Zenon DEF TakeWriter, editVars, stateVars
  <2> QED  BY <2>1, <2>2, <2>3, FollowQuiet DEF Held
<1>3. CASE Drain(r)
  <2>1. HolderAt = "drain" /\ batch = {}
    BY <1>3, HolderIs DEF Drain, FollowInv
  <2>2. UNCHANGED <<generation, log, feedVars>>  BY <1>3, Zenon DEF Drain, stateVars
  <2>3. CASE Settle(r)
    <3>1. HolderAt' \notin {"commit", "record"}  BY <1>0, <2>3, SettledAt
    <3> QED  BY <1>0, <2>1, <2>2, <2>3, <3>1, SettledAt, FollowQuiet
  <2>4. CASE Goto(r, "publish") /\ UNCHANGED <<writer, batch>>
    <3>1. HolderAt' = "publish"  BY <1>0, <1>3, <2>4, GoneTo DEF Drain
    <3> QED  BY <2>1, <2>2, <2>4, <3>1, FollowQuiet DEF Held
  <2> QED  BY <1>3, <2>3, <2>4, Zenon DEF Drain
<1>4. CASE Publish(r)
  <2> DEFINE changed == {p \in drained.paths : index[p] # disk[p]}
             found == drained.external \intersect changed
  <2>1. HolderAt = "publish"  BY <1>4, HolderIs DEF Publish
  <2>2. UNCHANGED <<log, feedVars>>  BY <1>4, Zenon DEF Publish
  <2>3. CASE Settle(r) /\ UNCHANGED generation
    <3>1. HolderAt' \notin {"commit", "record"}  BY <1>0, <2>3, SettledAt
    <3> QED  BY <1>0, <2>1, <2>2, <2>3, <3>1, SettledAt, FollowQuiet
  <2>4. CASE /\ generation' = generation + 1 /\ batch' = RecordsOf(found, "external")
             /\ Goto(r, "record") /\ UNCHANGED <<writer, drained>>
    <3>1. HolderAt' = "record"  BY <1>0, <1>4, <2>4, GoneTo DEF Publish
    <3>2. Fresh' = Fresh  BY <2>1, <2>4, <3>1, Zenon DEF Fresh
    <3>3. found \in SUBSET Paths  BY <1>0, SMT DEF EditOK
    <3> HIDE DEF found
    <3>4. IsFiniteSet(batch')  BY <2>4, <3>3, RecordsFinite
    <3>5. \A e \in batch' : e.generation = generation + 1  BY <2>4, SMT DEF RecordsOf
    <3>6. \A e \in batch' : e.generation = Fresh  BY <2>1, <3>5, Zenon DEF Fresh
    <3> QED  BY <2>2, <3>1, <3>2, <3>4, <3>6, FollowFrame DEF Held
  <2> QED  BY <1>4, <2>3, <2>4, Zenon DEF Publish
<1>5. CASE ReconcileFails(r)
  <2>1. HolderAt = "publish" /\ batch = {}  BY <1>5, HolderIs DEF ReconcileFails, FollowInv
  <2>2. UNCHANGED <<batch, generation, log, feedVars>> /\ writer' = None
    BY <1>5, Zenon DEF ReconcileFails
  <2>3. HolderAt' = "idle"  BY <2>2 DEF HolderAt
  <2> QED  BY <2>1, <2>2, <2>3, FollowQuiet
<1>6. CASE RecordExternal(r)
  <2>1. HolderAt = "record"  BY <1>6, HolderIs DEF RecordExternal
  <2>2. log' \in Recorded(batch) /\ UNCHANGED <<generation, feedVars>> /\ Settle(r)
    BY <1>6, Zenon DEF RecordExternal
  <2>3. HolderAt' \notin {"commit", "record"}  BY <1>0, <2>2, SettledAt
  <2> QED  BY <1>0, <2>1, <2>2, <2>3, SettledAt, FollowRecorded
<1> QED  BY <1>1, <1>2, <1>3, <1>4, <1>5, <1>6, Zenon DEF ReconcileStep

LEMMA EditFollowed ==
  ASSUME FeedTypeOK, FollowInv, FeedTypeOK', NEW r \in Requests, EditStep(r)
  PROVE  FollowInv'
<1>0. StateOK /\ PlacesOK /\ EditOK /\ FilesOK /\ FollowersOK' /\ PlacesOK'  BY TypeParts
<1>1. ASSUME NEW paths \in SUBSET Paths, Plan(r, paths)
      PROVE  FollowInv'
  <2>1. HolderAt = "plan" /\ batch = {}  BY <1>1, HolderIs DEF Plan, FollowInv
  <2>2. UNCHANGED <<generation, log, feedVars>>  BY <1>1, Zenon DEF Plan, stateVars
  <2>3. CASE EndEdit(r)  BY <2>1, <2>2, <2>3, EndedAt, FollowQuiet
  <2>4. CASE Goto(r, "write") /\ UNCHANGED <<writer, batch>>
    <3>1. HolderAt' = "write"  BY <1>0, <1>1, <2>4, GoneTo DEF Plan
    <3> QED  BY <2>1, <2>2, <2>4, <3>1, FollowQuiet DEF Held
  <2> QED  BY <1>1, <2>3, <2>4, Zenon DEF Plan
<1>2. ASSUME NEW p \in Paths, WriteFile(r, p)
      PROVE  FollowInv'
  <2>1. HolderAt = "write"  BY <1>2, HolderIs DEF WriteFile
  <2>2. UNCHANGED <<generation, log, feedVars, writer, pc>>
    BY <1>2, Zenon DEF WriteFile, stateVars
  <2>3. HolderAt' = HolderAt  BY <2>2, Zenon DEF HolderAt
  <2>4. Fresh' = Fresh  BY <2>2, <2>3, Zenon DEF Fresh
  <2> DEFINE e == [path |-> p, source |-> "mcp_edit", generation |-> generation + 1,
                   text |-> clock + 1, time |-> stamp]
  <2>5. batch' = batch \union {e}  BY <1>2, Zenon DEF WriteFile
  <2>6. e.generation = Fresh  BY <2>1 DEF Fresh
  <2> HIDE DEF e
  <2>7. IsFiniteSet(batch')  BY <2>5, FS_AddElement DEF FollowInv
  <2>8. \A x \in batch' : x.generation = Fresh  BY <2>5, <2>6, Zenon DEF FollowInv
  <2> QED  BY <2>1, <2>2, <2>3, <2>4, <2>7, <2>8, FollowFrame DEF Held
<1>3. ASSUME NEW p \in Paths, WriteFails(r, p)
      PROVE  FollowInv'
  <2>1. HolderAt = "write"  BY <1>3, HolderIs DEF WriteFails
  <2>2. UNCHANGED <<generation, log, feedVars>>  BY <1>3, Zenon DEF WriteFails, stateVars
  <2>3. CASE EndEdit(r)  BY <2>1, <2>2, <2>3, EndedAt, FollowQuiet
  <2>4. CASE batch' = {} /\ Goto(r, "undo") /\ UNCHANGED writer
    <3>1. HolderAt' = "undo"  BY <1>0, <1>3, <2>4, GoneTo DEF WriteFails
    <3> QED  BY <2>1, <2>2, <2>4, <3>1, FollowQuiet DEF Held
  <2> QED  BY <1>3, <2>3, <2>4, Zenon DEF WriteFails
<1>4. ASSUME NEW p \in Paths, Restore(r, p)
      PROVE  FollowInv'
  <2>1. UNCHANGED <<generation, log, feedVars, writer, pc, batch>>
    BY <1>4, Zenon DEF Restore, stateVars
  <2>2. HolderAt' = HolderAt  BY <2>1, Zenon DEF HolderAt
  <2> QED  BY <2>1, <2>2, FollowQuiet
<1>5. CASE PublishEdit(r)
  <2>1. HolderAt = "write"  BY <1>5, HolderIs DEF PublishEdit
  <2>2. HolderAt' = "commit"  BY <1>0, <1>5, GoneTo DEF PublishEdit
  <2>3. UNCHANGED <<log, feedVars, batch>> /\ generation' = generation + 1
    BY <1>5, Zenon DEF PublishEdit, editVars
  <2>4. Fresh' = Fresh  BY <2>1, <2>2, <2>3, Zenon DEF Fresh
  <2>5. IsFiniteSet(batch') /\ \A e \in batch' : e.generation = Fresh
    BY <2>3, Zenon DEF FollowInv
  <2> QED  BY <2>2, <2>3, <2>4, <2>5, FollowFrame DEF Held
<1>6. CASE PublishFails(r)
  <2>1. HolderAt = "write"  BY <1>6, HolderIs DEF PublishFails
  <2>2. HolderAt' = "undo"  BY <1>0, <1>6, GoneTo DEF PublishFails
  <2>3. UNCHANGED <<generation, log, feedVars>> /\ batch' = {}
    BY <1>6, Zenon DEF PublishFails
  <2> QED  BY <2>1, <2>2, <2>3, FollowQuiet DEF Held
<1>7. CASE Compensated(r)
  <2>1. HolderAt = "undo"  BY <1>7, HolderIs DEF Compensated
  <2>2. UNCHANGED <<generation, log, feedVars>> /\ EndEdit(r)
    BY <1>7, Zenon DEF Compensated
  <2> QED  BY <2>1, <2>2, EndedAt, FollowQuiet
<1>8. CASE RecordEdit(r)
  <2>1. HolderAt = "commit"  BY <1>8, HolderIs DEF RecordEdit
  <2>2. log' \in Recorded(batch) /\ UNCHANGED <<generation, feedVars>> /\ EndEdit(r)
    BY <1>8, Zenon DEF RecordEdit
  <2>3. HolderAt' \notin {"commit", "record"}  BY <2>2, EndedAt
  <2> QED  BY <1>0, <2>1, <2>2, <2>3, EndedAt, FollowRecorded
<1> QED  BY <1>1, <1>2, <1>3, <1>4, <1>5, <1>6, <1>7, <1>8, Zenon DEF EditStep

(* The changes request.                                                    *)
LEMMA ReadFollowed ==
  ASSUME FeedTypeOK, FollowInv, NEW r \in Requests, ReadRecords(r)
  PROVE  FollowInv'
<1>0. StateOK /\ PlacesOK /\ FollowersOK  BY TypeParts
<1> DEFINE newer == {i \in 1..Len(log) : log[i].generation > since[r]}
           records == RecordsSince(since[r])
<1>1. /\ UNCHANGED <<writer, batch, generation, log>>
      /\ pc[r] = "records" /\ pc' = [pc EXCEPT ![r] = "idle"]
      /\ seen' = [seen EXCEPT ![r] = seen[r] \union {log[i] : i \in records}]
      /\ cut' = [cut EXCEPT ![r] = cut[r] \/ Cardinality(records) = Limit]
      /\ \/ UNCHANGED since
         \/ \E first \in records :
              /\ \A i \in records : i <= first
              /\ since' = [since EXCEPT ![r] = log[first].generation]
  BY Zenon DEF ReadRecords, Finish, stateVars, editVars
<1>2. HolderAt' = HolderAt /\ Fresh' = Fresh
  <2>1. pc[r] \notin Held /\ \A q \in Requests : q # r => pc'[q] = pc[q]
    BY <1>0, <1>1 DEF PlacesOK, Held
  <2>2. HolderAt' = HolderAt  BY <1>0, <1>1, <2>1, HolderStays
  <2> QED  BY <1>1, <2>2, Zenon DEF Fresh
<1>3. /\ records = {i \in newer : Cardinality({j \in newer : j > i}) < Limit}
      /\ records \subseteq newer /\ newer \in SUBSET (1..Len(log)) /\ Len(log) \in Nat
      /\ \A i \in 1..Len(log) : log[i].generation \in Nat
  <2>1. records = {i \in newer : Cardinality({j \in newer : j > i}) < Limit}
    BY Zenon DEF RecordsSince
  <2>2. /\ Len(log) \in Nat /\ \A i \in 1..Len(log) : log[i] \in RecordType
    BY <1>0, SMT DEF StateOK
  <2>3. \A e \in RecordType : e.generation \in Nat  BY SMT DEF RecordType
  <2> HIDE DEF records
  <2> QED  BY <2>1, <2>2, <2>3, Zenon
<1>4. records # newer => Cardinality(records) = Limit
  <2>1. Limit \in Nat \ {0}  BY FeedAssumption
  <2> HIDE DEF records, newer
  <2> QED  BY <1>3, <2>1, FullReply
<1>5. /\ \A q \in Requests : q # r => since'[q] = since[q] /\ seen'[q] = seen[q] /\ cut'[q] = cut[q]
      /\ seen'[r] = seen[r] \union {log[i] : i \in records}
      /\ cut'[r] <=> cut[r] \/ Cardinality(records) = Limit
      /\ \/ since'[r] = since[r]
         \/ \E first \in records : since'[r] = log[first].generation
  <2> HIDE DEF records
  <2>1. \A q \in Requests : q # r => since'[q] = since[q] /\ seen'[q] = seen[q] /\ cut'[q] = cut[q]
    BY <1>0, <1>1, Zenon DEF FollowersOK
  <2>2. seen'[r] = seen[r] \union {log[i] : i \in records}
    BY <1>0, <1>1, Zenon DEF FollowersOK
  <2>3. cut'[r] <=> cut[r] \/ Cardinality(records) = Limit
    BY <1>0, <1>1, Zenon DEF FollowersOK
  <2>4. \/ since'[r] = since[r]
        \/ \E first \in records : since'[r] = log[first].generation
    BY <1>0, <1>1, Zenon DEF FollowersOK
  <2> QED  BY <2>1, <2>2, <2>3, <2>4
<1>6. \A q \in Requests : since'[q] < Fresh'
  <2>1. \A i \in records : log[i].generation < Fresh
    BY <1>3, Zenon DEF FollowInv
  <2> HIDE DEF records
  <2> QED  BY <1>2, <1>5, <2>1, Zenon DEF FollowInv
<1>7. FollowComplete'
  <2>1. SUFFICES ASSUME NEW q \in Requests, NEW i \in 1..Len(log),
                        log[i].generation <= since'[q]
                 PROVE  log[i] \in seen'[q] \/ cut'[q]
    BY <1>1, Zenon DEF FollowComplete, Logged
  <2>2. log[i].generation <= since[q] => log[i] \in seen[q] \/ cut[q]
    BY Zenon DEF FollowInv, FollowComplete, Logged
  <2>3. CASE q # r  BY <1>5, <2>1, <2>2, <2>3, Zenon
  <2>4. CASE q = r
    <3> HIDE DEF records
    <3>1. CASE log[i].generation <= since[r]  BY <1>5, <2>2, <2>4, <3>1, Zenon
    <3>2. CASE ~ (log[i].generation <= since[r])
      <4>1. i \in newer  BY <1>0, <1>3, <3>2, SMT DEF FollowersOK
      <4>2. CASE i \in records  BY <1>5, <2>4, <4>2, Zenon
      <4>3. CASE i \notin records  BY <1>4, <1>5, <2>4, <4>1, <4>3, Zenon
      <4> QED  BY <4>2, <4>3
    <3> QED  BY <3>1, <3>2
  <2> QED  BY <2>3, <2>4
<1>8. /\ \A i \in 1..Len(log') : log'[i].generation < Fresh'
      /\ \A i, j \in 1..Len(log') : i < j => log'[i].generation <= log'[j].generation
      /\ \A e \in batch' : e.generation = Fresh'
      /\ writer' # None => HolderAt' \in Held
      /\ batch' # {} => HolderAt' \in {"write", "commit", "record"}
      /\ IsFiniteSet(batch')
  BY <1>1, <1>2, Zenon DEF FollowInv
<1> QED  BY <1>6, <1>7, <1>8, Zenon DEF FollowInv

(* Every other step moves a request that does not hold the writer, or none.*)
LEMMA OthersFollowed ==
  ASSUME FeedTypeOK, FollowInv,
         \/ Outside
         \/ \E r \in Requests :
              Changes(r) \/ Edit(r) \/ StartRun(r) \/ PollRun(r) \/ RunStep(r)
  PROVE  FollowInv'
<1>0. PlacesOK  BY TypeParts
<1>1. CASE Outside
  <2>1. UNCHANGED <<stateVars, writer, pc, editVars, feedVars>>
    BY <1>1, Zenon DEF Outside, OutsideWrites, RunWrites, Expire, Observe, OutsideCommits,
                       RunEnds
  <2>2. UNCHANGED <<generation, log, batch>>  BY <2>1, Zenon DEF stateVars, editVars
  <2>3. HolderAt' = HolderAt  BY <2>1, Zenon DEF HolderAt
  <2> QED  BY <2>1, <2>2, <2>3, FollowQuiet
<1>2. ASSUME NEW r \in Requests,
             Changes(r) \/ Edit(r) \/ StartRun(r) \/ PollRun(r) \/ RunStep(r)
      PROVE  FollowInv'
  <2>1. /\ pc[r] \in {"idle", "baseline", "launch", "wait", "current", "window", "attribute",
                      "freeze"}
        /\ \E place \in Places : pc' = [pc EXCEPT ![r] = place]
        /\ UNCHANGED <<stateVars, writer, editVars, feedVars>>
    <3>1. CASE Changes(r) \/ Edit(r) \/ StartRun(r) \/ PollRun(r)
      BY <3>1, Zenon DEF Changes, Edit, StartRun, PollRun, Call, Goto, Places
    <3>2. CASE ReadBaseline(r)  BY <3>2, Zenon DEF ReadBaseline, Goto, Places
    <3>3. CASE Launch(r)  BY <3>3, Zenon DEF Launch, Goto, Places
    <3>4. CASE SetBaseline(r)  BY <3>4, Zenon DEF SetBaseline, Goto, Places
    <3>5. CASE ReadCurrent(r)  BY <3>5, Zenon DEF ReadCurrent, Goto, Places
    <3>6. CASE ChangeWindow(r)  BY <3>6, Zenon DEF ChangeWindow, Goto, Finish, Places
    <3>7. CASE Attribute(r)  BY <3>7, Zenon DEF Attribute, Goto, Finish, Places
    <3>8. CASE FreezeChanges(r)  BY <3>8, Zenon DEF FreezeChanges, Finish, Places
    <3> QED
      BY <1>2, <3>1, <3>2, <3>3, <3>4, <3>5, <3>6, <3>7, <3>8, Zenon DEF RunStep
  <2>2. pc[r] \notin Held /\ \A q \in Requests : q # r => pc'[q] = pc[q]
    BY <1>0, <2>1 DEF PlacesOK, Held
  <2>3. UNCHANGED <<generation, log, batch>>  BY <2>1, Zenon DEF stateVars, editVars
  <2>4. HolderAt' = HolderAt  BY <1>0, <2>1, <2>2, HolderStays
  <2> QED  BY <2>1, <2>3, <2>4, FollowQuiet
<1> QED  BY <1>1, <1>2

LEMMA FollowKept ==
  ASSUME FeedTypeOK, FollowInv, FeedTypeOK', [Next]_vars
  PROVE  FollowInv'
<1>1. CASE UNCHANGED vars
  <2>1. UNCHANGED <<generation, log, feedVars, writer, pc, batch>>
    BY <1>1, Zenon DEF vars, stateVars, editVars
  <2>2. HolderAt' = HolderAt  BY <2>1, Zenon DEF HolderAt
  <2> QED  BY <2>1, <2>2, FollowQuiet
<1>2. CASE Next
  BY <1>2, ReconcileFollowed, EditFollowed, ReadFollowed, OthersFollowed, Zenon DEF Next
<1> QED  BY <1>1, <1>2

-----------------------------------------------------------------------------
(* What is attributed to the run.                                          *)

(* A step that writes no file and leaves the run's end alone.              *)
LEMMA FilesQuiet ==
  ASSUME FilesInv, UNCHANGED <<disk, mtime, clock, touched>>,
         run'.state = run.state, run'.ended = run.ended,
         \A p \in Paths : head'[p] \in {head[p], disk[p]} /\ index'[p] \in {index[p], disk[p]},
         dirty' \subseteq dirty \union GitDirty,
         run'.baseline # None => WrittenIn(run'.baseline),
         \A e \in Logged' \union batch' :
           \/ e \in Logged \union batch
           \/ e.path \in Written /\ (ByEnd(e.time) => e.path \in touched)
  PROVE  FilesInv'
<1>1. Written' = Written  BY Zenon DEF Written
<1>2. \A t : ByEnd(t)' <=> ByEnd(t)  BY Zenon DEF ByEnd
<1>3. \A p \in Paths : disk[p] # 0 \/ head[p] # 0 \/ index[p] # 0 => p \in Written
  BY Zenon DEF FilesInv
<1>4. \A p \in Paths : disk'[p] # 0 \/ head'[p] # 0 \/ index'[p] # 0 => p \in Written'
  BY <1>1, <1>3, Zenon
<1>5. GitDirty \subseteq Written  BY <1>3, Zenon DEF GitDirty
<1>6. dirty' \subseteq Written'  BY <1>1, <1>5, Zenon DEF FilesInv
<1>7. run'.ended <= clock'  BY Zenon DEF FilesInv
<1>8. run'.baseline # None => WrittenIn(run.baseline)'  BY <1>1, Zenon DEF WrittenIn
<1>9. \A p \in Written' : ByEnd(mtime[p])' => p \in touched'
  <2>1. ASSUME NEW p \in Written', ByEnd(mtime[p])' PROVE p \in touched'
    <3>1. p \in Written /\ ByEnd(mtime[p])  BY <1>1, <2>1, Zenon DEF ByEnd
    <3> QED  BY <3>1, Zenon DEF FilesInv
  <2> QED  BY <2>1
<1>10. ASSUME NEW e \in Logged' \union batch'
       PROVE  e.path \in Written' /\ (ByEnd(e.time)' => e.path \in touched')
  <2>1. e.path \in Written /\ (ByEnd(e.time) => e.path \in touched)  BY Zenon DEF FilesInv
  <2> QED  BY <1>1, <1>2, <2>1, Zenon
<1> QED  BY <1>4, <1>6, <1>7, <1>8, <1>9, <1>10, Zenon DEF FilesInv

(* A file is written: by the run, by others or by CodeWeave.               *)
LEMMA FilesWritten ==
  ASSUME FeedTypeOK, FilesInv, NEW p \in Paths, NEW t \in Nat, NEW begun \in Nat,
         WriteText(p, t, begun), UNCHANGED <<head, index, dirty, run, log>>,
         \A e \in batch' : e \in batch \/ (e.path = p /\ e.time = begun)
  PROVE  FilesInv' /\ Written \subseteq Written' /\ touched \subseteq touched'
<1>0. FilesOK /\ RunTyped /\ clock \in Nat /\ run.ended \in Nat
  <2>1. FilesOK /\ RunTyped  BY TypeParts
  <2> QED  BY <2>1, SMT DEF FilesOK, RunTyped
<1>1. /\ \A q \in Paths : q # p => disk'[q] = disk[q] /\ mtime'[q] = mtime[q]
      /\ mtime'[p] = clock + 1 /\ clock' = clock + 1
  BY <1>0, SMT DEF WriteText, FilesOK
<1>2. touched \subseteq touched' /\ (ByEnd(begun) => p \in touched')
  BY <1>0, SMT DEF WriteText, ByEnd
<1>3. clock + 1 > 0 /\ ~ (clock + 1 <= run.ended)  BY <1>0, SMT DEF FilesInv
<1>4. Written' = Written \union {p}  BY <1>1, <1>3, Zenon DEF Written
<1>5. \A x : ByEnd(x)' <=> ByEnd(x)  BY Zenon DEF ByEnd
<1>6. \A q \in Paths : disk'[q] # 0 \/ head'[q] # 0 \/ index'[q] # 0 => q \in Written'
  BY <1>1, <1>4, Zenon DEF FilesInv
<1>7. dirty' \subseteq Written' /\ (run'.baseline # None => WrittenIn(run.baseline)')
  BY <1>4, Zenon DEF FilesInv, WrittenIn
<1>8. run'.ended <= clock'  BY <1>0, <1>1, SMT DEF FilesInv
<1>9. ASSUME NEW q \in Written', ByEnd(mtime[q])' PROVE q \in touched'
  <2>1. CASE q = p
    <3>1. run.state # "ended"  BY <1>1, <1>3, <1>9, <2>1 DEF ByEnd
    <3> QED  BY <1>2, <2>1, <3>1 DEF ByEnd
  <2>2. CASE q # p
    <3>1. q \in Written /\ q \in Paths  BY <1>4, <2>2, Zenon DEF Written
    <3>2. ByEnd(mtime[q])  BY <1>1, <1>9, <2>2, <3>1 DEF ByEnd
    <3> QED  BY <1>2, <3>1, <3>2 DEF FilesInv
  <2> QED  BY <2>1, <2>2
<1>10. Logged' = Logged  BY Zenon DEF Logged
<1>11. ASSUME NEW e \in Logged' \union batch'
       PROVE  e.path \in Written' /\ (ByEnd(e.time)' => e.path \in touched')
  <2>1. CASE e \in Logged \union batch
    <3>1. e.path \in Written /\ (ByEnd(e.time) => e.path \in touched)
      BY <2>1, Zenon DEF FilesInv
    <3> QED  BY <1>2, <1>4, <1>5, <3>1, Zenon
  <2>2. CASE e.path = p /\ e.time = begun  BY <1>2, <1>4, <1>5, <2>2, Zenon
  <2> QED  BY <1>10, <2>1, <2>2, Zenon
<1> QED  BY <1>2, <1>4, <1>6, <1>7, <1>8, <1>9, <1>11, Zenon DEF FilesInv

(* The records of a reconcile are of files written by now.                 *)
LEMMA FilesFound ==
  ASSUME FeedTypeOK, FilesInv, NEW paths \in SUBSET Paths,
         \A p \in paths : index[p] # disk[p], NEW e \in RecordsOf(paths, "external")
  PROVE  e.path \in Written /\ (ByEnd(e.time) => e.path \in touched)
<1>0. clock \in Nat /\ run.ended \in Nat
  <2>1. FilesOK /\ RunTyped  BY TypeParts
  <2> QED  BY <2>1, SMT DEF FilesOK, RunTyped
<1>1. PICK p \in paths : e.path = p /\ e.time = clock + 1  BY SMT DEF RecordsOf, Now
<1>2. p \in Written  BY SMT DEF FilesInv
<1>3. ~ (clock + 1 <= run.ended)  BY <1>0, SMT DEF FilesInv
<1>4. ByEnd(e.time) => ByEnd(mtime[p])  BY <1>1, <1>3, Zenon DEF ByEnd
<1> QED  BY <1>1, <1>2, <1>4, Zenon DEF FilesInv

LEMMA LoggedGrows ==
  ASSUME FeedTypeOK, FollowInv, log' \in Recorded(batch)
  PROVE  Logged' \subseteq Logged \union batch
<1>0. StateOK /\ EditOK  BY TypeParts
<1>1. IsFiniteSet(batch) /\ batch \in SUBSET RecordType  BY <1>0 DEF FollowInv, EditOK
<1>2. PICK k \in Nat : \A i \in 1..Len(log') :
              \/ i + k \in 1..Len(log) /\ log'[i] = log[i + k]
              \/ i + k > Len(log) /\ log'[i] \in batch
  BY <1>0, <1>1, RecordedFacts
<1> QED  BY <1>2, Zenon DEF Logged

LEMMA RefreshedIs ==
  ASSUME NEW paths, index' = Refreshed(paths)
  PROVE  \A p \in Paths : index'[p] \in {index[p], disk[p]}
BY DEF Refreshed

LEMMA ReconcileAttributed ==
  ASSUME FeedTypeOK, FollowInv, FilesInv, NEW r \in Requests, ReconcileStep(r)
  PROVE  FilesInv' /\ Written' = Written /\ touched' = touched
<1>0. EditOK  BY TypeParts
<1>1. UNCHANGED <<disk, mtime, head, clock, touched, run>>
  BY Zenon DEF ReconcileStep, SkipReconcile, TakeWriter, Drain, Publish, ReconcileFails,
     RecordExternal, fileVars, ghostVars, runVars
<1>2. \A p \in Paths : head'[p] \in {head[p], disk[p]}  BY <1>1
<1>3. Written' = Written  BY <1>1, Zenon DEF Written
<1>4. run'.baseline # None => WrittenIn(run'.baseline)  BY <1>1, Zenon DEF FilesInv
<1>5. SUFFICES /\ \A p \in Paths : index'[p] \in {index[p], disk[p]}
               /\ dirty' \subseteq dirty \union GitDirty
               /\ \A e \in Logged' \union batch' :
                    \/ e \in Logged \union batch
                    \/ e.path \in Written /\ (ByEnd(e.time) => e.path \in touched)
  BY <1>1, <1>2, <1>3, <1>4, FilesQuiet, Zenon
<1>6. CASE SkipReconcile(r) \/ TakeWriter(r) \/ Drain(r)
  <2>1. UNCHANGED <<index, dirty, log>> /\ (batch' = batch \/ batch' = {})
    BY <1>6, Zenon DEF SkipReconcile, TakeWriter, Drain, Settle, stateVars, editVars
  <2>2. Logged' = Logged  BY <2>1, Zenon DEF Logged
  <2> QED  BY <2>1, <2>2, Zenon
<1>7. CASE Publish(r)
  <2> DEFINE changed == {p \in drained.paths : index[p] # disk[p]}
             status == IF drained.git \/ changed # {} THEN GitDirty ELSE dirty
             found == drained.external \intersect changed
  <2>1. /\ index' = Refreshed(changed) /\ dirty' = status /\ UNCHANGED log
        /\ batch' = {} \/ batch' = RecordsOf(found, "external")
    BY <1>7, Zenon DEF Publish, Settle
  <2>2. found \in SUBSET Paths /\ \A p \in found : index[p] # disk[p]  BY <1>0, SMT DEF EditOK
  <2>3. Logged' = Logged  BY <2>1, Zenon DEF Logged
  <2>4. dirty' \subseteq dirty \union GitDirty  BY <2>1, Zenon
  <2> HIDE DEF changed, found
  <2>5. \A e \in batch' : e.path \in Written /\ (ByEnd(e.time) => e.path \in touched)
    BY <2>1, <2>2, FilesFound
  <2> QED  BY <2>1, <2>3, <2>4, <2>5, RefreshedIs, Zenon
<1>8. CASE ReconcileFails(r)
  <2>1. UNCHANGED <<dirty, log, batch>> /\ \E part : index' = Refreshed(part)
    BY <1>8, Zenon DEF ReconcileFails
  <2>2. Logged' = Logged  BY <2>1, Zenon DEF Logged
  <2> QED  BY <2>1, <2>2, RefreshedIs, Zenon
<1>9. CASE RecordExternal(r)
  <2>1. UNCHANGED <<index, dirty>> /\ log' \in Recorded(batch) /\ batch' = {}
    BY <1>9, Zenon DEF RecordExternal, Settle
  <2> QED  BY <2>1, LoggedGrows, Zenon
<1> QED  BY <1>6, <1>7, <1>8, <1>9, Zenon DEF ReconcileStep

LEMMA EditAttributed ==
  ASSUME FeedTypeOK, FollowInv, FilesInv, NEW r \in Requests, EditStep(r)
  PROVE  FilesInv' /\ Written \subseteq Written' /\ touched \subseteq touched'
<1>0. FilesOK /\ EditOK  BY TypeParts
<1>1. ASSUME UNCHANGED <<disk, mtime, head, clock, touched, run>>,
             \A p \in Paths : index'[p] \in {index[p], disk[p]},
             dirty' \subseteq dirty \union GitDirty, Logged' \subseteq Logged \union batch,
             batch' \subseteq batch
      PROVE  FilesInv' /\ Written \subseteq Written' /\ touched \subseteq touched'
  <2>1. Written' = Written  BY <1>1, Zenon DEF Written
  <2>2. \A p \in Paths : head'[p] \in {head[p], disk[p]}  BY <1>1
  <2>3. run'.baseline # None => WrittenIn(run'.baseline)  BY <1>1, Zenon DEF FilesInv
  <2> QED  BY <1>1, <2>1, <2>2, <2>3, FilesQuiet, Zenon
<1>2. ASSUME NEW paths \in SUBSET Paths, Plan(r, paths)
      PROVE  FilesInv' /\ Written \subseteq Written' /\ touched \subseteq touched'
  <2>1. /\ UNCHANGED <<disk, mtime, head, clock, touched, run, index, dirty, log>>
        /\ batch' \subseteq batch
    BY <1>2, Zenon DEF Plan, EndEdit, fileVars, ghostVars, runVars, stateVars
  <2>2. Logged' = Logged  BY <2>1, Zenon DEF Logged
  <2> QED  BY <1>1, <2>1, <2>2, Zenon
<1>3. ASSUME NEW p \in Paths, WriteFile(r, p)
      PROVE  FilesInv' /\ Written \subseteq Written' /\ touched \subseteq touched'
  <2> DEFINE e == [path |-> p, source |-> "mcp_edit", generation |-> generation + 1,
                   text |-> clock + 1, time |-> stamp]
  <2>1. /\ WriteText(p, clock + 1, stamp) /\ UNCHANGED <<head, index, dirty, run, log>>
        /\ batch' = batch \union {e}
    BY <1>3, Zenon DEF WriteFile, stateVars, runVars
  <2>2. e.path = p /\ e.time = stamp  OBVIOUS
  <2> HIDE DEF e
  <2>3. \A x \in batch' : x \in batch \/ (x.path = p /\ x.time = stamp)  BY <2>1, <2>2, Zenon
  <2>4. clock + 1 \in Nat /\ stamp \in Nat  BY <1>0 DEF FilesOK, EditOK
  <2> QED  BY <2>1, <2>3, <2>4, FilesWritten
<1>4. ASSUME NEW p \in Paths, WriteFails(r, p)
      PROVE  FilesInv' /\ Written \subseteq Written' /\ touched \subseteq touched'
  <2>1. /\ UNCHANGED <<disk, mtime, head, clock, touched, run, index, dirty, log>>
        /\ batch' \subseteq batch
    BY <1>4, Zenon DEF WriteFails, EndEdit, fileVars, ghostVars, runVars, stateVars
  <2>2. Logged' = Logged  BY <2>1, Zenon DEF Logged
  <2> QED  BY <1>1, <2>1, <2>2, Zenon
<1>5. ASSUME NEW p \in Paths, Restore(r, p)
      PROVE  FilesInv' /\ Written \subseteq Written' /\ touched \subseteq touched'
  <2>1. UNCHANGED <<head, run, index, dirty, log, batch>>
    BY <1>5, Zenon DEF Restore, runVars, stateVars
  <2>2. CASE WriteText(p, before[p], Now)
    <3>1. before[p] \in Nat /\ Now \in Nat  BY <1>0 DEF EditOK, FilesOK, Now
    <3> QED  BY <2>1, <2>2, <3>1, FilesWritten
  <2>3. CASE UNCHANGED <<disk, mtime, clock, events, touched>>
    <3>1. Logged' = Logged  BY <2>1, Zenon DEF Logged
    <3> QED  BY <1>1, <2>1, <2>3, <3>1, Zenon
  <2> QED  BY <1>5, <2>2, <2>3, Zenon DEF Restore
<1>6. CASE PublishEdit(r) \/ PublishFails(r) \/ Compensated(r)
  <2>1. /\ UNCHANGED <<disk, mtime, head, clock, touched, run, log>>
        /\ batch' \subseteq batch
        /\ dirty' = dirty \/ dirty' = GitDirty
        /\ \E part : index' = Refreshed(part)
    BY <1>6, Zenon DEF PublishEdit, PublishFails, Compensated, EndEdit, fileVars, ghostVars,
                       runVars, editVars
  <2>2. Logged' = Logged  BY <2>1, Zenon DEF Logged
  <2>3. \A p \in Paths : index'[p] \in {index[p], disk[p]}  BY <2>1, RefreshedIs
  <2> QED  BY <1>1, <2>1, <2>2, <2>3, Zenon
<1>7. CASE RecordEdit(r)
  <2>1. /\ UNCHANGED <<disk, mtime, head, clock, touched, run, index, dirty>>
        /\ batch' \subseteq batch /\ log' \in Recorded(batch)
    BY <1>7, Zenon DEF RecordEdit, EndEdit, fileVars, runVars
  <2>2. Logged' \subseteq Logged \union batch  BY <2>1, LoggedGrows
  <2> QED  BY <1>1, <2>1, <2>2, Zenon
<1> QED  BY <1>2, <1>3, <1>4, <1>5, <1>6, <1>7, Zenon DEF EditStep

LEMMA OutsideAttributed ==
  ASSUME FeedTypeOK, FilesInv, Outside
  PROVE  FilesInv' /\ Written \subseteq Written' /\ touched \subseteq touched'
<1>0. FilesOK /\ RunTyped  BY TypeParts
<1>1. ASSUME NEW p \in Paths, OutsideWrites(p) \/ RunWrites(p)
      PROVE  FilesInv' /\ Written \subseteq Written' /\ touched \subseteq touched'
  <2>1. /\ WriteText(p, clock + 1, Now) /\ UNCHANGED <<head, index, dirty, run, log, batch>>
    BY <1>1, Zenon DEF OutsideWrites, RunWrites, stateVars, runVars, editVars
  <2>2. clock + 1 \in Nat /\ Now \in Nat  BY <1>0 DEF FilesOK, Now
  <2>3. \A e \in batch' : e \in batch \/ (e.path = p /\ e.time = Now)  BY <2>1
  <2> QED  BY <2>1, <2>2, <2>3, FilesWritten
<1>2. CASE \/ OutsideCommits
           \/ \E p \in Paths : Expire(p)
           \/ \E p \in Paths \union {None} : Observe(p)
  <2>1. /\ UNCHANGED <<disk, mtime, clock, touched, run, index, dirty, log, batch>>
        /\ head' = head \/ head' = disk
    BY <1>2, Zenon DEF OutsideCommits, Expire, Observe, fileVars, ghostVars, runVars,
                       stateVars, editVars
  <2>2. Logged' = Logged /\ Written' = Written  BY <2>1, Zenon DEF Logged, Written
  <2>3. run'.baseline # None => WrittenIn(run'.baseline)  BY <2>1, Zenon DEF FilesInv
  <2> QED  BY <2>1, <2>2, <2>3, FilesQuiet, Zenon
<1>3. CASE RunEnds
  <2>1. /\ UNCHANGED <<disk, mtime, head, index, dirty, log, batch, touched>>
        /\ run.state = "running" /\ clock' = clock + 1
        /\ run' = [run EXCEPT !.state = "ended", !.ended = clock + 1]
    BY <1>3, Zenon DEF RunEnds, stateVars, editVars, ghostVars
  <2>2. Logged' = Logged /\ Written' = Written  BY <2>1, Zenon DEF Logged, Written
  <2>3. \A t : ByEnd(t)  BY <2>1 DEF ByEnd
  <2>4. /\ \A p \in Written : p \in touched
        /\ \A e \in Logged \union batch : e.path \in Written /\ e.path \in touched
    BY <2>3, Zenon DEF FilesInv
  <2>5. run'.ended = clock + 1 /\ run'.baseline = run.baseline  BY <1>0, <2>1, SMT DEF RunTyped
  <2>6. run'.ended <= clock'  BY <1>0, <2>1, <2>5, SMT DEF FilesOK
  <2>7. run'.baseline # None => WrittenIn(run.baseline)'
    BY <2>2, <2>5, Zenon DEF FilesInv, WrittenIn
  <2>8. /\ \A p \in Paths : disk'[p] # 0 \/ head'[p] # 0 \/ index'[p] # 0 => p \in Written'
        /\ dirty' \subseteq Written'
    BY <2>1, <2>2, Zenon DEF FilesInv
  <2> QED  BY <2>1, <2>2, <2>4, <2>6, <2>7, <2>8, Zenon DEF FilesInv
<1> QED  BY <1>1, <1>2, <1>3, Zenon DEF Outside

LEMMA OthersAttributed ==
  ASSUME FeedTypeOK, FilesInv, RunInv, NEW r \in Requests,
         \/ Changes(r) \/ Edit(r) \/ StartRun(r) \/ PollRun(r)
         \/ ReadRecords(r) \/ RunStep(r)
  PROVE  FilesInv' /\ Written' = Written /\ touched' = touched
<1>0. RunTyped /\ LocalTyped  BY TypeParts
<1>1. UNCHANGED <<disk, mtime, head, clock, touched, index, dirty, log, batch>>
  <2>1. CASE Changes(r) \/ Edit(r) \/ StartRun(r) \/ PollRun(r) \/ ReadRecords(r)
    BY <2>1, Zenon DEF Changes, Edit, StartRun, PollRun, Call, ReadRecords, fileVars, stateVars,
                       editVars, ghostVars
  <2>2. CASE RunStep(r)
    BY <2>2, Zenon DEF RunStep, ReadBaseline, Launch, SetBaseline, ReadCurrent, ChangeWindow,
                       Attribute, FreezeChanges, fileVars, stateVars, editVars, ghostVars
  <2> QED  BY <2>1, <2>2
<1>2. Written' = Written /\ Logged' = Logged  BY <1>1, Zenon DEF Written, Logged
<1>3. run.baseline # None => WrittenIn(run.baseline)  BY Zenon DEF FilesInv
<1>4. CASE Launch(r)
  <2>1. run.state = "none"  BY <1>4, Zenon DEF Launch, RunInv, Carries
  <2>2. run'.state = "running" /\ run'.ended = run.ended /\ run'.baseline = run.baseline
    BY <1>0, <1>4, SMT DEF Launch, RunTyped
  <2>3. \A t : ByEnd(t) /\ ByEnd(t)'  BY <2>1, <2>2 DEF ByEnd
  <2>4. /\ \A p \in Written : p \in touched
        /\ \A e \in Logged \union batch : e.path \in Written /\ e.path \in touched
    BY <2>3, Zenon DEF FilesInv
  <2>5. run'.baseline # None => WrittenIn(run.baseline)'
    BY <1>2, <1>3, <2>2, Zenon DEF WrittenIn
  <2>6. /\ \A p \in Paths : disk'[p] # 0 \/ head'[p] # 0 \/ index'[p] # 0 => p \in Written'
        /\ dirty' \subseteq Written' /\ run'.ended <= clock'
    BY <1>1, <1>2, <2>2, Zenon DEF FilesInv
  <2> QED  BY <1>1, <1>2, <2>4, <2>5, <2>6, Zenon DEF FilesInv
<1>5. CASE ~ Launch(r)
  <2>1. run'.state = run.state /\ run'.ended = run.ended
    <3>1. \/ UNCHANGED run
          \/ \E b : run' = [run EXCEPT !.baseline = b]
          \/ \E f : run' = [run EXCEPT !.frozen = f]
      BY <1>5, Zenon DEF Changes, Edit, StartRun, PollRun, ReadRecords, RunStep, ReadBaseline,
         SetBaseline, ReadCurrent, ChangeWindow, Attribute, FreezeChanges, runVars
    <3> QED  BY <1>0, <3>1, SMT DEF RunTyped
  <2>2. run'.baseline # None => WrittenIn(run'.baseline)
    <3>1. CASE SetBaseline(r)
      <4>1. WrittenIn(local[r].current)  BY <3>1 DEF SetBaseline, RunInv, Carries
      <4>2. run'.baseline = local[r].current  BY <1>0, <3>1 DEF SetBaseline, RunTyped
      <4> QED  BY <4>1, <4>2
    <3>2. CASE ChangeWindow(r)
      <4>1. WrittenIn(local[r].current)  BY <3>2 DEF ChangeWindow, RunInv, Carries
      <4>2. run'.baseline = IF run.baseline = None THEN local[r].current ELSE run.baseline
        BY <1>0, <3>2 DEF ChangeWindow, RunTyped
      <4> QED  BY <1>3, <4>1, <4>2
    <3>3. CASE FreezeChanges(r)
      <4>1. run'.baseline = run.baseline  BY <1>0, <3>3 DEF FreezeChanges, RunTyped
      <4> QED  BY <1>3, <4>1
    <3>4. CASE UNCHANGED run  BY <1>3, <3>4
    <3> QED
      BY <1>5, <3>1, <3>2, <3>3, <3>4, Zenon DEF Changes, Edit, StartRun, PollRun, ReadRecords,
         RunStep, ReadBaseline, ReadCurrent, Attribute, runVars
  <2> QED  BY <1>1, <1>2, <2>1, <2>2, FilesQuiet, Zenon
<1> QED  BY <1>4, <1>5

(* A step that leaves the run and what is carried about it alone.          *)
LEMMA RunQuiet ==
  ASSUME FeedTypeOK, RunInv, UNCHANGED <<run, local, replies>>,
         Written \subseteq Written', touched \subseteq touched', NEW r \in Requests,
         \A q \in Requests : q # r => pc'[q] = pc[q] /\ op'[q] = op[q],
         \/ pc'[r] = pc[r] /\ op'[r] = op[r]
         \/ /\ pc[r] # "wait"
            /\ op'[r] = op[r] \/ op'[r] # "start"
            /\ \/ pc'[r] \notin {"baseline", "launch", "wait", "window", "attribute", "freeze"}
               \/ pc'[r] = "baseline" /\ op'[r] = "start" /\ ~local[r].started
  PROVE  RunInv'
<1>1. ASSUME NEW q \in Requests PROVE Carries(q)'
  <2>1. Carries(q)  BY Zenon DEF RunInv
  <2>2. \A b : WrittenIn(b) => WrittenIn(b)'  BY Zenon DEF WrittenIn
  <2>3. CASE pc'[q] = pc[q] /\ op'[q] = op[q]  BY <2>1, <2>2, <2>3, Zenon DEF Carries
  <2>4. CASE q = r /\ ~ (pc'[q] = pc[q] /\ op'[q] = op[q])
    BY <2>1, <2>4 DEF Carries
  <2> QED  BY <2>3, <2>4, Zenon
<1>2. \A q \in Requests : op'[q] = "start" => op[q] = "start"  BY Zenon
<1>3. \A q, x \in Requests : op'[q] = "start" /\ op'[x] = "start" => q = x
  BY <1>2, Zenon DEF RunInv
<1>4. run'.frozen \in Frozen => run'.frozen.paths \subseteq touched'  BY Zenon DEF RunInv
<1>5. replies' \subseteq {run'.frozen}  BY Zenon DEF RunInv
<1> QED  BY <1>1, <1>3, <1>4, <1>5, Zenon DEF RunInv

(* Requests move on from a reconcile.                                      *)
LEMMA AfterQuiet ==
  ASSUME PlacesOK, NEW r \in Requests, Goto(r, After(r)), UNCHANGED op, pc[r] # "wait"
  PROVE  /\ \A q \in Requests : q # r => pc'[q] = pc[q] /\ op'[q] = op[q]
         /\ pc[r] # "wait" /\ op'[r] = op[r]
         /\ \/ pc'[r] \notin {"baseline", "launch", "wait", "window", "attribute", "freeze"}
            \/ pc'[r] = "baseline" /\ op'[r] = "start" /\ ~local[r].started
<1>1. pc'[r] = After(r) /\ \A q \in Requests : q # r => pc'[q] = pc[q]
  BY Zenon DEF Goto, PlacesOK
<1>2. \/ After(r) \in {"records", "plan", "current"}
      \/ After(r) = "baseline" /\ op[r] = "start" /\ ~local[r].started
  BY DEF After
<1> QED  BY <1>1, <1>2

LEMMA MovedQuiet ==
  ASSUME PlacesOK, NEW r \in Requests, pc[r] # "wait",
         NEW place \in {"idle", "reconcile", "drain", "publish", "record", "plan", "write",
                        "undo", "commit", "records", "current"},
         NEW kind, kind = op[r] \/ kind # "start",
         pc' = [pc EXCEPT ![r] = place], op' = [op EXCEPT ![r] = kind] \/ (UNCHANGED op)
  PROVE  /\ \A q \in Requests : q # r => pc'[q] = pc[q] /\ op'[q] = op[q]
         /\ op'[r] = op[r] \/ op'[r] # "start"
         /\ pc'[r] \notin {"baseline", "launch", "wait", "window", "attribute", "freeze"}
BY DEF PlacesOK

LEMMA ReconcileSettled ==
  ASSUME FeedTypeOK, RunInv, NEW r \in Requests, ReconcileStep(r), Written' = Written,
         touched' = touched
  PROVE  RunInv'
<1>0. PlacesOK  BY TypeParts
<1>1. UNCHANGED <<run, local, replies>>
  BY Zenon DEF ReconcileStep, SkipReconcile, TakeWriter, Drain, Publish, ReconcileFails,
     RecordExternal, ghostVars, runVars
<1>2. pc[r] # "wait"
  BY DEF ReconcileStep, SkipReconcile, TakeWriter, Drain, Publish, ReconcileFails,
     RecordExternal
<1>3. CASE Goto(r, After(r)) /\ UNCHANGED op
  BY <1>0, <1>1, <1>2, <1>3, AfterQuiet, RunQuiet, Zenon
<1>4. CASE \/ Goto(r, "drain") /\ UNCHANGED op
           \/ Goto(r, "publish") /\ UNCHANGED op
           \/ Goto(r, "record") /\ UNCHANGED op
           \/ Finish(r)
  <2>1. PICK place \in {"idle", "drain", "publish", "record"}, kind \in {op[r], "none"} :
          /\ pc' = [pc EXCEPT ![r] = place]
          /\ op' = [op EXCEPT ![r] = kind] \/ (UNCHANGED op)
    BY <1>4, Zenon DEF Goto, Finish
  <2>2. place \in {"idle", "reconcile", "drain", "publish", "record", "plan", "write",
                   "undo", "commit", "records", "current"} /\ (kind = op[r] \/ kind # "start")
    OBVIOUS
  <2>3. /\ \A q \in Requests : q # r => pc'[q] = pc[q] /\ op'[q] = op[q]
        /\ op'[r] = op[r] \/ op'[r] # "start"
        /\ pc'[r] \notin {"baseline", "launch", "wait", "window", "attribute", "freeze"}
    BY <1>0, <1>2, <2>1, <2>2, MovedQuiet, Zenon
  <2> QED  BY <1>1, <1>2, <2>3, RunQuiet, Zenon
<1> QED
  BY <1>3, <1>4, Zenon DEF ReconcileStep, SkipReconcile, TakeWriter, Drain, Publish,
     ReconcileFails, RecordExternal, Settle

LEMMA EditSettled ==
  ASSUME FeedTypeOK, RunInv, NEW r \in Requests, EditStep(r), Written \subseteq Written',
         touched \subseteq touched'
  PROVE  RunInv'
<1>0. PlacesOK  BY TypeParts
<1>1. UNCHANGED <<run, local, replies>>
  BY Zenon DEF EditStep, Plan, WriteFile, WriteFails, Restore, PublishEdit, PublishFails,
     Compensated, RecordEdit, ghostVars, runVars
<1>2. pc[r] # "wait"
  BY DEF EditStep, Plan, WriteFile, WriteFails, Restore, PublishEdit, PublishFails,
     Compensated, RecordEdit
<1>3. CASE UNCHANGED <<pc, op>>  BY <1>1, <1>3, RunQuiet, Zenon
<1>4. CASE \/ Goto(r, "write") /\ UNCHANGED op
           \/ Goto(r, "undo") /\ UNCHANGED op
           \/ Goto(r, "commit") /\ UNCHANGED op
           \/ Finish(r)
  <2>1. PICK place \in {"idle", "write", "undo", "commit"}, kind \in {op[r], "none"} :
          /\ pc' = [pc EXCEPT ![r] = place]
          /\ op' = [op EXCEPT ![r] = kind] \/ (UNCHANGED op)
    BY <1>4, Zenon DEF Goto, Finish
  <2>2. place \in {"idle", "reconcile", "drain", "publish", "record", "plan", "write",
                   "undo", "commit", "records", "current"} /\ (kind = op[r] \/ kind # "start")
    OBVIOUS
  <2>3. /\ \A q \in Requests : q # r => pc'[q] = pc[q] /\ op'[q] = op[q]
        /\ op'[r] = op[r] \/ op'[r] # "start"
        /\ pc'[r] \notin {"baseline", "launch", "wait", "window", "attribute", "freeze"}
    BY <1>0, <1>2, <2>1, <2>2, MovedQuiet, Zenon
  <2> QED  BY <1>1, <1>2, <2>3, RunQuiet, Zenon
<1> QED
  BY <1>3, <1>4, Zenon DEF EditStep, Plan, WriteFile, WriteFails, Restore, PublishEdit,
     PublishFails, Compensated, RecordEdit, EndEdit

LEMMA OutsideSettled ==
  ASSUME FeedTypeOK, RunInv, Outside, Written \subseteq Written', touched \subseteq touched'
  PROVE  RunInv'
<1>0. RunTyped  BY TypeParts
<1>1. UNCHANGED <<local, replies, pc, op>>
  BY Zenon DEF Outside, OutsideWrites, RunWrites, Expire, Observe, OutsideCommits, RunEnds,
     ghostVars, runVars
<1>2. \A b : WrittenIn(b) => WrittenIn(b)'  BY Zenon DEF WrittenIn
<1>3. \/ UNCHANGED run
      \/ /\ run.state = "running" /\ run'.state = "ended" /\ run'.frozen = run.frozen
  <2>1. CASE RunEnds  BY <1>0, <2>1, SMT DEF RunEnds, RunTyped
  <2>2. CASE ~ RunEnds
    BY <2>2, Zenon DEF Outside, OutsideWrites, RunWrites, Expire, Observe, OutsideCommits,
                       runVars
  <2> QED  BY <2>1, <2>2
<1>4. ASSUME NEW q \in Requests PROVE Carries(q)'
  <2>1. Carries(q)  BY Zenon DEF RunInv
  <2>2. CASE UNCHANGED run  BY <1>1, <1>2, <2>1, <2>2, Zenon DEF Carries
  <2>3. CASE run.state = "running" /\ run'.state = "ended"
    <3>1. "running" # "none"  OBVIOUS
    <3> QED  BY <1>1, <1>2, <2>1, <2>3, <3>1, Zenon DEF Carries
  <2> QED  BY <1>3, <2>2, <2>3
<1>5. run'.frozen = run.frozen  BY <1>3
<1>6. /\ \A q, x \in Requests : op'[q] = "start" /\ op'[x] = "start" => q = x
      /\ run'.frozen \in Frozen => run'.frozen.paths \subseteq touched'
      /\ replies' \subseteq {run'.frozen}
  BY <1>1, <1>5, Zenon DEF RunInv
<1> QED  BY <1>4, <1>6, Zenon DEF RunInv

LEMMA CallSettled ==
  ASSUME FeedTypeOK, RunInv, Written' = Written, touched' = touched, NEW r \in Requests,
         Changes(r) \/ Edit(r) \/ StartRun(r) \/ PollRun(r) \/ ReadRecords(r)
  PROVE  RunInv'
<1>0. PlacesOK /\ LocalTyped  BY TypeParts
<1>1. UNCHANGED <<run, replies>> /\ pc[r] # "wait"
  BY DEF Changes, Edit, StartRun, PollRun, Call, ReadRecords, ghostVars, runVars
<1>2. CASE Changes(r) \/ Edit(r) \/ ReadRecords(r)
  <2>1. UNCHANGED local
    BY <1>2, Zenon DEF Changes, Edit, ReadRecords, runVars
  <2>2. PICK place \in {"idle", "reconcile"}, kind \in {"none", "changes", "edit"} :
          /\ pc' = [pc EXCEPT ![r] = place] /\ op' = [op EXCEPT ![r] = kind]
    BY <1>2, Zenon DEF Changes, Edit, ReadRecords, Call, Goto, Finish
  <2>3. /\ \A q \in Requests : q # r => pc'[q] = pc[q] /\ op'[q] = op[q]
        /\ op'[r] = op[r] \/ op'[r] # "start"
        /\ pc'[r] \notin {"baseline", "launch", "wait", "window", "attribute", "freeze"}
    BY <1>0, <2>2 DEF PlacesOK
  <2> QED  BY <1>1, <2>1, <2>3, RunQuiet, Zenon
<1>3. CASE StartRun(r) \/ PollRun(r)
  <2>1. PICK kind \in {"start", "poll"}, l \in {NoLocal, Begun(FALSE)} :
          /\ pc' = [pc EXCEPT ![r] = "reconcile"] /\ op' = [op EXCEPT ![r] = kind]
          /\ local' = [local EXCEPT ![r] = l]
          /\ kind = "start" => l = NoLocal /\ run.state = "none" /\ \A q \in Requests : op[q] # "start"
    <3>1. CASE StartRun(r)  BY <3>1, Zenon DEF StartRun, Call, Goto
    <3>2. CASE PollRun(r)
      <4>1. "poll" # "start"  OBVIOUS
      <4> QED  BY <3>2, <4>1, Zenon DEF PollRun, Call, Goto
    <3> QED  BY <1>3, <3>1, <3>2
  <2>2. l.terminal => run.state = "ended"
    <3>1. ~ NoLocal.terminal  BY Zenon DEF NoLocal
    <3>2. Begun(FALSE).terminal => run.state = "ended"  BY Zenon DEF Begun
    <3> QED  BY <3>1, <3>2, Zenon
  <2>3. /\ pc'[r] = "reconcile" /\ op'[r] = kind /\ local'[r] = l
        /\ \A q \in Requests : q # r => pc'[q] = pc[q] /\ op'[q] = op[q] /\ local'[q] = local[q]
    BY <1>0, <2>1, Zenon DEF PlacesOK, LocalTyped
  <2>4. ASSUME NEW q \in Requests PROVE Carries(q)'
    <3>1. Carries(q)  BY Zenon DEF RunInv
    <3>2. \A b : WrittenIn(b) => WrittenIn(b)'  BY Zenon DEF WrittenIn
    <3>3. CASE q # r  BY <1>1, <2>3, <3>1, <3>2, <3>3, Zenon DEF Carries
    <3>4. CASE q = r  BY <1>1, <2>1, <2>2, <2>3, <3>4 DEF Carries
    <3> QED  BY <3>3, <3>4
  <2>5. ASSUME NEW q \in Requests, NEW x \in Requests, op'[q] = "start", op'[x] = "start"
        PROVE  q = x
    <3>1. CASE kind = "start"  BY <2>1, <2>3, <2>5, <3>1, Zenon
    <3>2. CASE kind # "start"
      <4>1. op[q] = "start" /\ op[x] = "start"  BY <2>3, <2>5, <3>2, Zenon
      <4> QED  BY <4>1, Zenon DEF RunInv
    <3> QED  BY <3>1, <3>2
  <2>6. /\ run'.frozen \in Frozen => run'.frozen.paths \subseteq touched'
        /\ replies' \subseteq {run'.frozen}
    BY <1>1, Zenon DEF RunInv
  <2> QED  BY <2>4, <2>5, <2>6, Zenon DEF RunInv
<1> QED  BY <1>2, <1>3

(* What is attributed was done by the end of the run.                      *)
LEMMA AttributedByEnd ==
  ASSUME FilesInv, NEW r \in Requests, run.state = "ended", local[r].terminal,
         WrittenIn(local[r].window), WrittenIn(local[r].current)
  PROVE  Attributed(local[r]) \subseteq touched
<1>1. \A p \in Written : mtime[p] <= run.ended => p \in touched  BY Zenon DEF FilesInv, ByEnd
<1>2. \A e \in Logged : e.path \in Written /\ (e.time <= run.ended => e.path \in touched)
  BY Zenon DEF FilesInv, ByEnd
<1>3. local[r].window.dirty \subseteq Written /\ local[r].current.dirty \subseteq Written
  BY Zenon DEF WrittenIn
<1>4. ASSUME NEW p \in Attributed(local[r]) PROVE p \in touched
  <2>1. \/ \E e \in Logged : e.path = p /\ (mtime[p] <= run.ended \/ e.time <= run.ended)
        \/ /\ p \in local[r].window.dirty \/ p \in local[r].current.dirty
           /\ mtime[p] <= run.ended
    BY DEF Attributed
  <2> QED  BY <1>1, <1>2, <1>3, <2>1, Zenon
<1> QED  BY <1>4

(* The steps of the requests about the run.                                *)
LEMMA RunStepSettled ==
  ASSUME FeedTypeOK, FilesInv, RunInv, Written' = Written, touched' = touched,
         NEW r \in Requests, RunStep(r)
  PROVE  RunInv'
<1>0. PlacesOK /\ LocalTyped /\ RunTyped /\ StateOK /\ GhostsOK  BY TypeParts
<1>1. Carries(r) /\ \A q \in Requests : Carries(q)  BY Zenon DEF RunInv
<1>2. \A b : WrittenIn(b)' <=> WrittenIn(b)  BY Zenon DEF WrittenIn
<1>3. WrittenIn(Current)
  <2>1. Current \in Baseline  BY <1>0, Zenon DEF Current, Baseline, StateOK
  <2> QED  BY <2>1, Zenon DEF WrittenIn, Current, FilesInv
<1>4. ASSUME run'.state = run.state,
             \A q \in Requests : q # r => pc'[q] = pc[q] /\ op'[q] = op[q] /\ local'[q] = local[q],
             op'[r] = op[r] \/ op'[r] = "none", Carries(r)',
             run'.frozen \in Frozen => run'.frozen.paths \subseteq touched,
             replies' \subseteq {run'.frozen}
      PROVE  RunInv'
  <2>1. ASSUME NEW q \in Requests PROVE Carries(q)'
    BY <1>1, <1>2, <1>4, Zenon DEF Carries
  <2>2. \A q \in Requests : op'[q] = "start" => op[q] = "start"
    <3>1. "none" # "start"  OBVIOUS
    <3> QED  BY <1>4, <3>1, Zenon
  <2>3. \A q, x \in Requests : op'[q] = "start" /\ op'[x] = "start" => q = x
    BY <2>2, Zenon DEF RunInv
  <2> QED  BY <1>4, <2>1, <2>3, Zenon DEF RunInv
<1>5. CASE ReadBaseline(r) \/ ReadCurrent(r)
  <2>1. PICK place \in {"launch", "window"} :
          /\ pc' = [pc EXCEPT ![r] = place] /\ UNCHANGED <<op, run, replies>>
          /\ local' = [local EXCEPT ![r] = [local[r] EXCEPT !.current = Current]]
          /\ place = "launch" => pc[r] = "baseline"
          /\ pc[r] \in {"baseline", "current"}
    <3>1. "launch" # "window"  OBVIOUS
    <3> QED  BY <1>5, <3>1, Zenon DEF ReadBaseline, ReadCurrent, Goto, Keep, ghostVars
  <2>2. /\ pc'[r] = place /\ op'[r] = op[r]
        /\ \A q \in Requests : q # r => pc'[q] = pc[q] /\ op'[q] = op[q] /\ local'[q] = local[q]
        /\ local'[r] = [local[r] EXCEPT !.current = Current]
    BY <1>0, <2>1, Zenon DEF PlacesOK, LocalTyped
  <2>3. local'[r].current = Current /\ local'[r].terminal = local[r].terminal
        /\ local'[r].started = local[r].started
    BY <1>0, <2>2, Zenon DEF LocalTyped
  <2>4. Carries(r)'  BY <1>1, <1>2, <1>3, <2>1, <2>2, <2>3 DEF Carries
  <2>5. /\ run'.frozen \in Frozen => run'.frozen.paths \subseteq touched
        /\ replies' \subseteq {run'.frozen} /\ run'.state = run.state
    BY <2>1, Zenon DEF RunInv
  <2> QED  BY <1>4, <2>2, <2>4, <2>5, Zenon
<1>6. CASE Launch(r)
  <2>1. /\ pc' = [pc EXCEPT ![r] = "wait"] /\ UNCHANGED <<op, local, replies>> /\ pc[r] = "launch"
        /\ run' = [run EXCEPT !.state = "running"]
    BY <1>6, Zenon DEF Launch, Goto, ghostVars
  <2>2. /\ op[r] = "start" /\ run.state = "none" /\ WrittenIn(local[r].current)
        /\ \A q \in Requests : ~ local[q].terminal
    <3>1. op[r] = "start" /\ run.state = "none" /\ WrittenIn(local[r].current)
      BY <1>1, <2>1 DEF Carries
    <3> QED  BY <1>1, <3>1 DEF Carries
  <2>3. /\ pc'[r] = "wait" /\ \A q \in Requests : q # r => pc'[q] = pc[q]
        /\ run'.frozen = run.frozen
    BY <1>0, <2>1, Zenon DEF PlacesOK, RunTyped
  <2>4. \A q \in Requests : op[q] = "start" => q = r  BY <2>2, Zenon DEF RunInv
  <2>5. ASSUME NEW q \in Requests PROVE Carries(q)'
    <3>1. CASE q = r  BY <1>2, <2>1, <2>2, <2>3, <3>1 DEF Carries
    <3>2. CASE q # r
      BY <1>1, <1>2, <2>1, <2>2, <2>3, <2>4, <3>2, Zenon DEF Carries
    <3> QED  BY <3>1, <3>2
  <2>6. /\ \A q, x \in Requests : op'[q] = "start" /\ op'[x] = "start" => q = x
        /\ run'.frozen \in Frozen => run'.frozen.paths \subseteq touched'
        /\ replies' \subseteq {run'.frozen}
    BY <2>1, <2>3, Zenon DEF RunInv
  <2> QED  BY <2>5, <2>6, Zenon DEF RunInv
<1>7. CASE SetBaseline(r)
  <2>1. /\ pc' = [pc EXCEPT ![r] = "reconcile"] /\ UNCHANGED <<op, replies>>
        /\ local' = [local EXCEPT ![r] = Begun(TRUE)]
        /\ run' = [run EXCEPT !.baseline = local[r].current]
    BY <1>7, Zenon DEF SetBaseline, Goto, Keep, ghostVars
  <2>2. /\ pc'[r] = "reconcile" /\ op'[r] = op[r] /\ local'[r] = Begun(TRUE)
        /\ \A q \in Requests : q # r => pc'[q] = pc[q] /\ op'[q] = op[q] /\ local'[q] = local[q]
        /\ run'.frozen = run.frozen /\ run'.state = run.state
    BY <1>0, <2>1, Zenon DEF PlacesOK, LocalTyped, RunTyped
  <2>3. Begun(TRUE).started /\ (Begun(TRUE).terminal => run.state = "ended")
    BY Zenon DEF Begun
  <2>4. Carries(r)'  BY <2>2, <2>3 DEF Carries
  <2>5. /\ run'.frozen \in Frozen => run'.frozen.paths \subseteq touched
        /\ replies' \subseteq {run'.frozen}
    BY <2>1, <2>2, Zenon DEF RunInv
  <2> QED  BY <1>4, <2>2, <2>4, <2>5, Zenon
<1>8. CASE ChangeWindow(r)
  <2> DEFINE b == IF run.baseline = None THEN local[r].current ELSE run.baseline
  <2>1. /\ run' = [run EXCEPT !.baseline = b] /\ pc[r] = "window"
        /\ \/ /\ run.frozen # None /\ replies' = replies \union {run.frozen}
              /\ pc' = [pc EXCEPT ![r] = "idle"] /\ op' = [op EXCEPT ![r] = "none"]
              /\ UNCHANGED local
           \/ /\ local' = [local EXCEPT ![r] = [local[r] EXCEPT !.window = run'.baseline]]
              /\ pc' = [pc EXCEPT ![r] = "attribute"] /\ UNCHANGED <<op, replies>>
    BY <1>8, Zenon DEF ChangeWindow, Goto, Finish, Keep
  <2>2. WrittenIn(local[r].current) /\ WrittenIn(b)
    BY <1>1, <2>1 DEF Carries, FilesInv
  <2> HIDE DEF b
  <2>3. run'.baseline = b /\ run'.frozen = run.frozen /\ run'.state = run.state
    BY <1>0, <2>1, Zenon DEF RunTyped
  <2>4. replies' \subseteq {run'.frozen}  BY <2>1, <2>3, Zenon DEF RunInv
  <2>5. run'.frozen \in Frozen => run'.frozen.paths \subseteq touched
    BY <2>3, Zenon DEF RunInv
  <2>6. CASE UNCHANGED local /\ pc' = [pc EXCEPT ![r] = "idle"] /\ op' = [op EXCEPT ![r] = "none"]
    <3>1. /\ pc'[r] = "idle" /\ op'[r] = "none" /\ local'[r] = local[r]
          /\ \A q \in Requests : q # r => pc'[q] = pc[q] /\ op'[q] = op[q] /\ local'[q] = local[q]
      BY <1>0, <2>6, Zenon DEF PlacesOK
    <3>2. Carries(r)'  BY <1>1, <2>3, <3>1 DEF Carries
    <3> QED  BY <1>4, <2>3, <2>4, <2>5, <3>1, <3>2, Zenon
  <2>7. CASE /\ local' = [local EXCEPT ![r] = [local[r] EXCEPT !.window = run'.baseline]]
             /\ pc' = [pc EXCEPT ![r] = "attribute"] /\ UNCHANGED <<op, replies>>
    <3>1. /\ pc'[r] = "attribute" /\ op'[r] = op[r]
          /\ local'[r] = [local[r] EXCEPT !.window = b]
          /\ \A q \in Requests : q # r => pc'[q] = pc[q] /\ op'[q] = op[q] /\ local'[q] = local[q]
      BY <1>0, <2>3, <2>7, Zenon DEF PlacesOK, LocalTyped
    <3>2. /\ local'[r].window = b /\ local'[r].current = local[r].current
          /\ local'[r].terminal = local[r].terminal /\ local'[r].started = local[r].started
      BY <1>0, <3>1, Zenon DEF LocalTyped
    <3>3. Carries(r)'  BY <1>1, <1>2, <2>1, <2>2, <2>3, <3>1, <3>2 DEF Carries
    <3> QED  BY <1>4, <2>3, <2>4, <2>5, <3>1, <3>3, Zenon
  <2> QED  BY <2>1, <2>6, <2>7, Zenon
<1>9. CASE Attribute(r)
  <2> DEFINE changes == [generation |-> local[r].current.generation,
                         paths |-> Attributed(local[r])]
  <2>1. /\ pc[r] = "attribute" /\ UNCHANGED <<run, replies>>
        /\ \/ /\ local[r].terminal
              /\ local' = [local EXCEPT ![r] = [local[r] EXCEPT !.window = changes]]
              /\ pc' = [pc EXCEPT ![r] = "freeze"] /\ UNCHANGED op
           \/ /\ pc' = [pc EXCEPT ![r] = "idle"] /\ op' = [op EXCEPT ![r] = "none"]
              /\ UNCHANGED local
    BY <1>9, Zenon DEF Attribute, Goto, Finish, Keep, ghostVars
  <2>2. WrittenIn(local[r].current) /\ WrittenIn(local[r].window)
    BY <1>1, <2>1 DEF Carries
  <2>3. /\ run'.frozen \in Frozen => run'.frozen.paths \subseteq touched
        /\ replies' \subseteq {run'.frozen} /\ run'.state = run.state
    BY <2>1, Zenon DEF RunInv
  <2>4. CASE UNCHANGED local /\ pc' = [pc EXCEPT ![r] = "idle"] /\ op' = [op EXCEPT ![r] = "none"]
    <3>1. /\ pc'[r] = "idle" /\ op'[r] = "none" /\ local'[r] = local[r]
          /\ \A q \in Requests : q # r => pc'[q] = pc[q] /\ op'[q] = op[q] /\ local'[q] = local[q]
      BY <1>0, <2>4, Zenon DEF PlacesOK
    <3>2. Carries(r)'  BY <1>1, <2>3, <3>1 DEF Carries
    <3> QED  BY <1>4, <2>3, <3>1, <3>2, Zenon
  <2>5. CASE /\ local[r].terminal
             /\ local' = [local EXCEPT ![r] = [local[r] EXCEPT !.window = changes]]
             /\ pc' = [pc EXCEPT ![r] = "freeze"] /\ UNCHANGED op
    <3>1. run.state = "ended"  BY <1>1, <2>5, Zenon DEF Carries
    <3>2. changes.paths \subseteq touched /\ changes \in Frozen
      <4>1. Attributed(local[r]) \subseteq touched  BY <2>2, <2>5, <3>1, AttributedByEnd
      <4>2. Attributed(local[r]) \in SUBSET Paths  BY Zenon DEF Attributed
      <4>3. local[r].current.generation \in Nat  BY <2>2, SMT DEF WrittenIn, Baseline
      <4> QED  BY <4>1, <4>2, <4>3, Zenon DEF Frozen
    <3> HIDE DEF changes
    <3>3. /\ pc'[r] = "freeze" /\ op'[r] = op[r]
          /\ local'[r] = [local[r] EXCEPT !.window = changes]
          /\ \A q \in Requests : q # r => pc'[q] = pc[q] /\ op'[q] = op[q] /\ local'[q] = local[q]
      BY <1>0, <2>5, Zenon DEF PlacesOK, LocalTyped
    <3>4. /\ local'[r].window = changes /\ local'[r].current = local[r].current
          /\ local'[r].terminal = local[r].terminal /\ local'[r].started = local[r].started
      BY <1>0, <3>3, Zenon DEF LocalTyped
    <3>5. Carries(r)'  BY <1>1, <2>1, <2>3, <3>1, <3>2, <3>3, <3>4 DEF Carries
    <3> QED  BY <1>4, <2>3, <3>3, <3>5, Zenon
  <2> QED  BY <2>1, <2>4, <2>5, Zenon
<1>10. CASE FreezeChanges(r)
  <2> DEFINE frozen == FreezeWith(local[r].window)
  <2>1. /\ pc[r] = "freeze" /\ run' = [run EXCEPT !.frozen = frozen]
        /\ replies' = replies \union {frozen} /\ UNCHANGED local
        /\ pc' = [pc EXCEPT ![r] = "idle"] /\ op' = [op EXCEPT ![r] = "none"]
    BY <1>10, Zenon DEF FreezeChanges, Finish
  <2>2. local[r].window \in Frozen /\ local[r].window.paths \subseteq touched
    BY <1>1, <2>1, Zenon DEF Carries
  <2>3. /\ frozen \in Frozen /\ frozen.paths \subseteq touched
        /\ replies \subseteq {frozen}
    <3>1. run.frozen \in Frozen \union {None}  BY <1>0, Zenon DEF RunTyped
    <3>2. CASE run.frozen = None
      <4>1. replies = {}  BY <1>0, <3>2, FeedAssumption, Zenon DEF GhostsOK, RunInv
      <4> QED  BY <2>2, <3>2, <4>1, Zenon DEF FreezeWith
    <3>3. CASE run.frozen # None  BY <3>1, <3>3, Zenon DEF FreezeWith, RunInv
    <3> QED  BY <3>2, <3>3
  <2> HIDE DEF frozen
  <2>4. run'.frozen = frozen /\ run'.state = run.state  BY <1>0, <2>1, Zenon DEF RunTyped
  <2>5. /\ pc'[r] = "idle" /\ op'[r] = "none" /\ local'[r] = local[r]
        /\ \A q \in Requests : q # r => pc'[q] = pc[q] /\ op'[q] = op[q] /\ local'[q] = local[q]
    BY <1>0, <2>1, Zenon DEF PlacesOK
  <2>6. Carries(r)'  BY <1>1, <2>4, <2>5 DEF Carries
  <2>7. replies' \subseteq {run'.frozen}  BY <2>1, <2>3, <2>4, Zenon
  <2> QED  BY <1>4, <2>3, <2>4, <2>5, <2>6, <2>7, Zenon
<1> QED  BY <1>5, <1>6, <1>7, <1>8, <1>9, <1>10, Zenon DEF RunStep

LEMMA RunKept ==
  ASSUME FeedTypeOK, FollowInv, FilesInv, RunInv, [Next]_vars
  PROVE  FilesInv' /\ RunInv'
<1>1. CASE UNCHANGED vars
  <2>1. UNCHANGED <<disk, mtime, head, clock, index, dirty, log, batch, run, local, replies, touched, pc, op>>
    BY <1>1, Zenon DEF vars, fileVars, stateVars, editVars, runVars, ghostVars
  <2>2. Written' = Written /\ Logged' = Logged  BY <2>1, Zenon DEF Written, Logged
  <2>3. FilesInv'  BY <2>1, <2>2, FilesQuiet, Zenon DEF FilesInv
  <2>4. \A b : WrittenIn(b)' <=> WrittenIn(b)  BY <2>2, Zenon DEF WrittenIn
  <2>5. \A r \in Requests : Carries(r)'  BY <2>1, <2>4, Zenon DEF RunInv, Carries
  <2>6. RunInv'  BY <2>1, <2>5, Zenon DEF RunInv
  <2> QED  BY <2>3, <2>6
<1>2. CASE Outside  BY <1>2, OutsideAttributed, OutsideSettled, Zenon
<1>3. ASSUME NEW r \in Requests, ReconcileStep(r) PROVE FilesInv' /\ RunInv'
  BY <1>3, ReconcileAttributed, ReconcileSettled, Zenon
<1>4. ASSUME NEW r \in Requests, EditStep(r) PROVE FilesInv' /\ RunInv'
  BY <1>4, EditAttributed, EditSettled, Zenon
<1>5. ASSUME NEW r \in Requests,
             Changes(r) \/ Edit(r) \/ StartRun(r) \/ PollRun(r) \/ ReadRecords(r)
      PROVE  FilesInv' /\ RunInv'
  BY <1>5, OthersAttributed, CallSettled, Zenon
<1>6. ASSUME NEW r \in Requests, RunStep(r) PROVE FilesInv' /\ RunInv'
  BY <1>6, OthersAttributed, RunStepSettled, Zenon
<1> QED  BY <1>1, <1>2, <1>3, <1>4, <1>5, <1>6, Zenon DEF Next

-----------------------------------------------------------------------------
(* CodeWeave's own writes.                                                 *)

(* A step that writes no file.                                             *)
LEMMA TextsQuiet ==
  ASSUME FeedTypeOK, FeedTypeOK', TextsKnown, UNCHANGED <<disk, ours>>, clock <= clock',
         late \subseteq late',
         \A p \in Paths : before'[p] \in {before[p], disk[p]},
         \A e \in ever' \union batch' :
           \/ e \in ever \union batch
           \/ e.text <= clock /\ (e.source = "external" /\ e.text \in ours => e.path \in late)
  PROVE  TextsKnown'
<1>0. /\ FilesOK /\ EditOK /\ GhostsOK /\ FilesOK' /\ EditOK' /\ GhostsOK'
  BY TypeParts
<1>1. clock \in Nat /\ clock' \in Nat  BY <1>0, Zenon DEF FilesOK
<1>2. \A n \in Nat : n <= clock => n <= clock'  BY <1>1, SMT
<1>3. \A t \in ours : t \in Nat /\ t <= clock  BY <1>0, Zenon DEF GhostsOK, TextsKnown
<1>4. \A t \in ours' : t <= clock'  BY <1>2, <1>3, Zenon
<1>5. \A p \in Paths : disk[p] \in Nat /\ before[p] \in Nat  BY <1>0, Zenon DEF FilesOK, EditOK
<1>6. \A p \in Paths : disk'[p] <= clock' /\ before'[p] <= clock'
  BY <1>2, <1>5, Zenon DEF TextsKnown
<1>7. \A e \in ever' \union batch' : e.text \in Nat
  <2>1. ever' \union batch' \subseteq RecordType  BY <1>0, Zenon DEF EditOK, GhostsOK
  <2>2. \A e \in RecordType : e.text \in Nat  BY SMT DEF RecordType
  <2> QED  BY <2>1, <2>2, Zenon
<1>8. ASSUME NEW e \in ever' \union batch'
      PROVE  e.text <= clock' /\ (e.source = "external" /\ e.text \in ours' => e.path \in late')
  <2>1. e.text <= clock /\ (e.source = "external" /\ e.text \in ours => e.path \in late)
    BY Zenon DEF TextsKnown
  <2> QED  BY <1>2, <1>7, <2>1, Zenon
<1> QED  BY <1>4, <1>6, <1>8, Zenon DEF TextsKnown

LEMMA HolderQuiet ==
  ASSUME HolderKnows, UNCHANGED <<disk, ours>>, late \subseteq late',
         \/ /\ HolderAt' = HolderAt /\ UNCHANGED <<index, drained, todo, done>>
            /\ marker \union late \subseteq marker' \union late'
         \/ HolderAt' \notin {"publish", "record", "write", "undo"} /\ drained' = NoDrain
  PROVE  HolderKnows'
<1>1. CASE /\ HolderAt' = HolderAt /\ UNCHANGED <<index, drained, todo, done>>
           /\ marker \union late \subseteq marker' \union late'
  <2>1. \A p : Indexed(p)' <=> Indexed(p)  BY <1>1, Zenon DEF Indexed
  <2> QED  BY <1>1, <2>1, Zenon DEF HolderKnows
<1>2. CASE HolderAt' \notin {"publish", "record", "write", "undo"} /\ drained' = NoDrain
  BY <1>2, Zenon DEF HolderKnows
<1> QED  BY <1>1, <1>2

LEMMA MarkersQuiet ==
  ASSUME MarkersKept, UNCHANGED <<disk, ours>>,
         \A p \in Paths : index'[p] \in {index[p], disk[p]},
         \A p \in Paths : p \in events' \union pending' => p \in events \union pending,
         \A p \in Paths : ~Indexed(p)' /\ p \in marker \union late \union drained.paths
                          => p \in marker' \union late' \union drained'.paths
  PROVE  MarkersKept'
<1>1. \A p \in Paths : ~Indexed(p)' => ~Indexed(p)  BY Zenon DEF Indexed
<1> QED  BY <1>1, Zenon DEF MarkersKept

(* A file is written by others.                                            *)
LEMMA OwnOutside ==
  ASSUME FeedTypeOK, FeedTypeOK', OwnInv, NEW p \in Paths, WriteText(p, clock + 1, Now),
         UNCHANGED <<ours, late, ever, batch, before, index, drained, todo, done, marker,
                     pending, writer, pc>>
  PROVE  OwnInv'
<1>0. FilesOK /\ FilesOK' /\ EditOK /\ GhostsOK  BY TypeParts
<1>1. /\ clock \in Nat /\ clock' = clock + 1 /\ disk'[p] = clock + 1
      /\ \A q \in Paths : q # p => disk'[q] = disk[q]
      /\ events' = events \union {p}
  BY <1>0, Zenon DEF WriteText, FilesOK
<1>2. \A n \in Nat : n <= clock => n <= clock' /\ n # clock + 1  BY <1>1, SMT
<1>3. clock + 1 \notin ours  BY <1>0, <1>2, Zenon DEF OwnInv, TextsKnown, GhostsOK
<1>4. /\ Indexed(p)' /\ \A q \in Paths : q # p => (Indexed(q)' <=> Indexed(q))
  BY <1>1, <1>3, Zenon DEF Indexed
<1>5. \A q \in Paths : Indexed(q) => Indexed(q)'  BY <1>4, Zenon
<1>6. HolderAt' = HolderAt  BY Zenon DEF HolderAt
<1>7. HolderKnows'
  <2>1. todo \subseteq Paths /\ drained.paths \subseteq Paths /\ drained.external \subseteq Paths
    BY <1>0, SMT DEF EditOK
  <2> QED  BY <1>5, <1>6, <2>1, Zenon DEF OwnInv, HolderKnows
<1>8. MarkersKept'  BY <1>1, <1>4, Zenon DEF OwnInv, MarkersKept
<1>9. TextsKnown'
  <2>1. \A t \in ours' : t <= clock'
    BY <1>0, <1>2, Zenon DEF OwnInv, TextsKnown, GhostsOK
  <2>2. \A q \in Paths : before'[q] <= clock'
    BY <1>0, <1>2, Zenon DEF OwnInv, TextsKnown, EditOK
  <2>3. \A q \in Paths : disk'[q] <= clock'
    <3>1. disk'[p] <= clock'  BY <1>1, SMT
    <3>2. \A q \in Paths : disk[q] \in Nat /\ disk[q] <= clock
      BY <1>0, Zenon DEF FilesOK, OwnInv, TextsKnown
    <3> QED  BY <1>1, <1>2, <3>1, <3>2, Zenon
  <2>4. \A e \in ever \union batch : e.text \in Nat
    <3>1. \A e \in RecordType : e.text \in Nat  BY SMT DEF RecordType
    <3> QED  BY <1>0, <3>1, Zenon DEF EditOK, GhostsOK
  <2>5. \A e \in ever' \union batch' :
          e.text <= clock' /\ (e.source = "external" /\ e.text \in ours' => e.path \in late')
    BY <1>2, <2>4, Zenon DEF OwnInv, TextsKnown
  <2> QED  BY <2>1, <2>2, <2>3, <2>5, Zenon DEF TextsKnown
<1> QED  BY <1>7, <1>8, <1>9, Zenon DEF OwnInv

LEMMA OutsideOwn ==
  ASSUME FeedTypeOK, FeedTypeOK', OwnInv, Outside
  PROVE  OwnInv'
<1>0. FilesOK /\ EditOK  BY TypeParts
<1>1. ASSUME NEW p \in Paths, OutsideWrites(p) \/ RunWrites(p)
      PROVE  OwnInv'
  <2>1. /\ WriteText(p, clock + 1, Now)
        /\ UNCHANGED <<ours, late, ever, batch, before, index, drained, todo, done, marker,
                       pending, writer, pc>>
    BY <1>1, Zenon DEF OutsideWrites, RunWrites, stateVars, queueVars, editVars
  <2> QED  BY <2>1, OwnOutside, Zenon
<1>2. CASE \/ OutsideCommits \/ RunEnds
           \/ \E p \in Paths : Expire(p)
           \/ \E p \in Paths \union {None} : Observe(p)
  <2>1. /\ UNCHANGED <<disk, ours, ever, batch, before, index, drained, todo, done, writer, pc>>
        /\ clock' = clock \/ clock' = clock + 1
    BY <1>2, Zenon DEF OutsideCommits, RunEnds, Expire, Observe, fileVars, ghostVars,
                       stateVars, editVars
  <2>2. /\ late \subseteq late' /\ marker \union late \subseteq marker' \union late'
        /\ marker \union late \union drained.paths \subseteq marker' \union late' \union drained'.paths
    <3>1. CASE \E p \in Paths : Expire(p)  BY <2>1, <3>1, Zenon DEF Expire
    <3>2. CASE UNCHANGED <<marker, late>>  BY <2>1, <3>2, Zenon
    <3> QED
      BY <1>2, <3>1, <3>2, Zenon DEF OutsideCommits, RunEnds, Observe, ghostVars, queueVars
  <2>3. \A p \in Paths : p \in events' \union pending' => p \in events \union pending
    <3>1. None \notin Paths  BY FeedAssumption
    <3> QED
      BY <1>2, <3>1, Zenon DEF OutsideCommits, RunEnds, Expire, Observe, fileVars, queueVars
  <2>4. clock <= clock'  BY <1>0, <2>1, SMT DEF FilesOK
  <2>5. HolderAt' = HolderAt  BY <2>1, Zenon DEF HolderAt
  <2>6. TextsKnown'  BY <2>1, <2>2, <2>4, TextsQuiet, Zenon DEF OwnInv
  <2>7. HolderKnows'  BY <2>1, <2>2, <2>5, HolderQuiet, Zenon DEF OwnInv
  <2>8. MarkersKept'  BY <2>1, <2>2, <2>3, MarkersQuiet, Zenon DEF OwnInv
  <2> QED  BY <2>6, <2>7, <2>8, Zenon DEF OwnInv
<1> QED  BY <1>1, <1>2, Zenon DEF Outside

(* The reconcile: a drained path has its marker, or is in the index, or    *)
(* its marker was lost.                                                    *)
LEMMA ReconcileOwn ==
  ASSUME FeedTypeOK, FeedTypeOK', FollowInv, OwnInv, NEW r \in Requests, ReconcileStep(r)
  PROVE  OwnInv'
<1>0. FilesOK /\ QueueOK /\ EditOK /\ PlacesOK  BY TypeParts
<1>1. UNCHANGED <<disk, clock, events, ours, before, todo, done>>
  BY Zenon DEF ReconcileStep, SkipReconcile, TakeWriter, Drain, Publish, ReconcileFails,
     RecordExternal, Settle, fileVars, editVars, ghostVars
<1>2. clock <= clock' /\ \A p \in Paths : before'[p] \in {before[p], disk[p]}
  BY <1>0, <1>1, SMT DEF FilesOK
<1>3. SUFFICES
        /\ late \subseteq late'
        /\ \A e \in ever' \union batch' :
             \/ e \in ever \union batch
             \/ e.text <= clock /\ (e.source = "external" /\ e.text \in ours => e.path \in late)
        /\ HolderKnows' /\ MarkersKept'
  <2>1. ASSUME late \subseteq late',
               \A e \in ever' \union batch' :
                 \/ e \in ever \union batch
                 \/ e.text <= clock /\ (e.source = "external" /\ e.text \in ours => e.path \in late)
        PROVE  TextsKnown'
    BY <1>1, <1>2, <2>1, TextsQuiet, Zenon DEF OwnInv
  <2> QED  BY <2>1, Zenon DEF OwnInv
<1>4. HolderKnows /\ MarkersKept /\ TextsKnown  BY Zenon DEF OwnInv
<1>5. NoDrain.paths = {} /\ NoDrain.external = {}  BY Zenon DEF NoDrain
<1>6. CASE SkipReconcile(r)
  <2>1. UNCHANGED <<late, ever, batch, index, drained, marker, pending, writer>>
    BY <1>6, Zenon DEF SkipReconcile, ghostVars, stateVars, editVars, queueVars
  <2>2. pc[r] \notin Held /\ \A q \in Requests : q # r => pc'[q] = pc[q]
    BY <1>0, <1>6 DEF SkipReconcile, Goto, PlacesOK, Held
  <2>3. HolderAt' = HolderAt  BY <1>0, <2>1, <2>2, HolderStays
  <2>4. HolderKnows'  BY <1>1, <1>4, <2>1, <2>3, HolderQuiet, Zenon
  <2>5. MarkersKept'  BY <1>1, <1>4, <2>1, MarkersQuiet, Zenon
  <2> QED  BY <2>1, <2>4, <2>5, Zenon
<1>7. CASE TakeWriter(r)
  <2>1. UNCHANGED <<late, ever, batch, index, drained, marker, pending>>
    BY <1>7, Zenon DEF TakeWriter, ghostVars, stateVars, editVars, queueVars
  <2>2. HolderAt = "idle"  BY <1>7 DEF TakeWriter, HolderAt
  <2>3. HolderAt' = "drain"  BY <1>0, <1>7, GoneTo DEF TakeWriter
  <2>4. drained = NoDrain  BY <1>4, <2>2 DEF HolderKnows
  <2>5. HolderAt' \notin {"publish", "record", "write", "undo"}  BY <2>3
  <2>6. HolderKnows'  BY <1>1, <1>4, <2>1, <2>4, <2>5, HolderQuiet, Zenon
  <2>7. MarkersKept'  BY <1>1, <1>4, <2>1, MarkersQuiet, Zenon
  <2> QED  BY <2>1, <2>6, <2>7, Zenon
<1>8. CASE Drain(r)
  <2>1. UNCHANGED <<late, ever, index>>  BY <1>8, Zenon DEF Drain, ghostVars, stateVars
  <2>2. HolderAt = "drain"  BY <1>8, HolderIs DEF Drain
  <2>3. drained = NoDrain  BY <1>4, <2>2 DEF HolderKnows
  <2>4. CASE Settle(r) /\ UNCHANGED queueVars
    <3>1. UNCHANGED <<marker, pending>> /\ batch' = {} /\ drained' = NoDrain
      BY <2>4, Zenon DEF queueVars, Settle
    <3>2. HolderAt' \notin {"publish", "record", "write", "undo"}
      BY <1>0, <2>4, SettledAt
    <3>3. HolderKnows'  BY <1>1, <1>4, <2>1, <3>1, <3>2, HolderQuiet, Zenon
    <3>4. MarkersKept'  BY <1>1, <1>4, <2>1, <2>3, <3>1, MarkersQuiet, Zenon
    <3> QED  BY <2>1, <3>1, <3>3, <3>4, Zenon
  <2>5. CASE ~ (Settle(r) /\ UNCHANGED queueVars)
    <3>1. /\ pending' = {} /\ marker' = marker \ pending
          /\ drained' = [git |-> None \in pending, paths |-> pending \ {None},
                         external |-> Unmarked(pending \ {None})]
          /\ Goto(r, "publish") /\ writer' = r /\ UNCHANGED batch
      BY <1>8, <2>5, Zenon DEF Drain
    <3>2. drained'.paths = pending \ {None} /\ drained'.external = (pending \ {None}) \ marker
      BY <3>1, Zenon DEF Unmarked
    <3>3. HolderAt' = "publish"  BY <1>0, <3>1, GoneTo
    <3>4. \A p \in Paths : Indexed(p)' <=> Indexed(p)  BY <1>1, <2>1, Zenon DEF Indexed
    <3>5. pending \ {None} \subseteq Paths  BY <1>0, Zenon DEF QueueOK
    <3>6. \A p \in drained'.external \ late : Indexed(p)'
      BY <1>4, <1>5, <2>3, <3>2, <3>4, <3>5, Zenon DEF MarkersKept
    <3>7. HolderKnows'  BY <2>1, <3>3, <3>6 DEF HolderKnows
    <3>8. MarkersKept'
      <4>1. SUFFICES ASSUME NEW p \in Paths, ~Indexed(p)', p \in events
                     PROVE  p \in marker' \union late' \union drained'.paths
        BY <1>1, <3>1, Zenon DEF MarkersKept
      <4>2. p \in marker \union late  BY <1>4, <1>5, <2>3, <3>4, <4>1, Zenon DEF MarkersKept
      <4>3. p # None  BY FeedAssumption
      <4> QED  BY <2>1, <3>1, <3>2, <4>2, <4>3, Zenon
    <3> QED  BY <2>1, <3>1, <3>7, <3>8, Zenon
  <2> QED  BY <2>4, <2>5
<1>9. CASE Publish(r)
  <2> DEFINE changed == {p \in drained.paths : index[p] # disk[p]}
             found == drained.external \intersect changed
  <2>1. /\ index' = Refreshed(changed) /\ UNCHANGED <<late, ever, marker, pending>>
        /\ \/ changed = {} /\ Settle(r)
           \/ /\ batch' = RecordsOf(found, "external")
              /\ Goto(r, "record") /\ writer' = r /\ UNCHANGED drained
    BY <1>9, Zenon DEF Publish, queueVars
  <2>2. HolderAt = "publish"  BY <1>9, HolderIs DEF Publish
  <2>3. drained.paths \subseteq Paths /\ drained.external \subseteq Paths
    BY <1>0, SMT DEF EditOK
  <2>4. \A p \in drained.paths : Indexed(p)'
    <3>1. \A p \in drained.paths : index'[p] = disk[p]
      BY <2>1, <2>3 DEF Refreshed
    <3> QED  BY <1>1, <3>1, Zenon DEF Indexed
  <2>5. \A p \in Paths : index'[p] \in {index[p], disk[p]}  BY <2>1, RefreshedIs
  <2>6. CASE changed = {} /\ Settle(r)
    <3>1. HolderAt' \notin {"publish", "record", "write", "undo"} /\ batch' = {} /\ drained' = NoDrain
      BY <1>0, <2>6, SettledAt
    <3>2. HolderKnows'  BY <1>1, <1>4, <2>1, <3>1, HolderQuiet, Zenon
    <3>3. MarkersKept'  BY <1>1, <1>4, <2>1, <2>4, <2>5, <3>1, MarkersQuiet, Zenon
    <3> QED  BY <2>1, <3>1, <3>2, <3>3, Zenon
  <2>7. CASE /\ batch' = RecordsOf(found, "external")
             /\ Goto(r, "record") /\ writer' = r /\ UNCHANGED drained
    <3>1. HolderAt' = "record"  BY <1>0, <2>7, GoneTo
    <3>2. HolderKnows'  BY <2>4, <2>7, <3>1 DEF HolderKnows
    <3>3. MarkersKept'  BY <1>1, <1>4, <2>1, <2>5, <2>7, MarkersQuiet, Zenon
    <3>4. ASSUME NEW e \in batch'
          PROVE  e.text <= clock /\ (e.source = "external" /\ e.text \in ours => e.path \in late)
      <4>1. PICK p \in found : e.path = p /\ e.text = disk[p]  BY <2>7, SMT DEF RecordsOf
      <4>2. p \in Paths /\ index[p] # disk[p] /\ p \in drained.external  BY <2>3, Zenon
      <4>3. disk[p] <= clock  BY <1>4, <4>2, Zenon DEF TextsKnown
      <4>4. disk[p] \in ours => p \in late
        BY <1>4, <2>2, <4>2, Zenon DEF HolderKnows, Indexed
      <4> QED  BY <4>1, <4>3, <4>4, Zenon
    <3> QED  BY <2>1, <3>2, <3>3, <3>4, Zenon
  <2> QED  BY <2>1, <2>6, <2>7
<1>10. CASE ReconcileFails(r)
  <2>1. /\ UNCHANGED <<ever, batch, marker, pending>> /\ \E part : index' = Refreshed(part)
        /\ writer' = None /\ drained' = NoDrain
        /\ late' = late \union (drained.paths \ drained.external)
    BY <1>10, Zenon DEF ReconcileFails, queueVars
  <2>2. HolderAt = "publish"  BY <1>10, HolderIs DEF ReconcileFails
  <2>3. HolderAt' \notin {"publish", "record", "write", "undo"}  BY <2>1 DEF HolderAt
  <2>4. HolderKnows'  BY <1>1, <1>4, <2>1, <2>3, HolderQuiet, Zenon
  <2>5. \A p \in Paths : index'[p] \in {index[p], disk[p]}  BY <2>1, RefreshedIs
  <2>6. \A p \in Paths : Indexed(p) => Indexed(p)'  BY <1>1, <2>5, Zenon DEF Indexed
  <2>7. \A p \in drained.external \ late : Indexed(p)  BY <1>4, <2>2, Zenon DEF HolderKnows
  <2>8. MarkersKept'  BY <1>1, <1>4, <2>1, <2>5, <2>6, <2>7, MarkersQuiet, Zenon
  <2> QED  BY <2>1, <2>4, <2>8, Zenon
<1>11. CASE RecordExternal(r)
  <2>1. /\ UNCHANGED <<late, index, marker, pending>> /\ ever' = ever \union batch /\ Settle(r)
    BY <1>11, Zenon DEF RecordExternal, queueVars
  <2>2. HolderAt = "record"  BY <1>11, HolderIs DEF RecordExternal
  <2>3. HolderAt' \notin {"publish", "record", "write", "undo"} /\ batch' = {} /\ drained' = NoDrain
    BY <1>0, <2>1, SettledAt
  <2>4. HolderKnows'  BY <1>1, <1>4, <2>1, <2>3, HolderQuiet, Zenon
  <2>5. \A p \in drained.paths : Indexed(p)'
    BY <1>1, <1>4, <2>1, <2>2, Zenon DEF HolderKnows, Indexed
  <2>6. MarkersKept'  BY <1>1, <1>4, <2>1, <2>3, <2>5, MarkersQuiet, Zenon
  <2> QED  BY <2>1, <2>3, <2>4, <2>6, Zenon
<1> QED  BY <1>6, <1>7, <1>8, <1>9, <1>10, <1>11, Zenon DEF ReconcileStep

(* An edit writes a file: the text is CodeWeave's own from here on.        *)
LEMMA WriteOwn ==
  ASSUME FeedTypeOK, OwnInv, NEW r \in Requests, NEW p \in Paths, WriteFile(r, p)
  PROVE  OwnInv'
<1>0. FilesOK /\ EditOK /\ GhostsOK  BY TypeParts
<1> DEFINE e == [path |-> p, source |-> "mcp_edit", generation |-> generation + 1,
                 text |-> clock + 1, time |-> stamp]
<1>1. /\ UNCHANGED <<late, ever, before, index, drained, pending, writer, pc>>
      /\ marker' = marker \union {p} /\ ours' = ours \union {clock + 1}
      /\ todo' = todo \ {p} /\ batch' = batch \union {e}
  BY Zenon DEF WriteFile, stateVars
<1>2. /\ clock \in Nat /\ clock' = clock + 1 /\ disk'[p] = clock + 1
      /\ \A q \in Paths : q # p => disk'[q] = disk[q]
      /\ events' = events \union {p}
  BY <1>0, Zenon DEF WriteFile, WriteText, FilesOK
<1>3. e.source # "external" /\ e.text = clock + 1  OBVIOUS
<1> HIDE DEF e
<1>4. \A n \in Nat : n <= clock => n <= clock' /\ n # clock + 1  BY <1>2, SMT
<1>5. clock + 1 <= clock'  BY <1>2, SMT
<1>6. HolderAt = "write" /\ HolderAt' = "write" /\ drained = NoDrain
  <2>1. HolderAt = "write"  BY HolderIs DEF WriteFile
  <2>2. HolderAt' = HolderAt  BY <1>1, Zenon DEF HolderAt
  <2> QED  BY <2>1, <2>2 DEF OwnInv, HolderKnows
<1>7. \A q \in Paths : disk[q] \in Nat /\ disk[q] <= clock
  BY <1>0, Zenon DEF FilesOK, OwnInv, TextsKnown
<1>8. \A q \in Paths : q # p => (Indexed(q)' <=> Indexed(q))
  BY <1>1, <1>2, <1>4, <1>7, Zenon DEF Indexed
<1>9. TextsKnown'
  <2>1. \A t \in ours' : t <= clock'
    BY <1>0, <1>1, <1>4, <1>5, Zenon DEF OwnInv, TextsKnown, GhostsOK
  <2>2. \A q \in Paths : before'[q] <= clock'
    BY <1>0, <1>1, <1>4, Zenon DEF OwnInv, TextsKnown, EditOK
  <2>3. \A q \in Paths : disk'[q] <= clock'  BY <1>2, <1>4, <1>5, <1>7, Zenon
  <2>4. \A x \in ever \union batch : x.text \in Nat
    <3>1. \A x \in RecordType : x.text \in Nat  BY SMT DEF RecordType
    <3> QED  BY <1>0, <3>1, Zenon DEF EditOK, GhostsOK
  <2>5. ASSUME NEW x \in ever' \union batch'
        PROVE  x.text <= clock' /\ (x.source = "external" /\ x.text \in ours' => x.path \in late')
    <3>1. CASE x = e  BY <1>3, <1>5, <3>1, Zenon
    <3>2. CASE x \in ever \union batch
      BY <1>1, <1>4, <2>4, <3>2, Zenon DEF OwnInv, TextsKnown
    <3> QED  BY <1>1, <3>1, <3>2, Zenon
  <2> QED  BY <2>1, <2>2, <2>3, <2>5, Zenon DEF TextsKnown
<1>10. HolderKnows'
  <2>1. todo \subseteq Paths  BY <1>0, Zenon DEF EditOK
  <2>2. \A q \in todo' : Indexed(q)'
    BY <1>1, <1>6, <1>8, <2>1, Zenon DEF OwnInv, HolderKnows
  <2> QED  BY <1>1, <1>6, <2>2 DEF HolderKnows
<1>11. MarkersKept'
  BY <1>1, <1>2, <1>8, Zenon DEF OwnInv, MarkersKept
<1> QED  BY <1>9, <1>10, <1>11, Zenon DEF OwnInv

(* The compensation puts an old text back, under a marker.                 *)
LEMMA RestoreOwn ==
  ASSUME FeedTypeOK, FeedTypeOK', OwnInv, NEW r \in Requests, NEW p \in Paths, Restore(r, p)
  PROVE  OwnInv'
<1>0. FilesOK /\ EditOK /\ GhostsOK  BY TypeParts
<1>1. /\ UNCHANGED <<ours, late, ever, batch, before, index, drained, todo, marker, pending,
                     writer, pc>>
      /\ p \in done /\ done' = done \ {p}
  BY Zenon DEF Restore, stateVars, queueVars
<1>2. HolderAt = "undo" /\ HolderAt' = "undo" /\ drained = NoDrain
  <2>1. HolderAt = "undo"  BY HolderIs DEF Restore
  <2>2. HolderAt' = HolderAt  BY <1>1, Zenon DEF HolderAt
  <2> QED  BY <2>1, <2>2 DEF OwnInv, HolderKnows
<1>3. done \union todo \subseteq marker \union late  BY <1>2, Zenon DEF OwnInv, HolderKnows
<1>4. HolderKnows'  BY <1>1, <1>2, <1>3 DEF HolderKnows
<1>5. CASE UNCHANGED <<disk, mtime, clock, events, touched>>
  <2>1. clock <= clock' /\ \A q \in Paths : before'[q] \in {before[q], disk[q]}
    BY <1>0, <1>1, <1>5, SMT DEF FilesOK
  <2>2. TextsKnown'  BY <1>1, <1>5, <2>1, TextsQuiet, Zenon DEF OwnInv
  <2>3. MarkersKept'  BY <1>1, <1>5, MarkersQuiet, Zenon DEF OwnInv
  <2> QED  BY <1>4, <2>2, <2>3, Zenon DEF OwnInv
<1>6. CASE WriteText(p, before[p], Now)
  <2>1. /\ clock \in Nat /\ clock' = clock + 1 /\ disk'[p] = before[p]
        /\ \A q \in Paths : q # p => disk'[q] = disk[q]
        /\ events' = events \union {p}
    BY <1>0, <1>6, Zenon DEF WriteText, FilesOK
  <2>2. \A n \in Nat : n <= clock => n <= clock'  BY <2>1, SMT
  <2>3. MarkersKept'
    <3>1. \A q \in Paths : q # p => (Indexed(q)' <=> Indexed(q))
      BY <1>1, <2>1, Zenon DEF Indexed
    <3> QED  BY <1>1, <1>3, <2>1, <3>1, Zenon DEF OwnInv, MarkersKept
  <2>4. \A t \in ours' : t <= clock'
    BY <1>0, <1>1, <2>2, Zenon DEF OwnInv, TextsKnown, GhostsOK
  <2>5. \A q \in Paths : before[q] <= clock' /\ disk[q] <= clock'
    BY <1>0, <2>2, Zenon DEF OwnInv, TextsKnown, EditOK, FilesOK
  <2>6. \A q \in Paths : before'[q] <= clock' /\ disk'[q] <= clock'
    BY <1>1, <2>1, <2>5, Zenon
  <2>7. \A x \in ever \union batch : x.text \in Nat
    <3>1. \A x \in RecordType : x.text \in Nat  BY SMT DEF RecordType
    <3> QED  BY <1>0, <3>1, Zenon DEF EditOK, GhostsOK
  <2>8. \A x \in ever' \union batch' :
          x.text <= clock' /\ (x.source = "external" /\ x.text \in ours' => x.path \in late')
    BY <1>1, <2>2, <2>7, Zenon DEF OwnInv, TextsKnown
  <2>9. TextsKnown'  BY <2>4, <2>6, <2>8, Zenon DEF TextsKnown
  <2> QED  BY <1>4, <2>3, <2>9, Zenon DEF OwnInv
<1> QED  BY <1>5, <1>6, Zenon DEF Restore

LEMMA EditOwn ==
  ASSUME FeedTypeOK, FeedTypeOK', OwnInv, NEW r \in Requests, EditStep(r)
  PROVE  OwnInv'
<1>0. FilesOK /\ EditOK /\ PlacesOK  BY TypeParts
<1>1. ASSUME UNCHANGED <<disk, clock, ours, late>>,
             \A p \in Paths : before'[p] \in {before[p], disk[p]},
             ever' \union batch' \subseteq ever \union batch
      PROVE  TextsKnown'
  <2>1. clock <= clock'  BY <1>0, <1>1, SMT DEF FilesOK
  <2> QED  BY <1>1, <2>1, TextsQuiet, Zenon DEF OwnInv
<1>2. HolderKnows /\ MarkersKept  BY Zenon DEF OwnInv
<1>3. ASSUME NEW paths \in SUBSET Paths, Plan(r, paths) PROVE OwnInv'
  <2>1. /\ UNCHANGED <<disk, clock, events, ours, late, ever, index, marker, pending, drained>>
        /\ batch' \subseteq batch
    BY <1>3, Zenon DEF Plan, EndEdit, fileVars, ghostVars, stateVars, queueVars
  <2>2. \A p \in Paths : before'[p] \in {before[p], disk[p]}
    BY <1>3 DEF Plan
  <2>3. TextsKnown'  BY <1>1, <2>1, <2>2, Zenon
  <2>4. MarkersKept'  BY <1>2, <2>1, MarkersQuiet, Zenon
  <2>5. HolderAt = "plan"  BY <1>3, HolderIs DEF Plan
  <2>6. drained = NoDrain  BY <1>2, <2>5 DEF HolderKnows
  <2>7. CASE EndEdit(r)
    <3>1. HolderAt' \notin {"publish", "record", "write", "undo"}  BY <2>7, EndedAt
    <3>2. HolderKnows'  BY <1>2, <2>1, <2>6, <3>1, HolderQuiet, Zenon
    <3> QED  BY <2>3, <2>4, <3>2, Zenon DEF OwnInv
  <2>8. CASE ~ EndEdit(r)
    <3>1. /\ \A p \in paths : index[p] = disk[p]
          /\ todo' = paths /\ Goto(r, "write") /\ writer' = r
      BY <1>3, <2>8, Zenon DEF Plan
    <3>2. HolderAt' = "write"  BY <1>0, <3>1, GoneTo
    <3>3. \A p \in todo' : Indexed(p)'  BY <2>1, <3>1, Zenon DEF Indexed
    <3>4. HolderKnows'  BY <2>1, <2>6, <3>2, <3>3 DEF HolderKnows
    <3> QED  BY <2>3, <2>4, <3>4, Zenon DEF OwnInv
  <2> QED  BY <2>7, <2>8
<1>4. ASSUME NEW p \in Paths, WriteFails(r, p) PROVE OwnInv'
  <2>1. /\ UNCHANGED <<disk, clock, events, ours, late, ever, index, pending, drained, before>>
        /\ batch' \subseteq batch /\ p \in todo /\ marker' = (marker \ {p}) \union done
    BY <1>4, Zenon DEF WriteFails, EndEdit, fileVars, ghostVars, stateVars
  <2>2. TextsKnown'  BY <1>1, <2>1, Zenon
  <2>3. HolderAt = "write"  BY <1>4, HolderIs DEF WriteFails
  <2>4. drained = NoDrain /\ Indexed(p)  BY <1>2, <2>1, <2>3 DEF HolderKnows
  <2>5. \A q \in Paths : Indexed(q)' <=> Indexed(q)  BY <2>1, Zenon DEF Indexed
  <2>6. \A q \in Paths : index'[q] \in {index[q], disk[q]}  BY <2>1
  <2>7. MarkersKept'  BY <1>2, <2>1, <2>4, <2>5, <2>6, MarkersQuiet, Zenon
  <2>8. CASE EndEdit(r)
    <3>1. HolderAt' \notin {"publish", "record", "write", "undo"}  BY <2>8, EndedAt
    <3>2. HolderKnows'  BY <1>2, <2>1, <2>4, <3>1, HolderQuiet, Zenon
    <3> QED  BY <2>2, <2>7, <3>2, Zenon DEF OwnInv
  <2>9. CASE ~ EndEdit(r)
    <3>1. todo' = {} /\ done' = done /\ Goto(r, "undo") /\ writer' = r
      BY <1>4, <2>9, Zenon DEF WriteFails
    <3>2. HolderAt' = "undo"  BY <1>0, <3>1, GoneTo
    <3>3. HolderKnows'  BY <2>1, <2>4, <3>1, <3>2 DEF HolderKnows
    <3> QED  BY <2>2, <2>7, <3>3, Zenon DEF OwnInv
  <2> QED  BY <2>8, <2>9
<1>5. CASE PublishEdit(r)
  <2>1. /\ UNCHANGED <<disk, clock, events, ours, late, ever, batch, marker, pending, drained, before>>
        /\ index' = Refreshed(done) /\ Goto(r, "commit") /\ writer' = r
    BY <1>5, Zenon DEF PublishEdit, fileVars, ghostVars, queueVars, editVars
  <2>2. TextsKnown'  BY <1>1, <2>1, Zenon
  <2>3. HolderAt = "write"  BY <1>5, HolderIs DEF PublishEdit
  <2>4. drained = NoDrain  BY <1>2, <2>3 DEF HolderKnows
  <2>5. HolderAt' \notin {"publish", "record", "write", "undo"}  BY <1>0, <2>1, GoneTo
  <2>6. HolderKnows'  BY <1>2, <2>1, <2>4, <2>5, HolderQuiet, Zenon
  <2>7. \A p \in Paths : index'[p] \in {index[p], disk[p]}  BY <2>1, RefreshedIs
  <2>8. MarkersKept'  BY <1>2, <2>1, <2>7, MarkersQuiet, Zenon
  <2> QED  BY <2>2, <2>6, <2>8, Zenon DEF OwnInv
<1>6. CASE PublishFails(r)
  <2>1. /\ UNCHANGED <<disk, clock, events, ours, late, ever, pending, drained, before, done>>
        /\ \E part : index' = Refreshed(part)
        /\ marker' = marker \union done /\ todo' = done /\ batch' = {}
        /\ Goto(r, "undo") /\ writer' = r
    BY <1>6, Zenon DEF PublishFails, fileVars, ghostVars
  <2>2. TextsKnown'  BY <1>1, <2>1, Zenon
  <2>3. HolderAt = "write"  BY <1>6, HolderIs DEF PublishFails
  <2>4. drained = NoDrain  BY <1>2, <2>3 DEF HolderKnows
  <2>5. HolderAt' = "undo"  BY <1>0, <2>1, GoneTo
  <2>6. HolderKnows'  BY <2>1, <2>4, <2>5 DEF HolderKnows
  <2>7. \A p \in Paths : index'[p] \in {index[p], disk[p]}  BY <2>1, RefreshedIs
  <2>8. MarkersKept'  BY <1>2, <2>1, <2>7, MarkersQuiet, Zenon
  <2> QED  BY <2>2, <2>6, <2>8, Zenon DEF OwnInv
<1>7. CASE Compensated(r)
  <2>1. /\ UNCHANGED <<disk, clock, events, ours, late, ever, drained, before, marker>>
        /\ \E part : index' = Refreshed(part)
        /\ pending' \subseteq pending \union todo /\ EndEdit(r)
    BY <1>7, Zenon DEF Compensated, fileVars, ghostVars
  <2>2. HolderAt' \notin {"publish", "record", "write", "undo"} /\ batch' = {}
    BY <2>1, EndedAt
  <2>3. TextsKnown'  BY <1>1, <2>1, <2>2, Zenon
  <2>4. HolderAt = "undo"  BY <1>7, HolderIs DEF Compensated
  <2>5. drained = NoDrain /\ todo \subseteq marker \union late  BY <1>2, <2>4 DEF HolderKnows
  <2>6. HolderKnows'  BY <1>2, <2>1, <2>2, <2>5, HolderQuiet, Zenon
  <2>7. \A p \in Paths : index'[p] \in {index[p], disk[p]}  BY <2>1, RefreshedIs
  <2>8. \A p \in Paths : Indexed(p) => Indexed(p)'  BY <2>1, <2>7, Zenon DEF Indexed
  <2>9. MarkersKept'  BY <1>2, <2>1, <2>5, <2>8, Zenon DEF MarkersKept
  <2> QED  BY <2>3, <2>6, <2>9, Zenon DEF OwnInv
<1>8. CASE RecordEdit(r)
  <2>1. /\ UNCHANGED <<disk, clock, events, ours, late, index, drained, before, marker, pending>>
        /\ ever' = ever \union batch /\ EndEdit(r)
    BY <1>8, Zenon DEF RecordEdit, fileVars, queueVars
  <2>2. HolderAt' \notin {"publish", "record", "write", "undo"} /\ batch' = {}
    BY <2>1, EndedAt
  <2>3. TextsKnown'  BY <1>1, <2>1, <2>2, Zenon
  <2>4. HolderAt = "commit"  BY <1>8, HolderIs DEF RecordEdit
  <2>5. drained = NoDrain  BY <1>2, <2>4 DEF HolderKnows
  <2>6. HolderKnows'  BY <1>2, <2>1, <2>2, <2>5, HolderQuiet, Zenon
  <2>7. MarkersKept'  BY <1>2, <2>1, MarkersQuiet, Zenon
  <2> QED  BY <2>3, <2>6, <2>7, Zenon DEF OwnInv
<1> QED  BY <1>3, <1>4, <1>5, <1>6, <1>7, <1>8, WriteOwn, RestoreOwn, Zenon DEF EditStep

LEMMA OwnKept ==
  ASSUME FeedTypeOK, FeedTypeOK', FollowInv, OwnInv, [Next]_vars
  PROVE  OwnInv'
<1>0. FilesOK /\ PlacesOK  BY TypeParts
<1>1. ASSUME UNCHANGED <<fileVars, queueVars, stateVars, writer, editVars, ours, late, ever>>,
             HolderAt' = HolderAt
      PROVE  OwnInv'
  <2>1. UNCHANGED <<disk, clock, events, pending, marker, index, drained, batch, before, todo, done>>
    BY <1>1, Zenon DEF fileVars, queueVars, stateVars, editVars
  <2>2. clock <= clock' /\ \A p \in Paths : before'[p] \in {before[p], disk[p]}
    BY <1>0, <2>1, SMT DEF FilesOK
  <2>3. TextsKnown'  BY <1>1, <2>1, <2>2, TextsQuiet, Zenon DEF OwnInv
  <2>4. HolderKnows'  BY <1>1, <2>1, HolderQuiet, Zenon DEF OwnInv
  <2>5. MarkersKept'  BY <1>1, <2>1, MarkersQuiet, Zenon DEF OwnInv
  <2> QED  BY <2>3, <2>4, <2>5, Zenon DEF OwnInv
<1>2. CASE UNCHANGED vars
  <2>1. UNCHANGED <<fileVars, queueVars, stateVars, writer, pc, editVars, ours, late, ever>>
    BY <1>2, Zenon DEF vars, ghostVars
  <2>2. HolderAt' = HolderAt  BY <2>1, Zenon DEF HolderAt
  <2> QED  BY <1>1, <2>1, <2>2
<1>3. ASSUME NEW r \in Requests,
             \/ Changes(r) \/ Edit(r) \/ StartRun(r) \/ PollRun(r)
             \/ ReadRecords(r) \/ RunStep(r)
      PROVE  OwnInv'
  <2>1. /\ pc[r] \in {"idle", "records", "baseline", "launch", "wait", "current", "window",
                      "attribute", "freeze"}
        /\ \E place \in Places : pc' = [pc EXCEPT ![r] = place]
        /\ UNCHANGED <<fileVars, queueVars, stateVars, writer, editVars, ours, late, ever>>
    <3>1. CASE Changes(r) \/ Edit(r) \/ StartRun(r) \/ PollRun(r) \/ ReadRecords(r)
      BY <3>1, Zenon DEF Changes, Edit, StartRun, PollRun, Call, Goto, ReadRecords, Finish,
                         Places, ghostVars
    <3>2. CASE ReadBaseline(r)  BY <3>2, Zenon DEF ReadBaseline, Goto, Places, ghostVars
    <3>3. CASE Launch(r)  BY <3>3, Zenon DEF Launch, Goto, Places, ghostVars
    <3>4. CASE SetBaseline(r)  BY <3>4, Zenon DEF SetBaseline, Goto, Places, ghostVars
    <3>5. CASE ReadCurrent(r)  BY <3>5, Zenon DEF ReadCurrent, Goto, Places, ghostVars
    <3>6. CASE ChangeWindow(r)  BY <3>6, Zenon DEF ChangeWindow, Goto, Finish, Places
    <3>7. CASE Attribute(r)  BY <3>7, Zenon DEF Attribute, Goto, Finish, Places, ghostVars
    <3>8. CASE FreezeChanges(r)  BY <3>8, Zenon DEF FreezeChanges, Finish, Places
    <3> QED
      BY <1>3, <3>1, <3>2, <3>3, <3>4, <3>5, <3>6, <3>7, <3>8, Zenon DEF RunStep
  <2>2. pc[r] \notin Held /\ \A q \in Requests : q # r => pc'[q] = pc[q]
    BY <1>0, <2>1 DEF PlacesOK, Held
  <2>3. HolderAt' = HolderAt  BY <1>0, <2>1, <2>2, HolderStays
  <2> QED  BY <1>1, <2>1, <2>3
<1>4. CASE Next
  BY <1>3, <1>4, OutsideOwn, ReconcileOwn, EditOwn, Zenon DEF Next
<1> QED  BY <1>2, <1>4

-----------------------------------------------------------------------------
(* The theorems.                                                           *)

LEMMA FeedBegins == Init => FeedInv
<1> SUFFICES ASSUME Init PROVE FeedInv  OBVIOUS
<1> DEFINE zero == [p \in Paths |-> 0]
<1>1. FilesOK  BY SMT DEF Init, FilesOK
<1>2. QueueOK  BY Zenon DEF Init, QueueOK
<1>3. StateOK
  <2>1. index = zero /\ dirty = {} /\ generation = 1 /\ log = <<>>  BY Zenon DEF Init
  <2>2. zero \in [Paths -> Nat] /\ <<>> \in Seq(RecordType) /\ Len(<<>>) <= MaxLog
    BY FeedAssumption, SMT
  <2> QED  BY <2>1, <2>2 DEF StateOK
<1>4. PlacesOK  BY SMT DEF Init, PlacesOK, Places
<1>5. EditOK
  <2>1. NoDrain \in [git : BOOLEAN, paths : SUBSET Paths, external : SUBSET Paths]
    BY Zenon DEF NoDrain
  <2>2. before \in [Paths -> Nat] /\ stamp \in Nat  BY SMT DEF Init
  <2> QED  BY <2>1, <2>2, Zenon DEF Init, EditOK
<1>6. FollowersOK
  <2>1. since \in [Requests -> Nat]  BY SMT DEF Init
  <2>2. seen \in [Requests -> SUBSET RecordType]  BY Zenon DEF Init
  <2>3. cut \in [Requests -> BOOLEAN]  BY Zenon DEF Init
  <2> QED  BY <2>1, <2>2, <2>3 DEF FollowersOK
<1>7. RunTyped  BY SMT DEF Init, RunTyped
<1>8. LocalTyped
  <2>1. NoLocal \in Kept  BY Zenon DEF NoLocal, Kept
  <2> QED  BY <2>1, Zenon DEF Init, LocalTyped, Kept
<1>9. GhostsOK  BY Zenon DEF Init, GhostsOK
<1>10. LeftOK  BY FeedAssumption, Zenon DEF Init, LeftOK
<1>11. FeedTypeOK
  BY <1>1, <1>2, <1>3, <1>4, <1>5, <1>6, <1>7, <1>8, <1>9, <1>10, TypeParts, Zenon
<1>12. HolderAt = "idle" /\ batch = {} /\ Logged = {}
  <2>1. Len(log) = 0  BY SMT DEF Init
  <2>2. Logged = {}  BY <2>1, SMT DEF Logged
  <2> QED  BY <2>2 DEF Init, HolderAt
<1>13. FollowInv
  <2>1. Len(log) = 0 /\ generation = 1 /\ writer = None  BY SMT DEF Init
  <2>2. Fresh = 2  BY <1>12, <2>1 DEF Fresh
  <2>3. \A r \in Requests : since[r] < Fresh  BY <2>2, SMT DEF Init
  <2>4. FollowComplete  BY <1>12, Zenon DEF FollowComplete
  <2>5. \A i : i \notin 1..Len(log)  BY <2>1, SMT
  <2>6. IsFiniteSet(batch)  BY <1>12, FS_EmptySet
  <2> QED  BY <1>12, <2>1, <2>3, <2>4, <2>5, <2>6, Zenon DEF FollowInv
<1>14. FilesInv
  <2>1. /\ run.ended = 0 /\ clock = 0 /\ run.baseline = None /\ dirty = {}
        /\ \A p \in Paths : disk[p] = 0 /\ head[p] = 0 /\ index[p] = 0 /\ mtime[p] = 0
    BY SMT DEF Init
  <2>2. Written = {}  BY <2>1, SMT DEF Written
  <2>3. run.ended <= clock  BY <2>1, SMT
  <2> QED  BY <1>12, <2>1, <2>2, <2>3, Zenon DEF FilesInv
<1>15. RunInv
  <2>1. /\ \A r \in Requests : pc[r] = "idle" /\ op[r] = "none" /\ local[r] = NoLocal
        /\ run.frozen = None /\ replies = {}
    BY Zenon DEF Init
  <2>2. ~ NoLocal.terminal  BY Zenon DEF NoLocal
  <2>3. \A r \in Requests : Carries(r)  BY <2>1, <2>2 DEF Carries
  <2>4. \A r \in Requests : op[r] # "start"  BY <2>1
  <2> QED  BY <2>1, <2>3, <2>4, FeedAssumption, Zenon DEF RunInv
<1>16. OwnInv
  <2>1. /\ ours = {} /\ ever = {} /\ batch = {} /\ drained = NoDrain /\ clock = 0
        /\ \A p \in Paths : disk[p] = 0 /\ before[p] = 0
    BY Zenon DEF Init
  <2>2. 0 <= clock  BY <2>1, SMT
  <2>3. TextsKnown  BY <2>1, <2>2, Zenon DEF TextsKnown
  <2>4. HolderKnows  BY <1>12, <2>1 DEF HolderKnows
  <2>5. MarkersKept  BY <2>1, Zenon DEF MarkersKept, Indexed
  <2> QED  BY <2>3, <2>4, <2>5 DEF OwnInv
<1> QED  BY <1>11, <1>13, <1>14, <1>15, <1>16, Zenon DEF FeedInv

LEMMA FeedInductive == FeedInv /\ [Next]_vars => FeedInv'
<1> SUFFICES ASSUME FeedInv, [Next]_vars PROVE FeedInv'  OBVIOUS
<1>0. FeedTypeOK /\ FollowInv /\ FilesInv /\ RunInv /\ OwnInv  BY DEF FeedInv
<1>1. FeedTypeOK'  BY <1>0, TypeKept
<1>2. FollowInv'  BY <1>0, <1>1, FollowKept
<1>3. FilesInv' /\ RunInv'  BY <1>0, RunKept
<1>4. OwnInv'  BY <1>0, <1>1, OwnKept
<1> QED  BY <1>1, <1>2, <1>3, <1>4 DEF FeedInv

LEMMA FeedInvariant == Spec => []FeedInv
BY FeedBegins, FeedInductive, PTL DEF Spec

LEMMA FeedImplies == FeedInv => LogFollowed /\ RunChangesSettled /\ OwnWritesNotExternal
<1> SUFFICES ASSUME FeedInv PROVE LogFollowed /\ RunChangesSettled /\ OwnWritesNotExternal
  OBVIOUS
<1>0. FeedTypeOK /\ FollowInv /\ FilesInv /\ RunInv /\ OwnInv  BY DEF FeedInv
<1>1. StateOK /\ RunTyped  BY <1>0, TypeParts
<1>2. LogOrdered
  <2>1. generation \in Nat /\ (Fresh = generation \/ Fresh = generation + 1)
    BY <1>1 DEF StateOK, Fresh
  <2>2. \A i \in 1..Len(log) : log[i].generation \in Nat
    <3>1. \A e \in RecordType : e.generation \in Nat  BY SMT DEF RecordType
    <3>2. \A i \in 1..Len(log) : log[i] \in RecordType  BY <1>1, SMT DEF StateOK
    <3> QED  BY <3>1, <3>2
  <2>3. \A i \in 1..Len(log) : log[i].generation < Fresh  BY <1>0, Zenon DEF FollowInv
  <2>4. \A i \in 1..Len(log) : log[i].generation <= generation  BY <2>1, <2>2, <2>3, SMT
  <2> QED  BY <1>0, <2>4, Zenon DEF FollowInv, LogOrdered
<1>3. LogFollowed  BY <1>0, <1>2, Zenon DEF LogFollowed, FollowInv
<1>4. TerminalRepliesAgree  BY <1>0, Zenon DEF TerminalRepliesAgree, RunInv
<1>5. NothingAfterEnd
  <2>1. run.frozen \in Frozen \union {None}  BY <1>1, Zenon DEF RunTyped
  <2> QED  BY <1>0, <2>1, Zenon DEF NothingAfterEnd, RunInv
<1>6. OwnWritesNotExternal
  BY <1>0, Zenon DEF OwnWritesNotExternal, OwnInv, TextsKnown
<1> QED  BY <1>3, <1>4, <1>5, <1>6 DEF RunChangesSettled

(* A client that follows `workspace action=changes` skips no record that   *)
(* is still in the log, unless a reply was full, and the log stays ordered *)
(* and bounded (ledger.rs record and records_since).                       *)
THEOREM NothingSkipped == Spec => []LogFollowed
BY FeedInvariant, FeedImplies, PTL

(* All replies about the ended run agree, and name nothing that was begun  *)
(* after its end (run.rs attribute_run_changes, bash/lifecycle.rs          *)
(* freeze_changes, ledger.rs attribute_since).                             *)
THEOREM RunSettledOnce == Spec => []RunChangesSettled
BY FeedInvariant, FeedImplies, PTL

(* What an edit or its compensation writes is recorded as somebody else's  *)
(* change only if its marker was lost before (ledger.rs record_internal    *)
(* and consume_internal, commit.rs, reconcile.rs).                         *)
THEOREM OwnWritesKnown == Spec => []OwnWritesNotExternal
BY FeedInvariant, FeedImplies, PTL

=============================================================================
