-------------------------- MODULE WorkspaceProofs --------------------------
(***************************************************************************)
(* Proofs about the parts of a workspace that work alone, for all texts,   *)
(* paths and requests: the index stays what a fresh one of the same files  *)
(* would be, with the symbols of its texts (src/index/store.rs, cache.rs), *)
(* no stale answer passes a semantic session (src/intelligence/session.rs),*)
(* an edit plan changes what its requests name and nothing else, and       *)
(* leaves the line endings of a file alone (src/edit.rs), every operation  *)
(* of a retrieval call is answered once, in the order of the call          *)
(* (src/workspace/retrieve.rs), what a client reads through handles and    *)
(* continuations is what they were given out for (src/workspace/fetch.rs), *)
(* and a text search shows what it says it shows, no file at the expense   *)
(* of another (src/index/search.rs, windows.rs).                           *)
(***************************************************************************)
EXTENDS CodeIndex, CodeIntelligence, EditPlan, Retrieval, FiniteSetTheorems,
        SequenceLemmas, TLAPS

-----------------------------------------------------------------------------
(* The index. *)

(* IndexDerived, place by place.                                           *)
PostingsOf(f, po) ==
  \A n \in Names : \A p \in Paths : \A i \in Nat :
    <<p, i>> \in po[n] <=> (f[p] # Nothing /\ i \in SymbolPositions(f[p], n))
DigestOf(f, a) ==
  \A p \in Paths : \A h \in SourceTexts :
    <<p, h>> \in a <=> (f[p] # Nothing /\ f[p].hash = h)

(* Entries with the symbols of their texts, as an index or a cache has them. *)
GoodEntry(e) == e \in Entries /\ e.symbols = SymbolsOf[e.hash]
GoodFiles(f) ==
  /\ f \in [Paths -> Entries \union {Nothing}]
  /\ \A p \in Paths : f[p] # Nothing => GoodEntry(f[p])

GoodIndex(ix) ==
  /\ GoodFiles(ix.files)
  /\ ix.postings \in [Names -> SUBSET (Paths \X Nat)]
  /\ ix.acc \subseteq Paths \X SourceTexts
  /\ PostingsOf(ix.files, ix.postings)
  /\ DigestOf(ix.files, ix.acc)

(* What IndexSound needs to be inductive: the cache on disk and the loaded *)
(* one hold no symbols of another text.                                    *)
CacheSound ==
  /\ cached # Nothing => GoodFiles(cached)
  /\ cacheFile # Nothing => GoodFiles(cacheFile.files)

IndexInv == IndexTypeOK /\ GoodIndex(ThisIndex) /\ CacheSound

(* Caught speaks of moments when nothing is on its way.  In between: the   *)
(* tree is one (TreeKept); removing what a drained path stands for takes   *)
(* away no file that is not reported again (RemovalsSafe); and a path that *)
(* is Seen is indexed as it is, or among what is still to be read or       *)
(* walked, itself or with a directory that is gone (ScanFollows,           *)
(* RefreshFollows).                                                        *)
Seen == Paths \ (unseen \union Excluded[settings])
Walks(p) == tree[p] \in SourceTexts /\ p \notin GitIgnored \ Artifacts[settings]
Right(p) == files[p] = [hash |-> tree[p], symbols |-> SymbolsOf[tree[p]]]
Reported(p) ==
  \E q \in pending \union toRead : p = q \/ (p \in Below[q] /\ tree[q] = "absent")

TreeKept == \A d \in Paths : \A p \in Below[d] : tree[p] # "absent" => tree[d] = "dir"
RemovalsSafe ==
  phase = "up" =>
    \A q \in toRead : \A p \in Below[q] : tree[p] # "absent" => p \in pending \union unseen
ScanFollows ==
  phase \in {"scanning", "artifacts", "storing"} =>
    \A p \in Seen : /\ Walks(p) => \/ p \in toRead \/ Right(p)
                                   \/ phase = "scanning" /\ p \in GitIgnored
                    /\ tree[p] \notin SourceTexts => files[p] = Nothing
RefreshFollows ==
  phase = "up" =>
    \A p \in Seen : /\ Walks(p) => p \in pending \union toRead \/ Right(p)
                    /\ tree[p] = "absent" => files[p] = Nothing \/ Reported(p)
CaughtInv ==
  /\ TreeKept /\ RemovalsSafe /\ ScanFollows /\ RefreshFollows

LEMMA EntrySymbols ==
  ASSUME NEW e \in Entries, NEW n
  PROVE  SymbolPositions(e, n) \subseteq Nat
BY DEF Entries, SymbolPositions

LEMMA NothingIsNoEntry == Nothing \notin Entries
BY IndexAssumption DEF Entries

(* remove and remove_tree take away what belongs to the removed files and  *)
(* nothing else.                                                           *)
LEMMA RemovedGood ==
  ASSUME NEW ix, GoodIndex(ix), NEW ps
  PROVE  /\ GoodIndex(Removed(ix, ps))
         /\ \A p \in Paths : p \in ps => Removed(ix, ps).files[p] = Nothing
<1> DEFINE gone == ps \intersect Held(ix.files)
           rem == Removed(ix, ps)
<1>1. gone = {p \in Paths : p \in ps /\ ix.files[p] # Nothing}
  BY DEF Held
<1>2. rem.files = [p \in Paths |-> IF p \in gone THEN Nothing ELSE ix.files[p]]
  BY DEF Removed
<1>3. GoodFiles(rem.files)
  <2>1. rem.files \in [Paths -> Entries \union {Nothing}]
    BY <1>2 DEF GoodIndex, GoodFiles
  <2>2. \A p \in Paths : rem.files[p] # Nothing => GoodEntry(rem.files[p])
    BY <1>2 DEF GoodIndex, GoodFiles
  <2> QED BY <2>1, <2>2 DEF GoodFiles
<1>4. \A n \in Names : rem.postings[n] = {at \in ix.postings[n] : at[1] \notin gone}
  <2> SUFFICES ASSUME NEW n \in Names
               PROVE  rem.postings[n] = {at \in ix.postings[n] : at[1] \notin gone}
    OBVIOUS
  <2> DEFINE Mentions == \E p \in gone : SymbolPositions(ix.files[p], n) # {}
  <2>1. rem.postings[n] =
          IF Mentions
          THEN {at \in ix.postings[n] :
                  ~ (at[1] \in gone /\ SymbolPositions(ix.files[at[1]], n) # {})}
          ELSE ix.postings[n]
    BY DEF Removed
  <2>2. ASSUME NEW at \in ix.postings[n]
        PROVE  SymbolPositions(ix.files[at[1]], n) # {}
    <3>1. at \in Paths \X Nat
      BY DEF GoodIndex
    <3>2. PICK p \in Paths, i \in Nat : at = <<p, i>>
      BY <3>1
    <3>3. i \in SymbolPositions(ix.files[p], n)
      BY <3>2 DEF GoodIndex, PostingsOf
    <3> QED BY <3>2, <3>3
  <2> QED BY <2>1, <2>2
<1>5. rem.postings \in [Names -> SUBSET (Paths \X Nat)]
  <2>1. rem.postings = [n \in Names |-> rem.postings[n]]
    BY DEF Removed
  <2>2. \A n \in Names : rem.postings[n] \in SUBSET (Paths \X Nat)
    BY <1>4 DEF GoodIndex
  <2> QED BY <2>1, <2>2
<1>6. PostingsOf(rem.files, rem.postings)
  <2> SUFFICES ASSUME NEW n \in Names, NEW p \in Paths, NEW i \in Nat
               PROVE  <<p, i>> \in rem.postings[n]
                        <=> (rem.files[p] # Nothing /\ i \in SymbolPositions(rem.files[p], n))
    BY DEF PostingsOf
  <2>1. <<p, i>> \in rem.postings[n] <=> <<p, i>> \in ix.postings[n] /\ p \notin gone
    BY <1>4
  <2>2. <<p, i>> \in ix.postings[n]
          <=> (ix.files[p] # Nothing /\ i \in SymbolPositions(ix.files[p], n))
    BY DEF GoodIndex, PostingsOf
  <2>3. CASE p \in gone
    BY <1>2, <2>1, <2>3
  <2>4. CASE p \notin gone
    BY <1>2, <2>1, <2>2, <2>4
  <2> QED BY <2>3, <2>4
<1>7. rem.acc = Xor(ix.acc, {Digest(p, ix.files[p].hash) : p \in gone})
  BY DEF Removed
<1>8. \A p \in Paths, h \in SourceTexts :
        <<p, h>> \in {Digest(q, ix.files[q].hash) : q \in gone}
          <=> p \in gone /\ h = ix.files[p].hash
  BY DEF Digest
<1>9. rem.acc \subseteq Paths \X SourceTexts
  <2>1. \A p \in gone : p \in Paths /\ ix.files[p].hash \in SourceTexts
    BY <1>1 DEF GoodIndex, GoodFiles, GoodEntry, Entries
  <2>2. {Digest(p, ix.files[p].hash) : p \in gone} \subseteq Paths \X SourceTexts
    BY <2>1 DEF Digest
  <2> QED BY <1>7, <2>2 DEF GoodIndex, Xor
<1>10. DigestOf(rem.files, rem.acc)
  <2> SUFFICES ASSUME NEW p \in Paths, NEW h \in SourceTexts
               PROVE  <<p, h>> \in rem.acc <=> (rem.files[p] # Nothing /\ rem.files[p].hash = h)
    BY DEF DigestOf
  <2>1. <<p, h>> \in ix.acc <=> (ix.files[p] # Nothing /\ ix.files[p].hash = h)
    BY DEF GoodIndex, DigestOf
  <2>2. CASE p \in gone
    <3>1. ix.files[p] # Nothing
      BY <1>1, <2>2
    <3> QED BY <1>2, <1>7, <1>8, <2>1, <2>2, <3>1 DEF Xor
  <2>3. CASE p \notin gone
    BY <1>2, <1>7, <1>8, <2>1, <2>3 DEF Xor
  <2> QED BY <2>2, <2>3
<1>11. \A p \in Paths : p \in ps => rem.files[p] = Nothing
  BY <1>1, <1>2
<1> QED BY <1>3, <1>5, <1>6, <1>9, <1>10, <1>11 DEF GoodIndex

(* insert replaces what was there before.                                  *)
LEMMA InsertedGood ==
  ASSUME NEW ix, GoodIndex(ix), NEW q \in Paths, NEW e, GoodEntry(e)
  PROVE  GoodIndex(Inserted(ix, q, e))
<1> DEFINE without == Removed(ix, {q})
           ins == Inserted(ix, q, e)
<1>1. GoodIndex(without) /\ without.files[q] = Nothing
  BY RemovedGood
<1>2. ins.files = [without.files EXCEPT ![q] = e]
  BY DEF Inserted
<1>3. e \in Entries /\ e # Nothing /\ e.hash \in SourceTexts
  BY NothingIsNoEntry DEF GoodEntry, Entries
<1>4. \A p \in Paths : ins.files[p] = IF p = q THEN e ELSE without.files[p]
  BY <1>1, <1>2 DEF GoodIndex, GoodFiles
<1>5. GoodFiles(ins.files)
  <2>1. ins.files \in [Paths -> Entries \union {Nothing}]
    BY <1>1, <1>2, <1>3 DEF GoodIndex, GoodFiles
  <2>2. \A p \in Paths : ins.files[p] # Nothing => GoodEntry(ins.files[p])
    BY <1>1, <1>4 DEF GoodIndex, GoodFiles
  <2> QED BY <2>1, <2>2 DEF GoodFiles
<1>6. ins.postings = [n \in Names |-> without.postings[n] \union
                        {<<q, i>> : i \in SymbolPositions(e, n)}]
  BY DEF Inserted
<1>7. ins.postings \in [Names -> SUBSET (Paths \X Nat)]
  <2>1. \A n \in Names : {<<q, i>> : i \in SymbolPositions(e, n)} \subseteq Paths \X Nat
    BY <1>3, EntrySymbols
  <2>2. \A n \in Names : without.postings[n] \subseteq Paths \X Nat
    BY <1>1 DEF GoodIndex
  <2> QED BY <1>6, <2>1, <2>2
<1>8. PostingsOf(ins.files, ins.postings)
  <2> SUFFICES ASSUME NEW n \in Names, NEW p \in Paths, NEW i \in Nat
               PROVE  <<p, i>> \in ins.postings[n]
                        <=> (ins.files[p] # Nothing /\ i \in SymbolPositions(ins.files[p], n))
    BY DEF PostingsOf
  <2>1. <<p, i>> \in ins.postings[n]
          <=> <<p, i>> \in without.postings[n] \/ (p = q /\ i \in SymbolPositions(e, n))
    BY <1>6
  <2>2. <<p, i>> \in without.postings[n]
          <=> (without.files[p] # Nothing /\ i \in SymbolPositions(without.files[p], n))
    BY <1>1 DEF GoodIndex, PostingsOf
  <2>3. CASE p = q
    BY <1>1, <1>3, <1>4, <2>1, <2>2, <2>3
  <2>4. CASE p # q
    BY <1>4, <2>1, <2>2, <2>4
  <2> QED BY <2>3, <2>4
<1>9. ins.acc = Xor(without.acc, {<<q, e.hash>>})
  BY DEF Inserted, Digest
<1>10. <<q, e.hash>> \notin without.acc
  BY <1>1, <1>3 DEF GoodIndex, DigestOf
<1>11. ins.acc = without.acc \union {<<q, e.hash>>}
  BY <1>9, <1>10 DEF Xor
<1>12. ins.acc \subseteq Paths \X SourceTexts
  <2>1. <<q, e.hash>> \in Paths \X SourceTexts
    BY <1>3
  <2>2. without.acc \subseteq Paths \X SourceTexts
    BY <1>1 DEF GoodIndex
  <2> HIDE DEF without, ins
  <2> QED BY <1>11, <2>1, <2>2
<1>13. DigestOf(ins.files, ins.acc)
  <2> SUFFICES ASSUME NEW p \in Paths, NEW h \in SourceTexts
               PROVE  <<p, h>> \in ins.acc <=> (ins.files[p] # Nothing /\ ins.files[p].hash = h)
    BY DEF DigestOf
  <2>1. <<p, h>> \in without.acc <=> (without.files[p] # Nothing /\ without.files[p].hash = h)
    BY <1>1 DEF GoodIndex, DigestOf
  <2>2. <<p, h>> \in ins.acc <=> <<p, h>> \in without.acc \/ (p = q /\ h = e.hash)
    BY <1>11
  <2> QED BY <1>1, <1>3, <1>4, <2>1, <2>2
<1> QED BY <1>5, <1>7, <1>8, <1>12, <1>13 DEF GoodIndex

LEMMA NewIndexGood == GoodIndex(NewIndex)
BY DEF GoodIndex, NewIndex, GoodFiles, PostingsOf, DigestOf

(* A file read with the cache at hand gets the symbols of its text.        *)
LEMMA EntryForGood ==
  ASSUME CacheSound, NEW p \in Paths, NEW t \in SourceTexts
  PROVE  GoodEntry(EntryFor(p, t))
<1>1. CASE SymbolsFor(p, t) = Nothing
  <2>1. EntryFor(p, t) = [hash |-> t, symbols |-> SymbolsOf[t]]
    BY <1>1 DEF EntryFor
  <2>2. SymbolsOf[t] \in Seq(Names)
    BY IndexAssumption
  <2> QED BY <2>1, <2>2 DEF GoodEntry, Entries
<1>2. CASE SymbolsFor(p, t) # Nothing
  <2>1. cached # Nothing /\ cached[p] # Nothing /\ cached[p].hash = t
        /\ SymbolsFor(p, t) = cached[p]
    BY <1>2 DEF SymbolsFor
  <2>2. GoodEntry(cached[p])
    BY <2>1 DEF CacheSound, GoodFiles
  <2>3. EntryFor(p, t) = [hash |-> t, symbols |-> cached[p].symbols]
    BY <1>2, <2>1 DEF EntryFor
  <2> QED BY <2>1, <2>2, <2>3 DEF GoodEntry, Entries
<1> QED BY <1>1, <1>2

(* The pointwise form is the one the runs check.                           *)
LEMMA GoodIsDerived ==
  ASSUME GoodIndex(ThisIndex)
  PROVE  IndexDerived /\ SymbolsOfContent
<1>1. /\ GoodFiles(files)
      /\ postings \in [Names -> SUBSET (Paths \X Nat)]
      /\ acc \subseteq Paths \X SourceTexts
      /\ PostingsOf(files, postings)
      /\ DigestOf(files, acc)
  BY DEF GoodIndex, ThisIndex
<1>2. PostingsExact
  <2> SUFFICES ASSUME NEW n \in Names
               PROVE  postings[n] = UNION {{<<p, i>> : i \in SymbolPositions(files[p], n)} :
                                             p \in Held(files)}
    BY DEF PostingsExact
  <2> DEFINE derived == UNION {{<<p, i>> : i \in SymbolPositions(files[p], n)} :
                                 p \in Held(files)}
  <2>1. ASSUME NEW at \in postings[n] PROVE at \in derived
    <3>1. PICK p \in Paths, i \in Nat : at = <<p, i>>
      BY <1>1
    <3>2. p \in Held(files) /\ i \in SymbolPositions(files[p], n)
      BY <1>1, <3>1 DEF PostingsOf, Held
    <3> QED BY <3>1, <3>2
  <2>2. ASSUME NEW at \in derived PROVE at \in postings[n]
    <3>1. PICK p \in Held(files) : at \in {<<p, i>> : i \in SymbolPositions(files[p], n)}
      OBVIOUS
    <3>2. PICK i \in SymbolPositions(files[p], n) : at = <<p, i>>
      BY <3>1
    <3>3. p \in Paths /\ files[p] # Nothing /\ files[p] \in Entries
      BY <1>1 DEF Held, GoodFiles, GoodEntry
    <3>4. i \in Nat
      BY <3>3, EntrySymbols
    <3> QED BY <1>1, <3>2, <3>3, <3>4 DEF PostingsOf
  <2> QED BY <2>1, <2>2
<1>3. DigestExact
  <2>1. ASSUME NEW d \in acc PROVE d \in {Digest(p, files[p].hash) : p \in Held(files)}
    <3>1. PICK p \in Paths, h \in SourceTexts : d = <<p, h>>
      BY <1>1
    <3>2. p \in Held(files) /\ files[p].hash = h
      BY <1>1, <3>1 DEF DigestOf, Held
    <3> QED BY <3>1, <3>2 DEF Digest
  <2>2. ASSUME NEW p \in Held(files) PROVE Digest(p, files[p].hash) \in acc
    <3>1. p \in Paths /\ files[p] # Nothing /\ files[p].hash \in SourceTexts
      BY <1>1 DEF Held, GoodFiles, GoodEntry, Entries
    <3> QED BY <1>1, <3>1 DEF DigestOf, Digest
  <2> QED BY <2>1, <2>2 DEF DigestExact
<1>4. SymbolsOfContent
  BY <1>1 DEF SymbolsOfContent, Held, GoodFiles, GoodEntry
<1> QED BY <1>2, <1>3, <1>4 DEF IndexDerived

LEMMA InitIndexInv == IndexInit => IndexInv
<1> SUFFICES ASSUME IndexInit PROVE IndexInv
  OBVIOUS
<1>1. ThisIndex = NewIndex
  BY DEF IndexInit, ThisIndex, NewIndex
<1>2. GoodIndex(ThisIndex)
  BY <1>1, NewIndexGood
<1>3. IndexTypeOK
  BY IndexAssumption DEF IndexInit, IndexTypeOK, NewIndex, Kinds
<1>4. CacheSound
  BY DEF IndexInit, CacheSound
<1> QED BY <1>2, <1>3, <1>4 DEF IndexInv

(* The type of the index follows from its being good.                      *)
LEMMA GoodIsTyped ==
  ASSUME NEW ix, GoodIndex(ix)
  PROVE  /\ ix.files \in [Paths -> Entries \union {Nothing}]
         /\ ix.postings \in [Names -> SUBSET (Paths \X Nat)]
         /\ ix.acc \subseteq Paths \X SourceTexts
BY DEF GoodIndex, GoodFiles

(* A step that publishes a good index leaves a good one.                   *)
LEMMA SetGood ==
  ASSUME NEW ix, GoodIndex(ix), SetIndex(ix)
  PROVE  /\ GoodIndex(ThisIndex)'
         /\ files' \in [Paths -> Entries \union {Nothing}]
         /\ postings' \in [Names -> SUBSET (Paths \X Nat)]
         /\ acc' \subseteq Paths \X SourceTexts
<1>1. files' = ix.files /\ postings' = ix.postings /\ acc' = ix.acc
  BY DEF SetIndex
<1> QED BY <1>1 DEF GoodIndex, GoodFiles, PostingsOf, DigestOf, ThisIndex, GoodEntry,
           SymbolPositions

LEMMA KeptGood ==
  ASSUME IndexInv, UNCHANGED indexVars
  PROVE  /\ GoodIndex(ThisIndex)'
         /\ files' \in [Paths -> Entries \union {Nothing}]
         /\ postings' \in [Names -> SUBSET (Paths \X Nat)]
         /\ acc' \subseteq Paths \X SourceTexts
<1>1. SetIndex(ThisIndex)
  BY DEF indexVars, SetIndex, ThisIndex
<1>2. GoodIndex(ThisIndex)
  BY DEF IndexInv
<1> QED BY <1>1, <1>2, SetGood

LEMMA KeptCache ==
  ASSUME CacheSound, UNCHANGED cacheFile, cached' \in {cached, Nothing}
  PROVE  CacheSound'
BY DEF CacheSound, GoodFiles, GoodEntry


LEMMA NextIndexInv ==
  ASSUME IndexInv, [IndexNext]_allIndexVars
  PROVE  IndexInv'
<1> USE DEF Entries
<1>0. /\ IndexTypeOK /\ CacheSound /\ GoodIndex(ThisIndex)
  BY DEF IndexInv
<1>1. ASSUME NEW p \in Paths, NEW k \in SourceTexts \union Kinds, ChangePath(p, k)
      PROVE  IndexInv'
  <2>1. CacheSound'
    BY <1>0, <1>1, KeptCache DEF ChangePath
  <2>2. TreeWith(p, k) \in [Paths -> SourceTexts \union Kinds]
    BY <1>0 DEF IndexTypeOK, TreeWith, Kinds
  <2>3. pending' \subseteq Paths /\ unseen' \subseteq Paths
    BY <1>0, <1>1, IndexAssumption DEF IndexTypeOK, ChangePath, Notify, Unreported
  <2>4. changes' \in 0..MaxChanges
    BY <1>0, <1>1, IndexAssumption DEF IndexTypeOK, ChangePath
  <2> QED BY <1>0, <1>1, <2>1, <2>2, <2>3, <2>4, KeptGood DEF IndexTypeOK, ChangePath, IndexInv
<1>2. ASSUME NEW d \in Paths, NEW p \in Paths, NEW t \in SourceTexts, MoveIn(d, p, t)
      PROVE  IndexInv'
  <2>1. CacheSound'
    BY <1>0, <1>2, KeptCache DEF MoveIn
  <2>2. tree' \in [Paths -> SourceTexts \union Kinds]
    BY <1>0, <1>2 DEF IndexTypeOK, MoveIn, Kinds
  <2>3. pending' \subseteq Paths /\ unseen' \subseteq Paths
    <3>1. /\ Unreported(d) \subseteq Paths /\ {p} \union Below[p] \subseteq Paths
          /\ Below[d] \subseteq Paths
          /\ Notify(d, "dir", {p} \union Below[p])
      BY <1>2, IndexAssumption DEF Unreported, MoveIn
    <3> QED  BY <1>0, <3>1 DEF IndexTypeOK, Notify
  <2>4. changes' \in 0..MaxChanges
    BY <1>0, <1>2, IndexAssumption DEF IndexTypeOK, MoveIn
  <2> QED BY <1>0, <1>2, <2>1, <2>2, <2>3, <2>4, KeptGood DEF IndexTypeOK, MoveIn, IndexInv
<1>3. ASSUME NEW s \in Settings, OpenWorkspace(s)
      PROVE  IndexInv'
  <2>1. SetIndex(NewIndex)
    BY <1>3 DEF OpenWorkspace
  <2>2. Load(s) # Nothing => GoodFiles(Load(s))
    BY <1>0 DEF Load, CacheSound
  <2>3. CacheSound'
    BY <1>0, <1>3, <2>2 DEF OpenWorkspace, CacheSound, GoodFiles, GoodEntry
  <2>4. cached' \in [Paths -> Entries \union {Nothing}] \union {Nothing}
    BY <1>3, <2>2 DEF OpenWorkspace, GoodFiles
  <2> QED BY <1>0, <1>3, <2>1, <2>3, <2>4, NewIndexGood, SetGood
        DEF IndexTypeOK, OpenWorkspace, IndexInv, Walked
<1>4. ASSUME NEW p \in Paths, ScanFile(p)
      PROVE  IndexInv'
  <2>1. CacheSound'
    BY <1>0, <1>4, KeptCache DEF ScanFile
  <2>2. CASE tree[p] \in SourceTexts
    <3>1. SetIndex(Inserted(ThisIndex, p, EntryFor(p, tree[p])))
      BY <1>4, <2>2 DEF ScanFile
    <3>2. GoodIndex(Inserted(ThisIndex, p, EntryFor(p, tree[p])))
      BY <1>0, <2>2, EntryForGood, InsertedGood
    <3> QED BY <1>0, <1>4, <2>1, <3>1, <3>2, SetGood
          DEF IndexTypeOK, ScanFile, IndexInv, treeVars
  <2>3. CASE tree[p] \notin SourceTexts
    BY <1>0, <1>4, <2>1, <2>3, KeptGood DEF IndexTypeOK, ScanFile, IndexInv, treeVars
  <2> QED BY <2>2, <2>3
<1>5. ASSUME NEW p \in Paths, RefreshPath(p)
      PROVE  IndexInv'
  <2>1. CacheSound'
    BY <1>0, <1>5, KeptCache DEF RefreshPath
  <2>2. CASE tree[p] \in SourceTexts
    <3>1. tree[p] # "skipped"
      BY <2>2, IndexAssumption DEF Kinds
    <3>2. SetIndex(Inserted(ThisIndex, p, EntryFor(p, tree[p])))
      BY <1>5, <2>2, <3>1 DEF RefreshPath
    <3>3. GoodIndex(Inserted(ThisIndex, p, EntryFor(p, tree[p])))
      BY <1>0, <2>2, EntryForGood, InsertedGood
    <3> QED BY <1>0, <1>5, <2>1, <3>2, <3>3, SetGood
          DEF IndexTypeOK, RefreshPath, IndexInv, treeVars
  <2>3. CASE tree[p] = "skipped"
    <3>1. UNCHANGED indexVars
      BY <1>5, <2>3, IndexAssumption DEF RefreshPath, Kinds
    <3> QED BY <1>0, <1>5, <2>1, <3>1, KeptGood DEF IndexTypeOK, RefreshPath, IndexInv, treeVars
  <2>4. CASE tree[p] \notin SourceTexts /\ tree[p] # "skipped"
    <3>1. SetIndex(Removed(ThisIndex, {p} \union Below[p]))
      BY <1>5, <2>4 DEF RefreshPath
    <3>2. GoodIndex(Removed(ThisIndex, {p} \union Below[p]))
      BY <1>0, RemovedGood
    <3> QED BY <1>0, <1>5, <2>1, <3>1, <3>2, SetGood
          DEF IndexTypeOK, RefreshPath, IndexInv, treeVars
  <2> QED BY <2>2, <2>3, <2>4
<1>11. ASSUME WalkArtifacts PROVE IndexInv'
  <2>1. CacheSound'
    BY <1>0, <1>11, KeptCache DEF WalkArtifacts
  <2>2. toRead' \subseteq Paths
    BY <1>0, <1>11, IndexAssumption DEF IndexTypeOK, WalkArtifacts, Walked
  <2> QED BY <1>0, <1>11, <2>1, <2>2, KeptGood DEF IndexTypeOK, WalkArtifacts, IndexInv, treeVars
<1>12. ASSUME RefreshFails PROVE IndexInv'
  <2>1. CacheSound'
    BY <1>0, <1>12, KeptCache DEF RefreshFails
  <2>2. unseen' \subseteq Paths
    BY <1>0, <1>12, IndexAssumption DEF IndexTypeOK, RefreshFails
  <2> QED BY <1>0, <1>12, <2>1, <2>2, KeptGood DEF IndexTypeOK, RefreshFails, IndexInv
<1>6. ASSUME WriteCache PROVE IndexInv'
  <2>1. CacheSound'
    BY <1>0, <1>6, KeptCache DEF WriteCache
  <2> QED BY <1>0, <1>6, <2>1, KeptGood DEF IndexTypeOK, WriteCache, IndexInv, treeVars
<1>7. ASSUME RenameCache PROVE IndexInv'
  <2>1. GoodFiles(files)
    BY <1>0 DEF GoodIndex, ThisIndex
  <2>2. CacheSound'
    BY <1>7, <2>1 DEF RenameCache, CacheSound, GoodFiles, GoodEntry
  <2> QED BY <1>0, <1>7, <2>2, KeptGood DEF IndexTypeOK, RenameCache, IndexInv, treeVars
<1>8. ASSUME Crash PROVE IndexInv'
  <2>1. CacheSound'
    BY <1>0, <1>8, KeptCache DEF Crash
  <2>2. SetIndex(NewIndex)
    BY <1>8 DEF Crash
  <2> QED BY <1>0, <1>8, <2>1, <2>2, NewIndexGood, SetGood DEF IndexTypeOK, Crash, IndexInv
<1>9. ASSUME Drain PROVE IndexInv'
  <2>1. CacheSound'
    BY <1>0, <1>9, KeptCache DEF Drain
  <2> QED BY <1>0, <1>9, <2>1, KeptGood DEF IndexTypeOK, Drain, IndexInv
<1>10. ASSUME UNCHANGED allIndexVars PROVE IndexInv'
  <2>1. CacheSound'
    BY <1>0, <1>10, KeptCache DEF allIndexVars
  <2> QED BY <1>0, <1>10, <2>1, KeptGood DEF IndexTypeOK, allIndexVars, treeVars, IndexInv
<1> QED BY <1>1, <1>2, <1>3, <1>4, <1>5, <1>6, <1>7, <1>8, <1>9, <1>10, <1>11, <1>12
      DEF IndexNext

(* Whatever is written, moved, removed, crashed and reopened: the postings *)
(* and the digest of the index are those of the files it holds, and no     *)
(* cache supplies the symbols of another text (src/index/store.rs,         *)
(* src/index/cache.rs).                                                    *)
THEOREM IndexStaysSound == IndexSpec => []IndexSound
<1>1. IndexInv => IndexSound
  BY GoodIsDerived DEF IndexInv, IndexSound
<1> QED BY <1>1, InitIndexInv, NextIndexInv, PTL DEF IndexSpec

-----------------------------------------------------------------------------
(* What removal and insertion do to the files, path by path.               *)
LEMMA RemovedFiles ==
  ASSUME NEW ix, NEW ps, NEW p \in Paths
  PROVE  Removed(ix, ps).files[p] = IF p \in ps THEN Nothing ELSE ix.files[p]
BY DEF Removed, Held

LEMMA InsertedFiles ==
  ASSUME NEW ix, NEW q \in Paths, NEW e, NEW p \in Paths
  PROVE  Inserted(ix, q, e).files[p] = IF p = q THEN e ELSE ix.files[p]
<1>1. Removed(ix, {q}).files =
        [r \in Paths |-> IF r \in {q} \intersect Held(ix.files) THEN Nothing ELSE ix.files[r]]
  BY DEF Removed
<1>2. Inserted(ix, q, e).files = [Removed(ix, {q}).files EXCEPT ![q] = e]
  BY DEF Inserted
<1> QED  BY <1>1, <1>2 DEF Held

(* What a read enters for a text: the text with its own symbols.           *)
LEMMA EntryForText ==
  ASSUME CacheSound, NEW p \in Paths, NEW t \in SourceTexts
  PROVE  EntryFor(p, t) = [hash |-> t, symbols |-> SymbolsOf[t]]
<1>1. GoodEntry(EntryFor(p, t))  BY EntryForGood
<1>2. EntryFor(p, t).hash = t  BY DEF EntryFor
<1>3. EntryFor(p, t).symbols = SymbolsOf[t]  BY <1>1, <1>2 DEF GoodEntry
<1> DEFINE sy == IF SymbolsFor(p, t) = Nothing THEN SymbolsOf[t] ELSE SymbolsFor(p, t).symbols
<1>4. EntryFor(p, t) = [hash |-> t, symbols |-> sy]  BY DEF EntryFor
<1> HIDE DEF sy
<1> QED  BY <1>3, <1>4

(* Being inside is an order.                                               *)
LEMMA BelowOrder ==
  ASSUME NEW d \in Paths, NEW p \in Below[d]
  PROVE  p \in Paths /\ p # d /\ d \notin Below[p] /\ Below[p] \subseteq Below[d]
BY IndexAssumption

LEMMA TextIsNoKind ==
  "absent" \notin SourceTexts /\ "dir" \notin SourceTexts /\ "skipped" \notin SourceTexts
BY IndexAssumption DEF Kinds

(* The tree stays one.                                                     *)
LEMMA TreeChanged ==
  ASSUME IndexTypeOK, TreeKept, NEW x \in Paths, NEW k \in SourceTexts \union Kinds,
         ChangePath(x, k)
  PROVE  TreeKept'
<1>1. \A q \in Paths : tree'[q] = IF q = x THEN k
                                  ELSE IF q \in Below[x] /\ k # "dir" THEN "absent" ELSE tree[q]
  BY DEF ChangePath, TreeWith
<1> SUFFICES ASSUME NEW d \in Paths, NEW p \in Below[d], tree'[p] # "absent"
             PROVE  tree'[d] = "dir"
  BY DEF TreeKept
<1>2. p \in Paths /\ p # d /\ d \notin Below[p] /\ Below[p] \subseteq Below[d]  BY BelowOrder
<1>3. CASE p = x
  <2>1. tree[d] = "dir"  BY <1>3 DEF ChangePath
  <2> QED  BY <1>1, <1>2, <1>3, <2>1
<1>4. CASE p # x /\ d = x  BY <1>1, <1>2, <1>4
<1>5. CASE p # x /\ d # x
  <2>1. tree'[p] = tree[p] /\ ~ (p \in Below[x] /\ k # "dir")  BY <1>1, <1>2, <1>5
  <2>2. tree[d] = "dir"  BY <2>1 DEF TreeKept
  <2>3. d \in Below[x] => p \in Below[x]  BY BelowOrder
  <2> QED  BY <1>1, <1>5, <2>1, <2>2, <2>3
<1> QED  BY <1>3, <1>4, <1>5

LEMMA TreeMoved ==
  ASSUME IndexTypeOK, TreeKept, NEW x \in Paths, NEW y \in Paths, NEW t \in SourceTexts,
         MoveIn(x, y, t)
  PROVE  /\ TreeKept'
         /\ \A q \in Paths : tree'[q] = IF q = y THEN t ELSE IF q = x THEN "dir" ELSE tree[q]
         /\ tree[y] = "absent"
<1>1. \A q \in Paths : tree'[q] = IF q = y THEN t ELSE IF q = x THEN "dir" ELSE tree[q]
  BY DEF MoveIn, IndexTypeOK
<1>2. y \in Below[x] /\ tree[x] = "absent"  BY DEF MoveIn
<1>3. y # x /\ x \notin Below[y]  BY <1>2, BelowOrder
<1>4. tree[y] = "absent"  BY <1>2 DEF TreeKept
<1>5. ASSUME NEW d \in Paths, NEW p \in Below[d], tree'[p] # "absent"
      PROVE  tree'[d] = "dir"
  <2>1. p \in Paths /\ p # d /\ d \notin Below[p]  BY BelowOrder
  <2>2. CASE p = y
    <3>1. d = x \/ tree[d] = "dir"  BY <2>2 DEF MoveIn
    <3> QED  BY <1>1, <1>2, <2>1, <2>2, <3>1
  <2>3. CASE p = x
    <3>1. tree[d] = "dir"  BY <2>3 DEF MoveIn
    <3> QED  BY <1>1, <1>3, <1>4, <2>1, <2>3, <3>1
  <2>4. CASE p # x /\ p # y
    <3>1. tree[p] # "absent"  BY <1>1, <1>5, <2>1, <2>4
    <3>2. tree[d] = "dir"  BY <3>1 DEF TreeKept
    <3> QED  BY <1>1, <1>2, <1>4, <3>2
  <2> QED  BY <2>2, <2>3, <2>4
<1> QED  BY <1>1, <1>4, <1>5 DEF TreeKept

LEMMA InitCaught == IndexInit => CaughtInv
BY IndexAssumption DEF IndexInit, CaughtInv, TreeKept, RemovalsSafe, ScanFollows, RefreshFollows

(* What a report leaves open is unseen: text that appears where nothing    *)
(* names it, and what was below a thing that is no directory any more.     *)
LEMMA ReportCaught ==
  ASSUME IndexInv, CaughtInv, TreeKept', NEW x \in Paths, NEW k, NEW others \in SUBSET Paths,
         Notify(x, k, others), k = "absent" => others = {},
         UNCHANGED <<phase, settings, toRead, files>>,
         tree'[x] = k,
         \A q \in Paths \ ({x} \union others) :
           \/ tree'[q] = tree[q]
           \/ q \in Below[x] /\ k # "dir" /\ tree'[q] = "absent",
         others \subseteq Below[x],
         \A q \in others : Below[q] \subseteq others,
         \A d \in Paths : x \in Below[d] => tree[d] = "dir"
  PROVE  CaughtInv'
<1>0. IndexTypeOK /\ TreeKept  BY DEF IndexInv, CaughtInv
<1>1. Below[x] \subseteq Paths /\ x \notin Below[x]  BY IndexAssumption
<1>2. \A q \in others : q \in Below[x] /\ q \in Paths  OBVIOUS
<1>3. CASE phase = "up"
  <2>1. /\ pending' = pending \union {x}
        /\ unseen' = IF k = "absent" THEN unseen \ ({x} \union Below[x])
                     ELSE (unseen \ {x}) \union Unreported(x) \union others
    BY <1>3 DEF Notify
  <2>2. RemovalsSafe'
    <3> SUFFICES ASSUME NEW q \in toRead, NEW p \in Below[q], tree'[p] # "absent"
                 PROVE  p \in pending' \union unseen'
      BY DEF RemovalsSafe
    <3>1. q \in Paths /\ p \in Paths  BY <1>0, BelowOrder DEF IndexTypeOK
    <3>2. CASE p = x  BY <2>1, <3>2
    <3>3. CASE p # x /\ p \in others  BY <1>2, <2>1, <3>3
    <3>4. CASE p # x /\ p \notin others
      <4>1. tree[p] = tree'[p]  BY <3>1, <3>4
      <4>2. p \in pending \union unseen  BY <1>3, <4>1 DEF CaughtInv, RemovalsSafe
      <4>3. k = "absent" => p \notin Below[x]
        BY <1>1 DEF TreeKept
      <4> QED  BY <2>1, <3>4, <4>2, <4>3
    <3> QED  BY <3>2, <3>3, <3>4
  <2>3. RefreshFollows'
    <3> SUFFICES ASSUME NEW p \in Seen'
                 PROVE  /\ Walks(p)' => p \in pending' \union toRead' \/ Right(p)'
                        /\ tree'[p] = "absent" => files'[p] = Nothing \/ Reported(p)'
      BY DEF RefreshFollows
    <3>1. p \in Paths /\ p \notin unseen' /\ p \notin Excluded[settings]  BY DEF Seen
    <3>2. CASE p = x  BY <2>1, <3>2 DEF Reported
    <3>3. CASE p # x /\ k = "absent" /\ p \in Below[x]
      <4>1. tree'[p] = "absent"  BY <1>1, <3>3 DEF TreeKept
      <4> QED  BY <2>1, <3>3, <4>1, TextIsNoKind DEF Reported, Walks
    <3>4. CASE p # x /\ ~ (k = "absent" /\ p \in Below[x])
      <4>1. p \notin unseen /\ p \notin others /\ p \in Seen  BY <2>1, <3>1, <3>4 DEF Seen
      <4>2. tree'[p] = tree[p] \/ (p \in Below[x] /\ k # "dir" /\ tree'[p] = "absent")
        BY <3>1, <3>4, <4>1
      <4>3. Walks(p)' => p \in pending' \union toRead' \/ Right(p)'
        <5> SUFFICES ASSUME Walks(p)'
                     PROVE  p \in pending' \union toRead' \/ Right(p)'
          OBVIOUS
        <5>1. tree'[p] = tree[p] /\ Walks(p)  BY <4>2, TextIsNoKind DEF Walks
        <5>2. p \in pending \union toRead \/ Right(p)
          BY <1>3, <4>1, <5>1 DEF CaughtInv, RefreshFollows
        <5> QED  BY <2>1, <5>1, <5>2 DEF Right
      <4>4. ASSUME tree'[p] = "absent" PROVE files'[p] = Nothing \/ Reported(p)'
        <5>1. CASE p \in pending \union toRead  BY <2>1, <5>1 DEF Reported
        <5>2. CASE p \notin pending \union toRead /\ tree[p] # "absent"
          <6>1. p \in Below[x] /\ k # "absent"  BY <3>4, <4>2, <4>4, <5>2
          <6>2. tree[x] = "dir"  BY <1>0, <5>2, <6>1 DEF TreeKept
          <6>3. p \in Unreported(x)  BY <5>2, <6>1, <6>2 DEF Unreported
          <6> QED  BY <2>1, <3>1, <6>1, <6>3
        <5>3. CASE p \notin pending \union toRead /\ tree[p] = "absent" /\ files[p] # Nothing
          <6>1. Reported(p)  BY <1>3, <4>1, <5>3 DEF CaughtInv, RefreshFollows
          <6>2. PICK q \in pending \union toRead : p \in Below[q] /\ tree[q] = "absent"
            BY <5>3, <6>1 DEF Reported
          <6>3. q \in Paths  BY <1>0 DEF IndexTypeOK
          <6>4. CASE q = x
            <7>1. k # "absent"  BY <3>4, <6>2, <6>4
            <7>2. p \in Unreported(x)  BY <5>3, <6>2, <6>4 DEF Unreported
            <7> QED  BY <2>1, <3>1, <7>1, <7>2
          <6>5. CASE q # x
            <7>1. q \notin others
              <8> SUFFICES ASSUME q \in others PROVE FALSE
                OBVIOUS
              <8>1. p \in others  BY <6>2
              <8> QED  BY <4>1, <8>1
            <7>2. tree'[q] = "absent"  BY <6>2, <6>3, <6>5, <7>1
            <7> QED  BY <2>1, <6>2, <7>2 DEF Reported
          <6> QED  BY <6>4, <6>5
        <5> QED  BY <5>1, <5>2, <5>3
      <4> QED  BY <4>3, <4>4
    <3> QED  BY <3>2, <3>3, <3>4
  <2> QED  BY <1>3, <2>2, <2>3 DEF CaughtInv, ScanFollows
<1>4. CASE phase # "up"
  <2>1. pending' = pending /\ unseen' = unseen \union {x} \union Below[x]
    BY <1>4 DEF Notify
  <2>2. ScanFollows'
    <3> SUFFICES ASSUME NEW p \in Seen', phase \in {"scanning", "artifacts", "storing"}
                 PROVE  /\ Walks(p)' => \/ p \in toRead' \/ Right(p)'
                                        \/ phase' = "scanning" /\ p \in GitIgnored
                        /\ tree'[p] \notin SourceTexts => files'[p] = Nothing
      BY DEF ScanFollows
    <3>1. p \in Seen /\ p \in Paths /\ p # x /\ p \notin Below[x]  BY <2>1 DEF Seen
    <3>2. tree'[p] = tree[p]  BY <1>2, <3>1
    <3> QED  BY <3>1, <3>2 DEF CaughtInv, ScanFollows, Right, Walks
  <2> QED  BY <1>4, <2>2 DEF CaughtInv, RemovalsSafe, RefreshFollows
<1> QED  BY <1>3, <1>4

(* Another program changes something at x.                                 *)
LEMMA ChangeCaught ==
  ASSUME IndexInv, CaughtInv, NEW x \in Paths, NEW k \in SourceTexts \union Kinds,
         ChangePath(x, k)
  PROVE  CaughtInv'
<1>1. IndexTypeOK /\ TreeKept  BY DEF IndexInv, CaughtInv
<1>2. TreeKept'  BY <1>1, TreeChanged
<1>3. /\ UNCHANGED <<phase, settings, toRead, files>> /\ Notify(x, k, {})
      /\ tree'[x] = k
      /\ \A q \in Paths \ {x} :
           tree'[q] = tree[q] \/ (q \in Below[x] /\ k # "dir" /\ tree'[q] = "absent")
      /\ \A d \in Paths : x \in Below[d] => tree[d] = "dir"
  BY DEF ChangePath, TreeWith, indexVars
<1> QED  BY <1>2, <1>3, ReportCaught

(* A directory is moved in.                                                *)
LEMMA MoveCaught ==
  ASSUME IndexInv, CaughtInv, NEW x \in Paths, NEW y \in Paths, NEW t \in SourceTexts,
         MoveIn(x, y, t)
  PROVE  CaughtInv'
<1>1. IndexTypeOK /\ TreeKept  BY DEF IndexInv, CaughtInv
<1>2. /\ TreeKept'
      /\ \A q \in Paths : tree'[q] = IF q = y THEN t ELSE IF q = x THEN "dir" ELSE tree[q]
  BY <1>1, TreeMoved
<1>3. /\ UNCHANGED <<phase, settings, toRead, files>> /\ Notify(x, "dir", {y} \union Below[y])
      /\ y \in Below[x] /\ tree[x] = "absent"
      /\ \A d \in Paths : x \in Below[d] => tree[d] = "dir"
  BY DEF MoveIn, indexVars
<1>4. x # y /\ Below[y] \subseteq Below[x] /\ Below[x] \subseteq Paths
      /\ \A q \in Below[y] : Below[q] \subseteq Below[y]
  BY <1>3, IndexAssumption
<1> DEFINE others == {y} \union Below[y]
<1>5. /\ others \in SUBSET Paths /\ others \subseteq Below[x] /\ "dir" # "absent"
      /\ \A q \in others : Below[q] \subseteq others
  BY <1>3, <1>4
<1>6. tree'[x] = "dir" /\ \A q \in Paths \ ({x} \union others) : tree'[q] = tree[q]
  BY <1>2, <1>4
<1>7. Notify(x, "dir", others)  BY <1>3
<1> HIDE DEF others
<1> QED  BY <1>2, <1>3, <1>5, <1>6, <1>7, ReportCaught

(* Steps of the scan and of a refresh: the tree and what is reported stay. *)
LEMMA ScanCaught ==
  ASSUME IndexInv, CaughtInv, NEW x \in Paths, ScanFile(x)
  PROVE  CaughtInv'
<1>0. IndexTypeOK /\ TreeKept /\ CacheSound  BY DEF IndexInv, CaughtInv
<1>1. /\ phase \in {"scanning", "artifacts"} /\ phase' = phase /\ settings' = settings
      /\ tree' = tree /\ unseen' = unseen /\ toRead' = toRead \ {x}
  BY DEF ScanFile, treeVars
<1>2. \A p \in Paths : files'[p] = IF p = x /\ tree[x] \in SourceTexts
                                   THEN [hash |-> tree[x], symbols |-> SymbolsOf[tree[x]]]
                                   ELSE files[p]
  <2>1. CASE tree[x] \in SourceTexts
    <3>1. files' = Inserted(ThisIndex, x, EntryFor(x, tree[x])).files
      BY <2>1 DEF ScanFile, SetIndex
    <3>2. \A p \in Paths : files'[p] = IF p = x THEN EntryFor(x, tree[x]) ELSE ThisIndex.files[p]
      BY <3>1, InsertedFiles
    <3> QED  BY <1>0, <2>1, <3>2, EntryForText DEF ThisIndex
  <2>2. CASE tree[x] \notin SourceTexts  BY <2>2 DEF ScanFile, indexVars
  <2> QED  BY <2>1, <2>2
<1>3. ScanFollows'
  <2> SUFFICES ASSUME NEW p \in Seen
               PROVE  /\ Walks(p) => \/ p \in toRead' \/ Right(p)'
                                     \/ phase = "scanning" /\ p \in GitIgnored
                      /\ tree[p] \notin SourceTexts => files'[p] = Nothing
    BY <1>1 DEF ScanFollows, Seen, Walks
  <2>1. p \in Paths  BY DEF Seen
  <2>2. /\ Walks(p) => p \in toRead \/ Right(p) \/ (phase = "scanning" /\ p \in GitIgnored)
        /\ tree[p] \notin SourceTexts => files[p] = Nothing
    BY <1>1 DEF CaughtInv, ScanFollows
  <2> QED  BY <1>1, <1>2, <2>1, <2>2 DEF Right, Walks
<1>4. TreeKept'  BY <1>0, <1>1 DEF TreeKept
<1> QED  BY <1>1, <1>3, <1>4 DEF CaughtInv, RemovalsSafe, RefreshFollows

LEMMA RefreshCaught ==
  ASSUME IndexInv, CaughtInv, NEW x \in Paths, RefreshPath(x)
  PROVE  CaughtInv'
<1>0. IndexTypeOK /\ TreeKept /\ CacheSound  BY DEF IndexInv, CaughtInv
<1>1. /\ phase = "up" /\ phase' = phase /\ settings' = settings /\ x \in toRead
      /\ tree' = tree /\ unseen' = unseen /\ pending' = pending /\ toRead' = toRead \ {x}
  BY DEF RefreshPath, treeVars
<1>2. /\ tree[x] \in SourceTexts =>
           \A p \in Paths : files'[p] = IF p = x THEN [hash |-> tree[x], symbols |-> SymbolsOf[tree[x]]]
                                        ELSE files[p]
      /\ tree[x] = "skipped" => files' = files
      /\ tree[x] \notin SourceTexts \union {"skipped"} =>
           \A p \in Paths : files'[p] = IF p \in {x} \union Below[x] THEN Nothing ELSE files[p]
  <2>1. CASE tree[x] \in SourceTexts
    <3>1. tree[x] # "skipped"  BY <2>1, TextIsNoKind
    <3>2. files' = Inserted(ThisIndex, x, EntryFor(x, tree[x])).files
      BY <2>1, <3>1 DEF RefreshPath, SetIndex
    <3>3. \A p \in Paths : files'[p] = IF p = x THEN EntryFor(x, tree[x]) ELSE ThisIndex.files[p]
      BY <3>2, InsertedFiles
    <3> QED  BY <1>0, <2>1, <3>1, <3>3, EntryForText DEF ThisIndex
  <2>2. CASE tree[x] = "skipped"
    BY <2>2, TextIsNoKind DEF RefreshPath, indexVars
  <2>3. CASE tree[x] \notin SourceTexts \union {"skipped"}
    <3>1. files' = Removed(ThisIndex, {x} \union Below[x]).files
      BY <2>3 DEF RefreshPath, SetIndex
    <3> QED  BY <2>3, <3>1, RemovedFiles DEF ThisIndex
  <2> QED  BY <2>1, <2>2, <2>3
<1>3. RefreshFollows'
  <2> SUFFICES ASSUME NEW p \in Seen
               PROVE  /\ Walks(p) => p \in pending \union toRead' \/ Right(p)'
                      /\ tree[p] = "absent" => files'[p] = Nothing \/ Reported(p)'
    BY <1>1 DEF RefreshFollows, Seen, Walks
  <2>1. p \in Paths /\ p \notin unseen  BY DEF Seen
  <2>2. /\ Walks(p) => p \in pending \union toRead \/ Right(p)
        /\ tree[p] = "absent" => files[p] = Nothing \/ Reported(p)
    BY <1>1 DEF CaughtInv, RefreshFollows
  <2>3. ASSUME Walks(p) PROVE p \in pending \union toRead' \/ Right(p)'
    <3>0. tree[p] \in SourceTexts  BY <2>3 DEF Walks
    <3>1. CASE p = x  BY <1>1, <1>2, <2>1, <3>0, <3>1 DEF Right
    <3>2. CASE p # x /\ p \in Below[x]
      <4>1. tree[p] # "absent"  BY <3>0, TextIsNoKind
      <4>2. p \in pending  BY <1>1, <2>1, <3>2, <4>1 DEF CaughtInv, RemovalsSafe
      <4> QED  BY <4>2
    <3>3. CASE p # x /\ p \notin Below[x]
      <4>1. tree[x] \in SourceTexts \/ tree[x] = "skipped"
              \/ tree[x] \notin SourceTexts \union {"skipped"}
        OBVIOUS
      <4>2. files'[p] = files[p]  BY <1>2, <2>1, <3>3, <4>1
      <4> QED  BY <1>1, <2>2, <2>3, <3>3, <4>2 DEF Right
    <3> QED  BY <3>1, <3>2, <3>3
  <2>4. ASSUME tree[p] = "absent" PROVE files'[p] = Nothing \/ Reported(p)'
    <3>1. CASE p = x
      <4>1. tree[x] \notin SourceTexts \union {"skipped"}  BY <2>4, <3>1, TextIsNoKind
      <4> QED  BY <1>2, <2>1, <3>1, <4>1
    <3>2. CASE p # x
      <4>1. files'[p] = Nothing \/ files'[p] = files[p]
        <5>1. tree[x] \in SourceTexts \/ tree[x] = "skipped"
                \/ tree[x] \notin SourceTexts \union {"skipped"}
          OBVIOUS
        <5> QED  BY <1>2, <2>1, <3>2, <5>1
      <4>2. ASSUME Reported(p) PROVE files'[p] = Nothing \/ Reported(p)'
        <5>1. PICK q \in pending \union toRead : p = q \/ (p \in Below[q] /\ tree[q] = "absent")
          BY <4>2 DEF Reported
        <5>2. CASE q = x
          <6>1. tree[x] \notin SourceTexts \union {"skipped"} /\ p \in Below[x]
            BY <3>2, <5>1, <5>2, TextIsNoKind
          <6> QED  BY <1>2, <2>1, <6>1
        <5>3. CASE q # x  BY <1>1, <5>1, <5>3 DEF Reported
        <5> QED  BY <5>2, <5>3
      <4> QED  BY <2>2, <2>4, <4>1, <4>2
    <3> QED  BY <3>1, <3>2
  <2> QED  BY <2>3, <2>4
<1>4. RemovalsSafe'  BY <1>1 DEF CaughtInv, RemovalsSafe
<1>5. TreeKept'  BY <1>0, <1>1 DEF TreeKept
<1> QED  BY <1>1, <1>3, <1>4, <1>5 DEF CaughtInv, ScanFollows

(* What is drained is still to be read, unless it is excluded with all     *)
(* that is below it or a directory that is there.                          *)
LEMMA DrainCaught ==
  ASSUME IndexInv, CaughtInv, Drain
  PROVE  CaughtInv'
<1>0. IndexTypeOK /\ TreeKept /\ settings \in Settings
  BY DEF IndexInv, IndexTypeOK, CaughtInv, Drain
<1>1. /\ phase = "up" /\ phase' = phase /\ settings' = settings /\ toRead = {}
      /\ tree' = tree /\ unseen' = unseen /\ pending' = {} /\ files' = files
      /\ toRead' = {p \in pending \ Excluded[settings] : tree[p] # "dir"}
  BY DEF Drain, indexVars
<1>2. RemovalsSafe'
  <2> SUFFICES ASSUME NEW q \in toRead', NEW p \in Below[q]  PROVE tree[p] = "absent"
    BY <1>1 DEF RemovalsSafe
  <2>1. q \in Paths /\ tree[q] # "dir"  BY <1>0, <1>1 DEF IndexTypeOK
  <2> QED  BY <1>0, <2>1 DEF TreeKept
<1>3. RefreshFollows'
  <2> SUFFICES ASSUME NEW p \in Seen
               PROVE  /\ Walks(p) => p \in toRead' \/ Right(p)
                      /\ tree[p] = "absent" => files[p] = Nothing \/ Reported(p)'
    BY <1>1 DEF RefreshFollows, Seen, Right, Walks
  <2>1. p \in Paths /\ p \notin Excluded[settings]  BY DEF Seen
  <2>2. /\ Walks(p) => p \in pending \/ Right(p)
        /\ tree[p] = "absent" => files[p] = Nothing \/ Reported(p)
    BY <1>1 DEF CaughtInv, RefreshFollows
  <2>3. Walks(p) => p \in toRead' \/ Right(p)
    BY <1>1, <2>1, <2>2, TextIsNoKind DEF Walks
  <2>4. ASSUME tree[p] = "absent", Reported(p) PROVE Reported(p)'
    <3>1. PICK q \in pending : p = q \/ (p \in Below[q] /\ tree[q] = "absent")
      BY <1>1, <2>4 DEF Reported
    <3>2. q \in Paths /\ q \notin Excluded[settings]
      BY <1>0, <2>1, <3>1, IndexAssumption DEF IndexTypeOK
    <3>3. tree[q] = "absent"  BY <2>4, <3>1
    <3> QED  BY <1>1, <3>1, <3>2, <3>3 DEF Reported
  <2> QED  BY <2>2, <2>3, <2>4
<1>4. TreeKept'  BY <1>0, <1>1 DEF TreeKept
<1> QED  BY <1>0, <1>1, <1>2, <1>3, <1>4 DEF CaughtInv, ScanFollows

LEMMA FailureCaught ==
  ASSUME IndexInv, CaughtInv, RefreshFails
  PROVE  CaughtInv'
<1>0. IndexTypeOK /\ TreeKept  BY DEF IndexInv, CaughtInv
<1>1. /\ phase = "up" /\ phase' = phase /\ settings' = settings /\ toRead' = {}
      /\ tree' = tree /\ pending' = pending /\ files' = files
      /\ unseen' = unseen \union ((UNION {{p} \union Below[p] : p \in toRead}) \ pending)
  BY DEF RefreshFails, indexVars
<1>2. RefreshFollows'
  <2> SUFFICES ASSUME NEW p \in Seen'
               PROVE  /\ Walks(p) => p \in pending \/ Right(p)
                      /\ tree[p] = "absent" => files[p] = Nothing \/ Reported(p)'
    BY <1>1 DEF RefreshFollows, Right, Walks
  <2>1. p \in Seen  BY <1>1 DEF Seen
  <2>2. ASSUME p \notin pending, NEW q \in toRead PROVE p # q /\ p \notin Below[q]
    <3> DEFINE trees == {{z} \union Below[z] : z \in toRead}
    <3>1. p \notin unseen'  BY DEF Seen
    <3>2. unseen' = unseen \union ((UNION trees) \ pending)  BY <1>1
    <3>3. {q} \union Below[q] \in trees  OBVIOUS
    <3> HIDE DEF trees
    <3>4. p \notin UNION trees  BY <2>2, <3>1, <3>2
    <3> QED  BY <3>3, <3>4
  <2>3. /\ Walks(p) => p \in pending \union toRead \/ Right(p)
        /\ tree[p] = "absent" => files[p] = Nothing \/ Reported(p)
    BY <1>1, <2>1 DEF CaughtInv, RefreshFollows
  <2> QED  BY <1>1, <2>2, <2>3 DEF Reported
<1>3. TreeKept'  BY <1>0, <1>1 DEF TreeKept
<1> QED  BY <1>1, <1>2, <1>3 DEF CaughtInv, ScanFollows, RemovalsSafe

LEMMA NextCaught ==
  ASSUME IndexInv, CaughtInv, [IndexNext]_allIndexVars
  PROVE  CaughtInv'
<1>0. IndexTypeOK /\ TreeKept /\ RemovalsSafe /\ ScanFollows /\ RefreshFollows
  BY DEF IndexInv, CaughtInv
<1>1. ASSUME NEW s \in Settings, OpenWorkspace(s) PROVE CaughtInv'
  <2>1. /\ phase' = "scanning" /\ settings' = s /\ tree' = tree
        /\ files' = [p \in Paths |-> Nothing]
        /\ toRead' = {p \in Paths \ (Excluded[s] \union GitIgnored) :
                        tree[p] \in SourceTexts \union {"skipped"}}
    BY <1>1 DEF OpenWorkspace, SetIndex, NewIndex, Walked
  <2>2. ScanFollows'  BY <2>1 DEF ScanFollows, Seen, Walks
  <2>3. TreeKept'  BY <1>0, <2>1 DEF TreeKept
  <2> QED  BY <2>1, <2>2, <2>3 DEF CaughtInv, RemovalsSafe, RefreshFollows
<1>2. ASSUME WriteCache PROVE CaughtInv'
  <2>1. /\ phase = "artifacts" /\ phase' = "storing" /\ settings' = settings /\ tree' = tree
        /\ unseen' = unseen /\ toRead' = toRead /\ files' = files
    BY <1>2 DEF WriteCache, treeVars, indexVars
  <2>2. ScanFollows'  BY <1>0, <2>1 DEF ScanFollows, Seen, Right, Walks
  <2>3. TreeKept'  BY <1>0, <2>1 DEF TreeKept
  <2> QED  BY <2>1, <2>2, <2>3 DEF CaughtInv, RemovalsSafe, RefreshFollows
<1>3. ASSUME RenameCache PROVE CaughtInv'
  <2>1. /\ phase = "storing" /\ phase' = "up" /\ settings' = settings /\ tree' = tree
        /\ unseen' = unseen /\ pending' = pending /\ toRead' = toRead /\ toRead = {}
        /\ files' = files
    BY <1>0, <1>3 DEF RenameCache, treeVars, indexVars, IndexTypeOK
  <2>2. RefreshFollows'
    <3> SUFFICES ASSUME NEW p \in Seen
                 PROVE  /\ Walks(p) => Right(p)
                        /\ tree[p] = "absent" => files[p] = Nothing
      BY <2>1 DEF RefreshFollows, Seen, Right, Walks
    <3>1. /\ Walks(p) => Right(p)
          /\ tree[p] \notin SourceTexts => files[p] = Nothing
      BY <1>0, <2>1 DEF ScanFollows
    <3> QED  BY <3>1, TextIsNoKind
  <2>3. TreeKept'  BY <1>0, <2>1 DEF TreeKept
  <2> QED  BY <2>1, <2>2, <2>3 DEF CaughtInv, RemovalsSafe, ScanFollows
<1>4. ASSUME Crash PROVE CaughtInv'
  <2>1. phase' = "down" /\ tree' = tree  BY <1>4 DEF Crash
  <2>2. TreeKept'  BY <1>0, <2>1 DEF TreeKept
  <2> QED  BY <2>1, <2>2 DEF CaughtInv, RemovalsSafe, ScanFollows, RefreshFollows
<1>5. ASSUME UNCHANGED allIndexVars PROVE CaughtInv'
  BY <1>5 DEF allIndexVars, treeVars, indexVars, CaughtInv, TreeKept, RemovalsSafe,
       ScanFollows, RefreshFollows, Seen, Right, Walks, Reported
<1>6. ASSUME WalkArtifacts PROVE CaughtInv'
  <2>1. /\ phase = "scanning" /\ phase' = "artifacts" /\ settings' = settings /\ tree' = tree
        /\ unseen' = unseen /\ toRead = {} /\ files' = files
        /\ toRead' = {p \in Artifacts[settings] \ Excluded[settings] :
                        tree[p] \in SourceTexts \union {"skipped"}}
    BY <1>6 DEF WalkArtifacts, treeVars, indexVars, Walked
  <2>2. ScanFollows'  BY <1>0, <2>1 DEF ScanFollows, Seen, Right, Walks
  <2>3. TreeKept'  BY <1>0, <2>1 DEF TreeKept
  <2> QED  BY <2>1, <2>2, <2>3 DEF CaughtInv, RemovalsSafe, RefreshFollows
<1> QED  BY <1>1, <1>2, <1>3, <1>4, <1>5, <1>6, ChangeCaught, MoveCaught, ScanCaught,
            RefreshCaught, DrainCaught, FailureCaught DEF IndexNext

(* Whatever other programs write, move and remove, wherever a change falls *)
(* between a scan, a drain and a read, and whichever read fails: once the  *)
(* reported paths are re-read, the index agrees with the tree at every     *)
(* path whose last change was reported to a refresh that did not fail, and *)
(* holds nothing that is gone (src/index/scan.rs scan_workspace and        *)
(* refresh_paths, drain_pending).                                          *)
THEOREM IndexCatchesUp == IndexSpec => []Caught
<1>1. CaughtInv => Caught
  BY DEF CaughtInv, RefreshFollows, Caught, Seen, Right, Walks, Reported
<1> QED  BY <1>1, InitIndexInv, NextIndexInv, InitCaught, NextCaught, PTL DEF IndexSpec

-----------------------------------------------------------------------------
(* Sessions. *)

(* Where a session stands decides what it has: the request it was opened   *)
(* with, what it asked the backend, a proper answer, a file read, and once *)
(* its target has passed, texts that held since the answer.                *)
Passed == {"interpret", "result", "semantic"}
Answered == Passed \union {"answered", "verify"}
Asked == Answered \union {"asking"}
Opened == Asked \union {"read", "open"}
Running == Asked \ {"semantic"}

(* The histories of a request have what the files and the index have now.  *)
UpToDate(c) == \A u \in Uris : disk[u] \in diskSince[c][u] /\ index[u] \in indexSince[c][u]

(* The texts a result rests on have held since its answer.                 *)
TargetHeld(c) ==
  session[c].text \in diskSince[c][session[c].uri] \intersect indexSince[c][session[c].uri]
FileHeld(c, v) ==
  contents[c][v] # None =>
    /\ contents[c][v] \in diskSince[c][v]
    /\ {contents[c][v], None} \intersect indexSince[c][v] # {}

SessionHas(c) ==
  /\ place[c] \in Opened => session[c] \in Requests
  /\ place[c] \in Asked => asked[c] = session[c]
  /\ place[c] \in Answered => caller[c] = "returned" /\ answer[c].ok
  /\ place[c] \in Running
       => (caller[c] = "returned" /\ answer[c].ok => UpToDate(c))
  /\ place[c] \in {"verify", "result"} => found[c] \in Files
       /\ found[c].text \in diskSince[c][found[c].uri]
  /\ place[c] = "verify" => found[c].uri = session[c].uri
  /\ place[c] \in Passed => TargetHeld(c)
  /\ \A v \in Uris : IF place[c] \in Passed THEN FileHeld(c, v)
                     ELSE place[c] # "fallback" => contents[c][v] = None
  /\ caller[c] # "idle" => asked[c] \in Requests
  /\ caller[c] = "returned" => answer[c] \in Proper(asked[c])

IntelligenceInv == SessionTypeOK /\ \A c \in Callers : SessionHas(c)

LEMMA ProperAnswers ==
  ASSUME NEW request \in Requests
  PROVE  Failure \in Proper(request) /\ Proper(request) \subseteq Answers
BY DEF Proper, Answers, Requests

LEMMA InitIntelligence == SessionInit => IntelligenceInv
<1> SUFFICES ASSUME SessionInit PROVE IntelligenceInv  OBVIOUS
<1>1. SessionTypeOK
  BY SessionAssumption
     DEF SessionInit, BackendInit, SessionTypeOK, Contents, Places, Ended
<1>2. ASSUME NEW c \in Callers PROVE SessionHas(c)
  BY <1>2 DEF SessionInit, BackendInit, SessionHas, Opened, Running, Asked, Answered, Passed
<1> QED  BY <1>1, <1>2 DEF IntelligenceInv

(* A request whose own state, history and files do not change keeps what   *)
(* it has.                                                                 *)
LEMMA OthersKeep ==
  ASSUME NEW c \in Callers, SessionHas(c),
         /\ caller'[c] = caller[c] /\ asked'[c] = asked[c] /\ answer'[c] = answer[c]
         /\ session'[c] = session[c] /\ place'[c] = place[c] /\ found'[c] = found[c]
         /\ contents'[c] = contents[c]
         /\ diskSince'[c] = diskSince[c] /\ indexSince'[c] = indexSince[c]
         /\ disk' = disk /\ index' = index
  PROVE  SessionHas(c)'
BY Zenon DEF SessionHas, UpToDate, TargetHeld, FileHeld

(* The backend returns.                                                    *)
LEMMA BackendStep ==
  ASSUME IntelligenceInv, NEW c \in Callers, BackendAnswers(c)
  PROVE  IntelligenceInv'
<1>0. SessionTypeOK /\ \A d \in Callers : SessionHas(d)
  BY DEF IntelligenceInv
<1>1. /\ caller[c] = "waiting" /\ caller' = [caller EXCEPT ![c] = "returned"]
      /\ diskSince' = [diskSince EXCEPT ![c] = [u \in Uris |-> {disk[u]}]]
      /\ indexSince' = [indexSince EXCEPT ![c] = [u \in Uris |-> {index[u]}]]
      /\ UNCHANGED <<asked, disk, index, refreshing, writes, session, place, found, contents>>
  BY DEF BackendAnswers, Answer, sessionVars, fileVars
<1>2. asked[c] \in Requests
  BY <1>0, <1>1 DEF SessionHas
<1>3. PICK a \in Proper(asked[c]) : answer' = [answer EXCEPT ![c] = a]
  BY DEF BackendAnswers, Answer
<1>4. a \in Answers
  BY <1>2, <1>3, ProperAnswers
<1>5. SessionTypeOK'
  <2>1. caller' \in [Callers -> {"idle", "waiting", "returned"}]
        /\ answer' \in [Callers -> Answers \union {None}]
    BY <1>0, <1>1, <1>3, <1>4 DEF SessionTypeOK
  <2>2. diskSince' \in [Callers -> [Uris -> SUBSET Contents]]
        /\ indexSince' \in [Callers -> [Uris -> SUBSET Contents]]
    BY <1>0, <1>1 DEF SessionTypeOK
  <2> QED BY <1>0, <1>1, <2>1, <2>2, Zenon DEF SessionTypeOK
<1>6. ASSUME NEW d \in Callers, d # c PROVE SessionHas(d)'
  <2>1. /\ caller'[d] = caller[d] /\ answer'[d] = answer[d]
        /\ diskSince'[d] = diskSince[d] /\ indexSince'[d] = indexSince[d]
    BY <1>0, <1>1, <1>3, <1>6 DEF SessionTypeOK
  <2> QED BY <1>0, <1>1, <2>1, OthersKeep
<1>7. SessionHas(c)'
  <2>1. /\ caller'[c] = "returned" /\ answer'[c] = a
        /\ diskSince'[c] = [u \in Uris |-> {disk[u]}]
        /\ indexSince'[c] = [u \in Uris |-> {index[u]}]
    BY <1>0, <1>1, <1>3 DEF SessionTypeOK
  <2>2. UpToDate(c)'
    BY <1>1, <2>1 DEF UpToDate
  <2>3. place[c] \notin Answered
    BY <1>0, <1>1 DEF SessionHas
  <2>4. place[c] \notin Passed /\ place[c] \notin {"verify", "result"}
    BY <2>3 DEF Answered, Passed
  <2> HIDE DEF Passed, Answered, Asked
  <2> QED BY <1>0, <1>1, <1>2, <1>3, <2>1, <2>2, <2>3, <2>4, Zenon DEF SessionHas
<1> QED BY <1>5, <1>6, <1>7 DEF IntelligenceInv

(* A call of the backend begins, or fails at once.                         *)
LEMMA AskStep ==
  ASSUME IntelligenceInv, NEW c \in Callers, Ask(c)
  PROVE  IntelligenceInv'
<1>0. SessionTypeOK /\ \A d \in Callers : SessionHas(d)
  BY DEF IntelligenceInv
<1>1. /\ place[c] = "open" /\ place' = [place EXCEPT ![c] = "asking"]
      /\ asked' = [asked EXCEPT ![c] = session[c]]
      /\ UNCHANGED <<disk, index, refreshing, writes, session, found, contents,
                     diskSince, indexSince>>
  BY DEF Ask, Begin, Move, fileVars, historyVars
<1>2. session[c] \in Requests
  BY <1>0, <1>1 DEF SessionHas, Opened
<1>3. \/ /\ caller' = [caller EXCEPT ![c] = "waiting"] /\ answer' = answer
      \/ /\ caller' = [caller EXCEPT ![c] = "returned"]
         /\ answer' = [answer EXCEPT ![c] = Failure]
  BY DEF Ask, Begin
<1>4. SessionTypeOK'
  <2>1. /\ caller' \in [Callers -> {"idle", "waiting", "returned"}]
        /\ answer' \in [Callers -> Answers \union {None}]
    BY <1>0, <1>3 DEF SessionTypeOK, Answers
  <2>2. /\ asked' \in [Callers -> Requests \union {None}]
        /\ place' \in [Callers -> Places]
    BY <1>0, <1>1, <1>2 DEF SessionTypeOK, Places
  <2> QED BY <1>0, <1>1, <2>1, <2>2, Zenon DEF SessionTypeOK
<1>5. ASSUME NEW d \in Callers, d # c PROVE SessionHas(d)'
  <2>1. /\ caller'[d] = caller[d] /\ answer'[d] = answer[d]
        /\ asked'[d] = asked[d] /\ place'[d] = place[d]
    BY <1>0, <1>1, <1>3, <1>5 DEF SessionTypeOK
  <2> QED BY <1>0, <1>1, <2>1, OthersKeep
<1>6. SessionHas(c)'
  <2>0. asked'[c] = session[c] /\ place'[c] = "asking"
    BY <1>0, <1>1 DEF SessionTypeOK
  <2>1. caller'[c] = "returned" => answer'[c] = Failure
    <3>1. caller \in [Callers -> {"idle", "waiting", "returned"}]
          /\ answer \in [Callers -> Answers \union {None}]
      BY <1>0 DEF SessionTypeOK
    <3>2. CASE caller' = [caller EXCEPT ![c] = "waiting"]
      BY <3>1, <3>2
    <3>3. CASE answer' = [answer EXCEPT ![c] = Failure]
      BY <3>1, <3>3
    <3> QED BY <1>3, <3>2, <3>3
  <2>2. Failure.ok = FALSE /\ Failure \in Proper(session[c])
    BY <1>2, ProperAnswers DEF Failure
  <2>3. \A v \in Uris : contents'[c][v] = None
    BY <1>0, <1>1 DEF SessionHas, Passed
  <2>4. "asking" \notin Passed /\ "asking" \notin Answered /\ "asking" \in Opened
    BY DEF Passed, Answered, Asked, Opened
  <2> QED BY <1>1, <1>2, <2>0, <2>1, <2>2, <2>3, <2>4 DEF SessionHas
<1> QED BY <1>4, <1>5, <1>6 DEF IntelligenceInv

(* A step of a session touches nothing but its own state.                  *)
LEMMA SessionMoves ==
  ASSUME IntelligenceInv, NEW c \in Callers,
         UNCHANGED <<caller, asked, answer, disk, index, refreshing, writes, diskSince, indexSince>>,
         NEW p \in Places, place' = [place EXCEPT ![c] = p],
         session' = session \/ \E r \in Requests : session' = [session EXCEPT ![c] = r],
         found' = found \/ \E f \in Files : found' = [found EXCEPT ![c] = f],
         \/ contents' = contents
         \/ \E u \in Uris, t \in Contents : contents' = [contents EXCEPT ![c][u] = t],
         SessionHas(c)'
  PROVE  IntelligenceInv'
<1>0. SessionTypeOK /\ \A d \in Callers : SessionHas(d)
  BY DEF IntelligenceInv
<1>1. SessionTypeOK'
  <2>1. place' \in [Callers -> Places]
    BY <1>0 DEF SessionTypeOK
  <2>2. session' \in [Callers -> Requests \union {None}]
    BY <1>0 DEF SessionTypeOK
  <2>3. found' \in [Callers -> Files \union {None}]
    BY <1>0 DEF SessionTypeOK
  <2>4. contents' \in [Callers -> [Uris -> Contents]]
    <3>1. contents \in [Callers -> [Uris -> Contents]]
      BY <1>0 DEF SessionTypeOK
    <3>2. ASSUME NEW u \in Uris, NEW t \in Contents, contents' = [contents EXCEPT ![c][u] = t]
          PROVE  contents' \in [Callers -> [Uris -> Contents]]
      <4>1. [contents[c] EXCEPT ![u] = t] \in [Uris -> Contents]
        BY <3>1
      <4>2. contents' = [contents EXCEPT ![c] = [contents[c] EXCEPT ![u] = t]]
        BY <3>2
      <4> QED BY <3>1, <4>1, <4>2
    <3> QED BY <3>1, <3>2
  <2> QED BY <1>0, <2>1, <2>2, <2>3, <2>4, Zenon DEF SessionTypeOK
<1>2. ASSUME NEW d \in Callers, d # c PROVE SessionHas(d)'
  <2>1. place'[d] = place[d] /\ session'[d] = session[d]
    BY <1>0, <1>2 DEF SessionTypeOK
  <2>2. found'[d] = found[d] /\ contents'[d] = contents[d]
    BY <1>0, <1>2 DEF SessionTypeOK
  <2> QED BY <1>0, <2>1, <2>2, OthersKeep
<1> QED BY <1>1, <1>2 DEF IntelligenceInv

(* What the session does by itself.                                        *)
LEMMA SessionSteps ==
  ASSUME IntelligenceInv, NEW c \in Callers,
         \/ ConfirmDisk(c) \/ TakeAnswer(c) \/ ReadTarget(c) \/ VerifyTarget(c)
         \/ Interpreted(c) \/ CheckResultFile(c) \/ NoBackend(c)
         \/ \E op \in Operations, u \in Uris : Open(c, op, u)
         \/ \E u \in Uris : ReadResultFile(c, u)
  PROVE  IntelligenceInv'
<1> USE DEF Move
<1>0. SessionTypeOK /\ SessionHas(c)
  BY DEF IntelligenceInv
<1>1. UNCHANGED <<caller, asked, answer, disk, index, refreshing, writes, diskSince, indexSince>>
  BY DEF ConfirmDisk, TakeAnswer, ReadTarget, VerifyTarget, Interpreted, CheckResultFile,
         NoBackend, Open, ReadResultFile, backendVars, fileVars, historyVars
<1>2. ASSUME NEW p \in Places, place' = [place EXCEPT ![c] = p] PROVE place'[c] = p
  BY <1>0, <1>2 DEF SessionTypeOK
<1>3. CASE ConfirmDisk(c) \/ NoBackend(c) \/ TakeAnswer(c)
  <2>1. UNCHANGED <<session, found, contents>>
    BY <1>3 DEF ConfirmDisk, NoBackend, TakeAnswer
  <2>2. PICK p \in Places : /\ place' = [place EXCEPT ![c] = p]
                            /\ \/ p \in {"refused", "fallback"}
                               \/ place[c] = "read" /\ p = "open"
                               \/ /\ place[c] = "asking" /\ p = "answered"
                                  /\ caller[c] = "returned" /\ answer[c].ok
    BY <1>3 DEF ConfirmDisk, NoBackend, TakeAnswer, Places, Ended
  <2>3. place[c] \in {"read", "open", "asking"}
    BY <1>3 DEF ConfirmDisk, NoBackend, TakeAnswer
  <2>4. SessionHas(c)'
    BY <1>0, <1>1, <1>2, <2>1, <2>2, <2>3
       DEF SessionHas, UpToDate, Opened, Running, Asked, Answered, Passed
  <2> QED BY <1>1, <2>1, <2>2, <2>4, SessionMoves
<1>4. CASE VerifyTarget(c)
  <2>1. UNCHANGED <<session, found, contents>> /\ place[c] = "verify"
    BY <1>4 DEF VerifyTarget
  <2>2. PICK p \in Places : /\ place' = [place EXCEPT ![c] = p]
                            /\ \/ p = "fallback"
                               \/ /\ p = "interpret" /\ found[c].text = session[c].text
                                  /\ index[session[c].uri] = session[c].text
    BY <1>4 DEF VerifyTarget, Places, Ended
  <2>3. CASE p = "fallback"
    <3>1. SessionHas(c)'
      BY <1>0, <1>1, <1>2, <2>1, <2>2, <2>3
         DEF SessionHas, Opened, Running, Asked, Answered, Passed
    <3> QED BY <1>1, <2>1, <2>2, <3>1, SessionMoves
  <2>4. CASE p # "fallback"
    <3>1. session[c] \in Requests /\ session[c].uri \in Uris /\ UpToDate(c)
          /\ found[c].uri = session[c].uri /\ found[c].text \in diskSince[c][found[c].uri]
      BY <1>0, <2>1 DEF SessionHas, Opened, Running, Asked, Answered, Passed, Requests
    <3>2. TargetHeld(c)
      BY <2>2, <2>4, <3>1 DEF TargetHeld, UpToDate
    <3>3. TargetHeld(c)' /\ UpToDate(c)'
      BY <1>1, <2>1, <3>1, <3>2 DEF TargetHeld, UpToDate
    <3>4. \A v \in Uris : FileHeld(c, v)'
      BY <1>0, <2>1 DEF SessionHas, FileHeld, Passed
    <3>5. SessionHas(c)'
      BY <1>0, <1>1, <1>2, <2>1, <2>2, <2>4, <3>3, <3>4
         DEF SessionHas, Opened, Running, Asked, Answered, Passed
    <3> QED BY <1>1, <2>1, <2>2, <3>5, SessionMoves
  <2> QED BY <2>3, <2>4
<1>5. CASE Interpreted(c)
  <2>1. UNCHANGED <<session, found, contents>> /\ place[c] = "interpret"
    BY <1>5 DEF Interpreted
  <2>2. PICK p \in Places : place' = [place EXCEPT ![c] = p] /\ p \in {"semantic", "fallback"}
    BY <1>5 DEF Interpreted, Places, Ended
  <2>4. (TargetHeld(c) /\ \A v \in Uris : FileHeld(c, v))'
    <3>1. TargetHeld(c) /\ \A v \in Uris : FileHeld(c, v)
      BY <1>0, <2>1 DEF SessionHas, Passed
    <3> QED BY <1>1, <2>1, <3>1 DEF TargetHeld, FileHeld
  <2>3. SessionHas(c)'
    BY <1>0, <1>1, <1>2, <2>1, <2>2, <2>4
       DEF SessionHas, Opened, Running, Asked, Answered, Passed
  <2> QED BY <1>1, <2>1, <2>2, <2>3, SessionMoves
<1>6. CASE CheckResultFile(c)
  <2>1. UNCHANGED <<session, found>> /\ place[c] = "result"
    BY <1>6 DEF CheckResultFile
  <2>2. found[c] \in Files /\ found[c].text \in diskSince[c][found[c].uri] /\ UpToDate(c)
    BY <1>0, <2>1 DEF SessionHas, Running, Asked, Answered, Passed
  <2>3. CASE index[found[c].uri] \in {None, found[c].text}
    <3>1. /\ place' = [place EXCEPT ![c] = "interpret"] /\ "interpret" \in Places
          /\ contents' = [contents EXCEPT ![c][found[c].uri] = found[c].text]
      BY <1>6, <2>3 DEF CheckResultFile, Accept, Places
    <3>2. found[c].uri \in Uris /\ found[c].text \in Contents
      BY <2>2 DEF Files
    <3>3. ASSUME NEW v \in Uris PROVE FileHeld(c, v)'
      <4>1. contents'[c][v] = IF v = found[c].uri THEN found[c].text ELSE contents[c][v]
        BY <1>0, <3>1, <3>2 DEF SessionTypeOK
      <4>2. CASE v = found[c].uri
        <5>1. index[v] \in indexSince[c][v] /\ index[v] \in {None, found[c].text}
          BY <2>2, <2>3, <4>2 DEF UpToDate
        <5> QED BY <1>1, <2>2, <4>1, <4>2, <5>1 DEF FileHeld
      <4>3. CASE v # found[c].uri
        <5>1. FileHeld(c, v)  BY <1>0, <2>1 DEF SessionHas, Passed
        <5> QED BY <1>1, <4>1, <4>3, <5>1 DEF FileHeld
      <4> QED BY <4>2, <4>3
    <3>4. TargetHeld(c)' /\ UpToDate(c)'
      BY <1>0, <1>1, <2>1, <2>2 DEF SessionHas, TargetHeld, UpToDate, Passed
    <3>5. place'[c] = "interpret"
      BY <1>2, <3>1
    <3>6. SessionHas(c)'
      BY <1>0, <1>1, <2>1, <3>3, <3>4, <3>5
         DEF SessionHas, Opened, Running, Asked, Answered, Passed
    <3> QED BY <1>1, <2>1, <3>1, <3>2, <3>6, SessionMoves
  <2>4. CASE index[found[c].uri] \notin {None, found[c].text}
    <3>1. place' = [place EXCEPT ![c] = "fallback"] /\ "fallback" \in Places
          /\ contents' = contents
      BY <1>6, <2>4 DEF CheckResultFile, Places, Ended
    <3>2. place'[c] = "fallback"
      BY <1>2, <3>1
    <3>3. SessionHas(c)'
      BY <1>0, <1>1, <2>1, <3>1, <3>2
         DEF SessionHas, Opened, Running, Asked, Answered, Passed
    <3> QED BY <1>1, <2>1, <3>1, <3>3, SessionMoves
  <2> QED BY <2>3, <2>4
<1>7. ASSUME NEW op \in Operations, NEW u \in Uris, Open(c, op, u)
      PROVE  IntelligenceInv'
  <2>1. UNCHANGED <<found, contents>> /\ place[c] = "none"
    BY <1>7 DEF Open
  <2>2. \A v \in Uris : contents[c][v] = None
    BY <1>0, <2>1 DEF SessionHas, Passed
  <2>3. CASE index[u] = None
    <3>1. place' = [place EXCEPT ![c] = "refused"] /\ "refused" \in Places /\ session' = session
      BY <1>7, <2>3 DEF Open, Places, Ended
    <3>2. place'[c] = "refused"
      BY <1>2, <3>1
    <3>3. SessionHas(c)'
      BY <1>0, <1>1, <2>1, <2>2, <3>2 DEF SessionHas, Opened, Running, Asked, Answered, Passed
    <3> QED BY <1>1, <2>1, <3>1, <3>3, SessionMoves
  <2>4. CASE index[u] # None
    <3>1. PICK r : r = [op |-> op, uri |-> u, text |-> index[u]]  OBVIOUS
    <3>2. r \in Requests
      BY <1>0, <2>4, <3>1 DEF SessionTypeOK, Contents, Requests
    <3>3. /\ place' = [place EXCEPT ![c] = "read"] /\ "read" \in Places
          /\ session' = [session EXCEPT ![c] = r]
      BY <1>7, <2>4, <3>1 DEF Open, Places
    <3>4. place'[c] = "read" /\ session'[c] = r
      BY <1>0, <1>2, <3>3 DEF SessionTypeOK
    <3>5. SessionHas(c)'
      BY <1>0, <1>1, <2>1, <2>2, <3>2, <3>4 DEF SessionHas, Opened, Running, Asked, Answered, Passed
    <3> QED BY <1>1, <2>1, <3>2, <3>3, <3>5, SessionMoves
  <2> QED BY <2>3, <2>4
<1>8. CASE ReadTarget(c)
  <2>1. /\ UNCHANGED <<session, contents>> /\ place[c] = "answered"
        /\ found' = [found EXCEPT ![c] = [uri |-> session[c].uri, text |-> disk[session[c].uri]]]
        /\ place' = [place EXCEPT ![c] = "verify"] /\ "verify" \in Places
    BY <1>8 DEF ReadTarget, Note, Places
  <2>2. session[c] \in Requests /\ session[c].uri \in Uris /\ UpToDate(c)
    BY <1>0, <2>1 DEF SessionHas, Opened, Running, Asked, Answered, Requests
  <2>3. PICK f \in Files : f = [uri |-> session[c].uri, text |-> disk[session[c].uri]]
    BY <1>0, <2>2 DEF SessionTypeOK, Files
  <2>4. found'[c] = f /\ place'[c] = "verify"
    BY <1>0, <1>2, <2>1, <2>3 DEF SessionTypeOK
  <2>5. f.uri = session[c].uri /\ f.text \in diskSince[c][f.uri]
    BY <2>2, <2>3 DEF UpToDate
  <2>6. UpToDate(c)'
    BY <1>1, <2>2 DEF UpToDate
  <2>7. SessionHas(c)'
    BY <1>0, <1>1, <2>1, <2>4, <2>5, <2>6
       DEF SessionHas, Opened, Running, Asked, Answered, Passed
  <2> QED BY <1>1, <2>1, <2>3, <2>7, SessionMoves
<1>9. ASSUME NEW u \in Uris, ReadResultFile(c, u)
      PROVE  IntelligenceInv'
  <2>1. UNCHANGED <<session, contents>> /\ place[c] = "interpret" /\ contents[c][u] = None
    BY <1>9 DEF ReadResultFile
  <2>2. UpToDate(c) /\ TargetHeld(c) /\ \A v \in Uris : FileHeld(c, v)
    BY <1>0, <2>1 DEF SessionHas, Running, Asked, Answered, Passed
  <2>3. UpToDate(c)' /\ TargetHeld(c)' /\ \A v \in Uris : FileHeld(c, v)'
    BY <1>1, <2>1, <2>2 DEF UpToDate, TargetHeld, FileHeld
  <2>4. CASE disk[u] = None
    <3>1. place' = [place EXCEPT ![c] = "fallback"] /\ "fallback" \in Places /\ found' = found
      BY <1>9, <2>4 DEF ReadResultFile, Places, Ended
    <3>2. place'[c] = "fallback"
      BY <1>2, <3>1
    <3>3. SessionHas(c)'
      BY <1>0, <1>1, <2>1, <3>1, <3>2 DEF SessionHas, Opened, Running, Asked, Answered, Passed
    <3> QED BY <1>1, <2>1, <3>1, <3>3, SessionMoves
  <2>5. CASE disk[u] # None
    <3>1. /\ place' = [place EXCEPT ![c] = "result"] /\ "result" \in Places
          /\ found' = [found EXCEPT ![c] = [uri |-> u, text |-> disk[u]]]
      BY <1>9, <2>5 DEF ReadResultFile, Note, Places
    <3>2. PICK f \in Files : f = [uri |-> u, text |-> disk[u]]
      BY <1>0 DEF SessionTypeOK, Files
    <3>3. found'[c] = f /\ place'[c] = "result"
      BY <1>0, <1>2, <3>1, <3>2 DEF SessionTypeOK
    <3>4. f.text \in diskSince[c][f.uri]
      BY <2>2, <3>2 DEF UpToDate
    <3>5. SessionHas(c)'
      BY <1>0, <1>1, <2>1, <2>3, <3>3, <3>4
         DEF SessionHas, Opened, Running, Asked, Answered, Passed
    <3> QED BY <1>1, <2>1, <3>1, <3>2, <3>5, SessionMoves
  <2> QED BY <2>4, <2>5
<1> QED BY <1>3, <1>4, <1>5, <1>6, <1>7, <1>8, <1>9

(* The histories only grow, and have what the files and the index have.    *)
LEMMA HistoryGrows ==
  ASSUME IntelligenceInv,
         UNCHANGED <<caller, asked, answer, session, place, found, contents>>,
         \A c \in Callers, u \in Uris :
           diskSince[c][u] \subseteq diskSince'[c][u] /\ indexSince[c][u] \subseteq indexSince'[c][u],
         \A c \in Callers : UpToDate(c) /\ caller[c] = "returned" /\ place[c] \notin Ended
                              => UpToDate(c)',
         SessionTypeOK'
  PROVE  IntelligenceInv'
<1>0. SessionTypeOK /\ \A c \in Callers : SessionHas(c)
  BY DEF IntelligenceInv
<1>1. ASSUME NEW c \in Callers PROVE SessionHas(c)'
  <2>1. SessionHas(c) /\ place[c] \in Places /\ (found[c] # None => found[c] \in Files)
    BY <1>0 DEF SessionTypeOK
  <2>2. place[c] \in Running
          => (caller[c] = "returned" /\ answer[c].ok => UpToDate(c)')
    <3>1. place[c] \in Running => place[c] \notin Ended
      BY DEF Running, Asked, Answered, Passed, Ended
    <3> QED BY <2>1, <3>1, Zenon DEF SessionHas
  <2>3. place[c] \in {"verify", "result"} => found[c].text \in diskSince'[c][found[c].uri]
    BY <2>1 DEF SessionHas, Files
  <2>4. place[c] \in Passed => TargetHeld(c)'
    BY <2>1 DEF SessionHas, TargetHeld, Opened, Running, Asked, Answered, Requests
  <2>5. \A v \in Uris : FileHeld(c, v) => FileHeld(c, v)'
    BY DEF FileHeld
  <2> QED BY <2>1, <2>2, <2>3, <2>4, <2>5, Zenon DEF SessionHas
<1> QED BY <1>1 DEF IntelligenceInv

LEMMA ExtendedIs ==
  ASSUME NEW since \in [Callers -> [Uris -> SUBSET Contents]], NEW u \in Uris, NEW t \in Contents,
         NEW c \in Callers, NEW v \in Uris
  PROVE  /\ since[c][v] \subseteq Extended(since, u, t)[c][v]
         /\ caller[c] = "returned" /\ place[c] \notin Ended => t \in Extended(since, u, t)[c][u]
         /\ Extended(since, u, t) \in [Callers -> [Uris -> SUBSET Contents]]
BY DEF Extended

LEMMA FileSteps ==
  ASSUME IntelligenceInv,
         \/ PublishIndex
         \/ \E u \in Uris : ReadChanged(u) \/ \E t \in Contents : Write(u, t)
  PROVE  IntelligenceInv'
<1>0. SessionTypeOK /\ \A c \in Callers : SessionHas(c)
  BY DEF IntelligenceInv
<1>1. UNCHANGED <<caller, asked, answer, session, place, found, contents>>
  BY DEF PublishIndex, ReadChanged, Write, backendVars, sessionVars
<1>2. CASE PublishIndex
  <2>1. PICK u \in Uris, t \in Contents :
          /\ index' = [index EXCEPT ![u] = t] /\ indexSince' = Extended(indexSince, u, t)
          /\ refreshing' = None /\ UNCHANGED <<diskSince, disk, writes>>
    BY <1>0, <1>2 DEF PublishIndex, SessionTypeOK, Files
  <2>2. indexSince \in [Callers -> [Uris -> SUBSET Contents]]
    BY <1>0 DEF SessionTypeOK
  <2>3. SessionTypeOK'
    <3>1. index' \in [Uris -> Contents]
      BY <1>0, <2>1 DEF SessionTypeOK
    <3>2. indexSince' \in [Callers -> [Uris -> SUBSET Contents]]
      BY <2>1, <2>2 DEF Extended
    <3> QED BY <1>0, <1>1, <2>1, <3>1, <3>2, Zenon DEF SessionTypeOK
  <2>4. \A c \in Callers, v \in Uris : indexSince[c][v] \subseteq indexSince'[c][v]
    BY <2>1, <2>2, ExtendedIs
  <2>5. ASSUME NEW c \in Callers, UpToDate(c), caller[c] = "returned", place[c] \notin Ended
        PROVE  UpToDate(c)'
    <3>1. ASSUME NEW v \in Uris PROVE index'[v] \in indexSince'[c][v]
      <4>1. CASE v = u
        BY <1>0, <2>1, <2>2, <2>5, <4>1, ExtendedIs DEF SessionTypeOK
      <4>2. CASE v # u
        BY <1>0, <2>1, <2>4, <2>5, <4>2 DEF SessionTypeOK, UpToDate
      <4> QED BY <4>1, <4>2
    <3> QED BY <2>1, <2>5, <3>1 DEF UpToDate
  <2> QED BY <1>1, <2>1, <2>3, <2>4, <2>5, HistoryGrows
<1>3. ASSUME NEW u \in Uris, NEW t \in Contents, Write(u, t)
      PROVE  IntelligenceInv'
  <2>1. /\ disk' = [disk EXCEPT ![u] = t] /\ diskSince' = Extended(diskSince, u, t)
        /\ writes < MaxWrites /\ writes' = writes + 1
        /\ UNCHANGED <<index, refreshing, indexSince>>
    BY <1>3 DEF Write
  <2>2. diskSince \in [Callers -> [Uris -> SUBSET Contents]]
    BY <1>0 DEF SessionTypeOK
  <2>3. SessionTypeOK'
    <3>1. disk' \in [Uris -> Contents] /\ writes' \in 0..MaxWrites
      BY <1>0, <2>1, SessionAssumption DEF SessionTypeOK
    <3>2. diskSince' \in [Callers -> [Uris -> SUBSET Contents]]
      BY <2>1, <2>2 DEF Extended
    <3> QED BY <1>0, <1>1, <2>1, <3>1, <3>2, Zenon DEF SessionTypeOK
  <2>4. \A c \in Callers, v \in Uris : diskSince[c][v] \subseteq diskSince'[c][v]
    BY <2>1, <2>2, ExtendedIs
  <2>5. ASSUME NEW c \in Callers, UpToDate(c), caller[c] = "returned", place[c] \notin Ended
        PROVE  UpToDate(c)'
    <3>1. ASSUME NEW v \in Uris PROVE disk'[v] \in diskSince'[c][v]
      <4>1. CASE v = u
        BY <1>0, <2>1, <2>2, <2>5, <4>1, ExtendedIs DEF SessionTypeOK
      <4>2. CASE v # u
        BY <1>0, <2>1, <2>4, <2>5, <4>2 DEF SessionTypeOK, UpToDate
      <4> QED BY <4>1, <4>2
    <3> QED BY <2>1, <2>5, <3>1 DEF UpToDate
  <2> QED BY <1>1, <2>1, <2>3, <2>4, <2>5, HistoryGrows
<1>4. ASSUME NEW u \in Uris, ReadChanged(u)
      PROVE  IntelligenceInv'
  <2>1. /\ refreshing' = [uri |-> u, text |-> disk[u]]
        /\ UNCHANGED <<disk, index, writes, diskSince, indexSince>>
    BY <1>4 DEF ReadChanged, historyVars
  <2>2. refreshing' \in Files
    BY <1>0, <2>1 DEF SessionTypeOK, Files
  <2>3. SessionTypeOK'
    BY <1>0, <1>1, <2>1, <2>2, Zenon DEF SessionTypeOK
  <2>4. \A c \in Callers : SessionHas(c)'
    BY <1>0, <1>1, <2>1, OthersKeep
  <2> QED BY <2>3, <2>4 DEF IntelligenceInv
<1> QED BY <1>2, <1>3, <1>4

LEMMA NextIntelligence ==
  ASSUME IntelligenceInv, [SessionNext]_intelligenceVars
  PROVE  IntelligenceInv'
<1>1. CASE UNCHANGED intelligenceVars
  <2>1. UNCHANGED <<caller, asked, answer, session, place, found, contents, diskSince,
                    indexSince, disk, index, refreshing, writes>>
    BY <1>1 DEF intelligenceVars, backendVars, sessionVars, historyVars, fileVars
  <2>2. SessionTypeOK /\ \A c \in Callers : SessionHas(c)
    BY DEF IntelligenceInv
  <2>3. SessionTypeOK'  BY <2>1, <2>2, Zenon DEF SessionTypeOK
  <2>4. \A c \in Callers : SessionHas(c)'  BY <2>1, <2>2, OthersKeep
  <2> QED BY <2>3, <2>4 DEF IntelligenceInv
<1>2. CASE SessionNext
  BY <1>2, BackendStep, AskStep, SessionSteps, FileSteps DEF SessionNext, SessionStep
<1> QED BY <1>1, <1>2

(* What a semantic answer rests on, the target and every other file it     *)
(* points into, has held on disk and in the index after the backend gave   *)
(* it, whatever is written and reconciled meanwhile                        *)
(* (src/intelligence/session.rs verify_after_request, read_current).       *)
THEOREM NoStaleAnswer == SessionSpec => []SessionInv
<1>1. ASSUME IntelligenceInv PROVE SessionInv
  <2>1. SessionTypeOK /\ \A c \in Callers : SessionHas(c)
    BY <1>1 DEF IntelligenceInv
  <2>2. ASSUME NEW c \in Callers, place[c] \in Passed
        PROVE  /\ session[c].op = "position" => answer[c].text = session[c].text
               /\ TargetHeld(c) /\ \A v \in Uris : FileHeld(c, v)
    <3>1. /\ asked[c] = session[c] /\ answer[c] \in Proper(asked[c]) /\ answer[c].ok
          /\ TargetHeld(c) /\ \A v \in Uris : FileHeld(c, v)
      BY <2>1, <2>2 DEF SessionHas, Asked, Answered
    <3> QED BY <2>2, <3>1 DEF Proper, Failure, Success
  <2>3. SemanticCurrent
    BY <2>2 DEF SemanticCurrent, TargetHeld, FileHeld, Passed
  <2> QED BY <2>1, <2>3 DEF SessionInv
<1> QED BY <1>1, InitIntelligence, NextIntelligence, PTL DEF SessionSpec

-----------------------------------------------------------------------------
(* Edit plans. *)

(* Texts that may be put together.                                         *)
Closed(T) == /\ T \subseteq Seq(Characters) /\ <<>> \in T
             /\ \A s, t \in T : s \o t \in T

(* The sequences over some characters may.                                 *)
LEMMA SequencesClosed ==
  ASSUME NEW S \in SUBSET Characters
  PROVE  Closed(Seq(S))
<1>1. Seq(S) \subseteq Seq(Characters) /\ <<>> \in Seq(S)  OBVIOUS
<1>2. ASSUME NEW s \in Seq(S), NEW t \in Seq(S) PROVE s \o t \in Seq(S)  OBVIOUS
<1> QED  BY <1>1, <1>2 DEF Closed

(* What a text is normalized to, character by character.                   *)
LEMMA NormalizedIn ==
  ASSUME NEW content, NEW text \in Seq(Characters), NEW T, Closed(T),
         LineEndingLabel(content) \in {"crlf", "lf"},
         (IF LineEndingLabel(content) = "crlf" THEN <<"r", "n">> ELSE <<"n">>) \in T,
         \A i \in 1..Len(text) : text[i] \notin {"r", "n"} => <<text[i]>> \in T
  PROVE  Normalized(content, text) \in T
<1> DEFINE label == LineEndingLabel(content)
           ending == IF label = "crlf" THEN <<"r", "n">> ELSE <<"n">>
           Piece(i) == IF text[i] \notin {"r", "n"} THEN <<text[i]>>
                       ELSE IF text[i] = "n" /\ i > 1 /\ text[i - 1] = "r" THEN <<>>
                       ELSE ending
           pieces == [i \in 1..Len(text) |-> Piece(i)]
<1>1. \A i \in 1..Len(text) : Piece(i) \in T  BY DEF Closed
<1>2. Len(text) \in Nat  OBVIOUS
<1>3. pieces \in Seq(T)
  <2> HIDE DEF Piece
  <2> QED  BY <1>1, <1>2
<1>4. Normalized(content, text) = FlattenSeq(pieces)  BY Zenon DEF Normalized
<1> HIDE DEF pieces
<1>5. FlattenSeq(pieces) \in T  BY <1>3, FlattenIn DEF Closed
<1> QED  BY <1>4, <1>5

(* It is a text.                                                           *)
LEMMA NormalizedType ==
  ASSUME NEW content, NEW text \in Seq(Characters)
  PROVE  Normalized(content, text) \in Seq(Characters)
<1>1. CASE LineEndingLabel(content) \in {"crlf", "lf"}
  <2>1. Closed(Seq(Characters))  BY SequencesClosed
  <2>2. <<"r", "n">> \in Seq(Characters) /\ <<"n">> \in Seq(Characters)  BY DEF Characters
  <2>3. \A i \in 1..Len(text) : <<text[i]>> \in Seq(Characters)  OBVIOUS
  <2> QED  BY <1>1, <2>1, <2>2, <2>3, NormalizedIn
<1>2. CASE LineEndingLabel(content) \notin {"crlf", "lf"}
  <2>1. Normalized(content, text) = text  BY <1>2, Zenon DEF Normalized
  <2> QED  BY <2>1
<1> QED  BY <1>1, <1>2

(* A line begins at the beginning, after a line end or at the end.         *)
LEMMA LineOffsetAt ==
  ASSUME NEW text \in Seq(Characters), NEW line
  PROVE  /\ LineOffset(text, line) \in 0..Len(text)
         /\ LineOffset(text, line) \notin {0, Len(text)} => text[LineOffset(text, line)] = "n"
<1> DEFINE ends == {i \in 1..Len(text) : text[i] = "n"}
           at == {i \in ends : Cardinality({j \in ends : j <= i}) = line - 1}
           first == CHOOSE i \in at : TRUE
<1>1. LineOffset(text, line) = IF line <= 1 THEN 0 ELSE IF at = {} THEN Len(text) ELSE first
  BY Zenon DEF LineOffset
<1>2. at # {} => first \in at  BY Zenon
<1>3. \A i \in at : i \in 0..Len(text) /\ text[i] = "n"  OBVIOUS
<1> HIDE DEF first, at
<1>4. 0 \in 0..Len(text) /\ Len(text) \in 0..Len(text)  OBVIOUS
<1> QED  BY <1>1, <1>2, <1>3, <1>4

-----------------------------------------------------------------------------
(* Matches of a text. *)

Matches(text, old, i) ==
  /\ i \in 1..Len(text) + 1 /\ i + Len(old) <= Len(text) + 1
  /\ SubSeq(text, i, i + Len(old) - 1) = old

MatchStep(text, old, f, i) ==
  IF i + Len(old) > Len(text) + 1 THEN <<>>
  ELSE IF SubSeq(text, i, i + Len(old) - 1) = old THEN <<i>> \o f[i + Most(1, Len(old))]
  ELSE f[i + 1]

Points(text, old) == 1..Len(text) + Len(old) + 2

(* match_indices, from each place on.                                      *)
LEMMA MatchDef ==
  ASSUME NEW text \in Seq(Characters), NEW old \in Seq(Characters)
  PROVE  \E f \in [Points(text, old) -> Seq(Nat)] :
           /\ MatchIndices(text, old) = f[1]
           /\ \A i \in Points(text, old) : f[i] = MatchStep(text, old, f, i)
<1> DEFINE n == Len(text)
           m == Len(old)
           D == 1..n + m + 2
           S == Seq(Nat)
           Sat(f) == f = [i \in D |-> MatchStep(text, old, f, i)]
           rank == [i \in D |-> n + m + 2 - i]
           body == [fi \in [D -> S] \X D |-> MatchStep(text, old, fi[1], fi[2])]
           u == CHOOSE f : Sat(f)
<1>1. n \in Nat /\ m \in Nat  OBVIOUS
<1>2. rank \in [D -> 0..n + m + 2] /\ n + m + 2 \in Nat  BY <1>1
<1>3. \A i \in D : ~ (i + m > n + 1) =>
        /\ i + Most(1, m) \in D /\ i + 1 \in D
        /\ rank[i + Most(1, m)] < rank[i] /\ rank[i + 1] < rank[i]
  <2> SUFFICES ASSUME NEW i \in D, ~ (i + m > n + 1)
               PROVE  /\ i + Most(1, m) \in D /\ i + 1 \in D
                      /\ rank[i + Most(1, m)] < rank[i] /\ rank[i + 1] < rank[i]
    OBVIOUS
  <2>1. PICK k : k = Most(1, m)  OBVIOUS
  <2>2. k \in Nat /\ 1 <= k /\ k <= m + 1  BY <1>1, <2>1 DEF Most
  <2>3. i + k \in D /\ i + 1 \in D  BY <1>1, <2>2
  <2>4. n + m + 2 - (i + k) < n + m + 2 - i /\ n + m + 2 - (i + 1) < n + m + 2 - i
    BY <1>1, <2>2
  <2> QED  BY <2>1, <2>3, <2>4
<1>4. \A f \in [D -> S], i \in D : body[<<f, i>>] = MatchStep(text, old, f, i)  OBVIOUS
<1>5. ASSUME NEW f, NEW i \in D, \A j \in D : rank[j] < rank[i] => f[j] \in S
      PROVE  MatchStep(text, old, f, i) \in S
  <2>1. CASE i + m > n + 1  BY <2>1 DEF MatchStep
  <2>2. CASE ~ (i + m > n + 1)
    <3>1. f[i + Most(1, m)] \in S /\ f[i + 1] \in S  BY <1>3, <1>5, <2>2
    <3>2. <<i>> \o f[i + Most(1, m)] \in S
      <4>1. <<i>> \in S  BY <1>1
      <4> QED  BY <3>1, <4>1
    <3> QED  BY <2>2, <3>1, <3>2 DEF MatchStep
  <2> QED  BY <2>1, <2>2
<1>6. body \in [[D -> S] \X D -> S]
  <2>1. ASSUME NEW f \in [D -> S], NEW i \in D PROVE MatchStep(text, old, f, i) \in S
    BY <1>5
  <2> QED  BY <2>1
<1> HIDE DEF rank, body, S
<1>7. ASSUME NEW f, NEW g, NEW i \in D, \A j \in D : rank[j] < rank[i] => f[j] = g[j]
      PROVE  MatchStep(text, old, f, i) = MatchStep(text, old, g, i)
  <2>1. CASE i + m > n + 1  BY <2>1 DEF MatchStep
  <2>2. CASE ~ (i + m > n + 1)
    <3>1. f[i + Most(1, m)] = g[i + Most(1, m)] /\ f[i + 1] = g[i + 1]
      BY <1>3, <1>7, <2>2
    <3> QED  BY <2>2, <3>1, Zenon DEF MatchStep
  <2> QED  BY <2>1, <2>2
<1>8. PICK f \in [D -> S] : \A i \in D : f[i] = body[<<f, i>>]
  <2>1. \A g, h \in [D -> S] : \A i \in D :
          (\A j \in D : rank[j] < rank[i] => g[j] = h[j]) => body[<<g, i>>] = body[<<h, i>>]
    <3> SUFFICES ASSUME NEW g \in [D -> S], NEW h \in [D -> S], NEW i \in D,
                        \A j \in D : rank[j] < rank[i] => g[j] = h[j]
                 PROVE  body[<<g, i>>] = body[<<h, i>>]
      OBVIOUS
    <3>1. MatchStep(text, old, g, i) = MatchStep(text, old, h, i)  BY <1>7
    <3> QED  BY <1>4, <3>1
  <2>2. S # {}
    <3>1. <<>> \in Seq(Nat)  OBVIOUS
    <3> QED  BY <3>1 DEF S
  <2>3. PICK b : b = n + m + 2  OBVIOUS
  <2> HIDE DEF D, n, m
  <2>4. Recursion(D, S, b, rank, body)  BY <1>2, <1>6, <2>1, <2>2, <2>3, Zenon DEF Recursion
  <2> QED  BY <2>4, RankedRecursion
<1>9. Sat(f)  BY <1>4, <1>8
<1>10. MatchIndices(text, old) = u[1]  BY Zenon DEF MatchIndices, MatchStep
<1>11. Sat(u)
  <2> HIDE DEF Sat
  <2> QED  BY <1>9
<1>12. u = [i \in D |-> MatchStep(text, old, u, i)]  BY <1>11
<1> HIDE DEF u, Sat
<1>13. \A i \in D : u[i] = MatchStep(text, old, u, i)  BY <1>12
<1> DEFINE T == {i \in D : u[i] \in S}
<1>14. ASSUME NEW i \in D, \A j \in D : i < j => j \in T PROVE i \in T
  <2>1. \A j \in D : rank[j] < rank[i] => i < j  BY <1>1 DEF rank
  <2>2. MatchStep(text, old, u, i) \in S
    <3>1. \A j \in D : rank[j] < rank[i] => u[j] \in S  BY <1>14, <2>1
    <3> QED  BY <1>5, <3>1
  <2> QED  BY <1>13, <2>2
<1>15. \A i \in D : i \in T
  <2> HIDE DEF T
  <2>1. PICK b \in Nat : b = n + m + 2  BY <1>2
  <2> HIDE DEF n, m
  <2> QED  BY <1>14, <2>1, DownwardInduction
<1>16. u \in [D -> S]  BY <1>12, <1>15
<1>17. D = Points(text, old)  BY DEF Points
<1> QED  BY <1>10, <1>13, <1>16, <1>17 DEF S

(* Points where old matches, from i on and without overlap.                *)
Found(text, old, i, s) ==
  /\ s \in Seq(Nat)
  /\ \A k \in 1..Len(s) : i <= s[k] /\ Matches(text, old, s[k])
  /\ \A k \in 1..Len(s) : k # 1 => s[k - 1] + Len(old) <= s[k]

(* match_indices finds such places.                                        *)
LEMMA MatchesFound ==
  ASSUME NEW text \in Seq(Characters), NEW old \in Seq(Characters)
  PROVE  Found(text, old, 1, MatchIndices(text, old))
<1>1. PICK n \in Nat, m \in Nat : n = Len(text) /\ m = Len(old)  OBVIOUS
<1>2. PICK f \in [Points(text, old) -> Seq(Nat)] :
        /\ MatchIndices(text, old) = f[1]
        /\ \A i \in Points(text, old) : f[i] = MatchStep(text, old, f, i)
  BY MatchDef
<1> DEFINE D == 1..n + m + 2
           T == {i \in D : Found(text, old, i, f[i])}
<1>3. D = Points(text, old)  BY <1>1 DEF Points
<1>4. ASSUME NEW i \in D, \A j \in D : i < j => j \in T PROVE i \in T
  <2>1. CASE i + m > n + 1
    <3>1. f[i] = <<>>  BY <1>1, <1>2, <1>3, <2>1 DEF MatchStep
    <3>2. PICK t : t = <<>>  OBVIOUS
    <3>3. t \in Seq(Nat) /\ 1..Len(t) = {}  BY <3>2
    <3>4. Found(text, old, i, t)  BY <3>3, Zenon DEF Found
    <3> QED  BY <3>1, <3>2, <3>4
  <2>2. CASE ~ (i + m > n + 1) /\ SubSeq(text, i, i + m - 1) = old
    <3>1. PICK k : k = Most(1, m)  OBVIOUS
    <3>2. k \in Nat /\ 1 <= k /\ k <= m + 1 /\ m <= k  BY <3>1 DEF Most
    <3>3. i + k \in D /\ i < i + k  BY <2>2, <3>2
    <3>4. PICK t : t = f[i + k]  OBVIOUS
    <3>5. Found(text, old, i + k, t)  BY <1>4, <3>3, <3>4
    <3>6. f[i] = <<i>> \o t  BY <1>1, <1>2, <1>3, <2>2, <3>1, <3>4 DEF MatchStep
    <3>7. t \in Seq(Nat) /\ <<i>> \in Seq(Nat) /\ i \in Nat  BY <3>5 DEF Found
    <3>8. PICK s : s = <<i>> \o t  OBVIOUS
    <3>9. /\ s \in Seq(Nat) /\ Len(s) = Len(t) + 1 /\ Len(t) \in Nat
          /\ \A q \in 1..Len(s) : s[q] = IF q = 1 THEN i ELSE t[q - 1]
      BY <3>7, <3>8
    <3>10. Matches(text, old, i)  BY <1>1, <2>2 DEF Matches
    <3>11. ASSUME NEW q \in 1..Len(s) PROVE i <= s[q] /\ Matches(text, old, s[q])
      <4>1. CASE q = 1  BY <3>9, <3>10, <4>1
      <4>2. CASE q # 1
        <5>1. q - 1 \in 1..Len(t)  BY <3>9, <4>2
        <5>2. i + k <= t[q - 1] /\ Matches(text, old, t[q - 1]) /\ t[q - 1] \in Nat
          BY <3>5, <5>1 DEF Found
        <5>3. i <= t[q - 1]  BY <3>2, <5>2
        <5> QED  BY <3>9, <4>2, <5>2, <5>3
      <4> QED  BY <4>1, <4>2
    <3>12. ASSUME NEW q \in 1..Len(s), q # 1 PROVE s[q - 1] + m <= s[q]
      <4>1. q - 1 \in 1..Len(t) /\ q - 1 \in 1..Len(s)  BY <3>9, <3>12
      <4>2. s[q] = t[q - 1]  BY <3>9, <3>12
      <4>3. CASE q - 1 = 1
        <5>1. s[q - 1] = i  BY <3>9, <4>1, <4>3
        <5>2. i + k <= t[q - 1] /\ t[q - 1] \in Nat  BY <3>5, <4>1 DEF Found
        <5> QED  BY <3>2, <4>2, <5>1, <5>2
      <4>4. CASE q - 1 # 1
        <5>1. s[q - 1] = t[(q - 1) - 1]  BY <3>9, <4>1, <4>4
        <5>2. t[(q - 1) - 1] + m <= t[q - 1]  BY <1>1, <3>5, <4>1, <4>4 DEF Found
        <5> QED  BY <4>2, <5>1, <5>2
      <4> QED  BY <4>3, <4>4
    <3>13. Found(text, old, i, s)  BY <1>1, <3>9, <3>11, <3>12 DEF Found
    <3> QED  BY <3>6, <3>8, <3>13
  <2>3. CASE ~ (i + m > n + 1) /\ SubSeq(text, i, i + m - 1) # old
    <3>1. i + 1 \in D /\ i < i + 1  BY <2>3
    <3>2. f[i] = f[i + 1]  BY <1>1, <1>2, <1>3, <2>3 DEF MatchStep
    <3>3. Found(text, old, i + 1, f[i + 1])  BY <1>4, <3>1
    <3>4. PICK t : t = f[i + 1]  OBVIOUS
    <3>5. t \in Seq(Nat) /\ \A k \in 1..Len(t) : i + 1 <= t[k] /\ t[k] \in Nat
      BY <3>3, <3>4 DEF Found
    <3>6. \A k \in 1..Len(t) : i <= t[k]  BY <3>5
    <3>7. Found(text, old, i, t)  BY <3>3, <3>4, <3>6 DEF Found
    <3> QED  BY <3>2, <3>4, <3>7
  <2> QED  BY <2>1, <2>2, <2>3
<1>5. \A i \in D : i \in T
  <2> HIDE DEF T
  <2>1. PICK b \in Nat : b = n + m + 2  OBVIOUS
  <2> QED  BY <1>4, <2>1, DownwardInduction
<1>6. 1 \in D  OBVIOUS
<1>7. Found(text, old, 1, f[1])  BY <1>5, <1>6
<1> QED  BY <1>2, <1>7

(* Points where a text may be cut so that the parts are of a kind.         *)
Cuts(text, T, C) ==
  /\ C \subseteq 0..Len(text) /\ 0 \in C /\ Len(text) \in C
  /\ \A a, b \in C : a <= b => SubSeq(text, a + 1, b) \in T

CutAtMatches(text, old, C) ==
  \A i \in 1..Len(text) + 1 : Matches(text, old, i) => {i - 1, i + Len(old) - 1} \subseteq C

(* Replacing whole parts by a text of the same kind.                       *)
LEMMA ReplacedIn ==
  ASSUME NEW text \in Seq(Characters), NEW old \in Seq(Characters), NEW new,
         NEW T, Closed(T), NEW C, Cuts(text, T, C), CutAtMatches(text, old, C),
         MatchIndices(text, old) # <<>> => new \in T
  PROVE  Replaced(text, old, new) \in T
<1>1. PICK spots : spots = MatchIndices(text, old)  OBVIOUS
<1>2. Found(text, old, 1, spots)  BY <1>1, MatchesFound
<1>3. PICK n \in Nat, m \in Nat : n = Len(spots) /\ m = Len(old)  BY <1>2 DEF Found
<1> DEFINE EndOfMatch(k) == IF k = 0 THEN 0 ELSE spots[k] + Len(old) - 1
           Piece(k) == SubSeq(text, EndOfMatch(k - 1) + 1, spots[k] - 1)
           Sat(f) == f = [k \in 0..n |->
                           IF k = 0 THEN <<>> ELSE f[k - 1] \o Piece(k) \o new]
           step == [sk \in T \X (1..n) |-> sk[1] \o Piece(sk[2]) \o new]
           u == CHOOSE f : Sat(f)
<1>4. Replaced(text, old, new) = u[n] \o SubSeq(text, EndOfMatch(n) + 1, Len(text))
  BY <1>1, <1>3, Zenon DEF Replaced
<1>5. \A k \in 1..n : /\ spots[k] \in Nat /\ spots[k] - 1 \in C
                      /\ spots[k] + Len(old) - 1 \in C
  <2> SUFFICES ASSUME NEW k \in 1..n
               PROVE  /\ spots[k] \in Nat /\ spots[k] - 1 \in C
                      /\ spots[k] + Len(old) - 1 \in C
    OBVIOUS
  <2>1. spots[k] \in Nat /\ Matches(text, old, spots[k])  BY <1>2, <1>3 DEF Found
  <2>2. spots[k] \in 1..Len(text) + 1  BY <2>1 DEF Matches
  <2> QED  BY <2>1, <2>2 DEF CutAtMatches
<1>6. \A k \in 0..n : EndOfMatch(k) \in C  BY <1>5 DEF Cuts
<1>7. ASSUME NEW k \in 1..n PROVE Piece(k) \in T
  <2>1. k - 1 \in 0..n  OBVIOUS
  <2>2. PICK a, b : a = EndOfMatch(k - 1) /\ b = spots[k] - 1  OBVIOUS
  <2>3. a \in C /\ b \in C  BY <1>5, <1>6, <2>1, <2>2
  <2>4. a <= b
    <3>1. b \in Nat  BY <2>3 DEF Cuts
    <3>2. CASE k - 1 = 0  BY <2>2, <3>1, <3>2
    <3>3. CASE k - 1 # 0
      <4>1. spots[k - 1] + m <= spots[k]  BY <1>2, <1>3, <3>3 DEF Found
      <4>2. spots[k - 1] \in Nat /\ spots[k] \in Nat  BY <1>5, <3>3
      <4>3. a = spots[k - 1] + m - 1  BY <1>3, <2>2, <3>3
      <4>4. PICK last \in Nat, here \in Nat : last = spots[k - 1] /\ here = spots[k]  BY <4>2
      <4>5. last + m <= here /\ a = last + m - 1 /\ b = here - 1  BY <2>2, <4>1, <4>3, <4>4, Zenon
      <4> QED  BY <1>3, <4>5
    <3> QED  BY <3>2, <3>3
  <2>5. SubSeq(text, a + 1, b) \in T  BY <2>3, <2>4 DEF Cuts
  <2> QED  BY <2>2, <2>5
<1>8. SubSeq(text, EndOfMatch(n) + 1, Len(text)) \in T
  <2>1. PICK a : a = EndOfMatch(n)  OBVIOUS
  <2>2. a \in C /\ Len(text) \in C /\ a <= Len(text)  BY <1>6, <2>1 DEF Cuts
  <2>3. SubSeq(text, a + 1, Len(text)) \in T  BY <2>2 DEF Cuts
  <2> QED  BY <2>1, <2>3
<1> HIDE DEF Piece
<1>9. ASSUME NEW s \in T, NEW k \in 1..n PROVE s \o Piece(k) \o new \in T
  <2>1. spots # <<>>  BY <1>3
  <2>2. new \in T /\ Piece(k) \in T  BY <1>1, <1>7, <2>1
  <2>3. s \o Piece(k) \in T  BY <2>2, Zenon DEF Closed
  <2> QED  BY <2>2, <2>3, Zenon DEF Closed
<1>10. step \in [T \X (1..n) -> T]  BY <1>9
<1>11. \A s \in T, k \in 1..n : step[<<s, k>>] = s \o Piece(k) \o new  OBVIOUS
<1>12. PICK e : e = <<>>  OBVIOUS
<1>13. e \in T  BY <1>12 DEF Closed
<1> HIDE DEF step
<1>14. PICK f \in [0..n -> T] : Steps(n, e, step, f)  BY <1>10, <1>13, StepRecursion
<1>15. Sat(f)
  <2>1. \A k \in 0..n : k # 0 => k - 1 \in 0..n /\ k \in 1..n  OBVIOUS
  <2>2. \A k \in 0..n : f[k] = IF k = 0 THEN <<>> ELSE f[k - 1] \o Piece(k) \o new
    <3> SUFFICES ASSUME NEW k \in 0..n
                 PROVE  f[k] = IF k = 0 THEN <<>> ELSE f[k - 1] \o Piece(k) \o new
      OBVIOUS
    <3>1. CASE k = 0  BY <1>12, <1>14, <3>1 DEF Steps
    <3>2. CASE k # 0
      <4>1. f[k] = step[<<f[k - 1], k>>]  BY <1>14, <2>1, <3>2 DEF Steps
      <4>2. f[k - 1] \in T /\ k \in 1..n  BY <2>1, <3>2
      <4>3. step[<<f[k - 1], k>>] = f[k - 1] \o Piece(k) \o new  BY <1>11, <4>2
      <4> QED  BY <3>2, <4>1, <4>3
    <3> QED  BY <3>1, <3>2
  <2> QED  BY <2>2
<1>16. Sat(u)
  <2> HIDE DEF Sat
  <2> QED  BY <1>15
<1>17. \A k \in 0..n : u[k] = IF k = 0 THEN <<>> ELSE u[k - 1] \o Piece(k) \o new
  BY <1>16
<1> HIDE DEF u, Sat
<1> DEFINE N == {k \in Nat : k \in 0..n => u[k] \in T}
<1>18. 0 \in N
  <2>1. 0 \in 0..n  OBVIOUS
  <2>2. u[0] = <<>>  BY <1>17, <2>1
  <2> QED  BY <1>12, <1>13, <2>2
<1>19. ASSUME NEW k \in Nat, k \in N PROVE k + 1 \in N
  <2> SUFFICES ASSUME k + 1 \in 0..n PROVE u[k + 1] \in T  OBVIOUS
  <2>1. k \in 0..n /\ k + 1 \in 1..n /\ (k + 1) - 1 = k /\ k + 1 # 0  OBVIOUS
  <2>2. u[k] \in T  BY <1>19, <2>1
  <2>3. u[k + 1] = u[k] \o Piece(k + 1) \o new  BY <1>17, <2>1
  <2> QED  BY <1>9, <2>1, <2>2, <2>3
<1>20. \A k \in Nat : k \in N
  <2> HIDE DEF N
  <2> QED  BY <1>18, <1>19, NumberInduction
<1>21. u[n] \in T  BY <1>20
<1>22. PICK r : r = SubSeq(text, EndOfMatch(n) + 1, Len(text))  OBVIOUS
<1>23. u[n] \o r \in T  BY <1>8, <1>21, <1>22, Zenon DEF Closed
<1> QED  BY <1>4, <1>22, <1>23

-----------------------------------------------------------------------------
(* Changes of a text. *)

(* Cutting anywhere gives sequences over the same characters.              *)
LEMMA CutAnywhere ==
  ASSUME NEW S \in SUBSET Characters, NEW text \in Seq(S), NEW old \in Seq(Characters)
  PROVE  Cuts(text, Seq(S), 0..Len(text)) /\ CutAtMatches(text, old, 0..Len(text))
<1>1. PICK n \in Nat, m \in Nat : n = Len(text) /\ m = Len(old)  OBVIOUS
<1>2. ASSUME NEW a \in 0..n, NEW b \in 0..n, a <= b PROVE SubSeq(text, a + 1, b) \in Seq(S)
  <2>1. a + 1 \in 1..n + 1 /\ b \in (a + 1) - 1..n  BY <1>2
  <2> QED  BY <1>1, <2>1, PartOf
<1>3. Cuts(text, Seq(S), 0..Len(text))  BY <1>1, <1>2 DEF Cuts
<1>4. ASSUME NEW i \in 1..n + 1, Matches(text, old, i) PROVE {i - 1, i + m - 1} \subseteq 0..n
  <2>1. i + m <= n + 1  BY <1>1, <1>4 DEF Matches
  <2> QED  BY <2>1
<1>5. CutAtMatches(text, old, 0..Len(text))  BY <1>1, <1>4 DEF CutAtMatches
<1> QED  BY <1>3, <1>5

(* Putting a text of the same kind where a text may be cut.                *)
LEMMA SplicedIn ==
  ASSUME NEW text, NEW T, Closed(T), NEW C, Cuts(text, T, C), Len(text) \in Nat,
         NEW from \in C, NEW to \in C, NEW new \in T
  PROVE  Spliced(text, from, to, new) \in T
<1>1. PICK n \in Nat : n = Len(text)  OBVIOUS
<1>2. from \in 0..n /\ to \in 0..n /\ 0 \in C /\ n \in C  BY <1>1 DEF Cuts
<1>3. PICK h, t : h = SubSeq(text, 1, from) /\ t = SubSeq(text, to + 1, Len(text))  OBVIOUS
<1>4. h \in T
  <2>1. 0 <= from  BY <1>2
  <2>2. SubSeq(text, 0 + 1, from) \in T  BY <1>2, <2>1 DEF Cuts
  <2> QED  BY <1>3, <2>2
<1>5. t \in T
  <2>1. to <= n  BY <1>2
  <2>2. SubSeq(text, to + 1, n) \in T  BY <1>2, <2>1 DEF Cuts
  <2> QED  BY <1>1, <1>3, <2>2
<1>6. h \o new \in T  BY <1>4, Zenon DEF Closed
<1>7. h \o new \o t \in T  BY <1>5, <1>6, Zenon DEF Closed
<1> QED  BY <1>3, <1>7 DEF Spliced

(* The end of a line is kept of the same kind.                             *)
LEMMA PreserveIn ==
  ASSUME NEW selected, NEW T, Closed(T), NEW new \in T,
         EndsWith(selected, <<"r", "n">>) => <<"r", "n">> \in T,
         EndsWith(selected, <<"n">>) /\ ~EndsWith(selected, <<"r", "n">>) => <<"n">> \in T
  PROVE  PreserveTerminal(selected, new) \in T
<1>1. CASE new = <<>> \/ EndsWith(new, <<"n">>) \/ ~EndsWith(selected, <<"n">>)
  BY <1>1, Zenon DEF PreserveTerminal
<1>2. CASE ~ (new = <<>> \/ EndsWith(new, <<"n">>) \/ ~EndsWith(selected, <<"n">>))
  <2>1. PICK end : end = IF EndsWith(selected, <<"r", "n">>) THEN <<"r", "n">> ELSE <<"n">>
    OBVIOUS
  <2>2. end \in T  BY <1>2, <2>1
  <2>3. new \o end \in T  BY <2>2, Zenon DEF Closed
  <2> QED  BY <1>2, <2>1, <2>3, Zenon DEF PreserveTerminal
<1> QED  BY <1>1, <1>2

(* The text to look for is the client's, or that normalized.               *)
LEMMA MatchingOldType ==
  ASSUME NEW content, NEW selected, NEW old \in Seq(Characters), NEW count
  PROVE  MatchingOld(content, selected, old, count) \in {old, Normalized(content, old)}
BY Zenon DEF MatchingOld

(* Where a change may touch a text.                                        *)
LEMMA ScopeIn ==
  ASSUME NEW c, NEW text \in Seq(Characters)
  PROVE  /\ Scope(c, text).from \in 0..Len(text) /\ Scope(c, text).to \in 0..Len(text)
         /\ \A p \in {Scope(c, text).from, Scope(c, text).to} :
              p \in {0, Len(text)} \/ text[p] = "n"
<1>1. CASE c.handle = Absent
  <2>1. Scope(c, text).from = 0 /\ Scope(c, text).to = Len(text)  BY <1>1 DEF Scope
  <2> QED  BY <2>1
<1>2. CASE c.handle # Absent
  <2>1. /\ Scope(c, text).from = LineOffset(text, c.handle.first)
        /\ Scope(c, text).to = LineOffset(text, c.handle.last + 1)
    BY <1>2 DEF Scope, LineRange
  <2> QED  BY <2>1, LineOffsetAt
<1> QED  BY <1>1, <1>2

(* Any part of a sequence, the empty one where it ends before it begins.   *)
LEMMA AnyPart ==
  ASSUME NEW S, NEW text \in Seq(S), NEW a \in 0..Len(text), NEW b \in 0..Len(text)
  PROVE  SubSeq(text, a + 1, b) \in Seq(S)
<1>1. CASE a <= b
  <2>1. a + 1 \in 1..Len(text) + 1 /\ b \in (a + 1) - 1..Len(text)  BY <1>1
  <2> QED  BY <2>1, PartOf
<1>2. CASE ~ (a <= b)
  <2>1. a + 1 > b  BY <1>2
  <2> QED  BY <2>1
<1> QED  BY <1>1, <1>2

(* What a text ends with is over its characters.                           *)
LEMMA EndIn ==
  ASSUME NEW S, NEW text \in Seq(S), NEW end, Len(end) \in Nat, EndsWith(text, end)
  PROVE  end \in Seq(S)
<1>1. PICK n \in Nat, m \in Nat : n = Len(text) /\ m = Len(end)  OBVIOUS
<1>2. m <= n /\ SubSeq(text, n - m + 1, n) = end  BY <1>1 DEF EndsWith
<1>3. n - m \in 0..n /\ n \in 0..n  BY <1>2
<1> QED  BY <1>1, <1>2, <1>3, AnyPart

(* What is spots is there.                                                 *)
LEMMA SomeMatch ==
  ASSUME NEW text \in Seq(Characters), NEW old \in Seq(Characters),
         MatchIndices(text, old) # <<>>
  PROVE  \E i \in 1..Len(text) + 1 : Matches(text, old, i)
<1>1. PICK spots : spots = MatchIndices(text, old)  OBVIOUS
<1>2. Found(text, old, 1, spots) /\ spots \in Seq(Nat)  BY <1>1, MatchesFound DEF Found
<1>3. 1 \in 1..Len(spots)  BY <1>1, <1>2
<1>4. Matches(text, old, spots[1])  BY <1>2, <1>3 DEF Found
<1> QED  BY <1>4 DEF Matches

(* Changing a text gives one over the same characters, if the client's     *)
(* text is over them once it is normalized.                                *)
LEMMA ChangedSequences ==
  ASSUME NEW S \in SUBSET Characters, NEW text \in Seq(S), NEW c \in ChangeRecords,
         Normalized(text, c.new) \in Seq(S)
  PROVE  {ReplaceIn(c, text), ReplaceRangeIn(c, text), InsertIn(c, text)} \subseteq Seq(S)
<1> DEFINE T == Seq(S)
<1>1. Closed(T)  BY SequencesClosed
<1>2. text \in Seq(Characters) /\ Len(text) \in Nat  OBVIOUS
<1>3. c.old \in Seq(Characters)  BY DEF ChangeRecords
<1>4. Cuts(text, T, 0..Len(text))  BY <1>3, CutAnywhere
<1>5. PICK from, to : from = Scope(c, text).from /\ to = Scope(c, text).to  OBVIOUS
<1>6. from \in 0..Len(text) /\ to \in 0..Len(text)  BY <1>2, <1>5, ScopeIn
<1>7. PICK selected : selected = Selected(c, text)  OBVIOUS
<1>8. selected \in T
  <2>1. selected = SubSeq(text, from + 1, to)  BY <1>5, <1>7 DEF Selected
  <2> QED  BY <1>6, <2>1, AnyPart
<1>9. PICK norm : norm = Normalized(text, c.new)  OBVIOUS
<1>10. norm \in T /\ Len(<<"n">>) = 1 /\ Len(<<"r", "n">>) = 2 /\ 1 \in Nat /\ 2 \in Nat
  BY <1>9
<1>11. ASSUME NEW old \in T PROVE PreserveTerminal(old, norm) \in T
  <2>1. EndsWith(old, <<"r", "n">>) => <<"r", "n">> \in T  BY <1>10, EndIn
  <2>2. EndsWith(old, <<"n">>) => <<"n">> \in T  BY <1>10, EndIn
  <2> HIDE DEF T
  <2> QED  BY <1>1, <1>10, <2>1, <2>2, PreserveIn
<1>12. ReplaceRangeIn(c, text) \in T
  <2>1. PICK new : new = PreserveTerminal(selected, norm)  OBVIOUS
  <2>2. new \in T  BY <1>8, <1>11, <2>1
  <2>3. ReplaceRangeIn(c, text) = Spliced(text, from, to, new)
    BY <1>5, <1>7, <1>9, <2>1, Zenon DEF ReplaceRangeIn
  <2> HIDE DEF T
  <2>4. Spliced(text, from, to, new) \in T  BY <1>1, <1>2, <1>4, <1>6, <2>2, SplicedIn
  <2> QED  BY <2>3, <2>4
<1>13. ReplaceIn(c, text) \in T
  <2>1. PICK old : old = MatchingOld(text, selected, c.old, c.count)  OBVIOUS
  <2>2. old \in Seq(Characters)  BY <1>2, <1>3, <2>1, MatchingOldType, NormalizedType
  <2>3. PICK new : new = PreserveTerminal(old, norm)  OBVIOUS
  <2>4. ASSUME MatchIndices(selected, old) # <<>> PROVE new \in T
    <3>1. selected \in Seq(Characters)  BY <1>8
    <3>2. PICK i \in 1..Len(selected) + 1 : Matches(selected, old, i)
      BY <2>2, <2>4, <3>1, SomeMatch
    <3>3. i - 1 \in 0..Len(selected) /\ i + Len(old) - 1 \in 0..Len(selected)
          /\ (i - 1) + 1 = i
      BY <2>2, <1>8, <3>2 DEF Matches
    <3>4. SubSeq(selected, (i - 1) + 1, i + Len(old) - 1) \in Seq(S)
      BY <1>8, <3>3, AnyPart
    <3>5. SubSeq(selected, i, i + Len(old) - 1) = old  BY <3>2 DEF Matches
    <3>6. old \in T  BY <3>3, <3>4, <3>5
    <3> QED  BY <1>11, <2>3, <3>6
  <2>5. Cuts(selected, T, 0..Len(selected)) /\ CutAtMatches(selected, old, 0..Len(selected))
    BY <1>8, <2>2, CutAnywhere
  <2>6. PICK replaced : replaced = Replaced(selected, old, new)  OBVIOUS
  <2>7. selected \in Seq(Characters)  BY <1>8
  <2> HIDE DEF T
  <2>8. replaced \in T  BY <1>1, <2>2, <2>4, <2>5, <2>6, <2>7, ReplacedIn
  <2>9. ReplaceIn(c, text) = Spliced(text, from, to, replaced)
    BY <1>5, <1>7, <1>9, <2>1, <2>3, <2>6, Zenon DEF ReplaceIn
  <2>10. Spliced(text, from, to, replaced) \in T
    BY <1>1, <1>2, <1>4, <1>6, <2>8, SplicedIn
  <2> QED  BY <2>9, <2>10
<1>14. InsertIn(c, text) \in T
  <2>1. PICK line : line = IF c.position \in {"after", "inside_start"}
                           THEN SymbolLine(text) + 1 ELSE SymbolLine(text)
    OBVIOUS
  <2>2. PICK at : at = LineOffset(text, line)  OBVIOUS
  <2>3. at \in 0..Len(text)  BY <1>2, <2>2, LineOffsetAt
  <2>4. InsertIn(c, text) = Spliced(text, at, at, norm)
    BY <1>9, <2>1, <2>2, Zenon DEF InsertIn
  <2> HIDE DEF T
  <2>5. Spliced(text, at, at, norm) \in T  BY <1>1, <1>2, <1>4, <1>10, <2>3, SplicedIn
  <2> QED  BY <2>4, <2>5
<1> QED  BY <1>12, <1>13, <1>14

-----------------------------------------------------------------------------
(* The inductive invariant of a plan. *)

Plans == [EditPaths -> PlannedFiles \union {Absent}]
JobTypes == [index : [EditPaths -> FileTextsOrNone], changes : Seq(ChangeRecords),
             sends : BOOLEAN, preview : BOOLEAN]

EditTypes ==
  /\ job \in JobTypes /\ \A i \in 1..Len(Changes) : WellFormed(Changes[i])
  /\ indexNow \in [EditPaths -> FileTextsOrNone]
  /\ snapshot \in [EditPaths -> FileTextsOrNone] \union {Absent}
  /\ job.sends => snapshot = job.index
  /\ onDisk \in [EditPaths -> FileTextsOrNone]
  /\ stage \in Stages /\ done \in 0..Len(Changes) /\ plan \in Plans
  /\ stage \in {"arrived", "snapshot", "preflight"} => done = 0
  /\ stage \in {"preflight", "planning"} => done < Len(Changes)
  /\ done = 0 => plan = [p \in EditPaths |-> Absent]
  /\ done # 0 => \E p \in EditPaths : plan[p] # Absent
  /\ stage \in {"syntax", "recheck", "commit", "previewed"} => done = Len(Changes) /\ done # 0

(* Every file of the plan was seen: it is new, it is as the client or the  *)
(* application knew it, or a change planned so far named its content.      *)
Told(p) ==
  \/ Index[p] = Absent
  \/ Index[p] = Known[p]
  \/ \E i \in 1..done : /\ Changes[i].path = p
                        /\ \/ Changes[i].hash = Index[p]
                           \/ Changes[i].handle # Absent /\ Changes[i].handle.hash = Index[p]
NothingBlind == \A p \in EditPaths : plan[p] # Absent => Told(p)

(* A change through a handle is the only one of its file.                  *)
Alone(i) ==
  LET c == Changes[i] IN
    /\ Index[c.path] # Absent /\ c.handle.path = c.path
    /\ \A j \in 1..Len(Changes) : Changes[j].path = c.path => j = i
ByHandle(c) ==
  IF c.kind = "replace" THEN ReplaceIn(c, Index[c.path]) ELSE ReplaceRangeIn(c, Index[c.path])
HandlesAlone ==
  stage \in {"planning", "syntax", "recheck", "commit"} =>
    \A i \in 1..Len(Changes) : Changes[i].handle # Absent =>
      /\ Alone(i)
      /\ i <= done => /\ plan[Changes[i].path] # Absent
                      /\ plan[Changes[i].path].after = ByHandle(Changes[i])
      /\ i > done => plan[Changes[i].path] = Absent

EditInv == EditTypes /\ PlanFromIndex /\ NothingBlind /\ HandlesAlone

(* What the plan of a file becomes.                                        *)
Put(pl, p, before, after, new) ==
  /\ new \in Plans /\ new[p] # Absent /\ new[p].after = after
  /\ new[p].before = IF pl[p] = Absent THEN before ELSE pl[p].before
  /\ \A q \in EditPaths : q # p => new[q] = pl[q]

(* put_plan makes it so.                                                   *)
LEMMA PutPlanOK ==
  ASSUME NEW pl \in Plans, NEW p \in EditPaths, NEW before \in FileTextsOrNone,
         NEW after \in FileTextsOrNone
  PROVE  Put(pl, p, before, after, PutPlan(pl, p, before, after))
<1>1. PICK b : b = IF pl[p] = Absent THEN before ELSE pl[p].before  OBVIOUS
<1>2. b \in FileTextsOrNone
  <2>1. CASE pl[p] = Absent  BY <1>1, <2>1
  <2>2. CASE pl[p] # Absent
    <3>1. pl[p] \in PlannedFiles  BY <2>2 DEF Plans
    <3> QED  BY <1>1, <2>2, <3>1 DEF PlannedFiles
  <2> QED  BY <2>1, <2>2
<1>3. PICK file : file = [before |-> b, after |-> after]  OBVIOUS
<1>4. file \in PlannedFiles /\ file.before = b /\ file.after = after  BY <1>2, <1>3 DEF PlannedFiles
<1>5. PutPlan(pl, p, before, after) = [pl EXCEPT ![p] = file]  BY <1>1, <1>3, Zenon DEF PutPlan
<1>6. file # Absent  BY <1>4, EditAssumption
<1>7. PutPlan(pl, p, before, after) \in Plans  BY <1>4, <1>5 DEF Plans
<1>8. PutPlan(pl, p, before, after)[p] = file
      /\ \A q \in EditPaths : q # p => PutPlan(pl, p, before, after)[q] = pl[q]
  BY <1>5 DEF Plans
<1> QED  BY <1>1, <1>4, <1>6, <1>7, <1>8, Zenon DEF Put

(* The change that comes next, and the text it is applied to.              *)
LEMMA NextChange ==
  ASSUME EditTypes, stage = "planning"
  PROVE  /\ done + 1 \in 1..Len(Changes)
         /\ Changes[done + 1] \in ChangeRecords /\ WellFormed(Changes[done + 1])
         /\ Changes[done + 1].path \in EditPaths
         /\ Current(Changes[done + 1].path) \in FileTextsOrNone
<1>1. Changes \in Seq(ChangeRecords) /\ done \in Nat /\ done < Len(Changes) /\ Len(Changes) \in Nat
  BY DEF EditTypes, JobTypes, Changes
<1>2. done + 1 \in 1..Len(Changes)  BY <1>1
<1>3. Changes[done + 1] \in ChangeRecords /\ WellFormed(Changes[done + 1])
  BY <1>1, <1>2 DEF EditTypes
<1>4. PICK p \in EditPaths : p = Changes[done + 1].path  BY <1>3 DEF ChangeRecords
<1>5. Current(p) \in FileTextsOrNone
  <2>1. Index[p] \in FileTextsOrNone  BY DEF EditTypes, JobTypes, Index
  <2>2. plan[p] # Absent => plan[p] \in PlannedFiles  BY DEF EditTypes, Plans
  <2>3. plan[p] # Absent => plan[p].after \in FileTextsOrNone  BY <2>2 DEF PlannedFiles
  <2> QED  BY <2>1, <2>3 DEF Current
<1> QED  BY <1>2, <1>3, <1>4, <1>5

(* What a change of a text puts into the plan.                             *)
NewText(c, text) ==
  IF c.kind = "create" THEN (IF text = Absent THEN c.new ELSE Normalized(text, c.new))
  ELSE IF c.kind = "replace" THEN ReplaceIn(c, text)
  ELSE IF c.kind = "replace_range" THEN ReplaceRangeIn(c, text)
  ELSE IF c.kind = "insert" THEN InsertIn(c, text)
  ELSE Absent

LEMMA NewTextType ==
  ASSUME NEW c \in ChangeRecords, NEW text \in FileTextsOrNone,
         c.kind # "create" => text # Absent
  PROVE  NewText(c, text) \in FileTextsOrNone
<1>1. c.new \in Seq(Characters)  BY DEF ChangeRecords
<1>2. Normalized(text, c.new) \in Seq(Characters)  BY <1>1, NormalizedType
<1>3. CASE text = Absent  BY <1>1, <1>3 DEF NewText, FileTextsOrNone
<1>4. CASE text # Absent
  <2>1. text \in Seq(Characters)  BY <1>4 DEF FileTextsOrNone
  <2>2. {ReplaceIn(c, text), ReplaceRangeIn(c, text), InsertIn(c, text)} \subseteq Seq(Characters)
    BY <1>2, <2>1, ChangedSequences
  <2> QED  BY <1>2, <1>4, <2>2 DEF NewText, FileTextsOrNone
<1> QED  BY <1>3, <1>4

(* The plan with a change: the file it names has the new text, the target  *)
(* of a rename its old one, and the others are as they were.               *)
LEMMA PlanWithChange ==
  ASSUME EditTypes, PlanFromIndex, NEW c \in ChangeRecords, WellFormed(c), Applicable(c),
         Current(c.path) \in FileTextsOrNone
  PROVE  /\ PlanWith(c) \in Plans
         /\ PlanWith(c)[c.path] # Absent
         /\ c.kind # "rename" => PlanWith(c)[c.path].after = NewText(c, Current(c.path))
         /\ c.kind = "rename" => Index[c.to] = Absent
         /\ \A p \in EditPaths :
              /\ PlanWith(c)[p] # Absent => PlanWith(c)[p].before = Index[p]
              /\ ~ (p = c.path \/ (c.kind = "rename" /\ p = c.to)) => PlanWith(c)[p] = plan[p]
<1>1. PICK path \in EditPaths : path = c.path  BY DEF ChangeRecords
<1>2. PICK text \in FileTextsOrNone : text = Current(path)  BY <1>1
<1>3. c.kind # "create" => text # Absent  BY <1>1, <1>2 DEF Applicable
<1>4. plan \in Plans /\ Absent \in FileTextsOrNone  BY DEF EditTypes, FileTextsOrNone
<1>5. PICK after \in FileTextsOrNone : after = NewText(c, text)  BY <1>3, NewTextType
<1>6. PICK pl : pl = PutPlan(plan, path, text, after)  OBVIOUS
<1>7. /\ pl \in Plans /\ pl[path] # Absent /\ pl[path].after = after
      /\ pl[path].before = IF plan[path] = Absent THEN text ELSE plan[path].before
      /\ \A q \in EditPaths : q # path => pl[q] = plan[q]
  <2>1. Put(plan, path, text, after, PutPlan(plan, path, text, after))  BY <1>4, PutPlanOK
  <2>2. Put(plan, path, text, after, pl)  BY <1>6, <2>1
  <2> QED  BY <2>2 DEF Put
<1>8. pl[path].before = Index[path]
  <2>1. CASE plan[path] = Absent  BY <1>2, <1>7, <2>1 DEF Current
  <2>2. CASE plan[path] # Absent  BY <1>7, <2>2 DEF PlanFromIndex, Planned
  <2> QED  BY <2>1, <2>2
<1>9. \A p \in EditPaths : pl[p] # Absent => pl[p].before = Index[p]
  BY <1>7, <1>8 DEF PlanFromIndex, Planned
<1>10. CASE c.kind # "rename"
  <2>1. c.kind \in ChangeKinds  BY DEF ChangeRecords
  <2>2. PlanWith(c) = pl  BY <1>1, <1>2, <1>5, <1>6, <1>10, <2>1 DEF PlanWith, NewText, ChangeKinds
  <2> QED  BY <1>1, <1>2, <1>5, <1>7, <1>9, <1>10, <2>2
<1>11. CASE c.kind = "rename"
  <2>1. PICK to \in EditPaths : to = c.to  BY <1>11 DEF ChangeRecords, WellFormed
  <2>2. Index[to] = Absent /\ (plan[to] = Absent \/ plan[to].after = Absent)
    BY <1>11, <2>1 DEF Applicable
  <2>3. after = Absent  BY <1>5, <1>11 DEF NewText
  <2>4. PICK new : new = PutPlan(pl, to, Absent, text)  OBVIOUS
  <2>5. PlanWith(c) = new  BY <1>1, <1>2, <1>6, <1>11, <2>1, <2>3, <2>4 DEF PlanWith
  <2>6. /\ new \in Plans /\ new[to] # Absent
        /\ new[to].before = IF pl[to] = Absent THEN Absent ELSE pl[to].before
        /\ \A q \in EditPaths : q # to => new[q] = pl[q]
    <3>1. Put(pl, to, Absent, text, PutPlan(pl, to, Absent, text))  BY <1>4, <1>7, PutPlanOK
    <3>2. Put(pl, to, Absent, text, new)  BY <2>4, <3>1
    <3> QED  BY <3>2 DEF Put
  <2>7. new[to].before = Index[to]  BY <1>9, <2>2, <2>6
  <2>8. \A p \in EditPaths : new[p] # Absent => new[p].before = Index[p]
    BY <1>9, <2>6, <2>7
  <2>9. new[path] # Absent
    <3>1. CASE path = to  BY <2>6, <3>1
    <3>2. CASE path # to  BY <1>7, <2>6, <3>2
    <3> QED  BY <3>1, <3>2
  <2>10. \A p \in EditPaths : ~ (p = path \/ p = to) => new[p] = plan[p]  BY <1>7, <2>6
  <2> QED  BY <1>1, <1>11, <2>1, <2>2, <2>5, <2>6, <2>8, <2>9, <2>10
<1> QED  BY <1>10, <1>11

(* The invariant holds of every request before anything is planned.        *)
LEMMA EditInvInit == EditInit => EditInv
<1> SUFFICES ASSUME EditInit PROVE EditInv  OBVIOUS
<1>1. PICK e \in EditJobs, sends \in BOOLEAN, preview \in BOOLEAN :
        \E ordered \in e.lists :
          job = [index |-> e.index, changes |-> ordered, sends |-> sends, preview |-> preview]
  BY Zenon DEF EditInit
<1>2. PICK ordered \in e.lists :
        job = [index |-> e.index, changes |-> ordered, sends |-> sends, preview |-> preview]
  BY <1>1
<1>3. /\ e.index \in [EditPaths -> FileTextsOrNone] /\ ordered \in Seq(ChangeRecords)
      /\ \A i \in DOMAIN ordered : WellFormed(ordered[i])
  BY <1>2, EditAssumption
<1>4. /\ job \in JobTypes /\ job.index = e.index /\ job.changes = ordered  BY <1>2, <1>3 DEF JobTypes
<1>5. /\ indexNow = job.index /\ onDisk = job.index /\ stage = "arrived" /\ done = 0
      /\ snapshot = (IF job.sends THEN job.index ELSE Absent)
      /\ plan = [p \in EditPaths |-> Absent]
  BY Zenon DEF EditInit
<1>6. Changes = ordered /\ Len(ordered) \in Nat /\ DOMAIN ordered = 1..Len(ordered)
  BY <1>3, <1>4 DEF Changes
<1>7. plan \in Plans  BY <1>5 DEF Plans
<1>8. EditTypes  BY <1>3, <1>4, <1>5, <1>6, <1>7 DEF EditTypes, Stages
<1>9. PlanFromIndex /\ NothingBlind /\ HandlesAlone
  BY <1>5 DEF PlanFromIndex, Planned, NothingBlind, HandlesAlone
<1> QED  BY <1>8, <1>9 DEF EditInv

(* A step that plans nothing keeps what was planned.                       *)
LEMMA PlanKept ==
  ASSUME EditInv, UNCHANGED <<job, snapshot, indexNow, done, plan>>
  PROVE  /\ Changes' = Changes /\ Index' = Index /\ NothingBlind'
         /\ \A p \in EditPaths : plan'[p] # Absent => plan'[p].before = Index'[p]
         /\ (stage' \in {"planning", "syntax", "recheck", "commit"} =>
               stage \in {"planning", "syntax", "recheck", "commit"}) => HandlesAlone'
<1>1. Changes' = Changes /\ Index' = Index  BY DEF Changes, Index
<1>2. NothingBlind'  BY <1>1, Zenon DEF EditInv, NothingBlind, Told, Known
<1>3. \A p \in EditPaths : plan'[p] # Absent => plan'[p].before = Index'[p]
  BY <1>1 DEF EditInv, PlanFromIndex, Planned
<1>4. ASSUME stage' \in {"planning", "syntax", "recheck", "commit"} =>
               stage \in {"planning", "syntax", "recheck", "commit"}
      PROVE  HandlesAlone'
  <2> SUFFICES ASSUME stage \in {"planning", "syntax", "recheck", "commit"} PROVE HandlesAlone'
    BY <1>4, Zenon DEF HandlesAlone
  <2>1. \A i : Alone(i)' <=> Alone(i)  BY <1>1, Zenon DEF Alone
  <2>2. \A i : ByHandle(Changes[i])' = ByHandle(Changes[i])
    BY <1>1, Zenon DEF ByHandle
  <2> QED  BY <1>1, <2>1, <2>2, Zenon DEF EditInv, HandlesAlone
<1> QED  BY <1>1, <1>2, <1>3, <1>4, Zenon

(* Before the writer is taken nothing is planned, so that the snapshot may *)
(* be filled in and the index move.                                        *)
LEMMA ArrivalKeeps ==
  ASSUME EditInv,
         FillSnapshot \/ \E p \in EditPaths, t \in {<<"y">>, Absent} : IndexMoves(p, t)
  PROVE  EditInv'
<1>1. /\ stage \in {"arrived", "snapshot"} /\ stage' \in {"arrived", "snapshot"}
      /\ job' = job /\ done' = done /\ plan' = plan
  BY DEF FillSnapshot, IndexMoves
<1>2. Changes' = Changes /\ EditTypes  BY <1>1 DEF Changes, EditInv
<1>3. done = 0 /\ plan = [p \in EditPaths |-> Absent]  BY <1>1, <1>2 DEF EditTypes
<1>4. PlanFromIndex' /\ NothingBlind' /\ HandlesAlone'
  BY <1>1, <1>3 DEF PlanFromIndex, Planned, NothingBlind, HandlesAlone
<1>5. /\ indexNow' \in [EditPaths -> FileTextsOrNone]
      /\ onDisk' \in [EditPaths -> FileTextsOrNone]
      /\ snapshot' \in [EditPaths -> FileTextsOrNone] \union {Absent}
      /\ job.sends => snapshot' = job.index
  <2>1. CASE FillSnapshot  BY <1>2, <2>1 DEF FillSnapshot, EditTypes, Index
  <2>2. ASSUME NEW p \in EditPaths, NEW t \in {<<"y">>, Absent}, IndexMoves(p, t)
        PROVE  /\ indexNow' \in [EditPaths -> FileTextsOrNone]
               /\ onDisk' \in [EditPaths -> FileTextsOrNone]
               /\ snapshot' \in [EditPaths -> FileTextsOrNone] \union {Absent}
               /\ job.sends => snapshot' = job.index
    <3>1. <<"y">> \in FileTextsOrNone /\ Absent \in FileTextsOrNone
      BY DEF FileTextsOrNone, Characters
    <3>2. t \in FileTextsOrNone  BY <3>1
    <3> QED  BY <1>2, <2>2, <3>2 DEF IndexMoves, EditTypes
  <2> QED  BY <2>1, <2>2
<1>6. EditTypes'  BY <1>1, <1>2, <1>3, <1>5 DEF EditTypes, Stages
<1> QED  BY <1>4, <1>6 DEF EditInv

(* The checks before planning.                                             *)
LEMMA SnapshotKeeps == EditInv /\ CheckSnapshot => EditInv'
<1> SUFFICES ASSUME EditInv, CheckSnapshot PROVE EditInv'  OBVIOUS
<1>1. /\ stage = "snapshot" /\ stage' \in {"refused", "preflight"}
      /\ stage' = "preflight" => Changes # <<>>
      /\ job' = job
      /\ snapshot' = snapshot /\ indexNow' = indexNow /\ onDisk' = onDisk /\ done' = done /\ plan' = plan
  BY DEF CheckSnapshot, To
<1>2. /\ Changes' = Changes /\ NothingBlind' /\ HandlesAlone'
      /\ \A p \in EditPaths : plan'[p] # Absent => plan'[p].before = Index'[p]
  BY <1>1, PlanKept
<1>3. Changes \in Seq(ChangeRecords)  BY DEF EditInv, EditTypes, JobTypes, Changes
<1>4. stage' = "preflight" => done < Len(Changes)  BY <1>1, <1>3 DEF EditInv, EditTypes
<1>5. EditTypes'  BY <1>1, <1>2, <1>4 DEF EditInv, EditTypes, Stages
<1>6. PlanFromIndex'  BY <1>1, <1>2 DEF PlanFromIndex, Planned
<1> QED  BY <1>2, <1>5, <1>6 DEF EditInv

LEMMA PreflightKeeps == EditInv /\ Preflight => EditInv'
<1> SUFFICES ASSUME EditInv, Preflight PROVE EditInv'  OBVIOUS
<1>1. /\ stage = "preflight" /\ stage' = IF PreflightOk THEN "planning" ELSE "refused"
      /\ job' = job
      /\ snapshot' = snapshot /\ indexNow' = indexNow /\ onDisk' = onDisk /\ done' = done /\ plan' = plan
  BY Zenon DEF Preflight, To
<1>2. /\ Changes' = Changes /\ Index' = Index /\ NothingBlind'
      /\ \A p \in EditPaths : plan'[p] # Absent => plan'[p].before = Index'[p]
  BY <1>1, PlanKept
<1>3. done = 0 /\ done < Len(Changes) /\ plan = [p \in EditPaths |-> Absent]
      /\ Changes \in Seq(ChangeRecords)
  BY <1>1 DEF EditInv, EditTypes, JobTypes, Changes
<1>4. EditTypes'  BY <1>1, <1>2 DEF EditInv, EditTypes, Stages
<1>5. PlanFromIndex'  BY <1>1, <1>2 DEF PlanFromIndex, Planned
<1>6. HandlesAlone'
  <2> SUFFICES ASSUME PreflightOk, NEW i \in 1..Len(Changes), Changes[i].handle # Absent
               PROVE  Alone(i)' /\ plan'[Changes[i].path] = Absent /\ ~ (i <= done')
    BY <1>1, <1>2, Zenon DEF HandlesAlone
  <2>1. PICK c \in ChangeRecords : c = Changes[i]  BY <1>3
  <2>2. i \in DOMAIN Changes /\ WellFormed(c)  BY <1>3, <2>1 DEF EditInv, EditTypes
  <2>3. c.kind \in {"replace", "replace_range"}  BY <2>1, <2>2 DEF WellFormed
  <2>4. Index[c.path] # Absent /\ c.handle.path = c.path
    BY <2>1, <2>2, <2>3, Zenon DEF PreflightOk
  <2>5. {j \in DOMAIN Changes : Changes[j].path = c.path} = {i}
    BY <2>1, <2>2, Zenon DEF PreflightOk
  <2>6. DOMAIN Changes = 1..Len(Changes)  BY <1>3
  <2>7. Alone(i)'  BY <1>2, <2>1, <2>4, <2>5, <2>6 DEF Alone
  <2>8. c.path \in EditPaths  BY DEF ChangeRecords
  <2> QED  BY <1>1, <1>3, <2>1, <2>7, <2>8
<1> QED  BY <1>2, <1>4, <1>5, <1>6 DEF EditInv

(* The steps after planning, and other programs.                           *)
LEMMA LaterKeeps ==
  ASSUME EditInv, CheckSyntax \/ Recheck \/ \E p \in EditPaths : WriteMeanwhile(p)
  PROVE  EditInv'
<1>1. CASE CheckSyntax \/ Recheck
  <2>1. /\ stage \in {"syntax", "recheck"}
        /\ stage' \in {"previewed", "recheck", "commit", "refused"}
        /\ stage' = "commit" => \A p \in Planned : onDisk[p] = plan[p].before
        /\ job' = job
        /\ snapshot' = snapshot /\ indexNow' = indexNow /\ onDisk' = onDisk /\ done' = done /\ plan' = plan
    BY <1>1 DEF CheckSyntax, Recheck, To
  <2>2. /\ Changes' = Changes /\ Index' = Index /\ NothingBlind' /\ HandlesAlone'
        /\ \A p \in EditPaths : plan'[p] # Absent => plan'[p].before = Index'[p]
    BY <2>1, PlanKept
  <2>3. EditTypes'  BY <2>1, <2>2 DEF EditInv, EditTypes, Stages
  <2>4. PlanFromIndex'  BY <2>1, <2>2 DEF EditInv, PlanFromIndex, Planned
  <2> QED  BY <2>2, <2>3, <2>4 DEF EditInv
<1>2. ASSUME NEW p \in EditPaths, WriteMeanwhile(p) PROVE EditInv'
  <2>1. /\ stage \in {"planning", "recheck"} /\ stage' = stage
        /\ onDisk' = [onDisk EXCEPT ![p] = IF Index[p] = Absent THEN <<"y">> ELSE Absent]
        /\ job' = job
        /\ snapshot' = snapshot /\ indexNow' = indexNow /\ done' = done /\ plan' = plan
    BY <1>2 DEF WriteMeanwhile
  <2>2. /\ Changes' = Changes /\ Index' = Index /\ NothingBlind' /\ HandlesAlone'
        /\ \A q \in EditPaths : plan'[q] # Absent => plan'[q].before = Index'[q]
    BY <2>1, PlanKept
  <2>3. onDisk' \in [EditPaths -> FileTextsOrNone]
    <3>1. onDisk \in [EditPaths -> FileTextsOrNone]  BY DEF EditInv, EditTypes
    <3>2. <<"y">> \in FileTextsOrNone /\ Absent \in FileTextsOrNone
      BY DEF FileTextsOrNone, Characters
    <3> QED  BY <2>1, <3>1, <3>2
  <2>4. EditTypes'  BY <2>1, <2>2, <2>3 DEF EditInv, EditTypes, Stages
  <2>5. PlanFromIndex'  BY <2>1, <2>2 DEF PlanFromIndex, Planned
  <2> QED  BY <2>2, <2>4, <2>5 DEF EditInv
<1> QED  BY <1>1, <1>2

(* Planning a change keeps the invariant.                                  *)
LEMMA PlanChangeKeeps == EditInv /\ PlanChange => EditInv'
<1> SUFFICES ASSUME EditInv, PlanChange PROVE EditInv'  OBVIOUS
<1>1. stage = "planning" /\ done < Len(Changes) /\ EditTypes  BY DEF PlanChange, EditInv
<1>2. PICK c : c = Changes[done + 1]  OBVIOUS
<1>3. PICK k : k = done + 1  OBVIOUS
<1>4. /\ k \in 1..Len(Changes) /\ c \in ChangeRecords /\ WellFormed(c)
      /\ c.path \in EditPaths /\ Current(c.path) \in FileTextsOrNone
  BY <1>1, <1>2, <1>3, NextChange
<1>5. PICK p \in EditPaths : p = c.path  BY <1>4
<1>6. CASE To("refused")
  <2>1. /\ stage' = "refused" /\ job' = job
        /\ snapshot' = snapshot /\ indexNow' = indexNow /\ onDisk' = onDisk /\ done' = done /\ plan' = plan
    BY <1>6 DEF To
  <2>2. /\ Changes' = Changes /\ Index' = Index /\ NothingBlind' /\ HandlesAlone'
        /\ \A q \in EditPaths : plan'[q] # Absent => plan'[q].before = Index'[q]
    BY <2>1, PlanKept
  <2>3. EditTypes'  BY <1>1, <2>1, <2>2 DEF EditTypes, Stages
  <2>4. PlanFromIndex'  BY <2>1, <2>2 DEF PlanFromIndex, Planned
  <2> QED  BY <2>2, <2>3, <2>4 DEF EditInv
<1>7. CASE ~ To("refused")
  <2>1. /\ Admissible(c) /\ Applicable(c) /\ plan' = PlanWith(c) /\ done' = k
        /\ stage' = (IF k = Len(Changes) THEN "syntax" ELSE "planning")
        /\ job' = job /\ snapshot' = snapshot /\ indexNow' = indexNow /\ onDisk' = onDisk
    BY <1>2, <1>3, <1>7, Zenon DEF PlanChange
  <2>2. Changes' = Changes /\ Index' = Index /\ Known' = Known
    BY <2>1 DEF Changes, Index, Known
  <2>3. /\ plan' \in Plans /\ plan'[p] # Absent
        /\ c.kind # "rename" => plan'[p].after = NewText(c, Current(p))
        /\ c.kind = "rename" => Index[c.to] = Absent
        /\ \A q \in EditPaths :
             /\ plan'[q] # Absent => plan'[q].before = Index[q]
             /\ ~ (q = p \/ (c.kind = "rename" /\ q = c.to)) => plan'[q] = plan[q]
    BY <1>1, <1>4, <1>5, <2>1, PlanWithChange DEF EditInv
  <2>4. EditTypes'
    <3>1. k \in 0..Len(Changes) /\ k # 0 /\ (k # Len(Changes) => k < Len(Changes))  BY <1>4
    <3>2. job' \in JobTypes /\ \A i \in 1..Len(Changes') : WellFormed(Changes'[i])
      BY <1>1, <2>1, <2>2 DEF EditTypes
    <3>3. onDisk' \in [EditPaths -> FileTextsOrNone]  BY <1>1, <2>1 DEF EditTypes
    <3>4. stage' \in Stages /\ stage' \in {"syntax", "planning"}  BY <2>1 DEF Stages
    <3>5. /\ indexNow' \in [EditPaths -> FileTextsOrNone]
          /\ snapshot' \in [EditPaths -> FileTextsOrNone] \union {Absent}
          /\ job'.sends => snapshot' = job'.index
      BY <1>1, <2>1 DEF EditTypes
    <3> QED  BY <2>1, <2>2, <2>3, <3>1, <3>2, <3>3, <3>4, <3>5 DEF EditTypes
  <2>5. PlanFromIndex'
    <3>1. stage' # "commit"  BY <2>1
    <3> QED  BY <2>2, <2>3, <3>1 DEF PlanFromIndex, Planned
  <2>6. NothingBlind'
    <3> SUFFICES ASSUME NEW q \in EditPaths, plan'[q] # Absent PROVE Told(q)'
      BY DEF NothingBlind
    <3>1. CASE plan[q] # Absent
      <4>1. Told(q)  BY <3>1 DEF EditInv, NothingBlind
      <4>2. \A i \in 1..done : i \in 1..done'  BY <1>1, <1>3, <1>4, <2>1 DEF EditTypes
      <4> QED  BY <2>1, <2>2, <4>1, <4>2 DEF Told
    <3>2. CASE plan[q] = Absent /\ q # p
      <4>1. Index[q] = Absent  BY <2>3, <3>2
      <4> QED  BY <2>2, <4>1 DEF Told
    <3>3. CASE plan[q] = Absent /\ q = p
      <4>1. Current(p) = Index[p] /\ OriginalHash(p) = Index[p]
        BY <3>3 DEF Current, OriginalHash
      <4>2. PICK stated : stated = IF c.hash # Absent THEN c.hash
                                   ELSE IF c.handle # Absent THEN c.handle.hash ELSE Absent
        OBVIOUS
      <4>3. /\ \/ Index[p] = Absent
               \/ SnapshotMatches \/ stated # Absent
            /\ stated # Absent => Index[p] = stated
        BY <1>5, <2>1, <4>1, <4>2, Zenon DEF Admissible
      <4>4. CASE stated = Absent
        <5>1. SnapshotMatches => Known[p] = Index[p]
          BY <1>1 DEF EditTypes, Known, SnapshotMatches
        <5> QED  BY <2>1, <2>2, <3>3, <4>3, <4>4, <5>1 DEF Told
      <4>5. CASE stated # Absent
        <5>1. \/ c.hash = Index[p]
              \/ c.handle # Absent /\ c.handle.hash = Index[p]
          BY <4>2, <4>3, <4>5
        <5>2. k \in 1..done' /\ Changes'[k] = c  BY <1>2, <1>3, <1>4, <2>1, <2>2
        <5> QED  BY <1>5, <2>2, <3>3, <5>1, <5>2 DEF Told
      <4> QED  BY <4>4, <4>5
    <3> QED  BY <3>1, <3>2, <3>3
  <2>7. HandlesAlone'
    <3> SUFFICES ASSUME NEW i \in 1..Len(Changes), Changes[i].handle # Absent
                 PROVE  /\ Alone(i)'
                        /\ i <= k => /\ plan'[Changes[i].path] # Absent
                                     /\ plan'[Changes[i].path].after = ByHandle(Changes[i])'
                        /\ i > k => plan'[Changes[i].path] = Absent
      BY <2>1, <2>2, Zenon DEF HandlesAlone
    <3>1. /\ Alone(i)
          /\ i <= done => /\ plan[Changes[i].path] # Absent
                          /\ plan[Changes[i].path].after = ByHandle(Changes[i])
          /\ i > done => plan[Changes[i].path] = Absent
      BY <1>1 DEF EditInv, HandlesAlone
    <3>2. Alone(i)'  BY <2>2, <3>1, Zenon DEF Alone
    <3>3. ByHandle(Changes[i])' = ByHandle(Changes[i])  BY <2>2, Zenon DEF ByHandle
    <3>4. PICK d \in ChangeRecords : d = Changes[i]
      BY <1>1 DEF EditTypes, JobTypes, Changes
    <3>5. d.path \in EditPaths /\ Index[d.path] # Absent  BY <3>1, <3>4 DEF Alone, ChangeRecords
    <3>6. CASE i = k
      <4>1. d = c  BY <1>2, <1>3, <3>4, <3>6
      <4>2. plan[p] = Absent /\ i <= k /\ ~ (i > k)
        <5>1. i > done /\ i \in Nat  BY <1>1, <1>3, <3>6 DEF EditTypes
        <5> QED  BY <1>5, <3>1, <3>4, <3>6, <4>1, <5>1
      <4>3. Current(p) = Index[p]  BY <4>2 DEF Current
      <4>4. c.kind \in {"replace", "replace_range"}  BY <1>4, <3>4, <4>1 DEF WellFormed
      <4>5. NewText(c, Index[p]) = ByHandle(c)  BY <1>5, <4>4 DEF NewText, ByHandle
      <4> QED  BY <1>5, <2>3, <3>2, <3>3, <3>4, <4>1, <4>2, <4>3, <4>4, <4>5
    <3>7. CASE i # k
      <4>1. d.path # p  BY <1>2, <1>3, <1>4, <1>5, <3>1, <3>4, <3>7 DEF Alone
      <4>2. ~ (c.kind = "rename" /\ d.path = c.to)  BY <2>3, <3>5
      <4>3. plan'[d.path] = plan[d.path]  BY <2>3, <3>5, <4>1, <4>2
      <4>4. (i <= k <=> i <= done) /\ (i > k <=> i > done)
        BY <1>1, <1>3, <3>7 DEF EditTypes
      <4> QED  BY <3>1, <3>2, <3>3, <3>4, <4>3, <4>4
    <3> QED  BY <3>6, <3>7
  <2> QED  BY <2>4, <2>5, <2>6, <2>7 DEF EditInv
<1> QED  BY <1>6, <1>7

(* Every step keeps it.                                                    *)
LEMMA EditInvStep == EditInv /\ [EditNext]_editVars => EditInv'
<1> SUFFICES ASSUME EditInv, [EditNext]_editVars PROVE EditInv'  OBVIOUS
<1>1. CASE UNCHANGED editVars
  <2>1. /\ stage' = stage /\ job' = job
        /\ snapshot' = snapshot /\ indexNow' = indexNow /\ onDisk' = onDisk /\ done' = done /\ plan' = plan
    BY <1>1 DEF editVars
  <2>2. /\ Changes' = Changes /\ Index' = Index /\ NothingBlind' /\ HandlesAlone'
    BY <2>1, PlanKept
  <2>3. EditTypes' /\ PlanFromIndex'
    BY <2>1, <2>2, Zenon DEF EditInv, EditTypes, PlanFromIndex, Planned
  <2> QED  BY <2>2, <2>3 DEF EditInv
<1>2. CASE EditNext
  BY <1>2, ArrivalKeeps, SnapshotKeeps, PreflightKeeps, PlanChangeKeeps, LaterKeeps, Zenon
     DEF EditNext
<1> QED  BY <1>1, <1>2

(* It always holds.                                                        *)
LEMMA EditInvariant == EditSpec => []EditInv
BY EditInvInit, EditInvStep, PTL DEF EditSpec

(* Theorem: whatever the changes, a plan states what the index had, and a  *)
(* plan that reaches the commit spots the same on disk (put_plan,          *)
(* recheck_preconditions).                                                 *)
THEOREM PlansAreSound == EditSpec => []PlanSound
<1>1. EditInv => PlanSound
  <2> SUFFICES ASSUME EditInv PROVE EditTypeOK  BY DEF PlanSound, EditInv
  <2>1. EditTypes  BY DEF EditInv
  <2>2. ASSUME NEW p \in Planned
        PROVE  {plan[p].before, plan[p].after} \subseteq Seq(Characters) \union {Absent}
    <3>1. plan[p] \in PlannedFiles  BY <2>1 DEF EditTypes, Planned, Plans
    <3> QED  BY <3>1 DEF PlannedFiles, FileTextsOrNone
  <2>3. done # 0 => Planned # {}  BY <2>1 DEF EditTypes, Planned
  <2> QED  BY <2>1, <2>2, <2>3 DEF EditTypes, EditTypeOK, FileTextsOrNone
<1> QED  BY <1>1, EditInvariant, PTL

(* Theorem: a file that is overwritten, deleted or moved away is as the    *)
(* client knew it, when the client said by a snapshot or a content what it *)
(* knows, and otherwise as it was when the application took the request    *)
(* (code_edit of src/manager.rs, prepare_edit, plan_change).               *)
THEOREM NothingOverwrittenBlindly == EditSpec => []NoBlindOverwrite
<1>1. EditInv => NoBlindOverwrite
  <2> SUFFICES ASSUME EditInv, NEW p \in Planned
               PROVE  \/ Index[p] = Absent
                      \/ Index[p] = Known[p]
                      \/ \E i \in DOMAIN Changes :
                           /\ Changes[i].path = p
                           /\ \/ Changes[i].hash = Index[p]
                              \/ Changes[i].handle # Absent /\ Changes[i].handle.hash = Index[p]
    BY DEF NoBlindOverwrite
  <2>1. Told(p)  BY DEF EditInv, NothingBlind, Planned
  <2>2. Changes \in Seq(ChangeRecords) /\ done \in 0..Len(Changes)
    BY DEF EditInv, EditTypes, JobTypes, Changes
  <2>3. \A i \in 1..done : i \in DOMAIN Changes  BY <2>2
  <2> QED  BY <2>1, <2>3, Zenon DEF Told
<1> QED  BY <1>1, EditInvariant, PTL

(* A text put between two others begins and ends with them.                *)
LEMMA BetweenEnds ==
  ASSUME NEW S, NEW h \in Seq(S), NEW x \in Seq(S), NEW t \in Seq(S)
  PROVE  IsPrefix(h, h \o x \o t) /\ EndsWith(h \o x \o t, t)
<1>1. PICK a \in Nat, b \in Nat, c \in Nat : a = Len(h) /\ b = Len(x) /\ c = Len(t)  OBVIOUS
<1>2. PICK y : y = h \o x \o t  OBVIOUS
<1>3. PICK hx \in Seq(S) : hx = h \o x  BY ConcatProperties
<1>4. Len(hx) = a + b /\ \A i \in 1..a : hx[i] = h[i]  BY <1>1, <1>3, ConcatProperties
<1>5. /\ y \in Seq(S) /\ Len(y) = a + b + c
      /\ \A i \in 1..a : y[i] = h[i]
      /\ \A i \in 1..c : y[a + b + i] = t[i]
  <2>1. y = hx \o t  BY <1>2, <1>3
  <2>2. y \in Seq(S) /\ Len(y) = (a + b) + c
        /\ \A i \in 1..(a + b) + c : y[i] = IF i <= a + b THEN hx[i] ELSE t[i - (a + b)]
    <3>1. /\ hx \o t \in Seq(S) /\ Len(hx \o t) = Len(hx) + Len(t)
          /\ \A i \in 1..Len(hx) + Len(t) :
               (hx \o t)[i] = IF i <= Len(hx) THEN hx[i] ELSE t[i - Len(hx)]
      BY ConcatProperties
    <3> QED  BY <1>1, <1>4, <2>1, <3>1, Zenon
  <2>3. \A i \in 1..c : a + b + i \in 1..(a + b) + c /\ ~ (a + b + i <= a + b)
                        /\ (a + b + i) - (a + b) = i
    OBVIOUS
  <2>4. \A i \in 1..a : i \in 1..(a + b) + c /\ i <= a + b  OBVIOUS
  <2>5. \A i \in 1..a : y[i] = h[i]  BY <1>4, <2>2, <2>4
  <2>6. \A i \in 1..c : y[a + b + i] = t[i]  BY <2>2, <2>3
  <2> QED  BY <2>2, <2>5, <2>6
<1>6. SubSeq(y, 1, a) = SubSeq(h, 1, a)
  <2>1. SubSeq(h, 1, a) = h  BY <1>1, SubSeqFull
  <2>2. PICK z : z = SubSeq(y, 1, a)  OBVIOUS
  <2>3. 1 \in 1..Len(y) + 1 /\ a \in 1 - 1..Len(y) /\ a - 1 + 1 = a  BY <1>5
  <2>4. z \in Seq(S) /\ Len(z) = a /\ \A i \in 1..a : z[i] = y[1 + i - 1]
    BY <1>5, <2>2, <2>3, PartOf
  <2>5. \A i \in 1..a : z[i] = h[i]
    <3>1. \A i \in 1..a : 1 + i - 1 = i  OBVIOUS
    <3> QED  BY <1>5, <2>4, <3>1
  <2>6. z = h  BY <1>1, <2>4, <2>5, SeqEqual
  <2> QED  BY <2>1, <2>2, <2>6
<1>7. SubSeq(y, Len(y) - c + 1, Len(y)) = t
  <2>1. Len(y) - c + 1 = a + b + 1  BY <1>5
  <2>2. PICK z : z = SubSeq(y, a + b + 1, Len(y))  OBVIOUS
  <2>3. a + b + 1 \in 1..Len(y) + 1 /\ Len(y) - (a + b + 1) + 1 = c  BY <1>5
  <2>4. z \in Seq(S) /\ Len(z) = c /\ \A i \in 1..c : z[i] = y[a + b + 1 + i - 1]
    BY <1>5, <2>2, <2>3, EndOf
  <2>5. \A i \in 1..c : z[i] = t[i]
    <3>1. \A i \in 1..c : a + b + 1 + i - 1 = a + b + i  OBVIOUS
    <3> QED  BY <1>5, <2>4, <3>1
  <2>6. z = t  BY <1>1, <2>4, <2>5, SeqEqual
  <2> QED  BY <2>1, <2>2, <2>6
<1>8. IsPrefix(h, y)  BY <1>1, <1>5, <1>6 DEF IsPrefix
<1>9. EndsWith(y, t)
  <2>1. Len(y) >= c  BY <1>5
  <2> QED  BY <1>1, <1>7, <2>1, Zenon DEF EndsWith
<1> QED  BY <1>2, <1>8, <1>9

(* An edit through a handle stays within its lines.                        *)
LEMMA EditInvConfined == EditInv => HandleConfined
<1> SUFFICES ASSUME EditInv, stage = "commit", NEW i \in DOMAIN Changes,
                    Changes[i].handle # Absent
             PROVE  LET h == Changes[i].handle
                        p == h.path
                        head == SubSeq(Index[p], 1, LineOffset(Index[p], h.first))
                        tail == SubSeq(Index[p], LineOffset(Index[p], h.last + 1) + 1,
                                       Len(Index[p]))
                        new == Normalized(Index[p], Changes[i].new) IN
                      /\ IsPrefix(head, plan[p].after)
                      /\ EndsWith(plan[p].after, tail)
                      /\ Changes[i].kind = "replace_range" =>
                           plan[p].after \in {head \o new \o end \o tail :
                                                end \in {<<>>, <<"n">>, <<"r", "n">>}}
  BY Zenon DEF HandleConfined
<1>1. Changes \in Seq(ChangeRecords) /\ i \in 1..Len(Changes) /\ done = Len(Changes)
  BY DEF EditInv, EditTypes, JobTypes, Changes
<1>2. PICK c \in ChangeRecords : c = Changes[i]  BY <1>1
<1>3. WellFormed(c) /\ c.handle # Absent  BY <1>1, <1>2 DEF EditInv, EditTypes
<1>4. PICK h, p : h = c.handle /\ p = h.path  OBVIOUS
<1>5. Alone(i) /\ plan[c.path].after = ByHandle(c)
  <2>1. i <= done  BY <1>1
  <2> QED  BY <1>1, <1>2, <2>1 DEF EditInv, HandlesAlone
<1>6. c.path = p /\ p \in EditPaths /\ Index[p] # Absent
  BY <1>2, <1>4, <1>5 DEF Alone, ChangeRecords
<1>7. PICK text \in Seq(Characters) : text = Index[p]
  BY <1>6 DEF EditInv, EditTypes, JobTypes, Index, FileTextsOrNone
<1>8. PICK from, to : from = LineOffset(text, h.first) /\ to = LineOffset(text, h.last + 1)
  OBVIOUS
<1>9. from \in 0..Len(text) /\ to \in 0..Len(text) /\ Len(text) \in Nat  BY <1>8, LineOffsetAt
<1>10. Scope(c, text).from = from /\ Scope(c, text).to = to
  BY <1>3, <1>4, <1>8 DEF Scope, LineRange
<1>11. PICK head, tail, new : /\ head = SubSeq(text, 1, from)
                              /\ tail = SubSeq(text, to + 1, Len(text))
                              /\ new = Normalized(text, c.new)
  OBVIOUS
<1>12. head \in Seq(Characters) /\ tail \in Seq(Characters) /\ new \in Seq(Characters)
  <2>1. 0 \in 0..Len(text) /\ Len(text) \in 0..Len(text)  BY <1>9
  <2>2. SubSeq(text, 0 + 1, from) \in Seq(Characters)  BY <1>9, <2>1, AnyPart
  <2>3. tail \in Seq(Characters)  BY <1>9, <1>11, <2>1, AnyPart
  <2>4. c.new \in Seq(Characters)  BY DEF ChangeRecords
  <2> QED  BY <1>11, <2>2, <2>3, <2>4, NormalizedType
<1>13. PICK selected : selected = Selected(c, text)  OBVIOUS
<1>14. PICK x : x = IF c.kind = "replace"
                    THEN Replaced(selected, MatchingOld(text, selected, c.old, c.count),
                                  PreserveTerminal(MatchingOld(text, selected, c.old, c.count), new))
                    ELSE PreserveTerminal(selected, new)
  OBVIOUS
<1>15. ByHandle(c) = head \o x \o tail
  <2>1. CASE c.kind = "replace"
    <3>1. ReplaceIn(c, text) = Spliced(text, from, to, x)
      BY <1>10, <1>11, <1>13, <1>14, <2>1, Zenon DEF ReplaceIn
    <3> QED  BY <1>6, <1>7, <1>11, <2>1, <3>1 DEF ByHandle, Spliced
  <2>2. CASE c.kind # "replace"
    <3>1. ReplaceRangeIn(c, text) = Spliced(text, from, to, x)
      BY <1>10, <1>11, <1>13, <1>14, <2>2, Zenon DEF ReplaceRangeIn
    <3> QED  BY <1>6, <1>7, <1>11, <2>2, <3>1 DEF ByHandle, Spliced
  <2> QED  BY <2>1, <2>2
<1>16. x \in Seq(Characters) /\ (c.kind # "replace" => \E end \in {<<>>, <<"n">>, <<"r", "n">>} : x = new \o end)
  <2> DEFINE T == Seq(Characters)
  <2>1. Closed(T) /\ <<"r", "n">> \in T /\ <<"n">> \in T
    BY SequencesClosed DEF Characters
  <2>2. selected \in T
    <3>1. selected = SubSeq(text, from + 1, to)  BY <1>10, <1>13 DEF Selected
    <3> QED  BY <1>9, <3>1, AnyPart
  <2>3. \A s : PreserveTerminal(s, new) \in T  BY <1>12, <2>1, PreserveIn
  <2>4. CASE c.kind = "replace"
    <3>1. PICK old : old = MatchingOld(text, selected, c.old, c.count)  OBVIOUS
    <3>2. old \in T
      <4>1. c.old \in Seq(Characters)  BY DEF ChangeRecords
      <4> QED  BY <3>1, <4>1, MatchingOldType, NormalizedType
    <3>3. x = Replaced(selected, old, PreserveTerminal(old, new))  BY <1>14, <2>4, <3>1
    <3>4. PICK put : put = PreserveTerminal(old, new)  OBVIOUS
    <3>5. put \in T  BY <2>3, <3>4
    <3>6. Cuts(selected, T, 0..Len(selected)) /\ CutAtMatches(selected, old, 0..Len(selected))
      BY <2>2, <3>2, CutAnywhere
    <3>7. Replaced(selected, old, put) \in T  BY <2>1, <2>2, <3>2, <3>5, <3>6, ReplacedIn
    <3> QED  BY <2>4, <3>3, <3>4, <3>7
  <2>5. CASE c.kind # "replace"
    <3>1. x = PreserveTerminal(selected, new)  BY <1>14, <2>5
    <3>2. PICK none : none = <<>>  OBVIOUS
    <3>3. new \o none = new  BY <1>12, <3>2
    <3>4. x \in {new, new \o <<"n">>, new \o <<"r", "n">>}
      BY <3>1, Zenon DEF PreserveTerminal
    <3>5. \E end \in {none, <<"n">>, <<"r", "n">>} : x = new \o end  BY <3>3, <3>4, Zenon
    <3> QED  BY <2>3, <2>5, <3>1, <3>2, <3>5
  <2> QED  BY <2>4, <2>5
<1>17. IsPrefix(head, head \o x \o tail) /\ EndsWith(head \o x \o tail, tail)
  BY <1>12, <1>16, BetweenEnds
<1>18. c.kind = "replace_range" =>
         head \o x \o tail \in {head \o new \o end \o tail : end \in {<<>>, <<"n">>, <<"r", "n">>}}
  <2> SUFFICES ASSUME c.kind = "replace_range"
               PROVE  \E end \in {<<>>, <<"n">>, <<"r", "n">>} :
                        head \o x \o tail = head \o new \o end \o tail
    OBVIOUS
  <2>1. PICK end \in {<<>>, <<"n">>, <<"r", "n">>} : x = new \o end  BY <1>16
  <2>2. <<>> \in Seq(Characters) /\ <<"n">> \in Seq(Characters) /\ <<"r", "n">> \in Seq(Characters)
    BY DEF Characters
  <2>3. end \in Seq(Characters)  BY <2>1, <2>2
  <2>4. head \o (new \o end) = (head \o new) \o end
    <3>1. Associates(head, new, end)  BY <1>12, <2>3, ConcatAssociates
    <3> QED  BY <3>1 DEF Associates
  <2> QED  BY <2>1, <2>4, Zenon
<1> QED
  <2>1. plan[p].after = head \o x \o tail  BY <1>5, <1>6, <1>15
  <2>2. Changes[i].handle = h /\ h.path = p /\ Index[p] = text /\ Changes[i] = c
    BY <1>2, <1>4, <1>7
  <2>3. /\ LineOffset(Index[p], h.first) = from /\ LineOffset(Index[p], h.last + 1) = to
    BY <1>8, <2>2
  <2>4. IsPrefix(head, plan[p].after) /\ EndsWith(plan[p].after, tail)  BY <1>17, <2>1
  <2>5. c.kind = "replace_range" =>
          plan[p].after \in {head \o new \o end \o tail : end \in {<<>>, <<"n">>, <<"r", "n">>}}
    BY <1>18, <2>1, Zenon
  <2> QED  BY <1>11, <2>2, <2>3, <2>4, <2>5, Zenon

-----------------------------------------------------------------------------
(* Line endings.  Texts without CR, and texts whose line ends are CRLF.    *)

NoCr == Characters \ {"r"}
CrLf == {s \in Seq(Characters) : \A i \in 1..Len(s) :
           /\ s[i] = "r" => i < Len(s) /\ s[i + 1] = "n"
           /\ s[i] = "n" => i > 1 /\ s[i - 1] = "r"}

(* What the label of a text says, and what labels such texts may have.     *)
LEMMA LabelLf ==
  ASSUME NEW text \in Seq(Characters)
  PROVE  /\ LineEndingLabel(text) = "lf" => text \in Seq(NoCr)
         /\ text \in Seq(NoCr) => LineEndingLabel(text) \in {"none", "lf"}
<1> DEFINE both == {i \in 1..Len(text) : text[i] = "n" /\ i > 1 /\ text[i - 1] = "r"}
           lf == {i \in 1..Len(text) : text[i] = "n"} \ both
           cr == {i \in 1..Len(text) : text[i] = "r" /\ i + 1 \notin both}
<1>1. LineEndingLabel(text) = IF both = {} /\ lf = {} /\ cr = {} THEN "none"
                              ELSE IF lf = {} /\ cr = {} THEN "crlf"
                              ELSE IF both = {} /\ cr = {} THEN "lf"
                              ELSE "mixed"
  BY Zenon DEF LineEndingLabel
<1>2. ASSUME LineEndingLabel(text) = "lf" PROVE text \in Seq(NoCr)
  <2>1. both = {} /\ cr = {}
    <3> HIDE DEF both, lf, cr
    <3> QED  BY <1>1, <1>2
  <2>2. \A i \in 1..Len(text) : text[i] # "r"  BY <2>1
  <2>3. \A i \in 1..Len(text) : text[i] \in NoCr  BY <2>2 DEF NoCr
  <2> QED  BY <2>3
<1>3. ASSUME text \in Seq(NoCr) PROVE LineEndingLabel(text) \in {"none", "lf"}
  <2>1. \A i \in 1..Len(text) : text[i] # "r"  BY <1>3 DEF NoCr
  <2>2. both = {} /\ cr = {}
    <3>1. \A i \in both : i - 1 \in 1..Len(text)  OBVIOUS
    <3> QED  BY <2>1, <3>1
  <2> HIDE DEF both, lf, cr
  <2> QED  BY <1>1, <2>2
<1> QED  BY <1>2, <1>3

LEMMA LabelCrLf ==
  ASSUME NEW text \in Seq(Characters)
  PROVE  /\ LineEndingLabel(text) = "crlf" => text \in CrLf
         /\ text \in CrLf => LineEndingLabel(text) \in {"none", "crlf"}
<1> DEFINE both == {i \in 1..Len(text) : text[i] = "n" /\ i > 1 /\ text[i - 1] = "r"}
           lf == {i \in 1..Len(text) : text[i] = "n"} \ both
           cr == {i \in 1..Len(text) : text[i] = "r" /\ i + 1 \notin both}
<1>1. LineEndingLabel(text) = IF both = {} /\ lf = {} /\ cr = {} THEN "none"
                              ELSE IF lf = {} /\ cr = {} THEN "crlf"
                              ELSE IF both = {} /\ cr = {} THEN "lf"
                              ELSE "mixed"
  BY Zenon DEF LineEndingLabel
<1>2. ASSUME LineEndingLabel(text) = "crlf" PROVE text \in CrLf
  <2>1. lf = {} /\ cr = {}
    <3> HIDE DEF both, lf, cr
    <3> QED  BY <1>1, <1>2
  <2>2. ASSUME NEW i \in 1..Len(text), text[i] = "r" PROVE i < Len(text) /\ text[i + 1] = "n"
    <3>1. i + 1 \in both  BY <2>1, <2>2
    <3> QED  BY <3>1
  <2>3. ASSUME NEW i \in 1..Len(text), text[i] = "n" PROVE i > 1 /\ text[i - 1] = "r"
    <3>1. i \in both  BY <2>1, <2>3
    <3> QED  BY <3>1
  <2> QED  BY <2>2, <2>3 DEF CrLf
<1>3. ASSUME text \in CrLf PROVE LineEndingLabel(text) \in {"none", "crlf"}
  <2>1. \A i \in 1..Len(text) : /\ text[i] = "r" => i < Len(text) /\ text[i + 1] = "n"
                                /\ text[i] = "n" => i > 1 /\ text[i - 1] = "r"
    BY <1>3 DEF CrLf
  <2>2. lf = {}  BY <2>1
  <2>3. \A i \in 1..Len(text) : text[i] = "r" => i + 1 \in both
    <3> SUFFICES ASSUME NEW i \in 1..Len(text), text[i] = "r" PROVE i + 1 \in both  OBVIOUS
    <3>1. i + 1 \in 1..Len(text) /\ i + 1 > 1 /\ (i + 1) - 1 = i /\ text[i + 1] = "n"  BY <2>1
    <3> QED  BY <3>1
  <2>4. cr = {}  BY <2>3
  <2> HIDE DEF both, lf, cr
  <2> QED  BY <1>1, <2>2, <2>4
<1> QED  BY <1>2, <1>3

(* Texts with CRLF may be put together, ...                                *)
LEMMA CrLfClosed == Closed(CrLf) /\ <<"r", "n">> \in CrLf
<1>1. PICK none : none = <<>>  OBVIOUS
<1>2. none \in CrLf
  <2>1. none \in Seq(Characters) /\ 1..Len(none) = {}  BY <1>1
  <2> QED  BY <2>1, Zenon DEF CrLf
<1>3. PICK end : end = <<"r", "n">>  OBVIOUS
<1>4. end \in CrLf
  <2>1. end \in Seq(Characters) /\ Len(end) = 2 /\ end[1] = "r" /\ end[2] = "n"
    BY <1>3 DEF Characters
  <2>2. ASSUME NEW i \in 1..Len(end)
        PROVE  /\ end[i] = "r" => i < Len(end) /\ end[i + 1] = "n"
               /\ end[i] = "n" => i > 1 /\ end[i - 1] = "r"
    <3>1. CASE i = 1  BY <2>1, <3>1
    <3>2. CASE i = 2  BY <2>1, <3>2
    <3> QED  BY <2>1, <3>1, <3>2
  <2>3. end \in Seq(Characters)  BY <2>1
  <2> QED  BY <2>2, <2>3 DEF CrLf
<1>5. ASSUME NEW s \in CrLf, NEW t \in CrLf PROVE s \o t \in CrLf
  <2>1. s \in Seq(Characters) /\ t \in Seq(Characters)  BY DEF CrLf
  <2>2. PICK n \in Nat, m \in Nat : n = Len(s) /\ m = Len(t)  BY <2>1
  <2>3. PICK x : x = s \o t  OBVIOUS
  <2>4. /\ x \in Seq(Characters) /\ Len(x) = n + m
        /\ \A i \in 1..n + m : x[i] = IF i <= n THEN s[i] ELSE t[i - n]
    <3>1. /\ s \o t \in Seq(Characters) /\ Len(s \o t) = Len(s) + Len(t)
          /\ \A i \in 1..Len(s) + Len(t) :
               (s \o t)[i] = IF i <= Len(s) THEN s[i] ELSE t[i - Len(s)]
      BY <2>1, ConcatProperties
    <3> QED  BY <2>2, <2>3, <3>1, Zenon
  <2>5. \A i \in 1..n : /\ s[i] = "r" => i < n /\ s[i + 1] = "n"
                        /\ s[i] = "n" => i > 1 /\ s[i - 1] = "r"
    BY <2>2 DEF CrLf
  <2>6. \A i \in 1..m : /\ t[i] = "r" => i < m /\ t[i + 1] = "n"
                        /\ t[i] = "n" => i > 1 /\ t[i - 1] = "r"
    BY <2>2 DEF CrLf
  <2>7. ASSUME NEW i \in 1..n + m
        PROVE  /\ x[i] = "r" => i < n + m /\ x[i + 1] = "n"
               /\ x[i] = "n" => i > 1 /\ x[i - 1] = "r"
    <3>1. CASE i <= n
      <4>1. i \in 1..n /\ x[i] = s[i]  BY <2>4, <3>1
      <4>2. ASSUME x[i] = "r" PROVE i < n + m /\ x[i + 1] = "n"
        <5>1. i < n /\ s[i + 1] = "n"  BY <2>5, <4>1, <4>2
        <5>2. i + 1 \in 1..n + m /\ i + 1 <= n  BY <5>1
        <5> QED  BY <2>4, <5>1, <5>2
      <4>3. ASSUME x[i] = "n" PROVE i > 1 /\ x[i - 1] = "r"
        <5>1. i > 1 /\ s[i - 1] = "r"  BY <2>5, <4>1, <4>3
        <5>2. i - 1 \in 1..n + m /\ i - 1 <= n  BY <4>1, <5>1
        <5> QED  BY <2>4, <5>1, <5>2
      <4> QED  BY <4>2, <4>3
    <3>2. CASE ~ (i <= n)
      <4>1. PICK k : k = i - n  OBVIOUS
      <4>2. k \in 1..m /\ x[i] = t[k]  BY <2>4, <3>2, <4>1
      <4>3. ASSUME x[i] = "r" PROVE i < n + m /\ x[i + 1] = "n"
        <5>1. k < m /\ t[k + 1] = "n"  BY <2>6, <4>2, <4>3
        <5>2. i + 1 \in 1..n + m /\ ~ (i + 1 <= n) /\ (i + 1) - n = k + 1
          BY <3>2, <4>1, <5>1
        <5> QED  BY <2>4, <5>1, <5>2
      <4>4. ASSUME x[i] = "n" PROVE i > 1 /\ x[i - 1] = "r"
        <5>1. k > 1 /\ t[k - 1] = "r"  BY <2>6, <4>2, <4>4
        <5>2. i - 1 \in 1..n + m /\ ~ (i - 1 <= n) /\ (i - 1) - n = k - 1
          BY <3>2, <4>1, <5>1
        <5> QED  BY <2>4, <5>1, <5>2
      <4> QED  BY <4>3, <4>4
    <3> QED  BY <3>1, <3>2
  <2>8. x \in CrLf  BY <2>4, <2>7 DEF CrLf
  <2> QED  BY <2>3, <2>8
<1>6. CrLf \subseteq Seq(Characters)  BY DEF CrLf
<1> QED  BY <1>1, <1>2, <1>3, <1>4, <1>5, <1>6 DEF Closed

(* ... and cut where no CR is just before.                                 *)
NotAfterCr(text) == {a \in 0..Len(text) : a \in {0, Len(text)} \/ text[a] # "r"}

LEMMA CrLfCuts ==
  ASSUME NEW text \in CrLf
  PROVE  Cuts(text, CrLf, NotAfterCr(text))
<1>1. text \in Seq(Characters)  BY DEF CrLf
<1>2. PICK n \in Nat : n = Len(text)  BY <1>1
<1>3. \A i \in 1..n : /\ text[i] = "r" => i < n /\ text[i + 1] = "n"
                      /\ text[i] = "n" => i > 1 /\ text[i - 1] = "r"
  BY <1>2 DEF CrLf
<1>4. ASSUME NEW a \in NotAfterCr(text), NEW b \in NotAfterCr(text), a <= b
      PROVE  SubSeq(text, a + 1, b) \in CrLf
  <2>1. a \in 0..n /\ b \in 0..n /\ (a \in {0, n} \/ text[a] # "r") /\ (b \in {0, n} \/ text[b] # "r")
    BY <1>2 DEF NotAfterCr
  <2>2. PICK m \in Nat : m = b - a  BY <1>4, <2>1
  <2>3. PICK s : s = SubSeq(text, a + 1, b)  OBVIOUS
  <2>4. s \in Seq(Characters) /\ Len(s) = m /\ \A k \in 1..m : s[k] = text[a + k]
    <3>1. PICK c : c = a + 1  OBVIOUS
    <3>2. c \in 1..n + 1 /\ b \in c - 1..n /\ b - c + 1 = m
          /\ \A k \in 1..m : c + k - 1 = a + k
      BY <1>4, <2>1, <2>2, <3>1
    <3>3. s = SubSeq(text, c, b)  BY <2>3, <3>1, Zenon
    <3>4. /\ s \in Seq(Characters) /\ Len(s) = b - c + 1
          /\ \A k \in 1..b - c + 1 : s[k] = text[c + k - 1]
      BY <1>1, <1>2, <3>2, <3>3, PartOf
    <3> QED  BY <3>2, <3>4
  <2>5. ASSUME NEW k \in 1..m
        PROVE  /\ s[k] = "r" => k < m /\ s[k + 1] = "n"
               /\ s[k] = "n" => k > 1 /\ s[k - 1] = "r"
    <3>1. a + k \in 1..n /\ s[k] = text[a + k]  BY <2>1, <2>2, <2>4
    <3>2. ASSUME s[k] = "r" PROVE k < m /\ s[k + 1] = "n"
      <4>1. a + k < n /\ text[(a + k) + 1] = "n"  BY <1>3, <3>1, <3>2
      <4>2. k # m
        <5> SUFFICES ASSUME k = m PROVE FALSE  OBVIOUS
        <5>1. b = a + k  BY <2>1, <2>2
        <5>2. b < n /\ b # 0 /\ text[b] = "r"
          <6>1. b < n /\ b # 0  BY <3>1, <4>1, <5>1
          <6>2. text[b] = "r"  BY <3>1, <3>2, <5>1, Zenon
          <6> QED  BY <6>1, <6>2
        <5>3. b \notin {0, n}  BY <5>2
        <5> QED  BY <2>1, <5>2, <5>3, Zenon
      <4>3. k + 1 \in 1..m /\ a + (k + 1) = (a + k) + 1  BY <2>1, <4>2
      <4>4. s[k + 1] = text[a + (k + 1)]  BY <2>4, <4>3
      <4> QED  BY <4>1, <4>3, <4>4
    <3>3. ASSUME s[k] = "n" PROVE k > 1 /\ s[k - 1] = "r"
      <4>1. a + k > 1 /\ text[(a + k) - 1] = "r"  BY <1>3, <3>1, <3>3
      <4>2. k # 1
        <5> SUFFICES ASSUME k = 1 PROVE FALSE  OBVIOUS
        <5>1. (a + k) - 1 = a /\ a # 0 /\ a # n  BY <2>1, <3>1, <4>1
        <5> QED  BY <2>1, <4>1, <5>1
      <4>3. k - 1 \in 1..m /\ a + (k - 1) = (a + k) - 1  BY <2>1, <4>2
      <4>4. s[k - 1] = text[a + (k - 1)]  BY <2>4, <4>3
      <4> QED  BY <4>1, <4>3, <4>4
    <3> QED  BY <3>2, <3>3
  <2>6. s \in CrLf  BY <2>4, <2>5 DEF CrLf
  <2> QED  BY <2>3, <2>6
<1>5. NotAfterCr(text) \subseteq 0..n /\ 0 \in NotAfterCr(text) /\ n \in NotAfterCr(text)
  BY <1>2 DEF NotAfterCr
<1> QED  BY <1>2, <1>4, <1>5 DEF Cuts

(* A text with CRLF ends in no LF alone.                                   *)
LEMMA CrLfEnds ==
  ASSUME NEW text \in CrLf, EndsWith(text, <<"n">>)
  PROVE  EndsWith(text, <<"r", "n">>)
<1>1. text \in Seq(Characters)  BY DEF CrLf
<1>2. PICK n \in Nat : n = Len(text)  BY <1>1
<1>3. n >= 1 /\ SubSeq(text, n, n) = <<"n">>
  <2>1. Len(<<"n">>) = 1  OBVIOUS
  <2>2. n >= 1 /\ SubSeq(text, n - 1 + 1, n) = <<"n">>  BY <1>2, <2>1, Zenon DEF EndsWith
  <2>3. n - 1 + 1 = n  OBVIOUS
  <2> QED  BY <2>2, <2>3
<1>4. text[n] = "n"
  <2>1. n \in 1..Len(text)  BY <1>2, <1>3
  <2>2. SubSeq(text, n, n) = <<text[n]>>  BY <1>1, <2>1, SubSeqOne
  <2>3. <<text[n]>> = <<"n">>  BY <1>3, <2>2
  <2> QED  BY <2>3
<1>5. n > 1 /\ text[n - 1] = "r"  BY <1>2, <1>3, <1>4 DEF CrLf
<1>6. SubSeq(text, n - 1, n) = <<"r", "n">>
  <2>1. n - 1 \in 1..Len(text) /\ (n - 1) + 1 <= Len(text) /\ (n - 1) + 1 = n  BY <1>2, <1>5
  <2>2. SubSeq(text, n - 1, (n - 1) + 1) = <<text[n - 1], text[(n - 1) + 1]>>
    BY <1>1, <2>1, SubSeqTwo
  <2> QED  BY <1>4, <1>5, <2>1, <2>2
<1>7. Len(text) >= Len(<<"r", "n">>) /\ Len(text) - Len(<<"r", "n">>) + 1 = n - 1
  <2>1. Len(<<"r", "n">>) = 2  OBVIOUS
  <2> QED  BY <1>2, <1>5, <2>1
<1> QED  BY <1>2, <1>6, <1>7 DEF EndsWith

(* Where a text that begins no line end in the middle matches one with     *)
(* CRLF, it may be cut.                                                    *)
LEMMA CrLfMatches ==
  ASSUME NEW text \in CrLf, NEW old \in CrLf, old # <<>>
  PROVE  CutAtMatches(text, old, NotAfterCr(text))
<1>1. text \in Seq(Characters) /\ old \in Seq(Characters)  BY DEF CrLf
<1>2. PICK n \in Nat, m \in Nat : n = Len(text) /\ m = Len(old) /\ m # 0  BY <1>1
<1>3. ASSUME NEW i \in 1..n + 1, Matches(text, old, i)
      PROVE  {i - 1, i + m - 1} \subseteq NotAfterCr(text)
  <2>1. i + m <= n + 1 /\ SubSeq(text, i, i + m - 1) = old  BY <1>2, <1>3 DEF Matches
  <2>2. \A k \in 1..m : old[k] = text[i + k - 1]
    <3>1. i \in 1..n + 1 /\ i + m - 1 \in i - 1..n /\ (i + m - 1) - i + 1 = m  BY <2>1
    <3>2. \A k \in 1..(i + m - 1) - i + 1 : SubSeq(text, i, i + m - 1)[k] = text[i + k - 1]
      BY <1>1, <1>2, <3>1, PartOf
    <3> QED  BY <2>1, <3>1, <3>2
  <2>3. i - 1 \in NotAfterCr(text)
    <3> SUFFICES ASSUME i - 1 \notin {0, n}, text[i - 1] = "r" PROVE FALSE
      <4>1. i - 1 \in 0..n  OBVIOUS
      <4> QED  BY <1>2, <4>1 DEF NotAfterCr
    <3>1. i - 1 \in 1..n /\ (i - 1) + 1 = i /\ i + 1 - 1 = i  OBVIOUS
    <3>2. text[i] = "n"  BY <1>2, <3>1 DEF CrLf
    <3>3. 1 \in 1..m  BY <1>2
    <3>4. old[1] = "n"  BY <2>2, <3>1, <3>2, <3>3
    <3> QED  BY <1>2, <3>3, <3>4 DEF CrLf
  <2>4. i + m - 1 \in NotAfterCr(text)
    <3> SUFFICES ASSUME text[i + m - 1] = "r" PROVE FALSE
      <4>1. i + m - 1 \in 0..n  BY <2>1
      <4> QED  BY <1>2, <4>1 DEF NotAfterCr
    <3>1. m \in 1..m  BY <1>2
    <3>2. old[m] = "r"  BY <2>2, <3>1
    <3> QED  BY <1>2, <3>1, <3>2 DEF CrLf
  <2> QED  BY <2>3, <2>4
<1> QED  BY <1>2, <1>3 DEF CutAtMatches

(* Flattening begins with the first of the sequences.                      *)
LEMMA FlattenNotEmpty ==
  ASSUME NEW S, NEW seqs \in Seq(Seq(S)), seqs # <<>>, seqs[1] # <<>>
  PROVE  FlattenSeq(seqs) # <<>>
<1>1. PICK n \in Nat : n = Len(seqs) /\ n # 0  OBVIOUS
<1>2. PICK f \in [0..n -> Seq(S)] :
        /\ f[0] = <<>>
        /\ \A k \in 1..n : f[k] = f[k - 1] \o seqs[k]
        /\ FlattenSeq(seqs) = f[n]
  BY <1>1, FlattenDef
<1>3. \A k \in 1..n : seqs[k] \in Seq(S)  BY <1>1
<1>4. \A k \in 1..n : k - 1 \in 0..n /\ Len(f[k]) = Len(f[k - 1]) + Len(seqs[k])
  <2> SUFFICES ASSUME NEW k \in 1..n
               PROVE  k - 1 \in 0..n /\ Len(f[k]) = Len(f[k - 1]) + Len(seqs[k])
    OBVIOUS
  <2>1. k - 1 \in 0..n  OBVIOUS
  <2>2. f[k - 1] \in Seq(S) /\ seqs[k] \in Seq(S) /\ f[k] = f[k - 1] \o seqs[k]
    BY <1>2, <1>3, <2>1
  <2> QED  BY <2>1, <2>2, ConcatProperties
<1> DEFINE N == {k \in Nat : k \in 1..n => Len(f[k]) # 0}
<1>5. 0 \in N  OBVIOUS
<1>6. ASSUME NEW k \in Nat, k \in N PROVE k + 1 \in N
  <2> SUFFICES ASSUME k + 1 \in 1..n PROVE Len(f[k + 1]) # 0  OBVIOUS
  <2>1. /\ Len(f[k + 1]) = Len(f[k]) + Len(seqs[k + 1])
        /\ Len(f[k]) \in Nat /\ Len(seqs[k + 1]) \in Nat
    <3>1. (k + 1) - 1 = k /\ k \in 0..n  OBVIOUS
    <3>2. Len(f[k + 1]) = Len(f[k]) + Len(seqs[k + 1])  BY <1>4, <3>1
    <3>3. f[k] \in Seq(S) /\ seqs[k + 1] \in Seq(S)  BY <1>2, <1>3, <3>1
    <3>4. Len(f[k]) \in Nat /\ Len(seqs[k + 1]) \in Nat  BY <3>3
    <3> QED  BY <3>2, <3>4
  <2>2. CASE k = 0
    <3>1. 1 \in 1..n  BY <1>1
    <3>2. seqs[1] \in Seq(S)  BY <1>3, <3>1
    <3>3. Len(seqs[1]) # 0  BY <3>2
    <3> QED  BY <2>1, <2>2, <3>3
  <2>3. CASE k # 0
    <3>1. PICK x \in Nat, y \in Nat : x = Len(f[k]) /\ y = Len(seqs[k + 1])  BY <2>1
    <3>2. k \in 1..n  BY <2>3
    <3>3. x # 0  BY <1>6, <3>1, <3>2
    <3>4. Len(f[k + 1]) = x + y  BY <2>1, <3>1
    <3> QED  BY <3>3, <3>4
  <2> QED  BY <2>2, <2>3
<1>7. \A k \in Nat : k \in N
  <2> HIDE DEF N
  <2> QED  BY <1>5, <1>6, NumberInduction
<1>8. Len(f[n]) # 0
  <2>1. n \in Nat /\ n \in 1..n  BY <1>1
  <2>2. n \in N  BY <1>7, <2>1
  <2> QED  BY <2>1, <2>2
<1>9. f[n] \in Seq(S)  BY <1>2
<1> QED  BY <1>2, <1>8, <1>9

(* Two parts that meet are one part.                                       *)
Joined(x, a, b) == SubSeq(x, 1, a) \o SubSeq(x, a + 1, b) = SubSeq(x, 1, b)

LEMMA PartsJoined ==
  ASSUME NEW S, NEW x \in Seq(S), NEW b \in 0..Len(x), NEW a \in 0..b
  PROVE  Joined(x, a, b)
<1>1. 1 \in 1..Len(x) + 1 /\ a \in 1 - 1..b /\ b \in a..Len(x)  OBVIOUS
<1>2. SubSeq(x, 1, a) \o SubSeq(x, a + 1, b) = SubSeq(x, 1, b)
  BY <1>1, ConcatAdjacentSubSeq
<1> QED  BY <1>2 DEF Joined

-----------------------------------------------------------------------------
(* A text to look for that begins in the middle of a line end.             *)
AfterCr(old) ==
  /\ old \in Seq(Characters) /\ old # <<>> /\ old[1] = "n"
  /\ \A i \in 1..Len(old) : /\ old[i] = "r" => i < Len(old) /\ old[i + 1] = "n"
                            /\ old[i] = "n" => i = 1 \/ old[i - 1] = "r"

(* It is normalized to the text with that line end.                        *)
LEMMA NormalizedAfterCr ==
  ASSUME NEW content, LineEndingLabel(content) = "crlf", NEW old, AfterCr(old)
  PROVE  Normalized(content, old) = <<"r">> \o old
<1>1. PICK m \in Nat : m = Len(old) /\ m # 0  BY DEF AfterCr
<1>2. old \in Seq(Characters)  BY DEF AfterCr
<1>3. \A i \in 1..m : /\ old[i] = "r" => i < m /\ old[i + 1] = "n"
                      /\ old[i] = "n" => i = 1 \/ old[i - 1] = "r"
  BY <1>1 DEF AfterCr
<1>4. PICK ending : ending = <<"r", "n">>  OBVIOUS
<1> DEFINE Piece(i) == IF old[i] \notin {"r", "n"} THEN <<old[i]>>
                       ELSE IF old[i] = "n" /\ i > 1 /\ old[i - 1] = "r" THEN <<>>
                       ELSE ending
           pieces == [i \in 1..Len(old) |-> Piece(i)]
<1>5. Normalized(content, old) = FlattenSeq(pieces)  BY <1>4, Zenon DEF Normalized
<1>6. ending \in Seq(Characters)  BY <1>4 DEF Characters
<1>7. pieces \in Seq(Seq(Characters)) /\ Len(pieces) = m /\ \A k \in 1..m : pieces[k] = Piece(k)
  <2>1. \A i \in 1..m : Piece(i) \in Seq(Characters)  BY <1>1, <1>2, <1>6
  <2> HIDE DEF Piece
  <2> QED  BY <1>1, <2>1
<1> HIDE DEF pieces
<1>8. PICK f \in [0..m -> Seq(Characters)] :
        /\ f[0] = <<>>
        /\ \A k \in 1..m : f[k] = f[k - 1] \o pieces[k]
        /\ FlattenSeq(pieces) = f[m]
  BY <1>7, FlattenDef
<1>9. \A k \in 1..m : f[k] = f[k - 1] \o Piece(k)  BY <1>7, <1>8
<1>10. PICK x : x = <<"r">> \o old  OBVIOUS
<1>11. x \in Seq(Characters) /\ Len(x) = m + 1 /\ x[1] = "r" /\ \A k \in 1..m : x[k + 1] = old[k]
  <2>1. PICK one : one = <<"r">>  OBVIOUS
  <2>2. one \in Seq(Characters) /\ Len(one) = 1 /\ one[1] = "r"  BY <2>1 DEF Characters
  <2>3. /\ one \o old \in Seq(Characters) /\ Len(one \o old) = Len(one) + Len(old)
        /\ \A i \in 1..Len(one) + Len(old) :
             (one \o old)[i] = IF i <= Len(one) THEN one[i] ELSE old[i - Len(one)]
    BY <1>2, <2>2, ConcatProperties
  <2>4. \A k \in 1..m : k + 1 \in 1..1 + m /\ ~ (k + 1 <= 1) /\ (k + 1) - 1 = k  OBVIOUS
  <2>5. 1 \in 1..1 + m /\ 1 <= 1 /\ 1 + m = m + 1  BY <1>1
  <2>6. x = one \o old  BY <1>10, <2>1
  <2>7. \A i \in 1..1 + m : x[i] = IF i <= 1 THEN one[i] ELSE old[i - 1]
    BY <1>1, <2>2, <2>3, <2>6, Zenon
  <2>8. x[1] = "r"  BY <2>2, <2>5, <2>7
  <2>9. \A k \in 1..m : x[k + 1] = old[k]  BY <2>4, <2>7
  <2> QED  BY <1>1, <2>2, <2>3, <2>5, <2>6, <2>8, <2>9
<1> DEFINE End(k) == IF old[k] = "r" THEN k + 2 ELSE k + 1
           N == {k \in Nat : k \in 1..m => f[k] = SubSeq(x, 1, End(k))}
<1>12. \A k \in 1..m : End(k) \in 0..m + 1  BY <1>3
<1>13. 0 \in N  OBVIOUS
<1>15. ASSUME NEW k \in Nat, k \in N PROVE k + 1 \in N
  <2> SUFFICES ASSUME k + 1 \in 1..m PROVE f[k + 1] = SubSeq(x, 1, End(k + 1))  OBVIOUS
  <2>1. PICK a, l : a = f[k] /\ l = k + 1  OBVIOUS
  <2>2. l \in 1..m /\ l - 1 = k /\ f[l] = a \o Piece(l)
    <3>1. l \in 1..m /\ l - 1 = k  BY <2>1
    <3>2. f[l] = f[l - 1] \o Piece(l)  BY <1>9, <3>1, Zenon
    <3> QED  BY <2>1, <3>1, <3>2, Zenon
  <2>3. a \in Seq(Characters)
    <3>1. k \in 0..m  OBVIOUS
    <3> QED  BY <1>8, <2>1, <3>1
  <2>4. CASE k = 0
    <3>1. old[l] = "n" /\ l = 1  BY <2>1, <2>4 DEF AfterCr
    <3>2. Piece(l) = ending  BY <3>1
    <3>3. a = <<>>  BY <1>8, <2>1, <2>4
    <3>4. f[l] = ending  BY <1>6, <2>2, <3>2, <3>3
    <3>5. SubSeq(x, 1, 1 + 1) = <<x[1], x[1 + 1]>>
      <4>1. 1 \in 1..Len(x) /\ 1 + 1 <= Len(x)  BY <1>1, <1>11
      <4> QED  BY <1>11, <4>1, SubSeqTwo
    <3>6. x[1 + 1] = "n"  BY <1>1, <1>11, <2>2, <3>1
    <3>7. End(l) = 1 + 1  BY <3>1
    <3>8. <<x[1], x[1 + 1]>> = ending  BY <1>4, <1>11, <3>6
    <3> QED  BY <2>1, <3>4, <3>5, <3>7, <3>8
  <2>5. CASE k # 0
    <3>1. k \in 1..m /\ k < m  BY <2>5
    <3>2. a = SubSeq(x, 1, End(k))  BY <1>15, <2>1, <3>1
    <3>3. old[k] = "r" => old[l] = "n"  BY <1>3, <2>1, <3>1
    <3>4. CASE old[l] \notin {"r", "n"}
      <4>1. End(k) = k + 1 /\ End(l) = l + 1 /\ l + 1 = k + 2  BY <2>1, <3>3, <3>4
      <4>2. Piece(l) = <<old[l]>>  BY <3>4
      <4>3. SubSeq(x, k + 2, k + 2) = <<old[l]>>
        <5>1. k + 2 \in 1..Len(x) /\ k + 2 = l + 1  BY <1>11, <2>1, <2>2
        <5>2. SubSeq(x, k + 2, k + 2) = <<x[k + 2]>>  BY <1>11, <5>1, SubSeqOne
        <5> QED  BY <1>11, <2>2, <5>1, <5>2
      <4>4. Joined(x, k + 1, k + 2)
        <5>1. k + 2 \in 0..Len(x) /\ k + 1 \in 0..k + 2  BY <1>11
        <5> QED  BY <1>11, <5>1, PartsJoined
      <4>5. (k + 1) + 1 = k + 2  OBVIOUS
      <4>6. a \o SubSeq(x, k + 2, k + 2) = SubSeq(x, 1, k + 2)
        BY <3>2, <4>1, <4>4, <4>5 DEF Joined
      <4>7. f[l] = SubSeq(x, 1, k + 2)  BY <2>2, <4>2, <4>3, <4>6
      <4> QED  BY <2>1, <4>1, <4>7
    <3>5. CASE old[l] = "n"
      <4>1. old[k] = "r"  BY <1>3, <2>1, <2>2, <2>5, <3>5
      <4>2. End(k) = k + 2 /\ End(l) = k + 2  BY <2>1, <3>5, <4>1
      <4>3. l > 1  BY <2>1, <2>5
      <4>4. Piece(l) = <<>>  BY <2>2, <3>5, <4>1, <4>3
      <4>5. f[l] = a  BY <2>2, <2>3, <4>4
      <4> QED  BY <2>1, <3>2, <4>2, <4>5
    <3>6. CASE old[l] = "r"
      <4>1. End(k) = k + 1 /\ End(l) = k + 3  BY <2>1, <3>3, <3>6
      <4>2. l < m /\ old[l + 1] = "n"  BY <1>3, <2>2, <3>6
      <4>3. Piece(l) = ending  BY <3>6
      <4>4. SubSeq(x, k + 2, k + 3) = ending
        <5>1. k + 2 \in 1..Len(x) /\ (k + 2) + 1 <= Len(x) /\ (k + 2) + 1 = k + 3
              /\ k + 2 = l + 1 /\ k + 3 = (l + 1) + 1 /\ l + 1 \in 1..m
          BY <1>11, <2>1, <2>2, <4>2
        <5>2. SubSeq(x, k + 2, (k + 2) + 1) = <<x[k + 2], x[(k + 2) + 1]>>
          BY <1>11, <5>1, SubSeqTwo
        <5>3. x[k + 2] = "r" /\ x[k + 3] = "n"  BY <1>11, <2>2, <3>6, <4>2, <5>1
        <5> QED  BY <1>4, <5>1, <5>2, <5>3
      <4>5. Joined(x, k + 1, k + 3)
        <5>1. k + 3 \in 0..Len(x) /\ k + 1 \in 0..k + 3  BY <1>11, <2>1, <4>2
        <5> QED  BY <1>11, <5>1, PartsJoined
      <4>6. (k + 1) + 1 = k + 2  OBVIOUS
      <4>7. a \o SubSeq(x, k + 2, k + 3) = SubSeq(x, 1, k + 3)
        BY <3>2, <4>1, <4>5, <4>6 DEF Joined
      <4>8. f[l] = SubSeq(x, 1, k + 3)  BY <2>2, <4>3, <4>4, <4>7
      <4> QED  BY <2>1, <4>1, <4>8
    <3> QED  BY <3>4, <3>5, <3>6
  <2> QED  BY <2>4, <2>5
<1>16. \A k \in Nat : k \in N
  <2> HIDE DEF N
  <2> QED  BY <1>13, <1>15, NumberInduction
<1>17. f[m] = SubSeq(x, 1, End(m)) /\ old[m] # "r"  BY <1>1, <1>3, <1>16
<1>18. f[m] = SubSeq(x, 1, Len(x))  BY <1>11, <1>17
<1>19. SubSeq(x, 1, Len(x)) = x  BY <1>11, SubSeqFull
<1> QED  BY <1>5, <1>8, <1>10, <1>18, <1>19

(* Where such a text matches, the line end does.                           *)
LEMMA AfterCrMatches ==
  ASSUME NEW text \in CrLf, NEW old, AfterCr(old), NEW j, Matches(text, old, j)
  PROVE  /\ j > 1 /\ text[j - 1] = "r"
         /\ \A k \in 1..Len(old) : text[j + k - 1] = old[k]
<1>1. text \in Seq(Characters) /\ old \in Seq(Characters)  BY DEF CrLf, AfterCr
<1>2. PICK n \in Nat, m \in Nat : n = Len(text) /\ m = Len(old) /\ m # 0
  BY <1>1 DEF AfterCr
<1>3. j \in 1..n + 1 /\ j + m <= n + 1 /\ SubSeq(text, j, j + m - 1) = old
  BY <1>2 DEF Matches
<1>4. \A k \in 1..m : text[j + k - 1] = old[k]
  <2>1. j + m - 1 \in j - 1..n /\ (j + m - 1) - j + 1 = m  BY <1>2, <1>3
  <2>2. \A k \in 1..(j + m - 1) - j + 1 : SubSeq(text, j, j + m - 1)[k] = text[j + k - 1]
    BY <1>1, <1>2, <1>3, <2>1, PartOf
  <2> QED  BY <1>3, <2>1, <2>2
<1>5. text[j] = "n" /\ j \in 1..n
  <2>1. 1 \in 1..m /\ j + 1 - 1 = j  BY <1>2, <1>3
  <2>2. text[j] = old[1]  BY <1>4, <2>1
  <2> QED  BY <1>2, <1>3, <2>2 DEF AfterCr
<1> QED  BY <1>2, <1>4, <1>5 DEF CrLf

(* So looking for it with that line end finds as many matches.             *)
LEMMA AfterCrCount ==
  ASSUME NEW text \in CrLf, NEW old, AfterCr(old), NEW other, other = <<"r">> \o old
  PROVE  Len(MatchIndices(text, other)) = Len(MatchIndices(text, old))
<1>1. text \in Seq(Characters) /\ old \in Seq(Characters)  BY DEF CrLf, AfterCr
<1>2. PICK n \in Nat, m \in Nat : n = Len(text) /\ m = Len(old) /\ m # 0
  BY <1>1 DEF AfterCr
<1>3. /\ other \in Seq(Characters) /\ Len(other) = m + 1 /\ other[1] = "r"
      /\ \A k \in 1..m : other[k + 1] = old[k]
  <2>1. PICK one : one = <<"r">>  OBVIOUS
  <2>2. one \in Seq(Characters) /\ Len(one) = 1 /\ one[1] = "r"  BY <2>1 DEF Characters
  <2>3. /\ one \o old \in Seq(Characters) /\ Len(one \o old) = Len(one) + Len(old)
        /\ \A i \in 1..Len(one) + Len(old) :
             (one \o old)[i] = IF i <= Len(one) THEN one[i] ELSE old[i - Len(one)]
    BY <1>1, <2>2, ConcatProperties
  <2>4. \A k \in 1..m : k + 1 \in 1..1 + m /\ ~ (k + 1 <= 1) /\ (k + 1) - 1 = k  OBVIOUS
  <2>5. 1 \in 1..1 + m /\ 1 <= 1 /\ 1 + m = m + 1  BY <1>2
  <2>6. other = one \o old  BY <2>1
  <2>7. \A i \in 1..1 + m : other[i] = IF i <= 1 THEN one[i] ELSE old[i - 1]
    BY <1>2, <2>2, <2>3, <2>6, Zenon
  <2>8. other[1] = "r"  BY <2>2, <2>5, <2>7
  <2>9. \A k \in 1..m : other[k + 1] = old[k]  BY <2>4, <2>7
  <2> QED  BY <1>2, <2>2, <2>3, <2>5, <2>6, <2>8, <2>9
<1>4. PICK f \in [Points(text, old) -> Seq(Nat)] :
        /\ MatchIndices(text, old) = f[1]
        /\ \A i \in Points(text, old) : f[i] = MatchStep(text, old, f, i)
  BY <1>1, MatchDef
<1>5. PICK g \in [Points(text, other) -> Seq(Nat)] :
        /\ MatchIndices(text, other) = g[1]
        /\ \A i \in Points(text, other) : g[i] = MatchStep(text, other, g, i)
  BY <1>1, <1>3, MatchDef
<1>6. Points(text, old) = 1..n + m + 2 /\ Points(text, other) = 1..n + (m + 1) + 2
  BY <1>2, <1>3 DEF Points
<1>7. Most(1, m) = m /\ Most(1, m + 1) = m + 1  BY <1>2 DEF Most
<1>8. \A i \in 1..n + 1 : Matches(text, other, i) <=> Matches(text, old, i + 1)
  <2>1. ASSUME NEW i \in 1..n + 1, Matches(text, other, i) PROVE Matches(text, old, i + 1)
    <3>1. i + (m + 1) <= n + 1 /\ SubSeq(text, i, i + (m + 1) - 1) = other
      BY <1>2, <1>3, <2>1 DEF Matches
    <3>2. i + 1 \in 1..n + 1 /\ (i + 1) + m <= n + 1 /\ (i + 1) + m - 1 \in (i + 1) - 1..n
          /\ i + (m + 1) - 1 = i + m /\ (i + 1) + m - 1 = i + m
      BY <3>1
    <3>3. PICK part : part = SubSeq(text, i + 1, i + m)  OBVIOUS
    <3>4. part \in Seq(Characters) /\ Len(part) = m /\ \A k \in 1..m : part[k] = text[i + k]
      <4>1. (i + m) - (i + 1) + 1 = m /\ \A k \in 1..m : (i + 1) + k - 1 = i + k  BY <3>2
      <4>2. /\ part \in Seq(Characters) /\ Len(part) = (i + m) - (i + 1) + 1
            /\ \A k \in 1..(i + m) - (i + 1) + 1 : part[k] = text[(i + 1) + k - 1]
        BY <1>1, <1>2, <3>2, <3>3, PartOf
      <4> QED  BY <4>1, <4>2
    <3>5. \A k \in 1..m + 1 : other[k] = text[i + k - 1]
      <4>1. i \in 1..n + 1 /\ i + m \in i - 1..n /\ (i + m) - i + 1 = m + 1  BY <3>1
      <4>2. \A k \in 1..(i + m) - i + 1 : SubSeq(text, i, i + m)[k] = text[i + k - 1]
        BY <1>1, <1>2, <4>1, PartOf
      <4> QED  BY <3>1, <3>2, <4>1, <4>2
    <3>6. \A k \in 1..m : k + 1 \in 1..m + 1 /\ i + (k + 1) - 1 = i + k  OBVIOUS
    <3>7. \A k \in 1..m : old[k] = text[i + k]  BY <1>3, <3>5, <3>6
    <3>8. part = old  BY <1>1, <1>2, <3>4, <3>7, SeqEqual
    <3> QED  BY <1>2, <3>2, <3>3, <3>8 DEF Matches
  <2>2. ASSUME NEW i \in 1..n + 1, Matches(text, old, i + 1) PROVE Matches(text, other, i)
    <3>1. (i + 1) + m <= n + 1  BY <1>2, <2>2 DEF Matches
    <3>2. (i + 1) - 1 = i /\ \A k \in 1..m : (i + 1) + k - 1 = i + k  OBVIOUS
    <3>3. text[i] = "r" /\ \A k \in 1..m : text[i + k] = old[k]
      <4>1. /\ text[(i + 1) - 1] = "r"
            /\ \A k \in 1..Len(old) : text[(i + 1) + k - 1] = old[k]
        <5>1. PICK j : j = i + 1  OBVIOUS
        <5>2. Matches(text, old, j)  BY <2>2, <5>1
        <5>3. text[j - 1] = "r" /\ \A k \in 1..Len(old) : text[j + k - 1] = old[k]
          BY <5>2, AfterCrMatches
        <5> QED  BY <5>1, <5>3
      <4> QED  BY <1>2, <3>2, <4>1
    <3>4. PICK part : part = SubSeq(text, i, i + m)  OBVIOUS
    <3>5. part \in Seq(Characters) /\ Len(part) = m + 1
          /\ \A k \in 1..m + 1 : part[k] = text[i + k - 1]
      <4>1. i + m \in i - 1..n /\ (i + m) - i + 1 = m + 1  BY <3>1
      <4>2. /\ part \in Seq(Characters) /\ Len(part) = (i + m) - i + 1
            /\ \A k \in 1..(i + m) - i + 1 : part[k] = text[i + k - 1]
        BY <1>1, <1>2, <3>4, <4>1, PartOf
      <4> QED  BY <4>1, <4>2
    <3>6. ASSUME NEW k \in 1..m + 1 PROVE part[k] = other[k]
      <4>1. CASE k = 1
        <5>1. i + 1 - 1 = i  OBVIOUS
        <5> QED  BY <1>3, <3>3, <3>5, <4>1, <5>1
      <4>2. CASE k # 1
        <5>1. PICK l : l = k - 1  OBVIOUS
        <5>2. l \in 1..m /\ l + 1 = k /\ i + k - 1 = i + l  BY <4>2, <5>1
        <5>3. part[k] = old[l]  BY <3>3, <3>5, <5>2
        <5>4. other[l + 1] = old[l]  BY <1>3, <5>2
        <5> QED  BY <5>2, <5>3, <5>4
      <4> QED  BY <4>1, <4>2
    <3>7. part = other  BY <1>3, <3>5, <3>6, SeqEqual
    <3>8. i + (m + 1) <= n + 1 /\ i + (m + 1) - 1 = i + m  BY <3>1
    <3> QED  BY <1>2, <1>3, <3>4, <3>7, <3>8 DEF Matches
  <2> QED  BY <2>1, <2>2
<1>9. \A i \in 1..n + 2 : i + m > n + 1 => f[i] = <<>>
  <2> SUFFICES ASSUME NEW i \in 1..n + 2, i + m > n + 1 PROVE f[i] = <<>>  OBVIOUS
  <2>1. i \in 1..n + m + 2  BY <1>2
  <2> QED  BY <1>2, <1>4, <1>6, <2>1 DEF MatchStep
<1>10. \A i \in 1..n + 1 : ~ Matches(text, old, i) => f[i] = f[i + 1]
  <2> SUFFICES ASSUME NEW i \in 1..n + 1, ~ Matches(text, old, i) PROVE f[i] = f[i + 1]
    OBVIOUS
  <2>1. CASE i + m > n + 1
    <3>1. i + 1 \in 1..n + 2 /\ (i + 1) + m > n + 1 /\ i \in 1..n + 2  BY <2>1
    <3> QED  BY <1>9, <2>1, <3>1
  <2>2. CASE ~ (i + m > n + 1)
    <3>1. i \in 1..n + m + 2 /\ i + m <= n + 1  BY <2>2
    <3>2. SubSeq(text, i, i + m - 1) # old  BY <1>2, <3>1 DEF Matches
    <3> QED  BY <1>2, <1>4, <1>6, <2>2, <3>1, <3>2 DEF MatchStep
  <2> QED  BY <2>1, <2>2
<1> DEFINE T == {i \in 1..n + 1 : Len(g[i]) = Len(f[i + 1])}
<1>11. ASSUME NEW i \in 1..n + 1, \A j \in 1..n + 1 : i < j => j \in T PROVE i \in T
  <2>1. i \in 1..n + (m + 1) + 2 /\ i + 1 \in 1..n + m + 2  BY <1>2
  <2>2. CASE i + (m + 1) > n + 1
    <3>1. g[i] = <<>>  BY <1>2, <1>3, <1>5, <1>6, <2>1, <2>2 DEF MatchStep
    <3>2. i + 1 \in 1..n + 2 /\ (i + 1) + m > n + 1  BY <2>2
    <3>3. f[i + 1] = <<>>  BY <1>9, <3>2
    <3> QED  BY <3>1, <3>3
  <2>3. CASE ~ (i + (m + 1) > n + 1) /\ Matches(text, other, i)
    <3>1. PICK j : j = i + (m + 1)  OBVIOUS
    <3>2. j \in 1..n + 1 /\ i < j /\ (i + 1) + m = j  BY <1>2, <2>3, <3>1
    <3>3. SubSeq(text, i, i + (m + 1) - 1) = other  BY <1>3, <2>3 DEF Matches
    <3>4. g[i] = <<i>> \o g[j]
      BY <1>2, <1>3, <1>5, <1>6, <1>7, <2>1, <2>3, <3>1, <3>3 DEF MatchStep
    <3>5. Matches(text, old, i + 1)  BY <1>8, <2>3
    <3>6. f[i + 1] = <<i + 1>> \o f[j]
      <4>1. ~ ((i + 1) + m > n + 1)  BY <3>2
      <4>2. SubSeq(text, i + 1, (i + 1) + m - 1) = old  BY <1>2, <3>5 DEF Matches
      <4> QED  BY <1>2, <1>4, <1>6, <1>7, <2>1, <3>2, <4>1, <4>2 DEF MatchStep
    <3>7. ~ Matches(text, old, j)
      <4> SUFFICES ASSUME Matches(text, old, j) PROVE FALSE  OBVIOUS
      <4>1. text[j - 1] = "r"  BY AfterCrMatches
      <4>2. m \in 1..m /\ (i + 1) + m - 1 = j - 1  BY <1>2, <3>2
      <4>3. text[j - 1] = old[m]
        <5>1. PICK l : l = i + 1  OBVIOUS
        <5>2. \A k \in 1..Len(old) : text[l + k - 1] = old[k]  BY <3>5, <5>1, AfterCrMatches
        <5>3. m \in 1..Len(old) /\ l + m - 1 = j - 1  BY <1>2, <4>2, <5>1
        <5> QED  BY <5>2, <5>3
      <4> QED  BY <1>2, <4>1, <4>2, <4>3 DEF AfterCr
    <3>8. f[j] = f[j + 1]  BY <1>10, <3>2, <3>7
    <3>9. Len(g[j]) = Len(f[j + 1])  BY <1>11, <3>2
    <3>10. PICK u, v : u = g[j] /\ v = f[j]  OBVIOUS
    <3>11. u \in Seq(Nat) /\ v \in Seq(Nat) /\ Len(u) = Len(v)
      <4>1. j \in 1..n + (m + 1) + 2 /\ j \in 1..n + m + 2  BY <1>2, <3>2
      <4> QED  BY <1>4, <1>5, <1>6, <3>8, <3>9, <3>10, <4>1
    <3>12. Len(<<i>> \o u) = 1 + Len(u) /\ Len(<<i + 1>> \o v) = 1 + Len(v)
      <4>1. <<i>> \in Seq(Nat) /\ <<i + 1>> \in Seq(Nat)
            /\ Len(<<i>>) = 1 /\ Len(<<i + 1>>) = 1
        OBVIOUS
      <4> QED  BY <3>11, <4>1, ConcatProperties
    <3>13. Len(g[i]) = Len(f[i + 1])  BY <3>4, <3>6, <3>10, <3>11, <3>12
    <3> QED  BY <3>13
  <2>4. CASE ~ (i + (m + 1) > n + 1) /\ ~ Matches(text, other, i)
    <3>1. SubSeq(text, i, i + (m + 1) - 1) # other  BY <1>2, <1>3, <2>4 DEF Matches
    <3>2. g[i] = g[i + 1]  BY <1>2, <1>3, <1>5, <1>6, <2>1, <2>4, <3>1 DEF MatchStep
    <3>3. i + 1 \in 1..n + 1 /\ i < i + 1  BY <2>4
    <3>4. ~ Matches(text, old, i + 1)  BY <1>8, <2>4
    <3>5. f[i + 1] = f[(i + 1) + 1]  BY <1>10, <3>3, <3>4
    <3>6. Len(g[i + 1]) = Len(f[(i + 1) + 1])  BY <1>11, <3>3
    <3> QED  BY <3>2, <3>5, <3>6
  <2> QED  BY <2>2, <2>3, <2>4
<1>12. 1 \in T
  <2>1. \A i \in 1..n + 1 : i \in T
    <3> HIDE DEF T
    <3>1. PICK b \in Nat : b = n + 1  OBVIOUS
    <3> QED  BY <1>11, <3>1, DownwardInduction
  <2> QED  BY <2>1
<1>13. f[1] = f[1 + 1]
  <2>1. ~ Matches(text, old, 1)
    <3> SUFFICES ASSUME Matches(text, old, 1) PROVE FALSE  OBVIOUS
    <3>1. 1 > 1  BY AfterCrMatches
    <3> QED  BY <3>1
  <2>2. 1 \in 1..n + 1  OBVIOUS
  <2> QED  BY <1>10, <2>1, <2>2
<1> QED  BY <1>4, <1>5, <1>12, <1>13

(* A text that has no bare CR and is spots in one with CRLF is such a text *)
(* itself, or begins in the middle of a line end.                          *)
LEMMA FoundOld ==
  ASSUME NEW text \in CrLf, NEW old \in Seq(Characters), old # <<>>, NoBareCr(old),
         NEW j, Matches(text, old, j)
  PROVE  old \in CrLf \/ AfterCr(old)
<1>1. text \in Seq(Characters)  BY DEF CrLf
<1>2. PICK n \in Nat, m \in Nat : n = Len(text) /\ m = Len(old) /\ m # 0  BY <1>1
<1>3. j \in 1..n + 1 /\ j + m <= n + 1 /\ SubSeq(text, j, j + m - 1) = old
  BY <1>2 DEF Matches
<1>4. \A k \in 1..m : old[k] = text[j + k - 1]
  <2>1. j + m - 1 \in j - 1..n /\ (j + m - 1) - j + 1 = m  BY <1>2, <1>3
  <2>2. \A k \in 1..(j + m - 1) - j + 1 : SubSeq(text, j, j + m - 1)[k] = text[j + k - 1]
    BY <1>1, <1>2, <1>3, <2>1, PartOf
  <2> QED  BY <1>3, <2>1, <2>2
<1>5. \A k \in 1..m : old[k] = "r" => k < m /\ old[k + 1] = "n"  BY <1>2 DEF NoBareCr
<1>6. \A k \in 1..m : old[k] = "n" => k = 1 \/ old[k - 1] = "r"
  <2> SUFFICES ASSUME NEW k \in 1..m, old[k] = "n", k # 1 PROVE old[k - 1] = "r"  OBVIOUS
  <2>1. PICK i : i = j + k - 1  OBVIOUS
  <2>2. i \in 1..n /\ text[i] = "n"  BY <1>3, <1>4, <2>1
  <2>3. text[i - 1] = "r"  BY <1>2, <2>2 DEF CrLf
  <2>4. k - 1 \in 1..m /\ j + (k - 1) - 1 = i - 1  BY <1>3, <2>1
  <2> QED  BY <1>4, <2>3, <2>4
<1>7. CASE old[1] = "n"
  <2>1. /\ old \in Seq(Characters) /\ old # <<>> /\ old[1] = "n"
        /\ \A k \in 1..Len(old) : /\ old[k] = "r" => k < Len(old) /\ old[k + 1] = "n"
                                  /\ old[k] = "n" => k = 1 \/ old[k - 1] = "r"
    BY <1>2, <1>5, <1>6, <1>7
  <2> QED  BY <2>1, Zenon DEF AfterCr
<1>8. CASE old[1] # "n"
  <2>1. \A k \in 1..m : old[k] = "n" => k > 1 /\ old[k - 1] = "r"
    <3>1. \A k \in 1..m : k # 1 => k > 1  OBVIOUS
    <3> QED  BY <1>6, <1>8, <3>1
  <2> QED  BY <1>2, <1>5, <2>1 DEF CrLf
<1> QED  BY <1>7, <1>8

(* With CRLF in the file, what the client sends is written with CRLF, and  *)
(* something if it was something.                                          *)
LEMMA NormalizedCrLf ==
  ASSUME NEW content, LineEndingLabel(content) = "crlf", NEW text \in Seq(Characters)
  PROVE  /\ Normalized(content, text) \in CrLf
         /\ text # <<>> => Normalized(content, text) # <<>>
<1>1. Normalized(content, text) \in CrLf
  <2>1. \A i \in 1..Len(text) : text[i] \notin {"r", "n"} => <<text[i]>> \in CrLf
    <3> SUFFICES ASSUME NEW i \in 1..Len(text), text[i] \notin {"r", "n"}
                 PROVE  <<text[i]>> \in CrLf
      OBVIOUS
    <3>1. PICK one : one = <<text[i]>>  OBVIOUS
    <3>2. one \in Seq(Characters) /\ Len(one) = 1 /\ one[1] = text[i]  BY <3>1
    <3>3. ASSUME NEW k \in 1..Len(one)
          PROVE  /\ one[k] = "r" => k < Len(one) /\ one[k + 1] = "n"
                 /\ one[k] = "n" => k > 1 /\ one[k - 1] = "r"
      <4>1. k = 1  BY <3>2
      <4> QED  BY <3>2, <4>1
    <3>4. one \in CrLf  BY <3>2, <3>3 DEF CrLf
    <3> QED  BY <3>1, <3>4
  <2>2. Closed(CrLf) /\ <<"r", "n">> \in CrLf  BY CrLfClosed
  <2>3. PICK T : T = CrLf  OBVIOUS
  <2>4. Normalized(content, text) \in T  BY <2>1, <2>2, <2>3, NormalizedIn
  <2> QED  BY <2>3, <2>4
<1>2. ASSUME text # <<>> PROVE Normalized(content, text) # <<>>
  <2>1. PICK ending : ending = <<"r", "n">>  OBVIOUS
  <2> DEFINE Piece(i) == IF text[i] \notin {"r", "n"} THEN <<text[i]>>
                         ELSE IF text[i] = "n" /\ i > 1 /\ text[i - 1] = "r" THEN <<>>
                         ELSE ending
             pieces == [i \in 1..Len(text) |-> Piece(i)]
  <2>2. Normalized(content, text) = FlattenSeq(pieces)  BY <2>1, Zenon DEF Normalized
  <2>3. ending \in Seq(Characters) /\ ending # <<>>  BY <2>1 DEF Characters
  <2>4. \A i \in 1..Len(text) : Piece(i) \in Seq(Characters)  BY <2>3
  <2>5. 1 \in 1..Len(text) /\ Len(text) \in Nat  BY <1>2
  <2>6. Piece(1) # <<>>
    <3>1. ~ (1 > 1)  OBVIOUS
    <3>2. <<text[1]>> # <<>>  OBVIOUS
    <3> QED  BY <2>3, <3>1, <3>2, Zenon
  <2> HIDE DEF Piece
  <2>7. /\ pieces \in Seq(Seq(Characters)) /\ Len(pieces) = Len(text)
        /\ pieces[1] = Piece(1)
    BY <2>4, <2>5
  <2> HIDE DEF pieces
  <2>8. pieces # <<>> /\ pieces[1] # <<>>  BY <2>5, <2>6, <2>7
  <2> QED  BY <2>2, <2>7, <2>8, FlattenNotEmpty
<1> QED  BY <1>1, <1>2

(* A change of a text with CRLF leaves such a text.                        *)
LEMMA ChangedCrLf ==
  ASSUME NEW text \in CrLf, LineEndingLabel(text) = "crlf", NEW c \in ChangeRecords,
         c.kind = "replace" =>
           /\ NoBareCr(c.old) /\ c.old # <<>>
           /\ Len(MatchIndices(Selected(c, text),
                    MatchingOld(text, Selected(c, text), c.old, c.count))) = c.count
  PROVE  /\ c.kind = "replace" => ReplaceIn(c, text) \in CrLf
         /\ ReplaceRangeIn(c, text) \in CrLf /\ InsertIn(c, text) \in CrLf
<1>1. PICK T, C : T = CrLf /\ C = NotAfterCr(text)  OBVIOUS
<1>2. text \in Seq(Characters) /\ Len(text) \in Nat  BY DEF CrLf
<1>3. c.old \in Seq(Characters) /\ c.new \in Seq(Characters)  BY DEF ChangeRecords
<1>4. Closed(T) /\ <<"r", "n">> \in T /\ Cuts(text, T, C)  BY <1>1, CrLfClosed, CrLfCuts
<1>5. PICK norm : norm = Normalized(text, c.new)  OBVIOUS
<1>6. norm \in T  BY <1>1, <1>3, <1>5, NormalizedCrLf
<1>7. \A p \in 0..Len(text) : (p \in {0, Len(text)} \/ text[p] = "n") => p \in C
  BY <1>1 DEF NotAfterCr
<1>8. PICK from, to : from = Scope(c, text).from /\ to = Scope(c, text).to  OBVIOUS
<1>9. from \in C /\ to \in C  BY <1>2, <1>7, <1>8, ScopeIn
<1>10. PICK selected : selected = Selected(c, text)  OBVIOUS
<1>11. selected \in T
  <2>1. selected = SubSeq(text, from + 1, to)  BY <1>8, <1>10 DEF Selected
  <2>2. CASE from <= to  BY <1>4, <1>9, <2>1, <2>2 DEF Cuts
  <2>3. CASE ~ (from <= to)
    <3>1. from \in 0..Len(text) /\ to \in 0..Len(text)  BY <1>4, <1>9 DEF Cuts
    <3>2. from + 1 > to  BY <2>3, <3>1
    <3>3. selected = <<>>  BY <1>2, <2>1, <3>1, <3>2
    <3> QED  BY <1>4, <3>3 DEF Closed
  <2> QED  BY <2>2, <2>3
<1>12. ASSUME NEW old \in T PROVE PreserveTerminal(old, norm) \in T
  <2>1. ~ (EndsWith(old, <<"n">>) /\ ~EndsWith(old, <<"r", "n">>))
    BY <1>1, CrLfEnds
  <2> QED  BY <1>4, <1>6, <2>1, PreserveIn
<1>13. ReplaceRangeIn(c, text) \in CrLf
  <2>1. PICK new : new = PreserveTerminal(selected, norm)  OBVIOUS
  <2>2. new \in T  BY <1>11, <1>12, <2>1
  <2>3. ReplaceRangeIn(c, text) = Spliced(text, from, to, new)
    BY <1>5, <1>8, <1>10, <2>1, Zenon DEF ReplaceRangeIn
  <2>4. Spliced(text, from, to, new) \in T  BY <1>2, <1>4, <1>9, <2>2, SplicedIn
  <2> QED  BY <1>1, <2>3, <2>4
<1>14. InsertIn(c, text) \in CrLf
  <2>1. PICK line : line = IF c.position \in {"after", "inside_start"}
                           THEN SymbolLine(text) + 1 ELSE SymbolLine(text)
    OBVIOUS
  <2>2. PICK at : at = LineOffset(text, line)  OBVIOUS
  <2>3. at \in C
    <3>1. at \in 0..Len(text) /\ (at \notin {0, Len(text)} => text[at] = "n")
      BY <1>2, <2>2, LineOffsetAt
    <3> QED  BY <1>7, <3>1
  <2>4. InsertIn(c, text) = Spliced(text, at, at, norm)
    BY <1>5, <2>1, <2>2, Zenon DEF InsertIn
  <2>5. Spliced(text, at, at, norm) \in T  BY <1>2, <1>4, <1>6, <2>3, SplicedIn
  <2> QED  BY <1>1, <2>4, <2>5
<1>15. ASSUME c.kind = "replace" PROVE ReplaceIn(c, text) \in CrLf
  <2>1. PICK old : old = MatchingOld(text, selected, c.old, c.count)  OBVIOUS
  <2>2. NoBareCr(c.old) /\ c.old # <<>> /\ Len(MatchIndices(selected, old)) = c.count
    BY <1>10, <1>15, <2>1
  <2>3. PICK other : other = Normalized(text, c.old)  OBVIOUS
  <2>4. other \in CrLf /\ other # <<>>  BY <1>3, <2>2, <2>3, NormalizedCrLf
  <2>5. old = IF other # c.old /\ Len(MatchIndices(selected, other)) = c.count
              THEN other ELSE c.old
    BY <2>1, <2>3, Zenon DEF MatchingOld
  <2>6. old \in Seq(Characters) /\ selected \in Seq(Characters)
    <3>1. other \in Seq(Characters)  BY <2>4 DEF CrLf
    <3> QED  BY <1>1, <1>3, <1>11, <2>5, <3>1 DEF CrLf
  <2>7. old \in CrLf \/ \A j \in 1..Len(selected) + 1 : ~ Matches(selected, old, j)
    <3> SUFFICES ASSUME old \notin CrLf, NEW j, Matches(selected, old, j) PROVE FALSE
      OBVIOUS
    <3>1. old = c.old  BY <2>4, <2>5
    <3>2. AfterCr(old)  BY <1>1, <1>11, <2>2, <2>6, <3>1, FoundOld
    <3>3. other = <<"r">> \o old  BY <2>3, <3>1, <3>2, NormalizedAfterCr
    <3>4. Len(MatchIndices(selected, other)) = c.count
      BY <1>1, <1>11, <2>2, <3>2, <3>3, AfterCrCount
    <3>5. other # old  BY <2>4
    <3> QED  BY <2>5, <3>1, <3>4, <3>5
  <2>8. old # <<>>  BY <2>2, <2>4, <2>5
  <2>9. PICK new, cuts : new = PreserveTerminal(old, norm) /\ cuts = NotAfterCr(selected)
    OBVIOUS
  <2>10. MatchIndices(selected, old) # <<>> => new \in T
    <3> SUFFICES ASSUME MatchIndices(selected, old) # <<>> PROVE new \in T  OBVIOUS
    <3>1. old \in CrLf  BY <2>6, <2>7, SomeMatch
    <3> QED  BY <1>1, <1>12, <2>9, <3>1
  <2>11. Cuts(selected, T, cuts)  BY <1>1, <1>11, <2>9, CrLfCuts
  <2>12. CutAtMatches(selected, old, cuts)
    <3>1. CASE old \in CrLf  BY <1>1, <1>11, <2>8, <2>9, <3>1, CrLfMatches
    <3>2. CASE old \notin CrLf  BY <2>7, <3>2 DEF CutAtMatches
    <3> QED  BY <3>1, <3>2
  <2>13. PICK replaced : replaced = Replaced(selected, old, new)  OBVIOUS
  <2>14. replaced \in T  BY <1>4, <2>6, <2>10, <2>11, <2>12, <2>13, ReplacedIn
  <2>15. ReplaceIn(c, text) = Spliced(text, from, to, replaced)
    BY <1>5, <1>8, <1>10, <2>1, <2>9, <2>13, Zenon DEF ReplaceIn
  <2>16. Spliced(text, from, to, replaced) \in T  BY <1>2, <1>4, <1>9, <2>14, SplicedIn
  <2> QED  BY <1>1, <2>15, <2>16
<1> QED  BY <1>13, <1>14, <1>15

(* A file with uniform line endings keeps them.                            *)
LEMMA EditInvLineEndings == EditInv => LineEndingsKept
<1> SUFFICES ASSUME EditInv, stage = "planning", done < Len(Changes), NEW c, c = Changes[done + 1],
                    NEW text, text = Current(c.path), Admissible(c), Applicable(c),
                    c.kind \in {"create", "replace", "replace_range", "insert"},
                    c.kind = "replace" => NoBareCr(c.old) /\ c.old # <<>>,
                    text # Absent, LineEndingLabel(text) \in {"lf", "crlf"}
             PROVE  LineEndingLabel(PlanWith(c)[c.path].after) \in {"none", LineEndingLabel(text)}
  BY Zenon DEF LineEndingsKept
<1>1. EditTypes /\ PlanFromIndex  BY DEF EditInv
<1>2. c \in ChangeRecords /\ WellFormed(c) /\ text \in FileTextsOrNone
  BY <1>1, NextChange
<1>3. text \in Seq(Characters)  BY <1>2 DEF FileTextsOrNone
<1>4. PICK after : after = NewText(c, text)  OBVIOUS
<1>5. PlanWith(c)[c.path].after = after  BY <1>1, <1>2, <1>4, PlanWithChange
<1>6. c.new \in Seq(Characters)  BY <1>2 DEF ChangeRecords
<1>7. after \in {Normalized(text, c.new), ReplaceIn(c, text), ReplaceRangeIn(c, text), InsertIn(c, text)}
      /\ ((after = ReplaceIn(c, text) /\ c.kind = "replace")
          \/ after \in {Normalized(text, c.new), ReplaceRangeIn(c, text), InsertIn(c, text)})
  BY <1>4 DEF NewText
<1>8. CASE LineEndingLabel(text) = "lf"
  <2>1. PICK S : S = NoCr  OBVIOUS
  <2>2. S \in SUBSET Characters /\ text \in Seq(S)  BY <1>3, <1>8, <2>1, LabelLf DEF NoCr
  <2>3. Normalized(text, c.new) \in Seq(S)
    <3>1. PICK T : T = Seq(S)  OBVIOUS
    <3>2. Closed(T)  BY <2>2, <3>1, SequencesClosed
    <3>3. <<"n">> \in T  BY <2>1, <3>1 DEF NoCr, Characters
    <3>4. ASSUME NEW i \in 1..Len(c.new), c.new[i] \notin {"r", "n"} PROVE <<c.new[i]>> \in T
      <4>1. c.new[i] \in S  BY <1>6, <2>1, <3>4 DEF NoCr
      <4> QED  BY <3>1, <4>1
    <3>5. Normalized(text, c.new) \in T  BY <1>6, <1>8, <3>2, <3>3, <3>4, NormalizedIn
    <3> QED  BY <3>1, <3>5
  <2>4. {ReplaceIn(c, text), ReplaceRangeIn(c, text), InsertIn(c, text)} \subseteq Seq(S)
    BY <1>2, <2>2, <2>3, ChangedSequences
  <2>5. after \in Seq(NoCr)  BY <1>7, <2>1, <2>3, <2>4
  <2>6. after \in Seq(Characters)  BY <2>5 DEF NoCr
  <2> QED  BY <1>5, <1>8, <2>5, <2>6, LabelLf
<1>9. CASE LineEndingLabel(text) = "crlf"
  <2>1. text \in CrLf  BY <1>3, <1>9, LabelCrLf
  <2>2. c.kind = "replace" =>
          Len(MatchIndices(Selected(c, text),
                MatchingOld(text, Selected(c, text), c.old, c.count))) = c.count
    BY Zenon DEF Applicable
  <2>3. /\ c.kind = "replace" => ReplaceIn(c, text) \in CrLf
        /\ ReplaceRangeIn(c, text) \in CrLf /\ InsertIn(c, text) \in CrLf
    BY <1>2, <1>9, <2>1, <2>2, ChangedCrLf
  <2>4. Normalized(text, c.new) \in CrLf  BY <1>6, <1>9, NormalizedCrLf
  <2>5. after \in CrLf  BY <1>7, <2>3, <2>4
  <2>6. after \in Seq(Characters)  BY <2>5 DEF CrLf
  <2> QED  BY <1>5, <1>9, <2>5, <2>6, LabelCrLf
<1> QED  BY <1>8, <1>9

(* Theorem: a change stays in the lines and the line endings it was made   *)
(* for (plan_change, line_range_bytes, normalize_line_endings_for_content, *)
(* preserve_terminal_line_ending, matching_old_text).                      *)
THEOREM EditsConfined == EditSpec => []ChangesConfined
<1>1. EditInv => ChangesConfined  BY EditInvConfined, EditInvLineEndings DEF ChangesConfined
<1> QED  BY <1>1, EditInvariant, PTL

-----------------------------------------------------------------------------
(* Retrieval. *)

-----------------------------------------------------------------------------
(* Answers of a call. *)

IsSeq(s) == \E S : s \in Seq(S)

(* A list with one more at its end.                                        *)
LEMMA OneMore ==
  ASSUME NEW s, IsSeq(s), NEW e
  PROVE  /\ IsSeq(Append(s, e)) /\ Len(s) \in Nat /\ Len(Append(s, e)) = Len(s) + 1
         /\ Append(s, e)[Len(s) + 1] = e
         /\ \A k \in 1..Len(s) : Append(s, e)[k] = s[k]
<1>1. PICK S : s \in Seq(S)  BY DEF IsSeq
<1>2. PICK R : R = S \union {e}  OBVIOUS
<1>3. s \in Seq(R) /\ e \in R  BY <1>1, <1>2
<1>4. Append(s, e) \in Seq(R)  BY <1>3
<1> QED  BY <1>3, <1>4, AppendProperties DEF IsSeq

(* Entries in the order of their places.                                   *)
Ordered(s) == \A j, k \in 1..Len(s) : j < k => s[j].at < s[k].at
PlacesOf(s) == {s[k].at : k \in 1..Len(s)}

(* One more entry, at the next place, keeps the order.                     *)
LEMMA OneMoreOrdered ==
  ASSUME NEW s, IsSeq(s), Ordered(s), NEW n \in Nat, PlacesOf(s) \subseteq 1..n,
         NEW e, e.at = n + 1
  PROVE  Ordered(Append(s, e)) /\ PlacesOf(Append(s, e)) = PlacesOf(s) \union {n + 1}
<1>1. PICK t, m : t = Append(s, e) /\ m = Len(s) /\ m \in Nat  BY OneMore
<1>2. /\ Len(t) = m + 1 /\ t[m + 1] = e
      /\ \A k \in 1..m : t[k] = s[k]
  BY <1>1, OneMore
<1>3. \A k \in 1..m : s[k].at \in 1..n  BY <1>1 DEF PlacesOf
<1>4. \A k \in 1..m + 1 : k \in 1..m \/ k = m + 1  BY <1>1
<1>5. Ordered(t)
  <2> SUFFICES ASSUME NEW j \in 1..m + 1, NEW k \in 1..m + 1, j < k
               PROVE  t[j].at < t[k].at
    BY <1>2 DEF Ordered
  <2>1. j \in 1..m  BY <1>1
  <2>2. CASE k \in 1..m  BY <1>1, <1>2, <2>1, <2>2 DEF Ordered
  <2>3. CASE k = m + 1
    <3>1. t[j].at \in 1..n /\ t[k].at = n + 1  BY <1>2, <1>3, <2>1, <2>3
    <3> QED  BY <3>1
  <2> QED  BY <1>4, <2>2, <2>3
<1>6. PlacesOf(t) = PlacesOf(s) \union {n + 1}
  <2>1. PlacesOf(t) = {t[k].at : k \in 1..m + 1}  BY <1>2 DEF PlacesOf
  <2>2. 1..m + 1 = 1..m \union {m + 1}  BY <1>1
  <2>3. {t[k].at : k \in 1..m} = {s[k].at : k \in 1..m}  BY <1>2
  <2> QED  BY <1>1, <1>2, <2>1, <2>2, <2>3 DEF PlacesOf
<1> QED  BY <1>1, <1>5, <1>6

(* What holds of a call that is being served.                              *)
Outcomes(c) == Len(c.results) + Len(c.errors)
CallGood(c) ==
  /\ c = [ops |-> c.ops, fail_fast |-> c.fail_fast, snapshot |-> c.snapshot,
          seen |-> c.seen, done |-> c.done, results |-> c.results, errors |-> c.errors]
  /\ DOMAIN c.ops = 1..Len(c.ops) /\ Len(c.ops) \in Nat
  /\ IsSeq(c.results) /\ IsSeq(c.errors)
  /\ Ordered(c.results) /\ Ordered(c.errors)
  /\ PlacesOf(c.results) \union PlacesOf(c.errors) = 1..Outcomes(c)
  /\ Outcomes(c) <= Len(c.ops)
  /\ \/ c.done = Outcomes(c)
     \/ /\ c.fail_fast /\ c.done = Len(c.ops)
        /\ c.errors # <<>> /\ Last(c.errors).at = Outcomes(c)

AnswersInv ==
  /\ call # Nil => CallGood(call)
  /\ answered # Nil => CallGood(answered) /\ answered.done = Len(answered.ops)

(* The call that begins has answered nothing.                              *)
LEMMA StartAnswers ==
  ASSUME AnswersInv, NEW c \in Calls \union Follows, NEW pin, StartCall(c, pin)
  PROVE  AnswersInv'
<1>1. Len(c.ops) \in Nat /\ DOMAIN c.ops = 1..Len(c.ops)
  <2>1. CASE c \in Calls  BY <2>1, RetrievalAssumption
  <2>2. CASE c \in Follows
    <3>1. PICK o : c.ops = <<o>>  BY <2>2 DEF Follows
    <3> QED  BY <3>1
  <2> QED  BY <2>1, <2>2
<1>2. PICK none : none = <<>>  OBVIOUS
<1>3. /\ call' = [ops |-> c.ops, fail_fast |-> c.fail_fast, snapshot |-> indexed,
                  seen |-> {}, done |-> 0, results |-> none, errors |-> none]
      /\ answered' = Nil
  BY <1>2 DEF StartCall
<1>4. PICK d : d = [ops |-> c.ops, fail_fast |-> c.fail_fast, snapshot |-> indexed,
                    seen |-> {}, done |-> 0, results |-> none, errors |-> none]
  OBVIOUS
<1>5. /\ d.ops = c.ops /\ d.done = 0 /\ d.results = none /\ d.errors = none
      /\ d.fail_fast = c.fail_fast /\ d.snapshot = indexed /\ d.seen = {}
  BY <1>4
<1>6. Len(none) = 0 /\ none \in Seq({})  BY <1>2
<1>7. IsSeq(none) /\ Ordered(none) /\ PlacesOf(none) = {}  BY <1>6 DEF IsSeq, Ordered, PlacesOf
<1>8. Outcomes(d) = 0  BY <1>5, <1>6 DEF Outcomes
<1>9. PlacesOf(none) \union PlacesOf(none) = 1..0  BY <1>7
<1>10. 0 <= Len(c.ops)  BY <1>1
<1>11. d = [ops |-> d.ops, fail_fast |-> d.fail_fast, snapshot |-> d.snapshot,
            seen |-> d.seen, done |-> d.done, results |-> d.results, errors |-> d.errors]
  BY <1>4, <1>5, Zenon
<1>12. CallGood(d)  BY <1>1, <1>5, <1>7, <1>8, <1>9, <1>10, <1>11 DEF CallGood
<1> QED  BY <1>3, <1>4, <1>12 DEF AnswersInv

(* Another answer goes after those before it.                              *)
LEMMA OperateAnswers ==
  ASSUME AnswersInv, Operate
  PROVE  AnswersInv'
<1>1. call # Nil /\ call.done < Len(call.ops) /\ answered' = answered /\ CallGood(call)
  BY DEF Operate, AnswersInv
<1>2. PICK c, n : c = call /\ n = call.done + 1  OBVIOUS
<1>3. PICK op, outcome, seen : call' = Recorded(op, outcome, seen)
  BY <1>1 DEF Operate
<1>4. PICK k : k = Outcomes(c)  OBVIOUS
<1>5. PICK results, errors : results = c.results /\ errors = c.errors  OBVIOUS
<1>6. IsSeq(results) /\ IsSeq(errors) /\ Ordered(results) /\ Ordered(errors)
      /\ PlacesOf(results) \union PlacesOf(errors) = 1..k
  BY <1>1, <1>2, <1>4, <1>5 DEF CallGood
<1>7. Len(results) \in Nat /\ Len(errors) \in Nat  BY <1>6, OneMore
<1>8. k \in Nat /\ k = Len(results) + Len(errors)
  <2>1. k = Len(results) + Len(errors)  BY <1>4, <1>5, Zenon DEF Outcomes
  <2> QED  BY <1>7, <2>1
<1>9. c.done = k /\ k < Len(c.ops) /\ n = k + 1 /\ Len(c.ops) \in Nat /\ DOMAIN c.ops = 1..Len(c.ops)
  BY <1>1, <1>2, <1>4, <1>8 DEF CallGood
<1>10. PICK entry : entry = [id |-> op.id, at |-> n, view |-> indexed, outcome |-> outcome]
  OBVIOUS
<1>11. entry.at = k + 1  BY <1>9, <1>10
<1>12. PICK bad : bad = IsError(outcome)  OBVIOUS
<1>13. PICK done2, results2, errors2 :
         /\ done2 = (IF bad /\ c.fail_fast THEN Len(c.ops) ELSE n)
         /\ results2 = (IF bad THEN results ELSE Append(results, entry))
         /\ errors2 = (IF bad THEN Append(errors, entry) ELSE errors)
  OBVIOUS
<1>14. PICK d : d = [ops |-> c.ops, fail_fast |-> c.fail_fast, snapshot |-> c.snapshot,
                     seen |-> seen, done |-> done2, results |-> results2, errors |-> errors2]
  OBVIOUS
<1>15. call' = d
  <2>1. call' = [c EXCEPT !.seen = seen, !.done = done2, !.results = results2, !.errors = errors2]
    BY <1>2, <1>3, <1>5, <1>10, <1>12, <1>13, Zenon DEF Recorded
  <2>2. c = [ops |-> c.ops, fail_fast |-> c.fail_fast, snapshot |-> c.snapshot,
             seen |-> c.seen, done |-> c.done, results |-> c.results, errors |-> c.errors]
    BY <1>1, <1>2 DEF CallGood
  <2>3. PICK a, b, e, f, g, h, i :
          c = [ops |-> a, fail_fast |-> b, snapshot |-> e, seen |-> f, done |-> g,
               results |-> h, errors |-> i]
    BY <2>2
  <2>4. c.ops = a /\ c.fail_fast = b /\ c.snapshot = e  BY <2>3
  <2>5. [c EXCEPT !.seen = seen, !.done = done2, !.results = results2, !.errors = errors2]
        = [[[[c EXCEPT !.seen = seen] EXCEPT !.done = done2] EXCEPT !.results = results2]
           EXCEPT !.errors = errors2]
    OBVIOUS
  <2>6. PICK c1 : c1 = [ops |-> a, fail_fast |-> b, snapshot |-> e, seen |-> seen, done |-> g,
                        results |-> h, errors |-> i]
    OBVIOUS
  <2>7. [c EXCEPT !.seen = seen] = c1  BY <2>3, <2>6
  <2>8. PICK c2 : c2 = [ops |-> a, fail_fast |-> b, snapshot |-> e, seen |-> seen,
                        done |-> done2, results |-> h, errors |-> i]
    OBVIOUS
  <2>9. [c1 EXCEPT !.done = done2] = c2  BY <2>6, <2>8
  <2>10. PICK c3 : c3 = [ops |-> a, fail_fast |-> b, snapshot |-> e, seen |-> seen,
                         done |-> done2, results |-> results2, errors |-> i]
    OBVIOUS
  <2>11. [c2 EXCEPT !.results = results2] = c3  BY <2>8, <2>10
  <2>12. [c3 EXCEPT !.errors = errors2]
         = [ops |-> a, fail_fast |-> b, snapshot |-> e, seen |-> seen,
            done |-> done2, results |-> results2, errors |-> errors2]
    BY <2>10
  <2> QED  BY <1>14, <2>1, <2>4, <2>5, <2>7, <2>9, <2>11, <2>12, Zenon
<1>16. /\ d.ops = c.ops /\ d.done = done2 /\ d.results = results2 /\ d.errors = errors2
       /\ d.fail_fast = c.fail_fast /\ d.snapshot = c.snapshot /\ d.seen = seen
  BY <1>14
<1>17. PlacesOf(results) \subseteq 1..k /\ PlacesOf(errors) \subseteq 1..k  BY <1>6
<1>18. 1..k \union {k + 1} = 1..k + 1  BY <1>8
<1>19. CASE ~ bad
  <2>1. results2 = Append(results, entry) /\ errors2 = errors /\ done2 = k + 1
    BY <1>9, <1>13, <1>19
  <2>2. /\ IsSeq(results2) /\ Len(results2) = Len(results) + 1 /\ Ordered(results2)
        /\ PlacesOf(results2) = PlacesOf(results) \union {k + 1}
    BY <1>6, <1>8, <1>11, <1>17, <2>1, OneMore, OneMoreOrdered
  <2>3. Outcomes(d) = k + 1  BY <1>7, <1>8, <1>16, <2>1, <2>2 DEF Outcomes
  <2>4. PlacesOf(results2) \union PlacesOf(errors2) = 1..Outcomes(d)
    BY <1>6, <1>18, <2>1, <2>2, <2>3
  <2>5. Outcomes(d) <= Len(d.ops) /\ d.done = Outcomes(d)  BY <1>8, <1>9, <1>16, <2>1, <2>3
  <2>6. /\ DOMAIN d.ops = 1..Len(d.ops) /\ Len(d.ops) \in Nat
        /\ IsSeq(d.results) /\ IsSeq(d.errors)
        /\ Ordered(d.results) /\ Ordered(d.errors)
        /\ PlacesOf(d.results) \union PlacesOf(d.errors) = 1..Outcomes(d)
    BY <1>6, <1>9, <1>16, <2>1, <2>2, <2>4, Zenon
  <2>7. d = [ops |-> d.ops, fail_fast |-> d.fail_fast, snapshot |-> d.snapshot,
             seen |-> d.seen, done |-> d.done, results |-> d.results, errors |-> d.errors]
    BY <1>14, <1>16, Zenon
  <2>8. CallGood(d)  BY <2>5, <2>6, <2>7, Zenon DEF CallGood
  <2> QED  BY <1>1, <1>15, <2>8 DEF AnswersInv
<1>20. CASE bad
  <2>1. /\ results2 = results /\ errors2 = Append(errors, entry)
        /\ done2 = IF c.fail_fast THEN Len(c.ops) ELSE k + 1
    BY <1>9, <1>13, <1>20
  <2>2. /\ IsSeq(errors2) /\ Len(errors2) = Len(errors) + 1 /\ Ordered(errors2)
        /\ errors2[Len(errors) + 1] = entry
        /\ PlacesOf(errors2) = PlacesOf(errors) \union {k + 1}
    BY <1>6, <1>8, <1>11, <1>17, <2>1, OneMore, OneMoreOrdered
  <2>3. Outcomes(d) = k + 1  BY <1>7, <1>8, <1>16, <2>1, <2>2 DEF Outcomes
  <2>4. PlacesOf(results2) \union PlacesOf(errors2) = 1..Outcomes(d)
    BY <1>6, <1>18, <2>1, <2>2, <2>3
  <2>5. Outcomes(d) <= Len(d.ops)  BY <1>8, <1>9, <1>16, <2>3
  <2>6. errors2 # <<>> /\ Last(errors2).at = k + 1
    <3>1. Last(errors2) = entry  BY <2>2 DEF Last
    <3>2. Len(errors2) # 0  BY <1>7, <2>2
    <3> QED  BY <1>11, <3>1, <3>2
  <2>7. \/ d.done = Outcomes(d)
        \/ d.fail_fast /\ d.done = Len(d.ops) /\ d.errors # <<>> /\ Last(d.errors).at = Outcomes(d)
    BY <1>16, <2>1, <2>3, <2>6
  <2>8. /\ DOMAIN d.ops = 1..Len(d.ops) /\ Len(d.ops) \in Nat
        /\ IsSeq(d.results) /\ IsSeq(d.errors)
        /\ Ordered(d.results) /\ Ordered(d.errors)
        /\ PlacesOf(d.results) \union PlacesOf(d.errors) = 1..Outcomes(d)
    BY <1>6, <1>9, <1>16, <2>1, <2>2, <2>4, Zenon
  <2>9. d = [ops |-> d.ops, fail_fast |-> d.fail_fast, snapshot |-> d.snapshot,
             seen |-> d.seen, done |-> d.done, results |-> d.results, errors |-> d.errors]
    BY <1>14, <1>16, Zenon
  <2>10. CallGood(d)  BY <2>5, <2>7, <2>8, <2>9, Zenon DEF CallGood
  <2> QED  BY <1>1, <1>15, <2>10 DEF AnswersInv
<1> QED  BY <1>19, <1>20

(* Every step keeps it.                                                    *)
LEMMA AnswersKept == AnswersInv /\ [RetrievalNext]_retrievalVars => AnswersInv'
<1> SUFFICES ASSUME AnswersInv, [RetrievalNext]_retrievalVars PROVE AnswersInv'  OBVIOUS
<1>1. CASE call' = call /\ answered' = answered  BY <1>1 DEF AnswersInv
<1>2. CASE \E c \in Calls \union Follows, pin \in Pins : StartCall(c, pin)
  BY <1>2, StartAnswers
<1>3. CASE \E pin \in Pins : RefuseCall(pin)  BY <1>3 DEF RefuseCall, AnswersInv
<1>4. CASE Operate  BY <1>4, OperateAnswers
<1>5. CASE AnswerCall  BY <1>5 DEF AnswerCall, AnswersInv
<1> QED
  BY <1>1, <1>2, <1>3, <1>4, <1>5, Zenon DEF RetrievalNext, ChangeIndex, retrievalVars

(* It says what the property says.                                         *)
LEMMA GoodAnswers == AnswersInv => OneAnswerEach
<1> DEFINE At(s) == [k \in DOMAIN s |-> s[k].at]
           Rising(s) == \A j, k \in DOMAIN s : j < k => s[j] < s[k]
           places == Range(At(answered.results)) \union Range(At(answered.errors))
<1> SUFFICES ASSUME CallGood(answered), answered.done = Len(answered.ops)
             PROVE  /\ Rising(At(answered.results)) /\ Rising(At(answered.errors))
                    /\ Len(answered.results) + Len(answered.errors) = Cardinality(places)
                    /\ \/ places = DOMAIN answered.ops
                       \/ /\ answered.fail_fast /\ answered.errors # <<>>
                          /\ places = 1..Last(answered.errors).at
  BY Zenon DEF AnswersInv, OneAnswerEach
<1>1. ASSUME NEW s, IsSeq(s)
      PROVE  /\ Range(At(s)) = PlacesOf(s) /\ Len(s) \in Nat
             /\ Ordered(s) => Rising(At(s))
  <2>1. DOMAIN s = 1..Len(s) /\ Len(s) \in Nat  BY <1>1 DEF IsSeq
  <2> QED  BY <2>1 DEF Range, PlacesOf, Ordered
<1>2. /\ IsSeq(answered.results) /\ IsSeq(answered.errors)
      /\ Ordered(answered.results) /\ Ordered(answered.errors)
      /\ PlacesOf(answered.results) \union PlacesOf(answered.errors) = 1..Outcomes(answered)
  BY DEF CallGood
<1>3. Rising(At(answered.results)) /\ Rising(At(answered.errors))  BY <1>1, <1>2, Zenon
<1>4. PICK k : k = Outcomes(answered)  OBVIOUS
<1>5. k \in Nat /\ k = Len(answered.results) + Len(answered.errors)
  <2>1. k = Len(answered.results) + Len(answered.errors)  BY <1>4, Zenon DEF Outcomes
  <2>2. PICK a, b : a = Len(answered.results) /\ b = Len(answered.errors)  OBVIOUS
  <2>3. a \in Nat /\ b \in Nat /\ k = a + b  BY <1>1, <1>2, <2>1, <2>2, Zenon
  <2>4. k \in Nat  BY <2>3
  <2> QED  BY <2>1, <2>4
<1>6. places = 1..k  BY <1>1, <1>2, <1>4
<1>7. Cardinality(1..k) = k
  <2>1. PICK m \in Nat : m = k  BY <1>5, Zenon
  <2>2. m \in Int /\ 1 \in Int  OBVIOUS
  <2>3. Cardinality(1..m) = IF 1 > m THEN 0 ELSE m - 1 + 1  BY <2>2, FS_Interval
  <2>4. Cardinality(1..m) = m  BY <2>3
  <2> QED  BY <2>1, <2>4
<1>8. \/ 1..k = DOMAIN answered.ops
      \/ /\ answered.fail_fast /\ answered.errors # <<>>
         /\ 1..k = 1..Last(answered.errors).at
  BY <1>4 DEF CallGood
<1> HIDE DEF places, At, Rising
<1> QED  BY <1>3, <1>5, <1>6, <1>7, <1>8, Zenon

(* Theorem: every operation of a call is answered once and in its place,   *)
(* except what follows a failure under fail_fast (retrieve.rs).            *)
THEOREM OperationsAnswered == RetrievalSpec => []OneAnswerEach
<1>1. RetrievalInit => AnswersInv  BY DEF RetrievalInit, AnswersInv
<1> QED  BY <1>1, AnswersKept, GoodAnswers, PTL DEF RetrievalSpec

-----------------------------------------------------------------------------
(* Texts and lines. *)

Tokens == DOMAIN CharWidth

(* The lines of a text are counted from 1, and each place is on one.       *)
LEMMA LinesOf ==
  ASSUME NEW text \in Seq(Tokens)
  PROVE  /\ LineCount(text) \in Nat \ {0}
         /\ \A i \in 1..Len(text) : LineOf(text, i) \in 1..LineCount(text)
<1>1. PICK n \in Nat : n = Len(text)  OBVIOUS
<1>2. Starts(text) \in SUBSET (1..n) /\ (n # 0 => 1 \in Starts(text))
  <2>1. n # 0 => 1 \in 1..n  OBVIOUS
  <2> QED  BY <1>1, <2>1 DEF Starts
<1>3. IsFiniteSet(1..n)
  <2>1. n \in Int /\ 1 \in Int  OBVIOUS
  <2> QED  BY <2>1, FS_Interval
<1>4. IsFiniteSet(Starts(text)) /\ Cardinality(Starts(text)) \in Nat
  BY <1>2, <1>3, FS_Subset, FS_CardinalityType
<1>5. LineCount(text) \in Nat \ {0}
  <2>1. CASE text = <<>>  BY <2>1 DEF LineCount
  <2>2. CASE text # <<>>
    <3>1. n # 0  BY <1>1, <2>2
    <3>2. Cardinality(Starts(text)) # 0  BY <1>2, <1>4, <3>1, FS_EmptySet
    <3> QED  BY <1>4, <2>2, <3>2 DEF LineCount
  <2> QED  BY <2>1, <2>2
<1>6. ASSUME NEW i \in 1..Len(text) PROVE LineOf(text, i) \in 1..LineCount(text)
  <2> DEFINE upTo == {s \in Starts(text) : s <= i}
  <2>1. text # <<>> /\ n # 0 /\ 1 <= i  BY <1>1
  <2>2. LineCount(text) = Cardinality(Starts(text))  BY <2>1 DEF LineCount
  <2>3. upTo \in SUBSET Starts(text) /\ 1 \in upTo  BY <1>2, <2>1
  <2>4. IsFiniteSet(upTo) /\ Cardinality(upTo) <= Cardinality(Starts(text))
    BY <1>4, <2>3, FS_Subset
  <2>5. Cardinality(upTo) \in Nat /\ Cardinality(upTo) # 0
    BY <2>3, <2>4, FS_EmptySet, FS_CardinalityType
  <2>6. LineOf(text, i) = Cardinality(upTo)  BY DEF LineOf
  <2> QED  BY <1>4, <2>2, <2>4, <2>5, <2>6
<1> QED  BY <1>5, <1>6

(* The text of a line is of the same tokens.                               *)
LEMMA LineTextSeq ==
  ASSUME NEW text \in Seq(Tokens), NEW n
  PROVE  LineText(text, n) \in Seq(Tokens)
<1>1. PICK on : on = {i \in 1..Len(text) : LineOf(text, i) = n /\ text[i] # NewLine}
  OBVIOUS
<1>2. on \in SUBSET (1..Len(text))  BY <1>1
<1>3. Picked(text, on) \in Seq(Tokens)  BY <1>2, PickedFrom
<1> QED  BY <1>1, <1>3 DEF LineText

(* So are lines of it.                                                     *)
LEMMA SliceSeq ==
  ASSUME NEW text \in Seq(Tokens), NEW from \in Nat \ {0}, NEW to \in Nat
  PROVE  SliceLines(text, from, to) \in Seq(Tokens)
<1>1. Cardinality(Starts(text)) \in Nat
  <2>1. Len(text) \in Int /\ 1 \in Int  OBVIOUS
  <2>2. IsFiniteSet(1..Len(text)) /\ Starts(text) \in SUBSET (1..Len(text))
    BY <2>1, FS_Interval DEF Starts
  <2> QED  BY <2>2, FS_Subset, FS_CardinalityType
<1> DEFINE last == IF to > Cardinality(Starts(text)) THEN Cardinality(Starts(text)) ELSE to
<1>2. PICK n \in Nat : n = IF last < from THEN 0 ELSE last - from + 1
  <2>1. PICK l \in Nat : l = last  BY <1>1
  <2>2. (IF l < from THEN 0 ELSE l - from + 1) \in Nat  OBVIOUS
  <2> QED  BY <2>1, <2>2
<1> DEFINE S == Seq(Tokens)
           Line(k) == LineText(text, from + k - 1)
           step == [sk \in S \X (1..n) |->
                      IF sk[1] = <<>> THEN Line(sk[2]) ELSE sk[1] \o <<NewLine>> \o Line(sk[2])]
           Sat(f) == f = [k \in 0..n |-> IF k = 0 THEN <<>>
                                         ELSE IF f[k - 1] = <<>> THEN Line(k)
                                         ELSE f[k - 1] \o <<NewLine>> \o Line(k)]
<1>3. \A k \in 1..n : Line(k) \in S  BY LineTextSeq
<1>4. NewLine \in Tokens  BY RetrievalAssumption DEF Tokens
<1>12. ASSUME NEW s \in S, NEW k \in 1..n
       PROVE  Line(k) \in S /\ s \o <<NewLine>> \o Line(k) \in S
  <2>1. PICK l : l = Line(k) /\ l \in S  BY <1>3
  <2>2. <<NewLine>> \in S  BY <1>4
  <2>3. s \o <<NewLine>> \in S  BY <2>2
  <2>4. (s \o <<NewLine>>) \o l \in S  BY <2>1, <2>3
  <2> QED  BY <2>1, <2>4
<1>5. step \in [S \X (1..n) -> S]
  <2> HIDE DEF S, Line
  <2> QED  BY <1>12
<1>6. <<>> \in S  OBVIOUS
<1>7. \E f : Sat(f)
  <2> HIDE DEF S, step
  <2> PICK e : e = <<>>  OBVIOUS
  <2>1. PICK f \in [0..n -> S] : Steps(n, e, step, f)  BY <1>5, <1>6, StepRecursion
  <2>2. f[0] = <<>> /\ \A k \in 1..n : f[k] = step[<<f[k - 1], k>>]  BY <2>1 DEF Steps
  <2>3. ASSUME NEW k \in 1..n
        PROVE  f[k] = IF f[k - 1] = <<>> THEN Line(k) ELSE f[k - 1] \o <<NewLine>> \o Line(k)
    <3>1. k - 1 \in 0..n  OBVIOUS
    <3>2. PICK s \in S : s = f[k - 1]  BY <3>1
    <3>3. step[<<s, k>>] = IF s = <<>> THEN Line(k) ELSE s \o <<NewLine>> \o Line(k)
      BY DEF step
    <3> QED  BY <2>2, <3>2, <3>3
  <2>4. ASSUME NEW k \in 0..n
        PROVE  f[k] = IF k = 0 THEN <<>>
                      ELSE IF f[k - 1] = <<>> THEN Line(k)
                      ELSE f[k - 1] \o <<NewLine>> \o Line(k)
    <3>1. CASE k = 0  BY <2>2, <3>1, Zenon
    <3>2. CASE k # 0
      <4>1. k \in 1..n  BY <3>2
      <4> QED  BY <2>3, <3>2, <4>1, Zenon
    <3> QED  BY <3>1, <3>2
  <2>5. f = [k \in 0..n |-> f[k]]  OBVIOUS
  <2>6. Sat(f)  BY <2>4, <2>5, Zenon
  <2> QED  BY <2>6
<1> DEFINE u == CHOOSE f : Sat(f)
<1>8. Sat(u)  BY <1>7, Zenon
<1>9. SliceLines(text, from, to) = u[n]  BY <1>2, Zenon DEF SliceLines
<1> HIDE DEF u, step, S
<1> DEFINE T == {k \in 0..n : u[k] \in S}
<1>10. 0 \in T
  <2>1. 0 \in 0..n /\ u[0] = <<>>  BY <1>8
  <2> QED  BY <1>6, <2>1
<1>11. ASSUME NEW k \in 1..n, k - 1 \in T PROVE k \in T
  <2>1. PICK s \in S : s = u[k - 1]  BY <1>11
  <2>2. k \in 0..n /\ k # 0  OBVIOUS
  <2>3. u[k] = IF u[k - 1] = <<>> THEN Line(k) ELSE u[k - 1] \o <<NewLine>> \o Line(k)
    BY <1>8, <2>2, Zenon
  <2>4. Line(k) \in S /\ s \o <<NewLine>> \o Line(k) \in S  BY <1>12
  <2>5. u[k] \in S  BY <2>1, <2>3, <2>4, Zenon
  <2> QED  BY <2>2, <2>5
<1>13. n \in T
  <2> HIDE DEF T
  <2>1. n \in 0..n  OBVIOUS
  <2> QED  BY <1>10, <1>11, <2>1, UpwardInduction
<1> QED  BY <1>9, <1>13 DEF S

-----------------------------------------------------------------------------
(* Pages. *)

(* The bytes of a text can be counted.                                     *)
LEMMA ByteCountNat ==
  ASSUME NEW A, NEW s \in Seq(A), \A a \in A : CharWidth[a] \in Nat
  PROVE  ByteCount(s) \in Nat /\ (s = <<>> => ByteCount(s) = 0)
<1>1. PICK n \in Nat : n = Len(s)  OBVIOUS
<1>2. \A k \in 1..n : CharWidth[s[k]] \in Nat  BY <1>1
<1> DEFINE step == [sk \in Nat \X (1..n) |-> sk[1] + CharWidth[s[sk[2]]]]
           Sat(f) == f = [k \in 0..n |-> IF k = 0 THEN 0 ELSE f[k - 1] + CharWidth[s[k]]]
<1>3. step \in [Nat \X (1..n) -> Nat]
  <2>1. ASSUME NEW m \in Nat, NEW k \in 1..n PROVE m + CharWidth[s[k]] \in Nat
    <3>1. PICK w \in Nat : w = CharWidth[s[k]]  BY <1>2
    <3> QED  BY <3>1
  <2> QED  BY <2>1
<1>4. \E f : Sat(f)
  <2>1. \A m \in Nat, k \in 1..n : step[<<m, k>>] = m + CharWidth[s[k]]  OBVIOUS
  <2> HIDE DEF step
  <2>2. PICK e \in Nat : e = 0  OBVIOUS
  <2>3. PICK f \in [0..n -> Nat] : Steps(n, e, step, f)  BY <1>3, StepRecursion
  <2>4. f[0] = 0 /\ \A k \in 1..n : f[k] = step[<<f[k - 1], k>>]  BY <2>2, <2>3 DEF Steps
  <2>5. ASSUME NEW k \in 0..n PROVE f[k] = IF k = 0 THEN 0 ELSE f[k - 1] + CharWidth[s[k]]
    <3>1. CASE k = 0  BY <2>4, <3>1
    <3>2. CASE k # 0
      <4>1. k \in 1..n /\ k - 1 \in 0..n  BY <3>2
      <4>2. PICK m \in Nat : m = f[k - 1]  BY <4>1
      <4>3. step[<<m, k>>] = m + CharWidth[s[k]]  BY <2>1, <4>1
      <4> QED  BY <2>4, <3>2, <4>1, <4>2, <4>3, Zenon
    <3> QED  BY <3>1, <3>2
  <2>6. f = [k \in 0..n |-> f[k]]  OBVIOUS
  <2> QED  BY <2>5, <2>6, Zenon
<1> DEFINE u == CHOOSE f : Sat(f)
<1>5. Sat(u)  BY <1>4, Zenon
<1>6. ByteCount(s) = u[n]  BY <1>1, Zenon DEF ByteCount
<1> HIDE DEF u, step
<1> DEFINE T == {k \in 0..n : u[k] \in Nat}
<1>7. 0 \in T /\ u[0] = 0
  <2>1. 0 \in 0..n /\ u[0] = 0  BY <1>5
  <2> QED  BY <2>1
<1>8. ASSUME NEW k \in 1..n, k - 1 \in T PROVE k \in T
  <2>1. PICK m \in Nat, w \in Nat : m = u[k - 1] /\ w = CharWidth[s[k]]  BY <1>2, <1>8
  <2>2. k \in 0..n /\ k # 0  OBVIOUS
  <2>3. u[k] = u[k - 1] + CharWidth[s[k]]  BY <1>5, <2>2, Zenon
  <2>4. u[k] \in Nat  BY <2>1, <2>3
  <2> QED  BY <2>2, <2>4
<1>9. n \in T
  <2> HIDE DEF T
  <2>1. n \in 0..n  OBVIOUS
  <2> QED  BY <1>7, <1>8, <2>1, UpwardInduction
<1> QED  BY <1>1, <1>6, <1>7, <1>9

(* A number of characters fits.                                            *)
LEMMA SomeFit ==
  ASSUME NEW A, NEW s \in Seq(A), \A a \in A : CharWidth[a] \in Nat, NEW n \in Nat
  PROVE  Fitting(s, n) \in 0..Len(s)
<1> DEFINE Bytes1(k) == ByteCount(SubSeq(s, 1, k))
           Fits(k) == Bytes1(k) <= n /\ (k = Len(s) \/ Bytes1(k + 1) > n)
           B == {k \in 0..Len(s) : k = Len(s) \/ Bytes1(k + 1) > n}
<1>1. PICK l \in Nat : l = Len(s)  OBVIOUS
<1>2. \A k \in 0..l : Bytes1(k) \in Nat /\ (k = 0 => Bytes1(k) = 0)
  <2> SUFFICES ASSUME NEW k \in 0..l PROVE Bytes1(k) \in Nat /\ (k = 0 => Bytes1(k) = 0)
    OBVIOUS
  <2>1. PICK p : p = SubSeq(s, 1, k)  OBVIOUS
  <2>2. p \in Seq(A) /\ (k = 0 => p = <<>>)
    <3>1. PICK one : one = 1  OBVIOUS
    <3>2. one \in 1..Len(s) + 1 /\ k \in one - 1..Len(s)  BY <1>1, <3>1
    <3>3. SubSeq(s, one, k) \in Seq(A) /\ Len(SubSeq(s, one, k)) = k - one + 1
      BY <3>2, PartOf
    <3>4. p \in Seq(A) /\ Len(p) = k  BY <2>1, <3>1, <3>3
    <3> QED  BY <3>4
  <2> QED  BY <2>1, <2>2, ByteCountNat
<1>3. B \in SUBSET Nat /\ B # {}
  <2>1. l \in B  BY <1>1
  <2> QED  BY <2>1
<1> HIDE DEF B, Bytes1
<1>4. PICK k \in B : \A m \in B : k <= m  BY <1>3, LeastNumber
<1>5. k \in 0..l /\ (k = l \/ Bytes1(k + 1) > n)  BY <1>1, <1>4 DEF B
<1>6. Bytes1(k) <= n
  <2>1. CASE k = 0
    <3>1. Bytes1(k) = 0  BY <1>2, <1>5, <2>1
    <3> QED  BY <3>1
  <2>2. CASE k # 0
    <3>1. PICK j : j = k - 1  OBVIOUS
    <3>2. j \in 0..l /\ j + 1 = k /\ ~ (k <= j)  BY <1>5, <2>2, <3>1
    <3>3. j \notin B  BY <1>4, <3>2
    <3>4. ~ (Bytes1(k) > n)  BY <1>1, <3>2, <3>3 DEF B
    <3>5. PICK b \in Nat : b = Bytes1(k)  BY <1>2, <1>5
    <3> QED  BY <3>4, <3>5
  <2> QED  BY <2>1, <2>2
<1>7. \E m \in 0..Len(s) : Fits(m)  BY <1>1, <1>5, <1>6
<1>8. Fitting(s, n) = CHOOSE m \in 0..Len(s) : Fits(m)  BY Zenon DEF Fitting, Bytes1
<1> QED  BY <1>7, <1>8, Zenon

(* A range as it is stated lies within the text.                           *)
Clamps(text, from, to, lo, hi) ==
  /\ lo \in 1..LineCount(text) /\ hi \in 1..LineCount(text) /\ lo <= hi
  /\ Clamped(text, from, to) = <<lo, hi>>
  /\ Clamped(text, from, to)[1] = lo /\ Clamped(text, from, to)[2] = hi
  /\ to <= LineCount(text) => lo = from /\ hi = to

(* It does, and is the range asked for if that lies in the text.           *)
LEMMA ClampedIn ==
  ASSUME NEW text \in Seq(Tokens), NEW from \in Nat \ {0}, NEW to \in Nat, from <= to
  PROVE  \E lo, hi : Clamps(text, from, to, lo, hi)
<1>1. PICK n \in Nat \ {0} : n = LineCount(text)  BY LinesOf
<1>2. PICK lo : lo = IF from > n THEN n ELSE from  OBVIOUS
<1>3. PICK hi : hi = IF to < lo THEN lo ELSE IF to > n THEN n ELSE to  OBVIOUS
<1>4. lo \in 1..n  BY <1>2
<1>5. hi \in 1..n /\ lo <= hi /\ (to <= n => lo = from /\ hi = to)  BY <1>2, <1>3, <1>4
<1>6. Clamped(text, from, to) = <<lo, hi>>  BY <1>1, <1>2, <1>3, Zenon DEF Clamped
<1>7. Clamped(text, from, to)[1] = lo /\ Clamped(text, from, to)[2] = hi  BY <1>6
<1> QED  BY <1>1, <1>4, <1>5, <1>6, <1>7, Zenon DEF Clamps

(* The text a scope is of.                                                 *)
LEMMA ScopedSeq ==
  ASSUME NEW text \in Seq(Tokens), NEW scope \in Scopes
  PROVE  Scoped(text, scope) \in Seq(Tokens)
<1>1. CASE scope = <<>>  BY <1>1 DEF Scoped
<1>2. CASE scope # <<>>
  <2>1. scope[1] \in Nat \ {0} /\ scope[2] \in Nat /\ scope[1] <= scope[2]  BY <1>2 DEF Scopes
  <2>2. PICK from, to : from = scope[1] /\ to = scope[2]  OBVIOUS
  <2>3. PICK lo, hi : Clamps(text, from, to, lo, hi)
    <3>1. from \in Nat \ {0} /\ to \in Nat /\ from <= to  BY <2>1, <2>2
    <3> QED  BY <3>1, ClampedIn
  <2>4. lo \in Nat \ {0} /\ hi \in Nat
    <3>1. LineCount(text) \in Nat  BY LinesOf
    <3> QED  BY <2>3, <3>1 DEF Clamps
  <2>5. SliceLines(text, lo, hi) \in Seq(Tokens)  BY <2>4, SliceSeq
  <2>6. Scoped(text, scope) = SliceLines(text, lo, hi)
    BY <1>2, <2>2, <2>3, Zenon DEF Scoped, Clamps
  <2> QED  BY <2>5, <2>6
<1> QED  BY <1>1, <1>2

(* What a page says: a part of the text of its scope from the offset on,   *)
(* where to go on, and a handle of the lines.                              *)
PageOf(page, path, text, scope, offset) ==
  LET whole == Scoped(text, scope) IN
    \E end \in offset..Len(whole) :
      /\ page.content = SubSeq(whole, offset + 1, end)
      /\ page.next = IF end < Len(whole)
                     THEN [path |-> path, hash |-> text, scope |-> scope, offset |-> end]
                     ELSE Nil
      /\ IsHandle(page.handle) /\ page.handle.hash = text
      /\ whole = IF scope = <<>> THEN text
                 ELSE SliceLines(text, page.handle.from, page.handle.to)
      /\ scope # <<>> /\ scope[2] <= LineCount(text) =>
           page.handle.from = scope[1] /\ page.handle.to = scope[2]

(* It does for every read that begins within its text.                     *)
LEMMA PageSays ==
  ASSUME NEW path \in IndexPaths, NEW text \in FileTexts, NEW scope \in Scopes,
         NEW offset \in 0..Len(Scoped(text, scope)), NEW chars \in Nat
  PROVE  PageOf(Page(path, text, scope, offset, chars), path, text, scope, offset)
<1>1. text \in Seq(Tokens) /\ \A a \in Tokens : CharWidth[a] \in Nat
  BY RetrievalAssumption DEF Tokens
<1>2. PICK whole \in Seq(Tokens) : whole = Scoped(text, scope)  BY <1>1, ScopedSeq
<1>3. PICK n \in Nat : n = Len(whole)  BY <1>2
<1>4. PICK end : end = offset + Fitting(SubSeq(whole, offset + 1, Len(whole)), chars)
  OBVIOUS
<1>5. end \in offset..n
  <2>1. PICK at : at = offset + 1  OBVIOUS
  <2>2. PICK rest : rest = SubSeq(whole, at, Len(whole))  OBVIOUS
  <2>3. at \in 1..Len(whole) + 1  BY <1>2, <1>3, <2>1
  <2>4. rest \in Seq(Tokens) /\ Len(rest) = n - offset
    BY <1>2, <1>3, <2>1, <2>2, <2>3, EndOf
  <2>5. Fitting(rest, chars) \in 0..n - offset  BY <1>1, <2>4, SomeFit
  <2>6. end = offset + Fitting(rest, chars)  BY <1>4, <2>1, <2>2, Zenon
  <2>7. PICK fits \in 0..n - offset : fits = Fitting(rest, chars)  BY <2>5
  <2> QED  BY <1>2, <1>3, <2>6, <2>7
<1>6. PICK range : range = IF scope = <<>> THEN <<1, LineCount(text)>>
                           ELSE Clamped(text, scope[1], scope[2])
  OBVIOUS
<1>7. PICK lo \in 1..LineCount(text), hi \in 1..LineCount(text) :
        /\ range = <<lo, hi>> /\ lo <= hi
        /\ range[1] = lo /\ range[2] = hi
        /\ scope # <<>> /\ scope[2] <= LineCount(text) => lo = scope[1] /\ hi = scope[2]
  <2>1. LineCount(text) \in Nat \ {0}  BY <1>1, LinesOf
  <2>2. CASE scope = <<>>
    <3>1. 1 \in 1..LineCount(text) /\ LineCount(text) \in 1..LineCount(text)
          /\ 1 <= LineCount(text)
      BY <2>1
    <3>2. range = <<1, LineCount(text)>>  BY <1>6, <2>2
    <3>3. range[1] = 1 /\ range[2] = LineCount(text)  BY <3>2
    <3> QED  BY <2>2, <3>1, <3>2, <3>3, Zenon
  <2>3. CASE scope # <<>>
    <3>1. scope[1] \in Nat \ {0} /\ scope[2] \in Nat /\ scope[1] <= scope[2]
      BY <2>3 DEF Scopes
    <3>2. PICK from, to : from = scope[1] /\ to = scope[2]  OBVIOUS
    <3>3. PICK lo, hi : Clamps(text, from, to, lo, hi)
      <4>1. from \in Nat \ {0} /\ to \in Nat /\ from <= to  BY <3>1, <3>2
      <4> QED  BY <1>1, <4>1, ClampedIn
    <3> QED  BY <1>6, <2>3, <3>2, <3>3, Zenon DEF Clamps
  <2> QED  BY <2>2, <2>3
<1>8. whole = IF scope = <<>> THEN text ELSE SliceLines(text, lo, hi)
  <2>1. CASE scope = <<>>  BY <1>2, <2>1, Zenon DEF Scoped
  <2>2. CASE scope # <<>>
    <3>1. range = Clamped(text, scope[1], scope[2])  BY <1>6, <2>2, Zenon
    <3> QED  BY <1>2, <1>7, <2>2, <3>1, Zenon DEF Scoped
  <2> QED  BY <2>1, <2>2
<1>9. PICK page : page = Page(path, text, scope, offset, chars)  OBVIOUS
<1>10. page = [content |-> SubSeq(whole, offset + 1, end),
               handle |-> RangeHandle(path, text, range[1], range[2]),
               next |-> IF end < Len(whole)
                        THEN [path |-> path, hash |-> text, scope |-> scope, offset |-> end]
                        ELSE Nil]
  BY <1>2, <1>4, <1>6, <1>9, Zenon DEF Page
<1>11. /\ page.content = SubSeq(whole, offset + 1, end)
       /\ page.next = IF end < Len(whole)
                      THEN [path |-> path, hash |-> text, scope |-> scope, offset |-> end]
                      ELSE Nil
       /\ page.handle = RangeHandle(path, text, range[1], range[2])
  BY <1>10, Zenon
<1>12. range[1] = lo /\ range[2] = hi  BY <1>7
<1>13. /\ page.handle.path = path /\ page.handle.hash = text
       /\ page.handle.from = lo /\ page.handle.to = hi
  BY <1>11, <1>12 DEF RangeHandle
<1>14. IsHandle(page.handle)
  <2>1. lo \in 1..hi /\ hi \in 1..LineCount(text)  BY <1>1, <1>7, LinesOf
  <2> QED  BY <1>13, <2>1, Zenon DEF IsHandle
<1> QED  BY <1>2, <1>3, <1>5, <1>7, <1>8, <1>9, <1>11, <1>13, <1>14, Zenon DEF PageOf

-----------------------------------------------------------------------------
(* Files and hits. *)

(* A list of some is a list of more.                                       *)
LEMMA WiderSeq ==
  ASSUME NEW S, NEW T, S \in SUBSET T, NEW s \in Seq(S)
  PROVE  s \in Seq(T)
<1>1. PICK n \in Nat : n = Len(s)  OBVIOUS
<1>2. \A k \in 1..n : s[k] \in T  BY <1>1
<1>3. s = [k \in 1..n |-> s[k]]  BY <1>1
<1> QED  BY <1>2, <1>3

(* A list of numbers below a bound.                                        *)
LEMMA AscendingSeq ==
  ASSUME NEW n \in Nat, NEW S \in SUBSET (1..n)
  PROVE  Ascending(S) \in Seq(S)
<1>1. IsFiniteSet(1..n)
  <2>1. n \in Int /\ 1 \in Int  OBVIOUS
  <2> QED  BY <2>1, FS_Interval
<1>2. IsFiniteSet(S) /\ S \in SUBSET Nat
  <2>1. IsFiniteSet(S)  BY <1>1, FS_Subset
  <2>2. S \in SUBSET Nat  OBVIOUS
  <2> QED  BY <2>1, <2>2
<1>3. Ascends(Ascending(S), S)  BY <1>2, AscendingAscends
<1>4. PICK f, m : f = Ascending(S) /\ m = Cardinality(S)  OBVIOUS
<1>5. m \in Nat /\ f \in [1..m -> S]  BY <1>3, <1>4 DEF Ascends
<1> QED  BY <1>4, <1>5

IndexTyped == indexed \in [IndexPaths -> FileTexts \union {Nil}]
Present == {p \in IndexPaths : indexed[p] # Nil}

(* The sources of a search are there.                                        *)
LEMMA FilesPresent ==
  ASSUME NEW paths
  PROVE  FilesIn(paths) \in Seq(Present)
<1>1. PICK S : S = {p \in IndexPaths : indexed[p] # Nil /\ (paths = {} \/ p \in paths)}
  OBVIOUS
<1>2. S \in SUBSET (1..NumPaths) /\ S \in SUBSET Present /\ NumPaths \in Nat
  BY <1>1, RetrievalAssumption DEF IndexPaths, Present
<1>3. Ascending(S) \in Seq(S)  BY <1>2, AscendingSeq
<1>4. Ascending(S) \in Seq(Present)
  <2>1. PICK f \in Seq(S) : f = Ascending(S)  BY <1>3
  <2>2. f \in Seq(Present)  BY <1>2, <2>1, WiderSeq
  <2> QED  BY <2>1, <2>2
<1> QED  BY <1>1, <1>4, Zenon DEF FilesIn

(* A file that is there has a text.                                        *)
LEMMA TextPresent ==
  ASSUME IndexTyped, NEW p \in Present
  PROVE  p \in IndexPaths /\ indexed[p] \in FileTexts /\ indexed[p] \in Seq(Tokens)
<1>1. p \in IndexPaths /\ indexed[p] \in FileTexts  BY DEF IndexTyped, Present
<1> QED  BY <1>1, RetrievalAssumption DEF Tokens

(* Hits on the lines of a text.                                            *)
HitKinds == {Role[t] : t \in Tokens} \union {NoRole}
HitsOf(text) == [line : 1..LineCount(text), at : Nat, role : HitKinds]

(* The occurrences of the identifier are hits.                             *)
LEMMA OccurrencesAre ==
  ASSUME NEW text \in Seq(Tokens)
  PROVE  Occurrences(text) \in Seq(HitsOf(text))
<1>1. PICK n \in Nat : n = Len(text)  OBVIOUS
<1>2. PICK S : S = {i \in DOMAIN text : Role[text[i]] # NoRole}  OBVIOUS
<1>3. S \in SUBSET (1..n)  BY <1>1, <1>2
<1>4. PICK marks \in Seq(S) : marks = Ascending(S)  BY <1>3, AscendingSeq
<1>5. PICK m \in Nat : m = Len(marks)  BY <1>4
<1>6. Occurrences(text) = [k \in 1..m |-> [line |-> LineOf(text, marks[k]), at |-> marks[k],
                                           role |-> Role[text[marks[k]]]]]
  <2>1. DOMAIN marks = 1..m  BY <1>4, <1>5
  <2> QED  BY <1>2, <1>4, <2>1, Zenon DEF Occurrences
<1>7. ASSUME NEW k \in 1..m
      PROVE  [line |-> LineOf(text, marks[k]), at |-> marks[k],
              role |-> Role[text[marks[k]]]] \in HitsOf(text)
  <2>1. PICK i \in 1..n : i = marks[k]
    <3>1. marks[k] \in S  BY <1>4, <1>5
    <3> QED  BY <1>3, <3>1
  <2>2. text[i] \in Tokens  BY <1>1
  <2>3. Role[text[i]] \in HitKinds  BY <2>2 DEF HitKinds
  <2>4. LineOf(text, i) \in 1..LineCount(text)  BY <1>1, LinesOf
  <2>5. i \in Nat  OBVIOUS
  <2>6. [line |-> LineOf(text, i), at |-> i, role |-> Role[text[i]]] \in HitsOf(text)
    BY <2>3, <2>4, <2>5, Zenon DEF HitsOf
  <2> QED  BY <2>1, <2>6, Zenon
<1>8. PICK all : all = Occurrences(text)  OBVIOUS
<1>9. all \in [1..m -> HitsOf(text)]  BY <1>6, <1>7, <1>8, Zenon
<1>10. all \in Seq(HitsOf(text))
  <2> PICK H : H = HitsOf(text)  OBVIOUS
  <2>1. all \in [1..m -> H]  BY <1>9
  <2>2. all \in Seq(H)  BY <2>1
  <2> QED  BY <2>2
<1> QED  BY <1>8, <1>10

(* So are the matching lines of a text search.                             *)
LEMMA TextHitsAre ==
  ASSUME NEW text \in Seq(Tokens), NEW pattern
  PROVE  TextHits(text, pattern) \in Seq(HitsOf(text))
<1>1. PICK n \in Nat : n = LineCount(text)  BY LinesOf
<1>2. PICK S : S = {LineOf(text, i) : i \in {j \in DOMAIN text : text[j] \in pattern}}  OBVIOUS
<1>3. S \in SUBSET (1..n)
  <2>1. DOMAIN text = 1..Len(text)  OBVIOUS
  <2> QED  BY <1>1, <1>2, <2>1, LinesOf
<1>4. PICK lines \in Seq(S) : lines = Ascending(S)  BY <1>3, AscendingSeq
<1>5. PICK m \in Nat : m = Len(lines)  BY <1>4
<1>6. TextHits(text, pattern) = [k \in 1..m |-> [line |-> lines[k], at |-> 0, role |-> NoRole]]
  <2>1. DOMAIN lines = 1..m  BY <1>4, <1>5
  <2> QED  BY <1>2, <1>4, <2>1, Zenon DEF TextHits
<1>7. ASSUME NEW k \in 1..m
      PROVE  [line |-> lines[k], at |-> 0, role |-> NoRole] \in HitsOf(text)
  <2>1. PICK i \in 1..n : i = lines[k]
    <3>1. lines[k] \in S  BY <1>4, <1>5
    <3> QED  BY <1>3, <3>1
  <2>2. NoRole \in HitKinds  BY DEF HitKinds
  <2>3. 0 \in Nat /\ i \in 1..LineCount(text)  BY <1>1
  <2>4. [line |-> i, at |-> 0, role |-> NoRole] \in HitsOf(text)
    BY <2>2, <2>3, Zenon DEF HitsOf
  <2> QED  BY <2>1, <2>4, Zenon
<1>8. PICK all : all = TextHits(text, pattern)  OBVIOUS
<1>9. all \in [1..m -> HitsOf(text)]  BY <1>6, <1>7, <1>8, Zenon
<1>10. all \in Seq(HitsOf(text))
  <2> PICK H : H = HitsOf(text)  OBVIOUS
  <2>1. all \in [1..m -> H]  BY <1>9
  <2>2. all \in Seq(H)  BY <2>1
  <2> QED  BY <2>2
<1> QED  BY <1>8, <1>10

-----------------------------------------------------------------------------
(* Groups of results. *)

(* Lists put together are of what they were of.                            *)
LEMMA FlattenOf ==
  ASSUME NEW S, NEW seqs \in Seq(Seq(S))
  PROVE  FlattenSeq(seqs) \in Seq(S)
<1>1. PICK T : T = Seq(S)  OBVIOUS
<1>2. T \in SUBSET Seq(S) /\ <<>> \in T  BY <1>1
<1>3. \A s, t \in T : s \o t \in T  BY <1>1
<1>4. seqs \in Seq(T)  BY <1>1
<1> QED  BY <1>1, <1>2, <1>3, <1>4, FlattenIn

(* The first of a list are of what it was of.                              *)
LEMMA TakeOf ==
  ASSUME NEW S, NEW s \in Seq(S), NEW n \in Nat
  PROVE  Take(s, n) \in Seq(S)
<1>1. PICK one, m : one = 1 /\ m = IF n < Len(s) THEN n ELSE Len(s)  OBVIOUS
<1>2. one \in 1..Len(s) + 1 /\ m \in one - 1..Len(s)  BY <1>1
<1>3. SubSeq(s, one, m) \in Seq(S)  BY <1>2, PartOf
<1> QED  BY <1>1, <1>3 DEF Take

(* One group is the longest.                                               *)
LEMMA LongestGroup ==
  ASSUME NEW S, NEW groups \in Seq(Seq(S)), groups # <<>>
  PROVE  \E n \in {Len(g) : g \in Range(groups)} : \A g \in Range(groups) : Len(g) <= n
<1>1. PICK n \in Nat : n = Len(groups)  OBVIOUS
<1>2. n # 0 /\ \A k \in 1..n : Len(groups[k]) \in Nat  BY <1>1
<1> DEFINE T == {k \in 0..n : k = 0 \/ \E j \in 1..n : \A i \in 1..k : Len(groups[i]) <= Len(groups[j])}
<1>3. 0 \in T  BY <1>1
<1>4. ASSUME NEW k \in 1..n, k - 1 \in T PROVE k \in T
  <2>1. CASE k = 1
    <3>1. \A i \in 1..k : Len(groups[i]) <= Len(groups[k])
      <4>1. \A i \in 1..k : i = k  BY <2>1
      <4>2. Len(groups[k]) <= Len(groups[k])  BY <1>2
      <4> QED  BY <4>1, <4>2, Zenon
    <3> QED  BY <3>1
  <2>2. CASE k # 1
    <3>1. PICK j \in 1..n : \A i \in 1..k - 1 : Len(groups[i]) <= Len(groups[j])
      BY <1>4, <2>2
    <3>2. \A i \in 1..k : i \in 1..k - 1 \/ i = k  OBVIOUS
    <3>3. CASE Len(groups[k]) <= Len(groups[j])
      <4>1. \A i \in 1..k : Len(groups[i]) <= Len(groups[j])
        BY <3>1, <3>2, <3>3, Zenon
      <4> QED  BY <4>1
    <3>4. CASE ~ (Len(groups[k]) <= Len(groups[j]))
      <4>1. \A i \in 1..k : Len(groups[i]) <= Len(groups[k])
        <5>1. PICK a \in Nat, b \in Nat : a = Len(groups[k]) /\ b = Len(groups[j])
          BY <1>2
        <5>2. b <= a /\ a <= a  BY <3>4, <5>1
        <5>3. ASSUME NEW i \in 1..k, i # k PROVE Len(groups[i]) <= a
          <6>1. PICK c \in Nat : c = Len(groups[i])  BY <1>2
          <6>2. c <= b  BY <3>1, <3>2, <5>1, <5>3, <6>1
          <6> QED  BY <5>2, <6>1, <6>2
        <5> QED  BY <5>1, <5>2, <5>3
      <4> QED  BY <4>1
    <3> QED  BY <3>3, <3>4
  <2> QED  BY <2>1, <2>2
<1>5. n \in T
  <2> HIDE DEF T
  <2>1. n \in 0..n  OBVIOUS
  <2> QED  BY <1>3, <1>4, <2>1, UpwardInduction
<1>6. PICK j \in 1..n : \A i \in 1..n : Len(groups[i]) <= Len(groups[j])  BY <1>2, <1>5
<1>7. Range(groups) = {groups[k] : k \in 1..n}
  <2>1. DOMAIN groups = 1..n  BY <1>1
  <2> QED  BY <2>1, Zenon DEF Range
<1>8. groups[j] \in Range(groups) /\ \A g \in Range(groups) : Len(g) <= Len(groups[j])
  BY <1>6, <1>7, Zenon
<1> QED  BY <1>8

(* The results of one turn, group by group.                                *)
TurnOf(one, groups, r) ==
  /\ Len(one) = Len(groups)
  /\ \A k \in 1..Len(groups) :
       one[k] = IF r <= Len(groups[k]) THEN <<groups[k][r]>> ELSE <<>>

(* The turns, until no group has any more.                                 *)
AllTurns(turns, groups, S) ==
  /\ \A k \in 1..Len(groups) : Len(groups[k]) <= Len(turns)
  /\ \A r \in 1..Len(turns) : \E one \in Seq(Seq(S)) :
       TurnOf(one, groups, r) /\ turns[r] = FlattenSeq(one)

(* What is taken in turns are turns.                                       *)
LEMMA TurnsMade ==
  ASSUME NEW S, NEW groups \in Seq(Seq(S)), NEW limit
  PROVE  \E turns \in Seq(Seq(S)) :
           /\ TakeTurns(groups, limit) = Take(FlattenSeq(turns), limit)
           /\ AllTurns(turns, groups, S)
<1> DEFINE Turn(r) == FlattenSeq([k \in DOMAIN groups |->
                       IF r <= Len(groups[k]) THEN <<groups[k][r]>> ELSE <<>>])
           Longest == CHOOSE n \in {Len(g) : g \in Range(groups)} :
                           \A g \in Range(groups) : Len(g) <= n
<1>1. PICK n \in Nat : n = Len(groups)  OBVIOUS
<1>2. PICK rounds \in Nat : /\ rounds = IF groups = <<>> THEN 0 ELSE Longest
                            /\ \A k \in 1..n : Len(groups[k]) <= rounds
  <2>1. CASE groups = <<>>
    <3>1. n = 0  BY <1>1, <2>1
    <3> QED  BY <2>1, <3>1
  <2>2. CASE groups # <<>>
    <3>1. \E m \in {Len(g) : g \in Range(groups)} : \A g \in Range(groups) : Len(g) <= m
      BY <2>2, LongestGroup
    <3>2. /\ Longest \in {Len(g) : g \in Range(groups)}
          /\ \A g \in Range(groups) : Len(g) <= Longest
      BY <3>1, Zenon
    <3>3. \A g \in Range(groups) : Len(g) \in Nat
      <4>1. \A k \in DOMAIN groups : Len(groups[k]) \in Nat  OBVIOUS
      <4> QED  BY <4>1, Zenon DEF Range
    <3>4. Longest \in Nat
      <4> HIDE DEF Longest
      <4> QED  BY <3>2, <3>3
    <3>5. \A k \in 1..n : groups[k] \in Range(groups)
      <4>1. DOMAIN groups = 1..n  BY <1>1
      <4> QED  BY <4>1, Zenon DEF Range
    <3> HIDE DEF Longest
    <3> QED  BY <2>2, <3>2, <3>4, <3>5
  <2> QED  BY <2>1, <2>2
<1>3. ASSUME NEW r \in 1..rounds
      PROVE  \E one \in Seq(Seq(S)) : TurnOf(one, groups, r) /\ Turn(r) = FlattenSeq(one)
  <2>1. PICK one : one = [k \in DOMAIN groups |->
                           IF r <= Len(groups[k]) THEN <<groups[k][r]>> ELSE <<>>]
    OBVIOUS
  <2>2. ASSUME NEW k \in 1..n
        PROVE  (IF r <= Len(groups[k]) THEN <<groups[k][r]>> ELSE <<>>) \in Seq(S)
    <3>1. PICK g \in Seq(S) : g = groups[k]  BY <1>1
    <3>2. CASE r <= Len(g)
      <4>1. g[r] \in S  BY <3>2
      <4> QED  BY <3>1, <3>2, <4>1
    <3>3. CASE ~ (r <= Len(g))
      <4>1. <<>> \in Seq(S)  OBVIOUS
      <4> QED  BY <3>1, <3>3, <4>1, Zenon
    <3> QED  BY <3>2, <3>3
  <2>3. DOMAIN groups = 1..n  BY <1>1
  <2>4. one \in [1..n -> Seq(S)]  BY <2>1, <2>2, <2>3, Zenon
  <2>5. one \in Seq(Seq(S)) /\ Len(one) = n  BY <2>4
  <2>6. \A k \in 1..n : one[k] = IF r <= Len(groups[k]) THEN <<groups[k][r]>> ELSE <<>>
    BY <2>1, <2>3, Zenon
  <2>7. TurnOf(one, groups, r)  BY <1>1, <2>5, <2>6, Zenon DEF TurnOf
  <2> QED  BY <2>1, <2>5, <2>7, Zenon
<1> HIDE DEF Turn
<1>4. \A r \in 1..rounds : Turn(r) \in Seq(S)
  <2>1. ASSUME NEW r \in 1..rounds PROVE Turn(r) \in Seq(S)
    <3>1. PICK one \in Seq(Seq(S)) : Turn(r) = FlattenSeq(one)  BY <1>3
    <3>2. FlattenSeq(one) \in Seq(S)  BY FlattenOf
    <3> QED  BY <3>1, <3>2, Zenon
  <2> QED  BY <2>1
<1>5. PICK turns : turns = [r \in 1..rounds |-> Turn(r)]  OBVIOUS
<1>6. turns \in [1..rounds -> Seq(S)]  BY <1>4, <1>5, Zenon
<1>7. turns \in Seq(Seq(S)) /\ Len(turns) = rounds  BY <1>6
<1>8. TakeTurns(groups, limit) = Take(FlattenSeq(turns), limit)
  BY <1>2, <1>5, Zenon DEF TakeTurns, Turn
<1>9. \A r \in 1..rounds : \E one \in Seq(Seq(S)) :
        TurnOf(one, groups, r) /\ turns[r] = FlattenSeq(one)
  BY <1>3, <1>5, Zenon
<1>10. AllTurns(turns, groups, S)
  <2>1. \A k \in 1..n : Len(groups[k]) <= Len(turns)  BY <1>2, <1>7, Zenon
  <2> QED  BY <1>1, <1>7, <1>9, <2>1, Zenon DEF AllTurns
<1> QED  BY <1>7, <1>8, <1>10, Zenon

(* What is taken in turns is from the groups.                              *)
LEMMA TurnsOf ==
  ASSUME NEW S, NEW groups \in Seq(Seq(S)), NEW limit \in Nat
  PROVE  TakeTurns(groups, limit) \in Seq(S)
<1>1. PICK turns \in Seq(Seq(S)) : TakeTurns(groups, limit) = Take(FlattenSeq(turns), limit)
  BY TurnsMade, Zenon
<1>2. FlattenSeq(turns) \in Seq(S)  BY FlattenOf
<1>3. Take(FlattenSeq(turns), limit) \in Seq(S)  BY <1>2, TakeOf
<1> QED  BY <1>1, <1>3, Zenon

-----------------------------------------------------------------------------
(* Windows. *)

WindowsIn(text) ==
  {w \in [line : Nat, from : 1..LineCount(text), to : 1..LineCount(text),
          hits : Seq(HitsOf(text)) \ {<<>>}] : w.from <= w.to}

(* The lines about a hit.                                                  *)
LEMMA AboutHit ==
  ASSUME NEW n \in Nat \ {0}, NEW line \in 1..n, NEW context \in Nat
  PROVE  /\ (IF line > context + 1 THEN line - context ELSE 1) \in 1..line
         /\ (IF line + context < n THEN line + context ELSE n) \in line..n
<1>1. CASE line > context + 1  BY <1>1
<1>2. CASE ~ (line > context + 1)  BY <1>2
<1> QED  BY <1>1, <1>2

(* A window with the hits of another is no shorter.                        *)
LEMMA WindowJoined ==
  ASSUME NEW text \in Seq(Tokens), NEW w \in WindowsIn(text), NEW h \in HitsOf(text),
         NEW hi \in 1..LineCount(text), NEW x,
         x = [line |-> w.line, from |-> w.from,
              to |-> IF hi > w.to THEN hi ELSE w.to, hits |-> Append(w.hits, h)]
  PROVE  x \in WindowsIn(text)
<1>1. PICK n \in Nat \ {0} : n = LineCount(text)  BY LinesOf
<1>2. PICK line \in Nat, from \in 1..n, to \in 1..n, hits \in Seq(HitsOf(text)) \ {<<>>} :
        /\ line = w.line /\ from = w.from /\ to = w.to /\ hits = w.hits
        /\ from <= to
  BY <1>1, Zenon DEF WindowsIn
<1>3. PICK last, more : last = (IF hi > to THEN hi ELSE to) /\ more = Append(hits, h)
  OBVIOUS
<1>4. last \in 1..n /\ from <= last  BY <1>1, <1>2, <1>3
<1>5. more \in Seq(HitsOf(text)) \ {<<>>}
  <2>1. PICK H : H = HitsOf(text)  OBVIOUS
  <2>2. hits \in Seq(H) /\ h \in H  BY <1>2, <2>1
  <2>3. more \in Seq(H) /\ Len(more) = Len(hits) + 1  BY <1>3, <2>2
  <2>4. more # <<>>  BY <2>2, <2>3
  <2> QED  BY <2>1, <2>3, <2>4
<1>6. x = [line |-> line, from |-> from, to |-> last, hits |-> more]  BY <1>2, <1>3, Zenon
<1>7. x \in [line : Nat, from : 1..n, to : 1..n, hits : Seq(HitsOf(text)) \ {<<>>}]
  <2>1. line \in Nat /\ from \in 1..n  BY <1>2
  <2> PICK A, B, C : A = Nat /\ B = 1..n /\ C = Seq(HitsOf(text)) \ {<<>>}  OBVIOUS
  <2>2. line \in A /\ from \in B /\ last \in B /\ more \in C  BY <1>4, <1>5, <2>1
  <2>3. [line |-> line, from |-> from, to |-> last, hits |-> more]
        \in [line : A, from : B, to : B, hits : C]
    BY <2>2
  <2> QED  BY <1>6, <2>3
<1>8. x.from = from /\ x.to = last  BY <1>6
<1> QED  BY <1>1, <1>4, <1>7, <1>8, Zenon DEF WindowsIn

(* A window of one hit.                                                    *)
LEMMA WindowBegun ==
  ASSUME NEW text \in Seq(Tokens), NEW h \in HitsOf(text),
         NEW lo \in 1..LineCount(text), NEW hi \in 1..LineCount(text), lo <= hi, NEW x,
         x = [line |-> h.line, from |-> lo, to |-> hi, hits |-> <<h>>]
  PROVE  x \in WindowsIn(text)
<1>1. h.line \in Nat
  <2>1. PICK n \in Nat : n = LineCount(text)  BY LinesOf
  <2>2. h.line \in 1..n  BY <2>1 DEF HitsOf
  <2> QED  BY <2>2
<1>2. PICK one : one = <<h>>  OBVIOUS
<1>3. one \in Seq(HitsOf(text)) \ {<<>>}
  <2>1. PICK H : H = HitsOf(text)  OBVIOUS
  <2>2. one \in Seq(H) /\ one # <<>>  BY <1>2, <2>1
  <2> QED  BY <2>1, <2>2
<1>4. x \in [line : Nat, from : 1..LineCount(text), to : 1..LineCount(text),
             hits : Seq(HitsOf(text)) \ {<<>>}]
  BY <1>1, <1>2, <1>3, Zenon
<1>5. x.from = lo /\ x.to = hi  OBVIOUS
<1> QED  BY <1>4, <1>5, Zenon DEF WindowsIn

(* One more hit: it joins the last window or begins the next.              *)
WindowAdded(text, ws, h, next) ==
  \E lo \in 1..h.line, hi \in h.line..LineCount(text) :
    \/ /\ ws # <<>>
       /\ next = Append(SubSeq(ws, 1, Len(ws) - 1),
                        [line |-> Last(ws).line, from |-> Last(ws).from,
                         to |-> IF hi > Last(ws).to THEN hi ELSE Last(ws).to,
                         hits |-> Append(Last(ws).hits, h)])
    \/ next = Append(ws, [line |-> h.line, from |-> lo, to |-> hi, hits |-> <<h>>])

(* The windows of the first k hits, for every k.                           *)
WindowsSoFar(f, text, hits) ==
  /\ f \in [0..Len(hits) -> Seq(WindowsIn(text))]
  /\ f[0] = <<>>
  /\ \A k \in 1..Len(hits) : WindowAdded(text, f[k - 1], hits[k], f[k])

(* Windows are made hit by hit, lie in the text and are not empty.         *)
LEMMA WindowsMade ==
  ASSUME NEW text \in Seq(Tokens), NEW hits \in Seq(HitsOf(text)), NEW context \in Nat,
         NEW room
  PROVE  \E f : WindowsSoFar(f, text, hits) /\ Windows(text, hits, context, room) = f[Len(hits)]
<1>1. PICK n \in Nat : n = Len(hits)  OBVIOUS
<1>2. PICK S : S = Seq(WindowsIn(text))  OBVIOUS
<1> DEFINE Lo(h) == IF h.line > context + 1 THEN h.line - context ELSE 1
           Hi(h) == IF h.line + context < LineCount(text)
                    THEN h.line + context ELSE LineCount(text)
           Joins(ws, h) ==
             ws # <<>> /\ Lo(h) <= Last(ws).to + 1 /\ Len(Last(ws).hits) < room
           Widened(w, h) ==
             [line |-> w.line, from |-> w.from,
              to |-> IF Hi(h) > w.to THEN Hi(h) ELSE w.to, hits |-> Append(w.hits, h)]
           New(h) == [line |-> h.line, from |-> Lo(h), to |-> Hi(h), hits |-> <<h>>]
           More(ws, h) == IF Joins(ws, h)
                          THEN Append(SubSeq(ws, 1, Len(ws) - 1), Widened(Last(ws), h))
                          ELSE Append(ws, New(h))
           step == [sk \in S \X (1..n) |-> More(sk[1], hits[sk[2]])]
           Sat(f) == f = [k \in 0..n |-> IF k = 0 THEN <<>> ELSE More(f[k - 1], hits[k])]
<1>3. ASSUME NEW h \in HitsOf(text)
      PROVE  /\ Lo(h) \in 1..LineCount(text) /\ Hi(h) \in 1..LineCount(text) /\ Lo(h) <= Hi(h)
             /\ Lo(h) \in 1..h.line /\ Hi(h) \in h.line..LineCount(text)
  <2>1. PICK m \in Nat \ {0} : m = LineCount(text)  BY LinesOf
  <2>2. PICK line \in 1..m : line = h.line  BY <2>1 DEF HitsOf
  <2>3. PICK lo \in 1..line, hi \in line..m :
          /\ lo = IF line > context + 1 THEN line - context ELSE 1
          /\ hi = IF line + context < m THEN line + context ELSE m
    BY AboutHit
  <2>4. lo \in 1..m /\ hi \in 1..m /\ lo <= hi  OBVIOUS
  <2>5. Lo(h) = lo /\ Hi(h) = hi  BY <2>1, <2>2, <2>3, Zenon
  <2> QED  BY <2>1, <2>2, <2>3, <2>4, <2>5
<1> HIDE DEF Lo, Hi
<1>4. ASSUME NEW ws \in S, NEW h \in HitsOf(text) PROVE More(ws, h) \in S
  <2>1. CASE Joins(ws, h)
    <3>1. PICK W : W = WindowsIn(text)  OBVIOUS
    <3>2. ws \in Seq(W) /\ ws # <<>>  BY <1>2, <2>1, <3>1
    <3>3. PICK l \in Nat \ {0} : l = Len(ws)  BY <3>2
    <3>4. PICK w \in W : w = Last(ws)  BY <3>2, <3>3 DEF Last
    <3>5. PICK x : x = Widened(w, h)  OBVIOUS
    <3>6. x \in W  BY <1>3, <3>1, <3>4, <3>5, WindowJoined
    <3>7. SubSeq(ws, 1, l - 1) \in Seq(W)
      <4>1. PICK one : one = 1  OBVIOUS
      <4>2. one \in 1..Len(ws) + 1 /\ l - 1 \in one - 1..Len(ws)  BY <3>2, <3>3, <4>1
      <4> QED  BY <3>2, <4>1, <4>2, PartOf
    <3>8. PICK rest \in Seq(W) : rest = SubSeq(ws, 1, Len(ws) - 1)  BY <3>3, <3>7
    <3>9. Append(rest, x) \in Seq(W)  BY <3>6
    <3>10. More(ws, h) = Append(rest, x)  BY <2>1, <3>4, <3>5, <3>8, Zenon
    <3> QED  BY <1>2, <3>1, <3>9, <3>10
  <2>2. CASE ~ Joins(ws, h)
    <3>1. PICK W : W = WindowsIn(text)  OBVIOUS
    <3>2. PICK x : x = New(h)  OBVIOUS
    <3>3. x \in W  BY <1>3, <3>1, <3>2, WindowBegun
    <3>4. ws \in Seq(W)  BY <1>2, <3>1
    <3>5. Append(ws, x) \in Seq(W)  BY <3>3, <3>4
    <3>6. More(ws, h) = Append(ws, x)  BY <2>2, <3>2, Zenon
    <3> QED  BY <1>2, <3>1, <3>5, <3>6
  <2> QED  BY <2>1, <2>2
<1>14. ASSUME NEW ws, NEW h \in HitsOf(text) PROVE WindowAdded(text, ws, h, More(ws, h))
  <2>1. PICK lo \in 1..h.line, hi \in h.line..LineCount(text) : lo = Lo(h) /\ hi = Hi(h)
    BY <1>3, Zenon
  <2>2. CASE Joins(ws, h)
    <3>1. ws # <<>> /\ More(ws, h) = Append(SubSeq(ws, 1, Len(ws) - 1),
                        [line |-> Last(ws).line, from |-> Last(ws).from,
                         to |-> IF hi > Last(ws).to THEN hi ELSE Last(ws).to,
                         hits |-> Append(Last(ws).hits, h)])
      BY <2>1, <2>2, Zenon
    <3> QED  BY <3>1, Zenon DEF WindowAdded
  <2>3. CASE ~ Joins(ws, h)
    <3>1. More(ws, h) = Append(ws, [line |-> h.line, from |-> lo, to |-> hi, hits |-> <<h>>])
      BY <2>1, <2>3, Zenon
    <3> QED  BY <3>1, Zenon DEF WindowAdded
  <2> QED  BY <2>2, <2>3
<1> HIDE DEF More
<1>5. \A k \in 1..n : hits[k] \in HitsOf(text)  BY <1>1
<1>6. step \in [S \X (1..n) -> S]
  <2>1. \A ws \in S, k \in 1..n : More(ws, hits[k]) \in S  BY <1>4, <1>5, Zenon
  <2> QED  BY <2>1
<1>7. <<>> \in S  BY <1>2
<1>8. \E f : Sat(f)
  <2>1. \A s \in S, k \in 1..n : step[<<s, k>>] = More(s, hits[k])  OBVIOUS
  <2> HIDE DEF step
  <2> PICK e : e = <<>>  OBVIOUS
  <2>2. PICK f \in [0..n -> S] : Steps(n, e, step, f)  BY <1>6, <1>7, StepRecursion
  <2>3. f[0] = <<>> /\ \A k \in 1..n : f[k] = step[<<f[k - 1], k>>]  BY <2>2 DEF Steps
  <2>4. ASSUME NEW k \in 0..n PROVE f[k] = IF k = 0 THEN <<>> ELSE More(f[k - 1], hits[k])
    <3>1. CASE k = 0  BY <2>3, <3>1, Zenon
    <3>2. CASE k # 0
      <4>1. k \in 1..n /\ k - 1 \in 0..n  BY <3>2
      <4>2. PICK s \in S : s = f[k - 1]  BY <4>1
      <4>3. step[<<s, k>>] = More(s, hits[k])  BY <2>1, <4>1
      <4> QED  BY <2>3, <3>2, <4>1, <4>2, <4>3, Zenon
    <3> QED  BY <3>1, <3>2
  <2>5. f = [k \in 0..n |-> f[k]]  OBVIOUS
  <2> QED  BY <2>4, <2>5, Zenon
<1> DEFINE u2 == CHOOSE f : Sat(f)
<1>9. Sat(u2)  BY <1>8, Zenon
<1>10. Windows(text, hits, context, room) = u2[n]
  BY <1>1, Zenon DEF Windows, More, Lo, Hi
<1> HIDE DEF u2, step
<1>11. u2[0] \in S
  <2>1. 0 \in 0..n /\ u2[0] = <<>>  BY <1>9
  <2> QED  BY <1>7, <2>1
<1>15. u2 = [k \in 0..n |-> u2[k]]  BY <1>9, Zenon
<1>16. u2 \in [0..n -> S]
  <2>1. ASSUME NEW k \in 1..n, u2[k - 1] \in S PROVE u2[k] \in S
    <3>1. PICK s \in S : s = u2[k - 1]  BY <2>1
    <3>2. k \in 0..n /\ k # 0  OBVIOUS
    <3>3. u2[k] = More(u2[k - 1], hits[k])  BY <1>9, <3>2, Zenon
    <3>4. More(s, hits[k]) \in S  BY <1>4, <1>5, Zenon
    <3> QED  BY <3>1, <3>3, <3>4
  <2>2. \A k \in 0..n : u2[k] \in S
    <3>1. ASSUME NEW m \in 0..n PROVE u2[m] \in S
      <4> DEFINE B == {k \in 0..m : u2[k] \in S}
      <4>1. 0 \in B  BY <1>11
      <4>2. ASSUME NEW k \in 1..m, k - 1 \in B PROVE k \in B
        <5>1. k \in 1..n /\ k \in 0..m  OBVIOUS
        <5> QED  BY <2>1, <4>2, <5>1
      <4>3. m \in B
        <5> HIDE DEF B
        <5>1. m \in 0..m /\ m \in Nat  OBVIOUS
        <5> QED  BY <4>1, <4>2, <5>1, UpwardInduction
      <4> QED  BY <4>3
    <3> QED  BY <3>1
  <2> QED  BY <1>15, <2>2, Zenon
<1>17. u2[0] = <<>> /\ \A k \in 1..n : WindowAdded(text, u2[k - 1], hits[k], u2[k])
  <2>1. 0 \in 0..n /\ u2[0] = <<>>  BY <1>9
  <2>2. ASSUME NEW k \in 1..n PROVE WindowAdded(text, u2[k - 1], hits[k], u2[k])
    <3>1. k \in 0..n /\ k # 0  OBVIOUS
    <3>2. u2[k] = More(u2[k - 1], hits[k])  BY <1>9, <3>1, Zenon
    <3> QED  BY <1>5, <1>14, <3>2, Zenon
  <2> QED  BY <2>1, <2>2
<1>18. WindowsSoFar(u2, text, hits)  BY <1>1, <1>2, <1>16, <1>17, Zenon DEF WindowsSoFar
<1> QED  BY <1>1, <1>10, <1>18, Zenon

(* The windows of some hits lie in the text and are not empty.             *)
LEMMA WindowsAre ==
  ASSUME NEW text \in Seq(Tokens), NEW hits \in Seq(HitsOf(text)), NEW context \in Nat,
         NEW room
  PROVE  Windows(text, hits, context, room) \in Seq(WindowsIn(text))
<1>1. PICK n \in Nat : n = Len(hits)  OBVIOUS
<1>2. PICK f : WindowsSoFar(f, text, hits) /\ Windows(text, hits, context, room) = f[n]
  BY <1>1, WindowsMade
<1>3. n \in 0..n  OBVIOUS
<1>4. f \in [0..n -> Seq(WindowsIn(text))]  BY <1>1, <1>2, Zenon DEF WindowsSoFar
<1> QED  BY <1>2, <1>3, <1>4, Zenon

-----------------------------------------------------------------------------
(* Results. *)

AnyHits == [line : Nat, at : Nat, role : HitKinds]
GoodHandles ==
  {h \in [path : IndexPaths, hash : FileTexts, from : Nat, to : Nat] : IsHandle(h)}

(* A result with a handle, and beside it the lines that the handle names.  *)
ResultOf(h, line, hits) ==
  [path |-> h.path, line |-> line, hits |-> hits, handle |-> h,
   preview |-> SliceLines(h.hash, h.from, h.to)]
Results ==
  {ResultOf(h, line, hits) : h \in GoodHandles, line \in Nat, hits \in Seq(AnyHits) \ {<<>>}}

(* A window is given with a handle of its lines.                           *)
LEMMA HandleOfWindow ==
  ASSUME IndexTyped, NEW p \in Present, NEW w \in WindowsIn(indexed[p])
  PROVE  WithHandle(p, w) \in Results
<1>1. PICK text \in FileTexts : text = indexed[p] /\ text \in Seq(Tokens)
  BY TextPresent
<1>2. PICK n \in Nat \ {0} : n = LineCount(text)  BY <1>1, LinesOf
<1>3. /\ w.line \in Nat /\ w.from \in 1..n /\ w.to \in 1..n
      /\ w.hits \in Seq(HitsOf(text)) \ {<<>>} /\ w.from <= w.to
  BY <1>1, <1>2 DEF WindowsIn
<1>4. PICK line, from, to, hits :
        /\ line \in Nat /\ from \in 1..n /\ to \in 1..n
        /\ line = w.line /\ from = w.from /\ to = w.to /\ hits = w.hits /\ from <= to
        /\ hits \in Seq(HitsOf(text)) \ {<<>>}
  BY <1>3
<1>5. hits \in Seq(AnyHits) \ {<<>>}
  <2>1. HitsOf(text) \in SUBSET AnyHits
    <3>1. 1..LineCount(text) \in SUBSET Nat  BY <1>2
    <3> QED  BY <3>1 DEF HitsOf, AnyHits
  <2> PICK H, A : H = HitsOf(text) /\ A = AnyHits  OBVIOUS
  <2>2. H \in SUBSET A /\ hits \in Seq(H) /\ hits # <<>>  BY <1>4, <2>1
  <2>3. hits \in Seq(A)  BY <2>2, WiderSeq
  <2> QED  BY <2>2, <2>3
<1>6. PICK h : h = RangeHandle(p, text, from, to)  OBVIOUS
<1>7. h.path = p /\ h.hash = text /\ h.from = from /\ h.to = to  BY <1>6 DEF RangeHandle
<1>8. p \in IndexPaths  BY TextPresent
<1>9. IsHandle(h)
  <2>1. from \in 1..to /\ to \in 1..n  BY <1>4
  <2> QED  BY <1>1, <1>2, <1>7, <1>8, <2>1, Zenon DEF IsHandle
<1>10. h \in GoodHandles
  <2>1. from \in Nat /\ to \in Nat  BY <1>4
  <2>2. h \in [path : IndexPaths, hash : FileTexts, from : Nat, to : Nat]
    BY <1>1, <1>6, <1>8, <2>1 DEF RangeHandle
  <2> QED  BY <1>9, <2>2, Zenon DEF GoodHandles
<1>11. WithHandle(p, w) = ResultOf(h, line, hits)
  <2>1. WithHandle(p, w) = [path |-> p, line |-> line, hits |-> hits,
                            handle |-> h, preview |-> SliceLines(text, from, to)]
    BY <1>1, <1>4, <1>6, Zenon DEF WithHandle
  <2> QED  BY <1>7, <2>1, Zenon DEF ResultOf
<1>12. line \in Nat  BY <1>4
<1>13. ResultOf(h, line, hits) \in Results  BY <1>5, <1>10, <1>12 DEF Results
<1> QED  BY <1>11, <1>13

(* The windows of a file are results.                                      *)
LEMMA GivenAre ==
  ASSUME IndexTyped, NEW p \in Present, NEW ws \in Seq(WindowsIn(indexed[p]))
  PROVE  Given(p, ws) \in Seq(Results)
<1>1. PICK n \in Nat : n = Len(ws)  OBVIOUS
<1>2. Given(p, ws) = [j \in 1..n |-> WithHandle(p, ws[j])]
  <2>1. DOMAIN ws = 1..n  BY <1>1
  <2> QED  BY <2>1, Zenon DEF Given
<1>3. \A j \in 1..n : WithHandle(p, ws[j]) \in Results
  <2>1. \A j \in 1..n : ws[j] \in WindowsIn(indexed[p])  BY <1>1
  <2> QED  BY <2>1, HandleOfWindow
<1>4. PICK g : g = Given(p, ws)  OBVIOUS
<1>5. g \in [1..n -> Results]  BY <1>2, <1>3, <1>4, Zenon
<1>6. g \in Seq(Results)  BY <1>5
<1> QED  BY <1>4, <1>6

(* The most telling kind of some hits.                                     *)
LEMMA LeadNat ==
  ASSUME NEW w, NEW H, w.hits \in Seq(H), w.hits # <<>>
  PROVE  LeadPriority(w) \in Nat
<1>1. PICK hits \in Seq(H) : hits = w.hits /\ hits # <<>>  OBVIOUS
<1>2. PICK S : S = {Priority(h.role) : h \in Range(hits)}  OBVIOUS
<1>3. S \in SUBSET Nat
  <2>1. \A role : Priority(role) \in Nat  BY DEF Priority
  <2> QED  BY <1>2, <2>1
<1>4. S # {}
  <2>1. 1 \in DOMAIN hits  BY <1>1
  <2>2. hits[1] \in Range(hits)  BY <2>1, Zenon DEF Range
  <2> QED  BY <1>2, <2>2, Zenon
<1>5. PICK n \in S : \A m \in S : n <= m  BY <1>3, <1>4, LeastNumber
<1>6. \A h \in Range(hits) : n <= Priority(h.role)  BY <1>2, <1>5, Zenon
<1>7. LeadPriority(w) = CHOOSE k \in S : \A h \in Range(hits) : k <= Priority(h.role)
  BY <1>1, <1>2, Zenon DEF LeadPriority
<1>8. LeadPriority(w) \in S  BY <1>5, <1>6, <1>7, Zenon
<1> QED  BY <1>3, <1>8

(* Sorting by it keeps the windows.                                        *)
LEMMA ByPriorityOf ==
  ASSUME NEW S, NEW ws \in Seq(S), \A w \in S : LeadPriority(w) \in Nat
  PROVE  ByPriority(ws) \in Seq(S)
<1>1. PICK key : key = [j \in DOMAIN ws |-> LeadPriority(ws[j])]  OBVIOUS
<1>2. \A j \in 1..Len(ws) : LeadPriority(ws[j]) \in Nat
  <2>1. \A j \in 1..Len(ws) : ws[j] \in S  OBVIOUS
  <2> QED  BY <2>1, Zenon
<1>3. DOMAIN ws = 1..Len(ws)  OBVIOUS
<1>4. key \in [1..Len(ws) -> Nat]  BY <1>1, <1>2, <1>3, Zenon
<1>5. StableSorted(ws, key) \in Seq(S)  BY <1>4, StableSortedBy
<1> QED  BY <1>1, <1>5 DEF ByPriority

(* It keeps the groups.                                                    *)
LEMMA GroupsByPriorityOf ==
  ASSUME NEW S, NEW groups \in Seq(S), \A g \in S : LeadPriority(g[1]) \in Nat
  PROVE  GroupsByPriority(groups) \in Seq(S)
<1>1. PICK key : key = [k \in DOMAIN groups |-> LeadPriority(groups[k][1])]  OBVIOUS
<1>2. \A j \in 1..Len(groups) : LeadPriority(groups[j][1]) \in Nat
  <2>1. \A j \in 1..Len(groups) : groups[j] \in S  OBVIOUS
  <2> QED  BY <2>1, Zenon
<1>3. DOMAIN groups = 1..Len(groups)  OBVIOUS
<1>4. key \in [1..Len(groups) -> Nat]  BY <1>1, <1>2, <1>3, Zenon
<1>5. StableSorted(groups, key) \in Seq(S)  BY <1>4, StableSortedBy
<1> QED  BY <1>1, <1>5 DEF GroupsByPriority

(* What is left of a list without its empty members.                       *)
LEMMA NonEmptyOf ==
  ASSUME NEW S, NEW groups \in Seq(S)
  PROVE  NonEmpty(groups) \in Seq(S \ {<<>>})
<1>1. PICK places : places = {k \in DOMAIN groups : groups[k] # <<>>}  OBVIOUS
<1>2. places \in SUBSET (1..Len(groups))  BY <1>1
<1>3. PICK p : p = Picked(groups, places)  OBVIOUS
<1>4. PICK f : /\ Ascends(f, places) /\ p \in Seq(S) /\ Len(p) = Cardinality(places)
               /\ \A k \in 1..Cardinality(places) : p[k] = groups[f[k]]
  BY <1>2, <1>3, PickedFrom
<1>5. PICK m \in Nat : m = Len(p)  BY <1>4
<1>6. \A k \in 1..m : p[k] \in S \ {<<>>}
  <2>1. f \in [1..m -> places]  BY <1>4, <1>5 DEF Ascends
  <2>2. \A k \in 1..m : groups[f[k]] # <<>>  BY <1>1, <2>1
  <2>3. \A k \in 1..m : p[k] \in S  BY <1>4, <1>5
  <2> QED  BY <1>4, <1>5, <2>2, <2>3
<1>7. p = [k \in 1..m |-> p[k]]  BY <1>4, <1>5
<1>8. p \in Seq(S \ {<<>>})  BY <1>6, <1>7
<1> QED  BY <1>1, <1>3, <1>8 DEF NonEmpty

(* The answer of a search.                                                 *)
LEMMA SearchResultOf ==
  ASSUME NEW S, NEW windows, NEW taken \in Seq(Seq(S)), NEW extra \in Seq(Seq(S)),
         NEW limit \in Nat
  PROVE  /\ SearchResult(windows, taken, extra, limit).results \in Seq(S)
         /\ ~ IsError(SearchResult(windows, taken, extra, limit))
         /\ "next" \notin DOMAIN SearchResult(windows, taken, extra, limit)
<1>1. PICK groups \in Seq(Seq(S)) : groups = extra \o taken
  <2>1. extra \o taken \in Seq(Seq(S))  OBVIOUS
  <2> QED  BY <2>1
<1>2. TakeTurns(groups, limit) \in Seq(S)  BY TurnsOf
<1>3. PICK x, y : x = TakeTurns(groups, limit)
                  /\ y = [results |-> x, truncated |-> Total(windows) > Len(x)]
  OBVIOUS
<1>4. SearchResult(windows, taken, extra, limit) = y  BY <1>1, <1>3, Zenon DEF SearchResult
<1>5. y.results = x /\ "next" \notin DOMAIN y /\ "results" \in DOMAIN y  BY <1>3
<1>6. ~ IsError(y)
  <2>1. "results" \notin {"error"}  OBVIOUS
  <2> QED  BY <1>5, <2>1, Zenon DEF IsError
<1> QED  BY <1>2, <1>3, <1>4, <1>5, <1>6, Zenon

-----------------------------------------------------------------------------
(* Searches. *)

ShownGood(r) ==
  "handle" \in DOMAIN r =>
    /\ IsHandle(r.handle)
    /\ r.preview = SliceLines(r.handle.hash, r.handle.from, r.handle.to)

(* The results of a search show what their handles name.                   *)
ShowsAll(outcome) ==
  /\ "next" \notin DOMAIN outcome
  /\ \A r \in Range(outcome.results) : ShownGood(r)

(* Results show what their handles name.                                   *)
LEMMA ResultsGood == \A r \in Results : ShownGood(r)
<1> SUFFICES ASSUME NEW r \in Results PROVE ShownGood(r)  OBVIOUS
<1>1. PICK h, line, hits : h \in GoodHandles /\ r = ResultOf(h, line, hits)
  BY DEF Results
<1>2. r.handle = h /\ r.preview = SliceLines(h.hash, h.from, h.to)
  BY <1>1, Zenon DEF ResultOf
<1>3. IsHandle(h)  BY <1>1 DEF GoodHandles
<1> QED  BY <1>2, <1>3, Zenon DEF ShownGood

(* The members of a list.                                                  *)
LEMMA RangeOf ==
  ASSUME NEW S, NEW s \in Seq(S)
  PROVE  \A x \in Range(s) : x \in S
<1>1. \A k \in DOMAIN s : s[k] \in S  OBVIOUS
<1> QED  BY <1>1, Zenon DEF Range

(* So does the answer of a search that is made of them.                    *)
LEMMA SearchShows ==
  ASSUME NEW windows, NEW taken \in Seq(Seq(Results)), NEW extra \in Seq(Seq(Results)),
         NEW limit \in Nat
  PROVE  ShowsAll(SearchResult(windows, taken, extra, limit))
<1>1. PICK y : y = SearchResult(windows, taken, extra, limit)  OBVIOUS
<1>2. y.results \in Seq(Results) /\ "next" \notin DOMAIN y  BY <1>1, SearchResultOf
<1>3. \A r \in Range(y.results) : r \in Results  BY <1>2, RangeOf
<1> QED  BY <1>1, <1>2, <1>3, ResultsGood, Zenon DEF ShowsAll

(* A limit of none is one.                                                 *)
LEMMA AtLeastNat == ASSUME NEW n \in Nat PROVE AtLeastOne(n) \in Nat \ {0}
BY DEF AtLeastOne

(* The results of each file, cut.                                          *)
LEMMA TakenOf ==
  ASSUME NEW S, NEW groups \in Seq(Seq(S)), NEW each \in Nat
  PROVE  [k \in DOMAIN groups |-> Take(groups[k], each)] \in Seq(Seq(S))
<1>1. PICK n \in Nat : n = Len(groups)  OBVIOUS
<1>2. \A k \in 1..n : Take(groups[k], each) \in Seq(S)
  <2>1. \A k \in 1..n : groups[k] \in Seq(S)  BY <1>1
  <2> QED  BY <2>1, TakeOf
<1>3. PICK t : t = [k \in DOMAIN groups |-> Take(groups[k], each)]  OBVIOUS
<1>4. DOMAIN groups = 1..n  BY <1>1
<1>5. t \in [1..n -> Seq(S)]  BY <1>2, <1>3, <1>4, Zenon
<1>6. t \in Seq(Seq(S))  BY <1>5
<1> QED  BY <1>3, <1>6

(* The groups that are not empty.                                          *)
LEMMA KeptGroups ==
  ASSUME NEW S, NEW groups \in Seq(Seq(S))
  PROVE  NonEmpty(groups) \in Seq(Seq(S) \ {<<>>}) /\ NonEmpty(groups) \in Seq(Seq(S))
<1> PICK T : T = Seq(S)  OBVIOUS
<1>1. NonEmpty(groups) \in Seq(T \ {<<>>})  BY NonEmptyOf
<1>2. T \ {<<>>} \in SUBSET T  OBVIOUS
<1>3. NonEmpty(groups) \in Seq(T)  BY <1>1, <1>2, WiderSeq
<1> QED  BY <1>1, <1>3

(* A text search.                                                          *)
LEMMA TextSearched ==
  ASSUME IndexTyped, NEW op, op.context \in Nat, op.max \in Nat
  PROVE  ShowsAll(SearchText(op))
<1> DEFINE sources == FilesIn(op.paths)
           limit == AtLeastOne(op.max)
           each == IF Cardinality(op.paths) = 1 \/ limit < PerFile
                   THEN limit ELSE PerFile
           WindowsOf(text) ==
             Windows(text, TextHits(text, op.pattern), op.context, LineCount(text))
           groups == [k \in DOMAIN sources |-> Given(sources[k], WindowsOf(indexed[sources[k]]))]
           taken == NonEmpty([k \in DOMAIN groups |-> Take(groups[k], each)])
<1>1. sources \in Seq(Present)  BY FilesPresent
<1>2. limit \in Nat  BY AtLeastNat
<1>3. each \in Nat  BY <1>2, RetrievalAssumption
<1>4. SearchText(op) = SearchResult(groups, taken, <<>>, limit)  BY Zenon DEF SearchText
<1> HIDE DEF sources, limit, each
<1>5. ASSUME NEW p \in Present PROVE Given(p, WindowsOf(indexed[p])) \in Seq(Results)
  <2>1. PICK text \in Seq(Tokens) : text = indexed[p]  BY TextPresent
  <2>2. TextHits(text, op.pattern) \in Seq(HitsOf(text))  BY <2>1, TextHitsAre
  <2>3. WindowsOf(text) \in Seq(WindowsIn(text))  BY <2>1, <2>2, WindowsAre
  <2> QED  BY <2>1, <2>3, GivenAre
<1> HIDE DEF WindowsOf
<1>6. groups \in Seq(Seq(Results))
  <2>1. PICK n \in Nat : n = Len(sources)  BY <1>1
  <2>2. DOMAIN sources = 1..n /\ \A k \in 1..n : sources[k] \in Present  BY <1>1, <2>1
  <2>3. groups \in [1..n -> Seq(Results)]  BY <1>5, <2>2, Zenon
  <2> HIDE DEF groups
  <2> QED  BY <2>3
<1> HIDE DEF groups
<1>7. taken \in Seq(Seq(Results))  BY <1>3, <1>6, TakenOf, KeptGroups
<1> HIDE DEF taken
<1>8. PICK none \in Seq(Seq(Results)) : none = <<>>
  <2>1. <<>> \in Seq(Seq(Results))  OBVIOUS
  <2> QED  BY <2>1
<1>9. ShowsAll(SearchResult(groups, taken, none, limit))  BY <1>2, <1>7, SearchShows
<1> QED  BY <1>4, <1>8, <1>9, Zenon

(* A search for file names has no handles.                                 *)
LEMMA NamesSearched ==
  ASSUME NEW op, op.max \in Nat
  PROVE  ShowsAll(SearchFilenames(op))
<1>1. FilesIn(op.paths) \in Seq(Present)  BY FilesPresent
<1>2. AtLeastOne(op.max) \in Nat  BY AtLeastNat
<1>3. PICK shown \in Seq(Present) : shown = Take(FilesIn(op.paths), AtLeastOne(op.max))
  BY <1>1, <1>2, TakeOf
<1>4. PICK list, y : /\ list = [k \in DOMAIN shown |-> [path |-> shown[k]]]
                     /\ y = [results |-> list,
                             truncated |-> Len(FilesIn(op.paths)) > Len(shown)]
  OBVIOUS
<1>5. SearchFilenames(op) = y  BY <1>3, <1>4, Zenon DEF SearchFilenames
<1>6. y.results = list /\ "next" \notin DOMAIN y  BY <1>4
<1>7. ASSUME NEW r \in Range(list) PROVE ShownGood(r)
  <2>1. PICK k \in DOMAIN shown : r = [path |-> shown[k]]  BY <1>4, Zenon DEF Range
  <2>2. DOMAIN r = {"path"}  BY <2>1
  <2>3. "handle" \notin DOMAIN r  BY <2>2
  <2> QED  BY <2>3 DEF ShownGood
<1> QED  BY <1>5, <1>6, <1>7, Zenon DEF ShowsAll

(* Declarations that are there.                                            *)
DefinitionsHere ==
  {d \in [path : Present, occurrence : AnyHits] : d.occurrence \in HitsOf(indexed[d.path])}

(* Hits on the lines of a text are hits.                                   *)
LEMMA HitsWider == ASSUME NEW text \in Seq(Tokens) PROVE HitsOf(text) \in SUBSET AnyHits
<1>1. PICK n \in Nat : n = LineCount(text)  BY LinesOf
<1>2. 1..LineCount(text) \in SUBSET Nat  BY <1>1
<1> QED  BY <1>2 DEF HitsOf, AnyHits

(* The declarations found are.                                             *)
LEMMA DefinitionsAre ==
  ASSUME IndexTyped, NEW path, NEW line
  PROVE  Definitions(path, line) \in Seq(DefinitionsHere)
<1> DEFINE Declarations(all) ==
             Picked(all, {k \in DOMAIN all : all[k].role = "declaration"
                                              /\ line \in {Nil, all[k].line}})
           Named(p, all) == [j \in DOMAIN all |-> [path |-> p, occurrence |-> all[j]]]
           sources == FilesIn(IF path = Nil THEN {} ELSE {path})
           each == [k \in DOMAIN sources |->
                      Named(sources[k], Declarations(Occurrences(indexed[sources[k]])))]
<1>1. sources \in Seq(Present)  BY FilesPresent
<1>2. Definitions(path, line) = FlattenSeq(each)  BY Zenon DEF Definitions
<1> HIDE DEF sources
<1>3. ASSUME NEW p \in Present
      PROVE  Named(p, Declarations(Occurrences(indexed[p]))) \in Seq(DefinitionsHere)
  <2>1. PICK text \in Seq(Tokens) : text = indexed[p]  BY TextPresent
  <2>2. PICK H : H = HitsOf(text)  OBVIOUS
  <2>3. PICK all \in Seq(H) : all = Occurrences(text)  BY <2>1, <2>2, OccurrencesAre
  <2>4. PICK places : places = {k \in DOMAIN all : all[k].role = "declaration"
                                                   /\ line \in {Nil, all[k].line}}
    OBVIOUS
  <2>5. places \in SUBSET (1..Len(all))  BY <2>4
  <2>6. Picked(all, places) \in Seq(H)  BY <2>5, PickedFrom
  <2>7. PICK decls \in Seq(H) : decls = Declarations(all)  BY <2>4, <2>6
  <2>8. PICK n \in Nat : n = Len(decls)  OBVIOUS
  <2>9. ASSUME NEW j \in 1..n
        PROVE  [path |-> p, occurrence |-> decls[j]] \in DefinitionsHere
    <3>1. PICK o \in H : o = decls[j]  BY <2>8
    <3>2. o \in AnyHits  BY <2>1, <2>2, HitsWider
    <3>3. PICK d : d = [path |-> p, occurrence |-> o]  OBVIOUS
    <3>4. d \in [path : Present, occurrence : AnyHits] /\ d.path = p /\ d.occurrence = o
      BY <3>2, <3>3
    <3>5. d.occurrence \in HitsOf(indexed[d.path])  BY <2>1, <2>2, <3>4
    <3>6. d \in DefinitionsHere  BY <3>4, <3>5, Zenon DEF DefinitionsHere
    <3> QED  BY <3>1, <3>3, <3>6
  <2>10. PICK named : named = Named(p, decls)  OBVIOUS
  <2>11. DOMAIN decls = 1..n  BY <2>8
  <2>12. named \in [1..n -> DefinitionsHere]  BY <2>9, <2>10, <2>11, Zenon
  <2>13. named \in Seq(DefinitionsHere)  BY <2>12
  <2> QED  BY <2>1, <2>3, <2>7, <2>10, <2>13, Zenon
<1> HIDE DEF Declarations, Named
<1>4. each \in Seq(Seq(DefinitionsHere))
  <2>1. PICK n \in Nat : n = Len(sources)  BY <1>1
  <2>2. DOMAIN sources = 1..n /\ \A k \in 1..n : sources[k] \in Present  BY <1>1, <2>1
  <2>3. each \in [1..n -> Seq(DefinitionsHere)]  BY <1>3, <2>2, Zenon
  <2> HIDE DEF each
  <2> QED  BY <2>3
<1> HIDE DEF each
<1> QED  BY <1>2, <1>4, FlattenOf

(* The occurrences asked for in a file.                                    *)
LEMMA WantedAre ==
  ASSUME IndexTyped, NEW op, NEW target, NEW p \in Present
  PROVE  Wanted(op, target, p) \in Seq(HitsOf(indexed[p]))
<1>1. PICK text \in Seq(Tokens) : text = indexed[p]  BY TextPresent
<1>2. PICK H : H = HitsOf(text)  OBVIOUS
<1>3. PICK all \in Seq(H) : all = Occurrences(text)  BY <1>1, <1>2, OccurrencesAre
<1>4. PICK places : places = {k \in DOMAIN all :
                         /\ ~(p = target.path /\ all[k].at = target.occurrence.at)
                         /\ op.kinds = {} \/ all[k].role \in op.kinds}
  OBVIOUS
<1>5. places \in SUBSET (1..Len(all))  BY <1>4
<1>6. Picked(all, places) \in Seq(H)  BY <1>5, PickedFrom
<1>7. Wanted(op, target, p) = Picked(all, places)  BY <1>1, <1>3, <1>4, Zenon DEF Wanted
<1> QED  BY <1>1, <1>2, <1>6, <1>7

(* The declaration, where it is asked for.                                 *)
LEMMA TargetGiven ==
  ASSUME IndexTyped, NEW op, NEW target \in DefinitionsHere
  PROVE  TargetResult(op, target) \in Seq(Seq(Results))
<1>1. PICK p, o : /\ p \in Present /\ p = target.path /\ o = target.occurrence
                              /\ o \in HitsOf(indexed[p])
  BY DEF DefinitionsHere
<1>2. PICK text \in Seq(Tokens) : text = indexed[p]  BY <1>1, TextPresent
<1>3. PICK line \in 1..LineCount(text) : line = o.line  BY <1>1, <1>2 DEF HitsOf
<1>4. PICK w : w = [line |-> line, from |-> line, to |-> line, hits |-> <<o>>]  OBVIOUS
<1>5. w \in WindowsIn(text)
  <2>1. PICK n \in Nat : n = LineCount(text)  BY LinesOf
  <2>2. line \in 1..n  BY <2>1
  <2>3. line <= line  BY <2>2
  <2>4. w = [line |-> o.line, from |-> line, to |-> line, hits |-> <<o>>]
    BY <1>3, <1>4, Zenon
  <2> QED  BY <1>1, <1>2, <2>3, <2>4, WindowBegun
<1>6. PICK r \in Results : r = WithHandle(p, w)  BY <1>1, <1>2, <1>5, HandleOfWindow
<1>7. << <<r>> >> \in Seq(Seq(Results)) /\ <<>> \in Seq(Seq(Results))
  <2>1. <<r>> \in Seq(Results)  OBVIOUS
  <2> PICK S, g : S = Seq(Results) /\ g = <<r>>  OBVIOUS
  <2>2. g \in S  BY <2>1
  <2>3. <<g>> \in Seq(S) /\ <<>> \in Seq(S)  BY <2>2
  <2> QED  BY <2>3
<1>8. TargetResult(op, target) \in {<< <<r>> >>, <<>>}
  <2>1. w = [line |-> target.occurrence.line, from |-> target.occurrence.line,
             to |-> target.occurrence.line, hits |-> <<target.occurrence>>]
    BY <1>1, <1>3, <1>4, Zenon
  <2>2. CASE "declaration" \in op.kinds /\ (op.paths = {} \/ target.path \in op.paths)
    <3>1. TargetResult(op, target) = << <<r>> >>  BY <1>1, <1>6, <2>1, <2>2, Zenon DEF TargetResult
    <3> QED  BY <3>1
  <2>3. CASE ~ ("declaration" \in op.kinds /\ (op.paths = {} \/ target.path \in op.paths))
    <3>1. TargetResult(op, target) = <<>>  BY <2>3, Zenon DEF TargetResult
    <3> QED  BY <3>1
  <2> QED  BY <2>2, <2>3
<1> QED  BY <1>7, <1>8

(* A failure is an error.                                                  *)
LEMMA FailedIs == \A code : IsError(Failed(code))
BY DEF IsError, Failed

(* A search for references.                                                *)
LEMMA ReferencesSearched ==
  ASSUME IndexTyped, NEW op, op.context \in Nat, op.max \in Nat
  PROVE  IsError(FindReferences(op)) \/ ShowsAll(FindReferences(op))
<1> DEFINE definitions == Definitions(op.definition, op.line)
           sources == FilesIn(op.paths)
           limit == AtLeastOne(op.max)
           each == IF limit < RefsPerFile THEN limit ELSE RefsPerFile
           WindowsOf(p) == Windows(indexed[p], Wanted(op, definitions[1], p),
                                   op.context, PerWindow)
           groups == [k \in DOMAIN sources |-> Given(sources[k], ByPriority(WindowsOf(sources[k])))]
           taken == [k \in DOMAIN groups |-> Take(groups[k], each)]
           kept == GroupsByPriority(NonEmpty(taken))
           extra == TargetResult(op, definitions[1])
<1>1. sources \in Seq(Present)  BY FilesPresent
<1>2. limit \in Nat  BY AtLeastNat
<1>3. each \in Nat  BY <1>2, RetrievalAssumption
<1>4. definitions \in Seq(DefinitionsHere)  BY DefinitionsAre
<1>5. \/ FindReferences(op) = Failed("symbol_not_found")
      \/ FindReferences(op) = Failed("ambiguous_symbol")
      \/ /\ definitions # <<>> /\ ~ (Len(definitions) > 1)
         /\ FindReferences(op) = SearchResult(groups, kept, extra, limit)
  BY Zenon DEF FindReferences
<1> HIDE DEF sources, limit, each, definitions
<1>6. ASSUME NEW p \in Present PROVE Given(p, ByPriority(WindowsOf(p))) \in Seq(Results)
  <2>1. PICK text \in Seq(Tokens) : text = indexed[p]  BY TextPresent
  <2>2. Wanted(op, definitions[1], p) \in Seq(HitsOf(text))  BY <2>1, WantedAre
  <2>3. WindowsOf(p) \in Seq(WindowsIn(text))  BY <2>1, <2>2, WindowsAre
  <2>4. ASSUME NEW w \in WindowsIn(text) PROVE LeadPriority(w) \in Nat
    <3>1. w.hits \in Seq(HitsOf(text)) /\ w.hits # <<>>  BY DEF WindowsIn
    <3> QED  BY <3>1, LeadNat
  <2>5. ByPriority(WindowsOf(p)) \in Seq(WindowsIn(text))
    <3> HIDE DEF WindowsOf
    <3> QED  BY <2>3, <2>4, ByPriorityOf
  <2> QED  BY <2>1, <2>5, GivenAre
<1> HIDE DEF WindowsOf
<1>7. groups \in Seq(Seq(Results))
  <2>1. PICK n \in Nat : n = Len(sources)  BY <1>1
  <2>2. DOMAIN sources = 1..n /\ \A k \in 1..n : sources[k] \in Present  BY <1>1, <2>1
  <2>3. groups \in [1..n -> Seq(Results)]  BY <1>6, <2>2, Zenon
  <2> HIDE DEF groups
  <2> QED  BY <2>3
<1> HIDE DEF groups
<1>8. taken \in Seq(Seq(Results))  BY <1>3, <1>7, TakenOf
<1> HIDE DEF taken
<1>9. kept \in Seq(Seq(Results))
  <2>1. NonEmpty(taken) \in Seq(Seq(Results) \ {<<>>})  BY <1>8, KeptGroups
  <2>2. ASSUME NEW g \in Seq(Results) \ {<<>>} PROVE LeadPriority(g[1]) \in Nat
    <3>1. PICK r \in Results : r = g[1]
      <4>1. g[1] \in Results  OBVIOUS
      <4> QED  BY <4>1
    <3>2. PICK B : B = Seq(AnyHits) \ {<<>>}  OBVIOUS
    <3>3. PICK h \in GoodHandles, line \in Nat, hits \in B : r = ResultOf(h, line, hits)
      BY <3>2 DEF Results
    <3>4. r.hits = hits  BY <3>3, Zenon DEF ResultOf
    <3>5. r.hits \in Seq(AnyHits) /\ r.hits # <<>>  BY <3>2, <3>3, <3>4
    <3> QED  BY <3>1, <3>5, LeadNat
  <2>3. PICK S : S = Seq(Results) \ {<<>>}  OBVIOUS
  <2>4. NonEmpty(taken) \in Seq(S) /\ \A g \in S : LeadPriority(g[1]) \in Nat
    BY <2>1, <2>2, <2>3
  <2>5. kept \in Seq(S)  BY <2>4, GroupsByPriorityOf
  <2>6. S \in SUBSET Seq(Results)  BY <2>3
  <2> QED  BY <2>5, <2>6, WiderSeq
<1> HIDE DEF kept
<1>10. CASE /\ definitions # <<>>
            /\ FindReferences(op) = SearchResult(groups, kept, extra, limit)
  <2>1. definitions[1] \in DefinitionsHere  BY <1>4, <1>10
  <2>2. extra \in Seq(Seq(Results))  BY <2>1, TargetGiven
  <2> HIDE DEF extra
  <2>3. ShowsAll(SearchResult(groups, kept, extra, limit))  BY <1>2, <1>9, <2>2, SearchShows
  <2> QED  BY <1>10, <2>3, Zenon
<1> QED  BY <1>5, <1>10, FailedIs, Zenon

-----------------------------------------------------------------------------
(* Reads. *)

PageGiven(outcome, p, text, scope, offset) ==
  \E chars \in Nat : outcome = Page(p, text, scope, offset, chars)

(* A read of a declaration is of lines of a file that is there.            *)
LEMMA SymbolFetched ==
  ASSUME IndexTyped, NEW op, op.context \in Nat, op.chars \in Nat
  PROVE  \/ IsError(FetchSymbol(op))
         \/ \E p \in Present, scope \in Scopes \ {<<>>} :
              PageGiven(FetchSymbol(op), p, indexed[p], scope, 0)
<1> DEFINE definitions == Definitions(op.path, Nil)
           line == definitions[1].occurrence.line
           p == definitions[1].path
           first == AtLeastOne(IF line > op.context THEN line - op.context ELSE 0)
<1>1. definitions \in Seq(DefinitionsHere)  BY DefinitionsAre
<1>2. \/ FetchSymbol(op) = Failed("symbol_not_found")
      \/ FetchSymbol(op) = Failed("ambiguous_symbol")
      \/ /\ definitions # <<>>
         /\ FetchSymbol(op) = Page(p, indexed[p], <<first, line + op.context>>, 0, op.chars)
  BY Zenon DEF FetchSymbol
<1>3. CASE /\ definitions # <<>>
           /\ FetchSymbol(op) = Page(p, indexed[p], <<first, line + op.context>>, 0, op.chars)
  <2>1. PICK d \in DefinitionsHere : d = definitions[1]
    <3> HIDE DEF definitions
    <3>1. definitions[1] \in DefinitionsHere  BY <1>1, <1>3
    <3> QED  BY <3>1
  <2>2. PICK q, o : q \in Present /\ q = d.path /\ o = d.occurrence /\ o \in HitsOf(indexed[q])
    BY DEF DefinitionsHere
  <2>3. PICK text \in Seq(Tokens) : text = indexed[q]  BY <2>2, TextPresent
  <2>4. PICK n \in Nat : n = LineCount(text)  BY LinesOf
  <2>5. PICK l \in 1..n : l = o.line  BY <2>2, <2>3, <2>4 DEF HitsOf
  <2>6. PICK c \in Nat : c = op.context  OBVIOUS
  <2>7. PICK a : a = IF l > c THEN l - c ELSE 0  OBVIOUS
  <2>8. PICK lo, hi : lo = AtLeastOne(a) /\ hi = l + c  OBVIOUS
  <2>9. lo \in Nat \ {0} /\ hi \in Nat /\ lo <= hi
    <3>1. l \in Nat \ {0} /\ hi = l + c  BY <2>4, <2>5, <2>8
    <3>2. CASE l > c
      <4>1. a = l - c /\ a # 0  BY <2>7, <3>1, <3>2
      <4>2. lo = a  BY <2>8, <4>1, Zenon DEF AtLeastOne
      <4> QED  BY <2>6, <3>1, <3>2, <4>1, <4>2
    <3>3. CASE ~ (l > c)
      <4>1. a = 0  BY <2>7, <3>3
      <4>2. lo = 1  BY <2>8, <4>1, Zenon DEF AtLeastOne
      <4> QED  BY <2>6, <3>1, <4>2
    <3> QED  BY <3>2, <3>3
  <2>10. PICK scope : scope = <<lo, hi>>  OBVIOUS
  <2>11. scope \in Scopes \ {<<>>}
    <3>1. scope \in (Nat \ {0}) \X Nat /\ scope[1] = lo /\ scope[2] = hi /\ scope # <<>>
      BY <2>9, <2>10
    <3> QED  BY <2>9, <3>1 DEF Scopes
  <2>12. FetchSymbol(op) = Page(q, indexed[q], scope, 0, op.chars)
    BY <1>3, <2>1, <2>2, <2>5, <2>6, <2>7, <2>8, <2>10, Zenon
  <2> QED  BY <2>2, <2>11, <2>12, Zenon DEF PageGiven
<1> QED  BY <1>2, <1>3, FailedIs, Zenon

(* A read of a path is of the file as it is indexed, and of the text that  *)
(* was expected if one was.                                                *)
LEMMA PathFetched ==
  ASSUME IndexTyped, NEW p \in IndexPaths, NEW scope, NEW offset, NEW chars \in Nat, NEW expected
  PROVE  \/ IsError(FetchIndexedPath(p, scope, offset, chars, expected))
         \/ /\ p \in Present /\ (expected = Nil \/ indexed[p] = expected)
            /\ PageGiven(FetchIndexedPath(p, scope, offset, chars, expected),
                         p, indexed[p], scope, offset)
<1>1. CASE indexed[p] = Nil
  <2>1. \E code : FetchIndexedPath(p, scope, offset, chars, expected) = Failed(code)
    BY <1>1, Zenon DEF FetchIndexedPath
  <2> QED  BY <2>1, FailedIs
<1>2. CASE indexed[p] # Nil /\ expected # Nil /\ indexed[p] # expected
  <2>1. FetchIndexedPath(p, scope, offset, chars, expected) = Failed("stale")
    BY <1>2, Zenon DEF FetchIndexedPath
  <2> QED  BY <2>1, FailedIs
<1>3. CASE indexed[p] # Nil /\ ~ (expected # Nil /\ indexed[p] # expected)
  <2>1. p \in Present  BY <1>3 DEF Present
  <2>2. FetchIndexedPath(p, scope, offset, chars, expected)
        = Page(p, indexed[p], scope, offset, chars)
    BY <1>3, Zenon DEF FetchIndexedPath
  <2> QED  BY <1>3, <2>1, <2>2, Zenon DEF PageGiven
<1> QED  BY <1>1, <1>2, <1>3

-----------------------------------------------------------------------------
(* What a client has read. *)

WholeOf(rd) ==
  IF rd.whole THEN rd.handle.hash
  ELSE SliceLines(rd.handle.hash, rd.handle.from, rd.handle.to)

(* A part of a whole, and where it goes on.                                *)
GotOf(got, next, text, whole) ==
  /\ next = Nil => got = whole
  /\ next # Nil => /\ next \in Continuations /\ next.hash = text
                   /\ Scoped(next.hash, next.scope) = whole
                   /\ next.offset \in 0..Len(whole)
                   /\ got = SubSeq(whole, 1, next.offset)

ReadGood(rd) ==
  /\ rd = [handle |-> rd.handle, got |-> rd.got, next |-> rd.next,
           whole |-> rd.whole, preview |-> rd.preview]
  /\ IsHandle(rd.handle)
  /\ rd.preview # Nil => rd.preview = WholeOf(rd)
  /\ GotOf(rd.got, rd.next, rd.handle.hash, WholeOf(rd))

(* What has been read up to the end of a page.                             *)
LEMMA GotTo ==
  ASSUME NEW p \in IndexPaths, NEW text \in FileTexts, NEW scope \in Scopes,
         NEW whole, whole = Scoped(text, scope), NEW end \in 0..Len(whole),
         NEW next, next = IF end < Len(whole)
                          THEN [path |-> p, hash |-> text, scope |-> scope, offset |-> end]
                          ELSE Nil
  PROVE  GotOf(SubSeq(whole, 1, end), next, text, whole)
<1>1. text \in Seq(Tokens)  BY RetrievalAssumption DEF Tokens
<1>2. whole \in Seq(Tokens)  BY <1>1, ScopedSeq
<1>3. PICK n \in Nat : n = Len(whole)  BY <1>2
<1>4. CASE end < n
  <2>1. PICK c : c = [path |-> p, hash |-> text, scope |-> scope, offset |-> end]  OBVIOUS
  <2>2. next = c /\ c.hash = text /\ c.scope = scope /\ c.offset = end
    BY <1>3, <1>4, <2>1
  <2>3. end \in Nat  BY <1>3
  <2>4. c \in Continuations  BY <2>1, <2>3 DEF Continuations
  <2>5. c # Nil  BY <2>4, RetrievalAssumption
  <2> QED  BY <2>2, <2>4, <2>5, Zenon DEF GotOf
<1>5. CASE ~ (end < n)
  <2>1. next = Nil /\ end = n  BY <1>3, <1>5
  <2>2. SubSeq(whole, 1, n) = whole  BY <1>2, <1>3, SubSeqFull
  <2> QED  BY <2>1, <2>2, Zenon DEF GotOf
<1> QED  BY <1>4, <1>5

(* The first page of a read.                                               *)
LEMMA FirstPage ==
  ASSUME NEW p \in IndexPaths, NEW text \in FileTexts, NEW scope \in Scopes, NEW page,
         PageGiven(page, p, text, scope, 0), NEW isWhole, isWhole <=> scope = <<>>,
         NEW preview,
         preview # Nil =>
           /\ scope # <<>> /\ scope[2] <= LineCount(text)
           /\ preview = SliceLines(text, scope[1], scope[2]),
         NEW rd, rd = [handle |-> page.handle, got |-> page.content, next |-> page.next,
                       whole |-> isWhole, preview |-> preview]
  PROVE  ReadGood(rd)
<1>1. text \in Seq(Tokens)  BY RetrievalAssumption DEF Tokens
<1>2. PICK whole \in Seq(Tokens) : whole = Scoped(text, scope)  BY <1>1, ScopedSeq
<1>3. PICK zero : zero = 0  OBVIOUS
<1>4. zero \in 0..Len(whole)  BY <1>2, <1>3
<1>5. PageOf(page, p, text, scope, zero)
  <2>1. PICK chars \in Nat : page = Page(p, text, scope, zero, chars)
    BY <1>3, Zenon DEF PageGiven
  <2>2. zero \in 0..Len(Scoped(text, scope))  BY <1>2, <1>4
  <2> QED  BY <2>1, <2>2, PageSays
<1>6. PICK end \in zero..Len(whole) :
      /\ page.content = SubSeq(whole, zero + 1, end)
      /\ page.next = (IF end < Len(whole)
                      THEN [path |-> p, hash |-> text, scope |-> scope, offset |-> end]
                      ELSE Nil)
      /\ IsHandle(page.handle) /\ page.handle.hash = text
      /\ whole = (IF scope = <<>> THEN text
                  ELSE SliceLines(text, page.handle.from, page.handle.to))
      /\ (scope # <<>> /\ scope[2] <= LineCount(text) =>
           page.handle.from = scope[1] /\ page.handle.to = scope[2])
  BY <1>2, <1>5, Zenon DEF PageOf
<1>7. PICK handle, got, next : handle = page.handle /\ got = page.content /\ next = page.next
  OBVIOUS
<1>8. /\ rd.handle = handle /\ rd.got = got /\ rd.next = next
      /\ rd.whole = isWhole /\ rd.preview = preview
  BY <1>7
<1>9. WholeOf(rd) = whole
  <2>1. CASE scope = <<>>  BY <1>6, <1>7, <1>8, <2>1, Zenon DEF WholeOf
  <2>2. CASE scope # <<>>  BY <1>6, <1>7, <1>8, <2>2, Zenon DEF WholeOf
  <2> QED  BY <2>1, <2>2
<1>10. got = SubSeq(whole, 1, end)
  <2>1. zero + 1 = 1  BY <1>3
  <2> QED  BY <1>6, <1>7, <2>1, Zenon
<1>11. end \in 0..Len(whole)  BY <1>3
<1>12. next = IF end < Len(whole)
              THEN [path |-> p, hash |-> text, scope |-> scope, offset |-> end]
              ELSE Nil
  BY <1>6, <1>7, Zenon
<1>13. GotOf(got, next, text, whole)  BY <1>2, <1>10, <1>11, <1>12, GotTo, Zenon
<1>14. preview # Nil => preview = whole  BY <1>6, Zenon
<1>15. rd = [handle |-> rd.handle, got |-> rd.got, next |-> rd.next,
             whole |-> rd.whole, preview |-> rd.preview]
  BY <1>7, <1>8, Zenon
<1> QED  BY <1>6, <1>7, <1>8, <1>9, <1>13, <1>14, <1>15, Zenon DEF ReadGood

(* Another page of a read.                                                 *)
Continued(rd, page, rd2) == rd2 = [rd EXCEPT !.got = @ \o page.content, !.next = page.next]

(* What has been read so far, with the page after it, is a good part again. *)
LEMMA NextPage ==
  ASSUME NEW rd, ReadGood(rd), rd.next # Nil, NEW page,
         PageGiven(page, rd.next.path, rd.next.hash, rd.next.scope, rd.next.offset),
         NEW rd2, Continued(rd, page, rd2)
  PROVE  ReadGood(rd2) /\ rd2.next = page.next
<1>1. PICK token \in Continuations :
        /\ token = rd.next /\ token.hash = rd.handle.hash
        /\ Scoped(token.hash, token.scope) = WholeOf(rd)
        /\ token.offset \in 0..Len(WholeOf(rd))
        /\ rd.got = SubSeq(WholeOf(rd), 1, token.offset)
  BY Zenon DEF ReadGood, GotOf
<1>2. PICK p \in IndexPaths, text \in FileTexts, scope \in Scopes, offset \in Nat :
        p = token.path /\ text = token.hash /\ scope = token.scope /\ offset = token.offset
  BY DEF Continuations
<1>3. text \in Seq(Tokens)  BY RetrievalAssumption DEF Tokens
<1>4. PICK whole \in Seq(Tokens) : whole = Scoped(text, scope)  BY <1>3, ScopedSeq
<1>5. PICK n \in Nat : n = Len(whole)  BY <1>4
<1>6. WholeOf(rd) = whole /\ offset \in 0..n /\ rd.got = SubSeq(whole, 1, offset)
  BY <1>1, <1>2, <1>4, <1>5, Zenon
<1>7. PageOf(page, p, text, scope, offset)
  <2>1. PICK chars \in Nat : page = Page(p, text, scope, offset, chars)
    BY <1>1, <1>2, Zenon DEF PageGiven
  <2>2. offset \in 0..Len(Scoped(text, scope))  BY <1>4, <1>5, <1>6
  <2> QED  BY <2>1, <2>2, PageSays
<1>8. PICK end \in offset..Len(whole) :
      /\ page.content = SubSeq(whole, offset + 1, end)
      /\ page.next = IF end < Len(whole)
                     THEN [path |-> p, hash |-> text, scope |-> scope, offset |-> end]
                     ELSE Nil
  BY <1>4, <1>7, Zenon DEF PageOf
<1>9. PICK got, next, more : got = rd.got /\ next = page.next /\ more = got \o page.content
  OBVIOUS
<1>10. more = SubSeq(whole, 1, end)
  <2>1. PICK one : one = 1  OBVIOUS
  <2>2. one \in 1..Len(whole) + 1 /\ offset \in one - 1..Len(whole) /\ end \in offset..Len(whole)
    BY <1>5, <1>6, <1>8, <2>1
  <2>3. SubSeq(whole, one, offset) \o SubSeq(whole, offset + 1, end) = SubSeq(whole, one, end)
    BY <1>4, <2>2, ConcatAdjacentSubSeq
  <2> QED  BY <1>6, <1>8, <1>9, <2>1, <2>3, Zenon
<1>11. end \in 0..Len(whole)  BY <1>2, <1>5, <1>8
<1>12. next = IF end < Len(whole)
              THEN [path |-> p, hash |-> text, scope |-> scope, offset |-> end]
              ELSE Nil
  BY <1>8, <1>9, Zenon
<1>13. GotOf(more, next, text, whole)
  BY <1>2, <1>4, <1>10, <1>11, <1>12, GotTo, Zenon
<1>14. rd = [handle |-> rd.handle, got |-> rd.got, next |-> rd.next,
             whole |-> rd.whole, preview |-> rd.preview]
  BY Zenon DEF ReadGood
<1>15. PICK a, b, c, d, e : /\ rd = [handle |-> a, got |-> b, next |-> c, whole |-> d, preview |-> e]
                            /\ a = rd.handle /\ d = rd.whole /\ e = rd.preview
  BY <1>14, Zenon
<1>16. rd2 = [handle |-> a, got |-> more, next |-> next, whole |-> d, preview |-> e]
  <2>1. rd2 = [[rd EXCEPT !.got = more] EXCEPT !.next = next]  BY <1>9, Zenon DEF Continued
  <2>2. PICK rd1 : rd1 = [handle |-> a, got |-> more, next |-> c, whole |-> d, preview |-> e]
    OBVIOUS
  <2>3. [rd EXCEPT !.got = more] = rd1  BY <1>15, <2>2
  <2>4. [rd1 EXCEPT !.next = next]
        = [handle |-> a, got |-> more, next |-> next, whole |-> d, preview |-> e]
    BY <2>2
  <2> QED  BY <2>1, <2>3, <2>4, Zenon
<1>17. /\ rd2.handle = a /\ rd2.got = more /\ rd2.next = next
       /\ rd2.whole = d /\ rd2.preview = e
  <2>1. PICK x : x = [handle |-> a, got |-> more, next |-> next, whole |-> d, preview |-> e]
    OBVIOUS
  <2>2. x.handle = a /\ x.got = more /\ x.next = next /\ x.whole = d /\ x.preview = e
    BY <2>1
  <2> QED  BY <1>16, <2>1, <2>2, Zenon
<1>18. WholeOf(rd2) = whole  BY <1>6, <1>15, <1>17, Zenon DEF WholeOf
<1>19. rd2 = [handle |-> rd2.handle, got |-> rd2.got, next |-> rd2.next,
              whole |-> rd2.whole, preview |-> rd2.preview]
  BY <1>16, <1>17, Zenon
<1>20. IsHandle(a) /\ (e # Nil => e = whole) /\ a.hash = text
  BY <1>1, <1>2, <1>6, <1>15, Zenon DEF ReadGood
<1> QED  BY <1>9, <1>13, <1>17, <1>18, <1>19, <1>20, Zenon DEF ReadGood

-----------------------------------------------------------------------------
(* What holds of a call and of what the client holds. *)

(* The tokens of an outcome are those the client goes on with.             *)
OutcomeFits(outcome, rd) ==
  IF "next" \in DOMAIN outcome THEN rd = Nil \/ rd.next = outcome.next
  ELSE "results" \in DOMAIN outcome => \A r \in Range(outcome.results) : ShownGood(r)

LastFits(c, rd) == c.results # <<>> => OutcomeFits(Last(c.results).outcome, rd)

(* An operation with a token that the client was given.                    *)
FollowGood(op, rd) ==
  /\ op.chars \in Nat
  /\ \/ /\ op.kind = "read_handle" /\ IsHandle(op.token)
        /\ op.preview = SliceLines(op.token.hash, op.token.from, op.token.to)
     \/ /\ op.kind = "read_continuation"
        /\ rd = Nil \/ (op.token = rd.next /\ op.token # Nil)

OpsGood(c, rd) ==
  \/ \A k \in 1..Len(c.ops) : ClientOperation(c.ops[k])
  \/ Len(c.ops) = 1 /\ (c.done = 0 => FollowGood(c.ops[1], rd))

ReadsInv ==
  /\ IndexTyped /\ changed \in 0..MaxIndexChanges
  /\ call = Nil \/ answered = Nil
  /\ call # Nil => OpsGood(call, reading) /\ LastFits(call, reading)
  /\ answered # Nil => LastFits(answered, reading)
  /\ reading # Nil => ReadGood(reading)

(* A page says where to go on.                                             *)
LEMMA HasNext == \A p, text, scope, offset, chars :
  "next" \in DOMAIN Page(p, text, scope, offset, chars)
BY DEF Page

(* A read gives a page or fails, and the client has a good part of a text  *)
(* after it or nothing.                                                    *)
ReadOutcome(op, outcome) ==
  \/ IsError(outcome)
  \/ /\ "next" \in DOMAIN outcome
     /\ \/ Assembled(op, outcome) = Nil
        \/ /\ ReadGood(Assembled(op, outcome))
           /\ Assembled(op, outcome).next = outcome.next

(* The first page, as the client keeps it.                                 *)
LEMMA FirstRead ==
  ASSUME NEW op, op.kind # "read_continuation", NEW outcome, NEW p \in IndexPaths,
         NEW text \in FileTexts, NEW scope \in Scopes, PageGiven(outcome, p, text, scope, 0),
         (op.kind = "read_path" /\ op.scope = <<>>) <=> scope = <<>>,
         op.kind = "read_handle" => /\ scope # <<>> /\ scope[2] <= LineCount(text)
                                    /\ op.preview = SliceLines(text, scope[1], scope[2])
  PROVE  ReadOutcome(op, outcome)
<1>1. CASE IsError(outcome)  BY <1>1, Zenon DEF ReadOutcome
<1>2. CASE ~ IsError(outcome)
  <2>1. PICK isWhole, preview :
          /\ isWhole = (op.kind = "read_path" /\ op.scope = <<>>)
          /\ preview = IF op.kind = "read_handle" THEN op.preview ELSE Nil
    OBVIOUS
  <2>2. PICK rd : rd = [handle |-> outcome.handle, got |-> outcome.content,
                        next |-> outcome.next, whole |-> isWhole, preview |-> preview]
    OBVIOUS
  <2>3. isWhole <=> scope = <<>>  BY <2>1
  <2>4. preview # Nil => /\ scope # <<>> /\ scope[2] <= LineCount(text)
                         /\ preview = SliceLines(text, scope[1], scope[2])
    BY <2>1, Zenon
  <2>5. ReadGood(rd)  BY <2>2, <2>3, <2>4, FirstPage, Zenon
  <2>6. Assembled(op, outcome) = rd  BY <1>2, <2>1, <2>2, Zenon DEF Assembled
  <2>7. rd.next = outcome.next  BY <2>2, Zenon
  <2>8. "next" \in DOMAIN outcome  BY HasNext, Zenon DEF PageGiven
  <2> QED  BY <2>5, <2>6, <2>7, <2>8, Zenon DEF ReadOutcome
<1> QED  BY <1>1, <1>2

(* A read of a path does.                                                  *)
LEMMA PathRead ==
  ASSUME IndexTyped, NEW op, op.kind = "read_path", ClientOperation(op)
  PROVE  ReadOutcome(op, Retrieved(op))
<1>1. op.path \in IndexPaths /\ op.scope \in Scopes /\ op.chars \in Nat
  BY DEF ClientOperation
<1>2. PICK outcome : outcome = FetchIndexedPath(op.path, op.scope, 0, op.chars, Nil)
  OBVIOUS
<1>3. Retrieved(op) = outcome  BY <1>2 DEF Retrieved
<1>4. \/ IsError(outcome)
      \/ op.path \in Present
         /\ PageGiven(outcome, op.path, indexed[op.path], op.scope, 0)
  BY <1>1, <1>2, PathFetched
<1>5. CASE IsError(outcome)  BY <1>3, <1>5, Zenon DEF ReadOutcome
<1>6. CASE op.path \in Present /\ PageGiven(outcome, op.path, indexed[op.path], op.scope, 0)
  <2>1. indexed[op.path] \in FileTexts  BY <1>6, TextPresent
  <2>2. op.kind # "read_handle" /\ op.kind # "read_continuation"  OBVIOUS
  <2>3. ReadOutcome(op, outcome)  BY <1>1, <1>6, <2>1, <2>2, FirstRead
  <2> QED  BY <1>3, <2>3
<1> QED  BY <1>4, <1>5, <1>6

(* So does a read of a declaration.                                        *)
LEMMA SymbolRead ==
  ASSUME IndexTyped, NEW op, op.kind = "read_symbol", ClientOperation(op)
  PROVE  ReadOutcome(op, Retrieved(op))
<1>1. op.context \in Nat /\ op.chars \in Nat  BY DEF ClientOperation
<1>2. PICK outcome : outcome = FetchSymbol(op)  OBVIOUS
<1>3. Retrieved(op) = outcome  BY <1>2 DEF Retrieved
<1>4. \/ IsError(outcome)
      \/ \E p \in Present, scope \in Scopes \ {<<>>} :
           PageGiven(outcome, p, indexed[p], scope, 0)
  BY <1>1, <1>2, SymbolFetched
<1>5. CASE IsError(outcome)  BY <1>3, <1>5, Zenon DEF ReadOutcome
<1>6. CASE \E p \in Present, scope \in Scopes \ {<<>>} :
             PageGiven(outcome, p, indexed[p], scope, 0)
  <2>1. PICK p \in Present, scope \in Scopes \ {<<>>} :
          PageGiven(outcome, p, indexed[p], scope, 0)
    BY <1>6
  <2>2. p \in IndexPaths /\ indexed[p] \in FileTexts  BY TextPresent
  <2>3. op.kind # "read_handle" /\ op.kind # "read_continuation" /\ op.kind # "read_path"
    OBVIOUS
  <2>4. scope \in Scopes /\ scope # <<>>  BY <2>1
  <2>5. ReadOutcome(op, outcome)  BY <2>1, <2>2, <2>3, <2>4, FirstRead
  <2> QED  BY <1>3, <2>5
<1> QED  BY <1>4, <1>5, <1>6

(* And one of a handle, which shows what was shown beside it.              *)
LEMMA HandleRead ==
  ASSUME IndexTyped, NEW op, op.kind = "read_handle", op.chars \in Nat, IsHandle(op.token),
         op.preview = SliceLines(op.token.hash, op.token.from, op.token.to)
  PROVE  ReadOutcome(op, Retrieved(op))
<1>1. PICK p, text, from, to :
        /\ p \in IndexPaths /\ text \in FileTexts
        /\ p = op.token.path /\ text = op.token.hash
        /\ from = op.token.from /\ to = op.token.to
        /\ from \in 1..to /\ to \in 1..LineCount(text)
  BY Zenon DEF IsHandle
<1>2. from \in Nat \ {0} /\ to \in Nat /\ from <= to /\ to <= LineCount(text)
  <2>1. text \in Seq(Tokens)  BY <1>1, RetrievalAssumption DEF Tokens
  <2>2. PICK n \in Nat : n = LineCount(text)  BY <2>1, LinesOf
  <2>3. to \in Nat /\ to <= n  BY <1>1, <2>2
  <2> QED  BY <1>1, <2>2, <2>3
<1>3. PICK scope : scope = <<from, to>>  OBVIOUS
<1>4. scope \in Scopes /\ scope # <<>> /\ scope[1] = from /\ scope[2] = to
  <2>1. scope \in (Nat \ {0}) \X Nat /\ scope[1] = from /\ scope[2] = to /\ scope # <<>>
    BY <1>2, <1>3
  <2> QED  BY <1>2, <2>1 DEF Scopes
<1>5. PICK outcome : outcome = FetchIndexedPath(p, scope, 0, op.chars, text)
  OBVIOUS
<1>6. Retrieved(op) = outcome
  <2>1. Retrieved(op) = FetchIndexedPath(op.token.path, <<op.token.from, op.token.to>>,
                                       0, op.chars, op.token.hash)
    BY DEF Retrieved
  <2> QED  BY <1>1, <1>3, <1>5, <2>1, Zenon
<1>7. text # Nil  BY <1>1, RetrievalAssumption
<1>8. \/ IsError(outcome)
      \/ /\ p \in Present /\ indexed[p] = text
         /\ PageGiven(outcome, p, indexed[p], scope, 0)
  BY <1>1, <1>5, <1>7, PathFetched
<1>9. CASE IsError(outcome)  BY <1>6, <1>9, Zenon DEF ReadOutcome
<1>10. CASE /\ p \in Present /\ indexed[p] = text
            /\ PageGiven(outcome, p, indexed[p], scope, 0)
  <2>1. op.preview = SliceLines(text, scope[1], scope[2])  BY <1>1, <1>4, Zenon
  <2>2. scope[2] <= LineCount(text)  BY <1>2, <1>4
  <2>3. op.kind # "read_path" /\ op.kind # "read_continuation"  OBVIOUS
  <2>4. PageGiven(outcome, p, text, scope, 0)  BY <1>10
  <2>5. ReadOutcome(op, outcome)  BY <1>1, <1>4, <2>1, <2>2, <2>3, <2>4, FirstRead
  <2> QED  BY <1>6, <2>5
<1> QED  BY <1>8, <1>9, <1>10

(* And one that goes on with the client's token.                           *)
LEMMA ContinuationRead ==
  ASSUME IndexTyped, NEW op, op.kind = "read_continuation", op.chars \in Nat,
         reading # Nil => ReadGood(reading),
         reading = Nil \/ (op.token = reading.next /\ op.token # Nil)
  PROVE  ReadOutcome(op, Retrieved(op))
<1>1. PICK outcome : outcome = FetchIndexedPath(op.token.path, op.token.scope,
                                 op.token.offset, op.chars, op.token.hash)
  OBVIOUS
<1>2. Retrieved(op) = outcome  BY <1>1 DEF Retrieved
<1>3. CASE IsError(outcome)  BY <1>2, <1>3, Zenon DEF ReadOutcome
<1>4. CASE ~ IsError(outcome) /\ reading = Nil
  <2>1. Assembled(op, outcome) = Nil  BY <1>4, Zenon DEF Assembled
  <2>2. \/ \E code : outcome = Failed(code)
        \/ outcome = Page(op.token.path, indexed[op.token.path], op.token.scope,
                          op.token.offset, op.chars)
    BY <1>1, Zenon DEF FetchIndexedPath
  <2>3. "next" \in DOMAIN outcome  BY <1>4, <2>2, FailedIs, HasNext, Zenon
  <2> QED  BY <1>2, <2>1, <2>3, Zenon DEF ReadOutcome
<1>5. CASE ~ IsError(outcome) /\ reading # Nil
  <2>1. PICK rd, token : rd = reading /\ token = op.token /\ token = rd.next /\ token # Nil
                         /\ ReadGood(rd)
    BY <1>5
  <2>2. token \in Continuations  BY <2>1, Zenon DEF ReadGood, GotOf
  <2>3. token.path \in IndexPaths /\ token.hash \in FileTexts  BY <2>2 DEF Continuations
  <2>4. token.hash # Nil  BY <2>3, RetrievalAssumption
  <2>5. outcome = FetchIndexedPath(token.path, token.scope, token.offset, op.chars, token.hash)
    BY <1>1, <2>1
  <2>6. /\ token.path \in Present /\ indexed[token.path] = token.hash
        /\ PageGiven(outcome, token.path, indexed[token.path], token.scope, token.offset)
    <3> PICK p, hash, scope, offset : p = token.path /\ hash = token.hash
                                      /\ scope = token.scope /\ offset = token.offset
      OBVIOUS
    <3>1. \/ IsError(outcome)
          \/ /\ p \in Present /\ (hash = Nil \/ indexed[p] = hash)
             /\ PageGiven(outcome, p, indexed[p], scope, offset)
      BY <2>3, <2>5, PathFetched
    <3> QED  BY <1>5, <2>4, <3>1
  <2>7. PICK rd2 : rd2 = [rd EXCEPT !.got = @ \o outcome.content, !.next = outcome.next]
    OBVIOUS
  <2>8. Assembled(op, outcome) = rd2  BY <1>5, <2>1, <2>7, Zenon DEF Assembled
  <2>9. rd.next # Nil /\ PageGiven(outcome, rd.next.path, rd.next.hash, rd.next.scope,
                                   rd.next.offset)
    BY <2>1, <2>6, Zenon
  <2>12. ReadGood(rd)  BY <2>1
  <2>13. Continued(rd, outcome, rd2)  BY <2>7, Zenon DEF Continued
  <2>10. ReadGood(rd2) /\ rd2.next = outcome.next  BY <2>9, <2>12, <2>13, NextPage
  <2>11. "next" \in DOMAIN outcome  BY <2>9, HasNext, Zenon DEF PageGiven
  <2> QED  BY <1>2, <2>8, <2>10, <2>11, Zenon DEF ReadOutcome
<1> QED  BY <1>3, <1>4, <1>5

(* Any other operation.                                                    *)
LEMMA SearchOutcome ==
  ASSUME IndexTyped, NEW op, ~ IsRead(op), ClientOperation(op)
  PROVE  IsError(Retrieved(op)) \/ ShowsAll(Retrieved(op))
<1>1. CASE op.kind = "search_text"
  <2>1. op.context \in Nat /\ op.max \in Nat  BY <1>1 DEF ClientOperation
  <2>2. Retrieved(op) = SearchText(op)  BY <1>1 DEF Retrieved
  <2> QED  BY <2>1, <2>2, TextSearched
<1>2. CASE op.kind = "find_file"
  <2>1. op.max \in Nat  BY <1>2 DEF ClientOperation
  <2>2. Retrieved(op) = SearchFilenames(op)  BY <1>2 DEF Retrieved
  <2> QED  BY <2>1, <2>2, NamesSearched
<1>3. CASE op.kind = "find_references"
  <2>1. op.context \in Nat /\ op.max \in Nat  BY <1>3 DEF ClientOperation
  <2>2. Retrieved(op) = FindReferences(op)  BY <1>3 DEF Retrieved
  <2> QED  BY <2>1, <2>2, ReferencesSearched
<1>4. CASE op.kind \notin {"search_text", "find_file", "find_references"}
  <2>1. Retrieved(op) = Failed("invalid_operation")  BY <1>4 DEF Retrieved, IsRead
  <2> QED  BY <2>1, FailedIs
<1> QED  BY <1>1, <1>2, <1>3, <1>4

(* Any read that a client begins with.                                     *)
LEMMA ClientRead ==
  ASSUME IndexTyped, NEW op, IsRead(op), ClientOperation(op)
  PROVE  ReadOutcome(op, Retrieved(op))
<1>1. op.kind = "read_path" \/ op.kind = "read_symbol"  BY DEF ClientOperation, IsRead
<1> QED  BY <1>1, PathRead, SymbolRead

(* Any read with a token it was given.                                     *)
LEMMA FollowRead ==
  ASSUME IndexTyped, NEW op, reading # Nil => ReadGood(reading), FollowGood(op, reading)
  PROVE  IsRead(op) /\ ReadOutcome(op, Retrieved(op))
<1>1. IsRead(op)  BY DEF FollowGood, IsRead
<1>2. ReadOutcome(op, Retrieved(op))
  BY HandleRead, ContinuationRead, Zenon DEF FollowGood
<1> QED  BY <1>1, <1>2

-----------------------------------------------------------------------------
(* The steps of a retrieval. *)

LEMMA FitsNothing == \A c, rd : LastFits(c, rd) => LastFits(c, Nil)
BY Zenon DEF LastFits, OutcomeFits

(* A call begins.                                                          *)
LEMMA StartReads ==
  ASSUME ReadsInv, NEW c \in Calls \union Follows, NEW pin, StartCall(c, pin)
  PROVE  ReadsInv'
<1>1. PICK rd : rd = reading'  OBVIOUS
<1>2. /\ call = Nil /\ answered' = Nil
      /\ indexed' = indexed /\ changed' = changed
      /\ rd = (IF c.ops[1].kind = "read_continuation" THEN reading ELSE Nil)
      /\ call' = [ops |-> c.ops, fail_fast |-> c.fail_fast, snapshot |-> indexed,
                  seen |-> {}, done |-> 0, results |-> <<>>, errors |-> <<>>]
  BY <1>1, Zenon DEF StartCall
<1>3. PICK e : e = <<>>  OBVIOUS
<1>4. PICK d : d = [ops |-> c.ops, fail_fast |-> c.fail_fast, snapshot |-> indexed,
                    seen |-> {}, done |-> 0, results |-> e, errors |-> e]
  OBVIOUS
<1>5. call' = d /\ d.ops = c.ops /\ d.done = 0 /\ d.results = <<>>
  <2>1. d.ops = c.ops /\ d.done = 0 /\ d.results = e  BY <1>4
  <2>2. call' = d  BY <1>2, <1>3, <1>4, Zenon
  <2> QED  BY <1>3, <2>1, <2>2
<1>6. LastFits(d, rd)  BY <1>5 DEF LastFits
<1>7. rd # Nil => ReadGood(rd)  BY <1>2, Zenon DEF ReadsInv
<1>8. OpsGood(d, rd)
  <2>1. CASE c \in Calls
    <3>1. DOMAIN c.ops = 1..Len(c.ops) /\ \A k \in DOMAIN c.ops : ClientOperation(c.ops[k])
      BY <2>1, RetrievalAssumption
    <3> QED  BY <1>5, <3>1, Zenon DEF OpsGood
  <2>2. CASE c \in Follows
    <3>1. answered # Nil /\ answered.results # <<>>  BY <2>2, Zenon DEF Follows
    <3>2. PICK last : last = Last(answered.results).outcome  OBVIOUS
    <3>3. OutcomeFits(last, reading)  BY <3>1, <3>2, Zenon DEF ReadsInv, LastFits
    <3>4. PICK op : op = c.ops[1]  OBVIOUS
    <3>5. ASSUME NEW kind, NEW token, NEW preview, NEW how \in [chars : PageSizes, compact : BOOLEAN],
                 c = [ops |-> <<[id |-> 1, kind |-> kind, token |-> token,
                                 preview |-> preview, chars |-> how.chars, compact |-> how.compact]>>,
                      fail_fast |-> FALSE]
          PROVE  /\ op.kind = kind /\ op.token = token /\ op.preview = preview
                 /\ op.chars \in Nat /\ Len(c.ops) = 1
      <4>1. PICK o : o = [id |-> 1, kind |-> kind, token |-> token,
                          preview |-> preview, chars |-> how.chars, compact |-> how.compact]
        OBVIOUS
      <4>2. c.ops = <<o>>  BY <3>5, <4>1
      <4>3. op = o /\ Len(c.ops) = 1  BY <3>4, <4>2
      <4>4. how.chars \in Nat  BY RetrievalAssumption
      <4> QED  BY <4>1, <4>3, <4>4
    <3>6. CASE "next" \in DOMAIN last
      <4>1. last.next # Nil /\ \E how \in [chars : PageSizes, compact : BOOLEAN] :
              c = [ops |-> <<[id |-> 1, kind |-> "read_continuation", token |-> last.next,
                              preview |-> Nil, chars |-> how.chars, compact |-> how.compact]>>,
                   fail_fast |-> FALSE]
        BY <2>2, <3>1, <3>2, <3>6, Zenon DEF Follows
      <4>2. /\ op.kind = "read_continuation" /\ op.token = last.next
            /\ op.chars \in Nat /\ Len(c.ops) = 1
        BY <3>5, <4>1
      <4>3. rd = reading  BY <1>2, <3>4, <4>2
      <4>4. reading = Nil \/ reading.next = last.next  BY <3>3, <3>6, Zenon DEF OutcomeFits
      <4>5. FollowGood(op, rd)  BY <4>1, <4>2, <4>3, <4>4, Zenon DEF FollowGood
      <4> QED  BY <1>5, <3>4, <4>2, <4>5, Zenon DEF OpsGood
    <3>7. CASE "next" \notin DOMAIN last
      <4>0. "results" \in DOMAIN last  BY <2>2, <3>1, <3>2, <3>7, Zenon DEF Follows
      <4>1. PICK r \in Range(last.results), how \in [chars : PageSizes, compact : BOOLEAN] :
              /\ "handle" \in DOMAIN r
              /\ c = [ops |-> <<[id |-> 1, kind |-> "read_handle", token |-> r.handle,
                                 preview |-> r.preview, chars |-> how.chars, compact |-> how.compact]>>,
                      fail_fast |-> FALSE]
        <5> DEFINE given == {x \in Range(last.results) : "handle" \in DOMAIN x}
                   Reads(r) == {[ops |-> <<[id |-> 1, kind |-> "read_handle",
                                            token |-> r.handle, preview |-> r.preview,
                                            chars |-> how.chars, compact |-> how.compact]>>,
                                 fail_fast |-> FALSE] : how \in [chars : PageSizes, compact : BOOLEAN]}
        <5>1. c \in UNION {Reads(r) : r \in given}
          BY <2>2, <3>1, <3>2, <3>7, <4>0, Zenon DEF Follows
        <5>2. PICK r \in given : c \in Reads(r)
          <6> HIDE DEF Reads, given
          <6> QED  BY <5>1
        <5>3. PICK how \in [chars : PageSizes, compact : BOOLEAN] :
                c = [ops |-> <<[id |-> 1, kind |-> "read_handle", token |-> r.handle,
                                preview |-> r.preview, chars |-> how.chars, compact |-> how.compact]>>,
                     fail_fast |-> FALSE]
          BY <5>2, Zenon
        <5>4. r \in Range(last.results) /\ "handle" \in DOMAIN r  BY <5>2
        <5> QED  BY <5>3, <5>4, Zenon
      <4>2. /\ op.kind = "read_handle" /\ op.token = r.handle /\ op.preview = r.preview
            /\ op.chars \in Nat /\ Len(c.ops) = 1
        BY <3>5, <4>1
      <4>3. ShownGood(r)  BY <3>3, <3>7, <4>0, Zenon DEF OutcomeFits
      <4>4. IsHandle(r.handle)
            /\ r.preview = SliceLines(r.handle.hash, r.handle.from, r.handle.to)
        BY <4>1, <4>3, Zenon DEF ShownGood
      <4>5. FollowGood(op, rd)  BY <4>2, <4>4, Zenon DEF FollowGood
      <4> QED  BY <1>5, <3>4, <4>2, <4>5, Zenon DEF OpsGood
    <3> QED  BY <3>6, <3>7
  <2> QED  BY <2>1, <2>2
<1>9. IndexTyped /\ changed \in 0..MaxIndexChanges  BY DEF ReadsInv
<1>10. IndexTyped'  BY <1>2, <1>9 DEF IndexTyped
<1> QED  BY <1>1, <1>2, <1>5, <1>6, <1>7, <1>8, <1>9, <1>10 DEF ReadsInv

(* The outcome of an operation, and what the client then holds.            *)
LEMMA OperateOutcome ==
  ASSUME ReadsInv, call # Nil, NEW op, ClientOperation(op) \/ FollowGood(op, reading)
  PROVE  \/ ~ IsRead(op) /\ (IsError(Retrieved(op)) \/ ShowsAll(Retrieved(op)))
         \/ IsRead(op) /\ ReadOutcome(op, Retrieved(op))
<1>1. IndexTyped /\ (reading # Nil => ReadGood(reading))  BY DEF ReadsInv
<1>2. CASE FollowGood(op, reading)  BY <1>1, <1>2, FollowRead
<1>3. CASE ClientOperation(op) /\ IsRead(op)  BY <1>1, <1>3, ClientRead
<1>4. CASE ClientOperation(op) /\ ~ IsRead(op)  BY <1>1, <1>4, SearchOutcome
<1> QED  BY <1>2, <1>3, <1>4

(* What a compact answer leaves of an outcome.                             *)
LEMMA CompactedIs ==
  ASSUME NEW op, NEW outcome
  PROVE  /\ IsError(Compacted(op, outcome)) <=> IsError(outcome)
         /\ \/ Compacted(op, outcome) = outcome
            \/ /\ IsRead(op)
               /\ "next" \notin DOMAIN Compacted(op, outcome)
               /\ "results" \notin DOMAIN Compacted(op, outcome)
<1>1. CASE IsRead(op) /\ op.compact /\ ~ IsError(outcome)
  <2> DEFINE x == [content |-> outcome.content]
  <2>2. Compacted(op, outcome) = x  BY <1>1, Zenon DEF Compacted
  <2>3. DOMAIN x = {"content"}  OBVIOUS
  <2> HIDE DEF x
  <2>4. {"content"} # {"error"} /\ "next" \notin {"content"} /\ "results" \notin {"content"}
    OBVIOUS
  <2>5. ~ IsError(x) /\ "next" \notin DOMAIN x /\ "results" \notin DOMAIN x
    BY <2>3, <2>4 DEF IsError
  <2> QED  BY <1>1, <2>2, <2>5, Zenon
<1>2. CASE ~ (IsRead(op) /\ op.compact /\ ~ IsError(outcome))
  <2>1. Compacted(op, outcome) = outcome  BY <1>2, Zenon DEF Compacted
  <2> QED  BY <2>1, Zenon
<1> QED  BY <1>1, <1>2

(* The call after an operation.                                            *)
LEMMA RecordedSays ==
  ASSUME CallGood(call), NEW op, NEW outcome, NEW seen
  PROVE  /\ Recorded(op, outcome, seen).ops = call.ops
         /\ Recorded(op, outcome, seen).done =
              IF IsError(outcome) /\ call.fail_fast THEN Len(call.ops) ELSE call.done + 1
         /\ Recorded(op, outcome, seen).results =
              IF IsError(outcome) THEN call.results
              ELSE Append(call.results, [id |-> op.id, at |-> call.done + 1,
                                         view |-> indexed, outcome |-> outcome])
<1>1. PICK c, d : c = call /\ d = Recorded(op, outcome, seen)  OBVIOUS
<1>2. PICK a1, a2, a3, a4, a5, a6, a7 :
        /\ c = [ops |-> a1, fail_fast |-> a2, snapshot |-> a3, seen |-> a4, done |-> a5,
                results |-> a6, errors |-> a7]
        /\ a1 = c.ops
  <2>1. c = [ops |-> c.ops, fail_fast |-> c.fail_fast, snapshot |-> c.snapshot,
             seen |-> c.seen, done |-> c.done, results |-> c.results, errors |-> c.errors]
    <3>1. CallGood(c)  BY <1>1, Zenon
    <3> QED  BY <3>1, Zenon DEF CallGood
  <2> QED  BY <2>1, Zenon
<1>3. PICK entry, bad : /\ entry = [id |-> op.id, at |-> c.done + 1, view |-> indexed,
                                    outcome |-> outcome]
                        /\ bad = IsError(outcome)
  OBVIOUS
<1>4. PICK done2, results2, errors2 :
        /\ done2 = (IF bad /\ c.fail_fast THEN Len(c.ops) ELSE c.done + 1)
        /\ results2 = (IF bad THEN c.results ELSE Append(c.results, entry))
        /\ errors2 = (IF bad THEN Append(c.errors, entry) ELSE c.errors)
  OBVIOUS
<1>5. d = [c EXCEPT !.seen = seen, !.done = done2, !.results = results2, !.errors = errors2]
  BY <1>1, <1>3, <1>4, Zenon DEF Recorded
<1>6. PICK x : x = [ops |-> a1, fail_fast |-> a2, snapshot |-> a3, seen |-> seen,
                    done |-> done2, results |-> results2, errors |-> errors2]
  OBVIOUS
<1>7. d = x
  <2>1. PICK c1 : c1 = [ops |-> a1, fail_fast |-> a2, snapshot |-> a3, seen |-> seen,
                        done |-> a5, results |-> a6, errors |-> a7]
    OBVIOUS
  <2>2. [c EXCEPT !.seen = seen] = c1  BY <1>2, <2>1
  <2>3. PICK c2 : c2 = [ops |-> a1, fail_fast |-> a2, snapshot |-> a3, seen |-> seen,
                        done |-> done2, results |-> a6, errors |-> a7]
    OBVIOUS
  <2>4. [c1 EXCEPT !.done = done2] = c2  BY <2>1, <2>3
  <2>5. PICK c3 : c3 = [ops |-> a1, fail_fast |-> a2, snapshot |-> a3, seen |-> seen,
                        done |-> done2, results |-> results2, errors |-> a7]
    OBVIOUS
  <2>6. [c2 EXCEPT !.results = results2] = c3  BY <2>3, <2>5
  <2>7. [c3 EXCEPT !.errors = errors2] = x  BY <1>6, <2>5
  <2>8. d = [[[[c EXCEPT !.seen = seen] EXCEPT !.done = done2] EXCEPT !.results = results2]
             EXCEPT !.errors = errors2]
    BY <1>5
  <2> QED  BY <2>2, <2>4, <2>6, <2>7, <2>8, Zenon
<1>8. x.ops = a1 /\ x.done = done2 /\ x.results = results2  BY <1>6
<1> QED  BY <1>1, <1>2, <1>3, <1>4, <1>7, <1>8, Zenon

(* The operation that is run is one that the client began with, or follows *)
(* a token.                                                                *)
LEMMA OperationGood ==
  ASSUME ReadsInv, AnswersInv, call # Nil, call.done < Len(call.ops),
         NEW op, op = call.ops[call.done + 1]
  PROVE  /\ call.done \in Nat /\ Len(call.ops) \in Nat
         /\ ClientOperation(op) \/ FollowGood(op, reading)
<1>1. PICK c : c = call  OBVIOUS
<1>2. CallGood(c) /\ OpsGood(c, reading)  BY <1>1 DEF ReadsInv, AnswersInv
<1>3. c.done \in Nat /\ Len(c.ops) \in Nat
  <2>1. IsSeq(c.results) /\ IsSeq(c.errors) /\ Len(c.ops) \in Nat
    BY <1>2, Zenon DEF CallGood
  <2>2. Len(c.results) \in Nat /\ Len(c.errors) \in Nat  BY <2>1, OneMore
  <2>3. Outcomes(c) \in Nat
    <3>1. PICK a \in Nat, b \in Nat : a = Len(c.results) /\ b = Len(c.errors)  BY <2>2
    <3>2. Outcomes(c) = a + b  BY <3>1, Zenon DEF Outcomes
    <3> QED  BY <3>2
  <2>4. c.done = Outcomes(c) \/ c.done = Len(c.ops)  BY <1>2, Zenon DEF CallGood
  <2> QED  BY <2>1, <2>3, <2>4, Zenon
<1>4. PICK k \in 1..Len(c.ops) : k = c.done + 1 /\ op = c.ops[k]
  <2>1. c.done + 1 \in 1..Len(c.ops)  BY <1>1, <1>3
  <2> QED  BY <1>1, <2>1
<1>5. CASE \A j \in 1..Len(c.ops) : ClientOperation(c.ops[j])  BY <1>1, <1>3, <1>4, <1>5
<1>6. CASE Len(c.ops) = 1 /\ (c.done = 0 => FollowGood(c.ops[1], reading))
  <2>1. c.done = 0 /\ k = 1  BY <1>3, <1>4, <1>6
  <2> QED  BY <1>1, <1>3, <1>4, <1>6, <2>1
<1> QED  BY <1>2, <1>5, <1>6 DEF OpsGood

(* An operation is run.                                                    *)
LEMMA OperateReads ==
  ASSUME ReadsInv, AnswersInv, Operate
  PROVE  ReadsInv'
<1>1. /\ call # Nil /\ call.done < Len(call.ops)
      /\ indexed' = indexed /\ changed' = changed /\ answered' = answered
  BY DEF Operate
<1>2. /\ CallGood(call) /\ answered = Nil /\ OpsGood(call, reading) /\ LastFits(call, reading)
      /\ IndexTyped /\ changed \in 0..MaxIndexChanges
      /\ (reading # Nil => ReadGood(reading))
  BY <1>1 DEF ReadsInv, AnswersInv
<1>3. PICK op, outcome, told, rd :
        /\ op = call.ops[call.done + 1]
        /\ outcome = (IF op.id \in call.seen THEN Failed("duplicate_id") ELSE Retrieved(op))
        /\ told = Compacted(op, outcome)
        /\ rd = reading'
        /\ call' = Recorded(op, told, call.seen \union {op.id})
        /\ rd = IF IsRead(op) /\ op.id \notin call.seen
                THEN Assembled(op, outcome) ELSE reading
  BY Zenon DEF Operate
<1>4. PICK c, seen : c = call /\ seen = call.seen \union {op.id}  OBVIOUS
<1>6. PICK entry, results, bad :
        /\ entry = [id |-> op.id, at |-> c.done + 1, view |-> indexed, outcome |-> told]
        /\ results = c.results /\ bad = IsError(told)
  OBVIOUS
<1>19. bad <=> IsError(outcome)  BY <1>3, <1>6, CompactedIs, Zenon
<1>7. PICK done2, results2 :
        /\ done2 = (IF bad /\ c.fail_fast THEN Len(c.ops) ELSE c.done + 1)
        /\ results2 = (IF bad THEN results ELSE Append(results, entry))
  OBVIOUS
<1>8. PICK d : d = call'  OBVIOUS
<1>9. d.ops = c.ops /\ d.done = done2 /\ d.results = results2
  <2>1. PICK x : x = Recorded(op, told, seen)  OBVIOUS
  <2>2. /\ x.ops = call.ops
        /\ x.done = IF IsError(told) /\ call.fail_fast THEN Len(call.ops) ELSE call.done + 1
        /\ x.results = IF IsError(told) THEN call.results
                       ELSE Append(call.results, [id |-> op.id, at |-> call.done + 1,
                                                  view |-> indexed, outcome |-> told])
    BY <1>2, <2>1, RecordedSays, Zenon
  <2>3. d = x  BY <1>3, <1>4, <1>8, <2>1, Zenon
  <2> QED  BY <1>4, <1>6, <1>7, <2>2, <2>3, Zenon
<1>10. c.done \in Nat /\ Len(c.ops) \in Nat /\ c.done < Len(c.ops)
  BY <1>1, <1>3, <1>4, OperationGood
<1>11. ClientOperation(op) \/ FollowGood(op, reading)  BY <1>1, <1>3, OperationGood
<1>12. OpsGood(d, rd)
  <2>1. CASE \A j \in 1..Len(c.ops) : ClientOperation(c.ops[j])
    BY <1>9, <2>1, Zenon DEF OpsGood
  <2>2. CASE Len(c.ops) = 1
    <3>1. done2 # 0  BY <1>7, <1>10, <2>2
    <3> QED  BY <1>9, <2>2, <3>1, Zenon DEF OpsGood
  <2> QED  BY <1>2, <1>4, <2>1, <2>2, Zenon DEF OpsGood
<1>13. rd = reading \/ rd = Nil \/ (ReadGood(rd) /\ ~ bad)
  <2>1. CASE ~ (IsRead(op) /\ op.id \notin call.seen)  BY <1>3, <2>1, Zenon
  <2>2. CASE IsRead(op) /\ op.id \notin call.seen
    <3>1. outcome = Retrieved(op) /\ rd = Assembled(op, outcome)  BY <1>3, <2>2, Zenon
    <3>2. ReadOutcome(op, outcome)  BY <1>1, <1>11, <2>2, <3>1, OperateOutcome, Zenon
    <3>3. CASE IsError(outcome)
      <4>1. rd = Nil  BY <3>1, <3>3, Zenon DEF Assembled
      <4> QED  BY <4>1
    <3>4. CASE ~ IsError(outcome)  BY <1>19, <3>1, <3>2, <3>4, Zenon DEF ReadOutcome
    <3> QED  BY <3>3, <3>4
  <2> QED  BY <2>1, <2>2
<1>14. LastFits(d, rd)
  <2>1. CASE bad
    <3>1. results2 = results  BY <1>7, <2>1, Zenon
    <3>2. LastFits(d, reading)  BY <1>2, <1>4, <1>6, <1>9, <3>1, Zenon DEF LastFits
    <3>3. rd = reading \/ rd = Nil  BY <1>13, <2>1
    <3> QED  BY <3>2, <3>3, FitsNothing, Zenon
  <2>2. CASE ~ bad
    <3>1. results2 = Append(results, entry)  BY <1>7, <2>2, Zenon
    <3>2. Last(results2) = entry
      <4>1. IsSeq(results)  BY <1>2, <1>4, <1>6, Zenon DEF CallGood
      <4>2. /\ Len(results2) = Len(results) + 1 /\ results2[Len(results) + 1] = entry
        BY <3>1, <4>1, OneMore
      <4> QED  BY <4>2, Zenon DEF Last
    <3>3. entry.outcome = told  BY <1>6, Zenon
    <3>4. outcome = Retrieved(op) /\ ~ IsError(outcome) /\ op.id \notin call.seen
      <4>1. ~ IsError(outcome)  BY <1>19, <2>2
      <4> QED  BY <1>3, <4>1, FailedIs, Zenon
    <3>5. OutcomeFits(outcome, rd)
      <4>1. CASE ~ IsRead(op)
        <5>1. ShowsAll(outcome)  BY <1>1, <1>11, <3>4, <4>1, OperateOutcome, Zenon
        <5> QED  BY <5>1, Zenon DEF ShowsAll, OutcomeFits
      <4>2. CASE IsRead(op)
        <5>1. ReadOutcome(op, outcome)  BY <1>1, <1>11, <3>4, <4>2, OperateOutcome, Zenon
        <5>2. rd = Assembled(op, outcome)  BY <1>3, <3>4, <4>2, Zenon
        <5> QED  BY <3>4, <5>1, <5>2, Zenon DEF ReadOutcome, OutcomeFits
      <4> QED  BY <4>1, <4>2
    <3>6. OutcomeFits(told, rd)  BY <1>3, <3>5, CompactedIs, Zenon DEF OutcomeFits
    <3> QED  BY <1>9, <3>2, <3>3, <3>6, Zenon DEF LastFits
  <2> QED  BY <2>1, <2>2
<1>15. rd # Nil => ReadGood(rd)  BY <1>2, <1>13, Zenon
<1>16. IndexTyped'  BY <1>1, <1>2 DEF IndexTyped
<1>17. changed' \in 0..MaxIndexChanges  BY <1>1, <1>2
<1>18. /\ answered' = Nil
       /\ OpsGood(call', reading') /\ LastFits(call', reading')
       /\ (reading' # Nil => ReadGood(reading'))
  BY <1>1, <1>2, <1>3, <1>8, <1>12, <1>14, <1>15, Zenon
<1> QED  BY <1>16, <1>17, <1>18, Zenon DEF ReadsInv

(* Every step keeps it.                                                    *)
LEMMA ReadsKept == ReadsInv /\ AnswersInv /\ [RetrievalNext]_retrievalVars => ReadsInv'
<1> SUFFICES ASSUME ReadsInv, AnswersInv, [RetrievalNext]_retrievalVars PROVE ReadsInv'
  OBVIOUS
<1>1. CASE UNCHANGED retrievalVars
  <2>1. /\ indexed' = indexed /\ changed' = changed /\ call' = call
        /\ answered' = answered /\ reading' = reading
    BY <1>1, Zenon DEF retrievalVars
  <2> QED  BY <2>1 DEF ReadsInv, IndexTyped
<1>2. CASE \E p \in IndexPaths, t \in FileTexts \union {Nil} : ChangeIndex(p, t)
  <2>1. PICK p \in IndexPaths, t \in FileTexts \union {Nil} : ChangeIndex(p, t)  BY <1>2
  <2>2. /\ indexed' = [indexed EXCEPT ![p] = t] /\ changed' = changed + 1
        /\ changed < MaxIndexChanges
        /\ call' = call /\ answered' = answered /\ reading' = reading
    BY <2>1 DEF ChangeIndex
  <2>3. IndexTyped'  BY <2>2 DEF ReadsInv, IndexTyped
  <2>4. changed' \in 0..MaxIndexChanges  BY <2>2, RetrievalAssumption DEF ReadsInv
  <2>5. /\ call = Nil \/ answered = Nil
        /\ call # Nil => OpsGood(call, reading) /\ LastFits(call, reading)
        /\ answered # Nil => LastFits(answered, reading)
        /\ reading # Nil => ReadGood(reading)
    BY DEF ReadsInv
  <2> QED  BY <2>2, <2>3, <2>4, <2>5 DEF ReadsInv
<1>3. CASE \E c \in Calls \union Follows, pin \in Pins : StartCall(c, pin)
  BY <1>3, StartReads
<1>4. CASE \E pin \in Pins : RefuseCall(pin)
  <2>1. /\ call = Nil /\ answered' = Nil /\ reading' = Nil
        /\ indexed' = indexed /\ changed' = changed /\ call' = call
    BY <1>4 DEF RefuseCall
  <2> QED  BY <2>1 DEF ReadsInv, IndexTyped
<1>5. CASE Operate  BY <1>5, OperateReads
<1>6. CASE AnswerCall
  <2>1. /\ call # Nil /\ answered' = call /\ call' = Nil
        /\ indexed' = indexed /\ changed' = changed /\ reading' = reading
    BY <1>6 DEF AnswerCall
  <2> QED  BY <2>1 DEF ReadsInv, IndexTyped
<1> QED  BY <1>1, <1>2, <1>3, <1>4, <1>5, <1>6, Zenon DEF RetrievalNext

(* The text that a handle names.                                           *)
LEMMA HandleText ==
  ASSUME NEW h, IsHandle(h)
  PROVE  h.hash \in Seq(Tokens) /\ SliceLines(h.hash, h.from, h.to) \in Seq(Tokens)
<1>1. PICK text, from, to : /\ text \in FileTexts /\ text = h.hash /\ from = h.from /\ to = h.to
                                          /\ from \in 1..to /\ to \in 1..LineCount(text)
  BY Zenon DEF IsHandle
<1>2. text \in Seq(Tokens)  BY <1>1, RetrievalAssumption DEF Tokens
<1>3. PICK n \in Nat : n = LineCount(text)  BY <1>2, LinesOf
<1>4. from \in Nat \ {0} /\ to \in Nat  BY <1>1, <1>3
<1>5. SliceLines(text, from, to) \in Seq(Tokens)  BY <1>2, <1>4, SliceSeq
<1> QED  BY <1>1, <1>2, <1>5

(* A part that was read is a prefix.                                       *)
LEMMA GotPrefix ==
  ASSUME NEW whole \in Seq(Tokens), NEW got, NEW next, NEW text, GotOf(got, next, text, whole)
  PROVE  IsPrefix(got, whole) /\ (next = Nil => got = whole)
<1>1. PICK n \in Nat : n = Len(whole)  OBVIOUS
<1>2. CASE next = Nil
  <2>1. got = whole  BY <1>2, Zenon DEF GotOf
  <2>2. IsPrefix(whole, whole)  BY <1>1 DEF IsPrefix
  <2> QED  BY <2>1, <2>2
<1>3. CASE next # Nil
  <2>1. PICK end \in 0..n : got = SubSeq(whole, 1, end)  BY <1>1, <1>3, Zenon DEF GotOf
  <2>2. PICK one : one = 1  OBVIOUS
  <2>3. one \in 1..Len(whole) + 1 /\ end \in one - 1..Len(whole)  BY <1>1, <2>2
  <2>4. got \in Seq(Tokens) /\ Len(got) = end
    <3>1. /\ SubSeq(whole, one, end) \in Seq(Tokens)
          /\ Len(SubSeq(whole, one, end)) = end - one + 1
      BY <2>3, PartOf
    <3> QED  BY <2>1, <2>2, <3>1
  <2>5. SubSeq(got, 1, Len(got)) = got  BY <2>4, SubSeqFull
  <2>6. Len(got) <= Len(whole)  BY <1>1, <2>4
  <2>7. SubSeq(got, 1, Len(got)) = SubSeq(whole, 1, Len(got))
    BY <2>1, <2>4, <2>5, Zenon
  <2>8. IsPrefix(got, whole)  BY <2>6, <2>7, Zenon DEF IsPrefix
  <2> QED  BY <1>3, <2>8
<1> QED  BY <1>2, <1>3

(* It says what the property says.                                         *)
LEMMA ReadsSay == ReadsInv /\ AnswersInv => ReadsFaithful
<1> SUFFICES ASSUME ReadsInv, AnswersInv PROVE ReadsFaithful  OBVIOUS
<1>1. ASSUME reading # Nil
      PROVE  /\ IsHandle(reading.handle)
             /\ IsPrefix(reading.got, WholeOf(reading))
             /\ reading.next = Nil => reading.got = WholeOf(reading)
             /\ reading.preview # Nil => reading.preview = WholeOf(reading)
  <2>1. ReadGood(reading)  BY <1>1 DEF ReadsInv
  <2>2. /\ IsHandle(reading.handle)
        /\ reading.preview # Nil => reading.preview = WholeOf(reading)
        /\ GotOf(reading.got, reading.next, reading.handle.hash, WholeOf(reading))
    BY <2>1, Zenon DEF ReadGood
  <2>3. WholeOf(reading) \in Seq(Tokens)  BY <2>2, HandleText, Zenon DEF WholeOf
  <2> QED  BY <2>2, <2>3, GotPrefix
<1>2. PagesFaithful  BY <1>1, Zenon DEF PagesFaithful, WholeOf
<1>3. HandleShowsPreview  BY <1>1, Zenon DEF HandleShowsPreview
<1>4. ASSUME call # Nil
      PROVE  call.done \in 0..Len(call.ops) /\ Len(call.results) + Len(call.errors) <= call.done
  <2>1. PICK c : c = call  OBVIOUS
  <2>2. CallGood(c)  BY <1>4, <2>1 DEF AnswersInv
  <2>3. IsSeq(c.results) /\ IsSeq(c.errors)  BY <2>2 DEF CallGood
  <2>4. PICK a \in Nat, b \in Nat : a = Len(c.results) /\ b = Len(c.errors)  BY <2>3, OneMore
  <2>5. Outcomes(c) = a + b  BY <2>4, Zenon DEF Outcomes
  <2>6. PICK n \in Nat : n = Len(c.ops)  BY <2>2 DEF CallGood
  <2>7. a + b <= n /\ (c.done = a + b \/ c.done = n)  BY <2>2, <2>5, <2>6 DEF CallGood
  <2>8. c.done \in 0..n /\ a + b <= c.done  BY <2>7
  <2> QED  BY <2>1, <2>4, <2>6, <2>8
<1>5. RetrievalTypeOK  BY <1>1, <1>4 DEF RetrievalTypeOK, ReadsInv, IndexTyped
<1> QED  BY <1>2, <1>3, <1>5 DEF ReadsFaithful

(* Theorem: what a client reads through handles and continuations is what  *)
(* they were given out for, whatever the writer publishes in between       *)
(* (fetch.rs): the pages together are a prefix of one version of the text, *)
(* all of it in the end, and a handle reads back what was shown beside it. *)
THEOREM ReadsAreFaithful == RetrievalSpec => []ReadsFaithful
<1>1. RetrievalInit => ReadsInv /\ AnswersInv
  <2>1. 0 \in 0..MaxIndexChanges  BY RetrievalAssumption
  <2> QED  BY <2>1 DEF RetrievalInit, ReadsInv, IndexTyped, AnswersInv
<1> QED  BY <1>1, ReadsKept, AnswersKept, ReadsSay, PTL DEF RetrievalSpec

-----------------------------------------------------------------------------
(* Fair searches. *)

(* Where the results of groups that take turns come from: the group and    *)
(* the turn, one turn after the other and each result once.                *)
TurnOrder(all, groups, src, turn) ==
  /\ src \in [1..Len(all) -> 1..Len(groups)]
  /\ turn \in [1..Len(all) -> Nat \ {0}]
  /\ \A i \in 1..Len(all) :
       turn[i] <= Len(groups[src[i]]) /\ all[i] = groups[src[i]][turn[i]]
  /\ \A i, j \in 1..Len(all) : i < j =>
       turn[i] < turn[j] \/ (turn[i] = turn[j] /\ src[i] < src[j])
  /\ \A k \in 1..Len(groups) : \A r \in 1..Len(groups[k]) :
       \E i \in 1..Len(all) : src[i] = k /\ turn[i] = r

(* One turn: from which groups, in their order.                            *)
OfTurn(flat, groups, r, from) ==
  /\ from \in [1..Len(flat) -> 1..Len(groups)]
  /\ \A i \in 1..Len(flat) : r <= Len(groups[from[i]]) /\ flat[i] = groups[from[i]][r]
  /\ \A i, j \in 1..Len(flat) : i < j => from[i] < from[j]
  /\ \A k \in 1..Len(groups) : r <= Len(groups[k]) =>
       \E i \in 1..Len(flat) : from[i] = k

LEMMA TurnFrom ==
  ASSUME NEW S, NEW groups \in Seq(Seq(S)), NEW r \in Nat \ {0},
         NEW one \in Seq(Seq(S)), TurnOf(one, groups, r)
  PROVE  \E from : OfTurn(FlattenSeq(one), groups, r, from)
<1>1. PICK n \in Nat : n = Len(one) /\ n = Len(groups)  BY DEF TurnOf
<1>2. PICK flat \in Seq(S) : flat = FlattenSeq(one)
  <2>1. FlattenSeq(one) \in Seq(S)  BY FlattenOf
  <2> QED  BY <2>1
<1>3. PICK m \in Nat : m = Len(flat)  BY <1>2
<1>4. PICK a, b : Origins(flat, one, n, a, b)
  <2>1. \E a, b : Origins(FlattenSeq(one), one, Len(one), a, b)  BY FlattenOrigins
  <2> QED  BY <1>1, <1>2, <2>1
<1>5. /\ a \in [1..m -> 1..n] /\ b \in [1..m -> Nat \ {0}]
      /\ \A i \in 1..m : b[i] <= Len(one[a[i]]) /\ flat[i] = one[a[i]][b[i]]
      /\ \A i, j \in 1..m : i < j => a[i] < a[j] \/ (a[i] = a[j] /\ b[i] < b[j])
      /\ \A k \in 1..n : \A p \in 1..Len(one[k]) : \E i \in 1..m : a[i] = k /\ b[i] = p
  BY <1>3, <1>4 DEF Origins, Traced
<1>6. ASSUME NEW k \in 1..n
      PROVE  /\ r <= Len(groups[k]) => Len(one[k]) = 1 /\ one[k][1] = groups[k][r]
             /\ ~ (r <= Len(groups[k])) => Len(one[k]) = 0
  <2>1. one[k] = IF r <= Len(groups[k]) THEN <<groups[k][r]>> ELSE <<>>
    BY <1>1, Zenon DEF TurnOf
  <2>2. CASE r <= Len(groups[k])
    <3>1. PICK x : x = groups[k][r]  OBVIOUS
    <3>2. one[k] = <<x>>  BY <2>1, <2>2, <3>1
    <3> QED  BY <2>2, <3>1, <3>2
  <2>3. CASE ~ (r <= Len(groups[k]))
    <3>1. one[k] = <<>>  BY <2>1, <2>3
    <3> QED  BY <2>3, <3>1
  <2> QED  BY <2>2, <2>3
<1>7. ASSUME NEW i \in 1..m
      PROVE  b[i] = 1 /\ r <= Len(groups[a[i]]) /\ flat[i] = groups[a[i]][r]
  <2>1. PICK k \in 1..n, p \in Nat \ {0} : k = a[i] /\ p = b[i]  BY <1>5
  <2>2. p <= Len(one[k])  BY <1>5, <2>1
  <2>3. r <= Len(groups[k]) /\ Len(one[k]) = 1  BY <1>6, <2>2
  <2>4. p = 1  BY <2>2, <2>3
  <2>5. flat[i] = one[k][1]
    <3>1. flat[i] = one[a[i]][b[i]]  BY <1>5
    <3> QED  BY <2>1, <2>4, <3>1, Zenon
  <2> QED  BY <1>6, <2>1, <2>3, <2>4, <2>5
<1>8. ASSUME NEW i \in 1..m, NEW j \in 1..m, i < j PROVE a[i] < a[j]
  <2>1. a[i] < a[j] \/ (a[i] = a[j] /\ b[i] < b[j])  BY <1>5, <1>8
  <2>2. b[i] = 1 /\ b[j] = 1  BY <1>7
  <2>3. ~ (b[i] < b[j])  BY <2>2
  <2> QED  BY <2>1, <2>3
<1>9. ASSUME NEW k \in 1..n, r <= Len(groups[k]) PROVE \E i \in 1..m : a[i] = k
  <2>1. 1 \in 1..Len(one[k])  BY <1>6, <1>9
  <2> QED  BY <1>5, <2>1
<1>10. OfTurn(flat, groups, r, a)
  <2>1. /\ a \in [1..m -> 1..n]
        /\ \A i \in 1..m : r <= Len(groups[a[i]]) /\ flat[i] = groups[a[i]][r]
        /\ \A i, j \in 1..m : i < j => a[i] < a[j]
        /\ \A k \in 1..n : r <= Len(groups[k]) => \E i \in 1..m : a[i] = k
    BY <1>5, <1>7, <1>8, <1>9
  <2> QED  BY <1>1, <1>3, <2>1 DEF OfTurn
<1> QED  BY <1>2, <1>10

(* All the turns.                                                          *)
LEMMA TurnsInOrder ==
  ASSUME NEW S, NEW groups \in Seq(Seq(S)), NEW limit
  PROVE  \E all \in Seq(S) : /\ TakeTurns(groups, limit) = Take(all, limit)
                             /\ \E src, turn : TurnOrder(all, groups, src, turn)
<1> DEFINE n == Len(groups)
<1>1. n \in Nat  OBVIOUS
<1>2. PICK turns \in Seq(Seq(S)) :
        /\ TakeTurns(groups, limit) = Take(FlattenSeq(turns), limit)
        /\ \A k \in 1..n : Len(groups[k]) <= Len(turns)
        /\ \A r \in 1..Len(turns) : \E one \in Seq(Seq(S)) :
             TurnOf(one, groups, r) /\ turns[r] = FlattenSeq(one)
  <2>1. PICK turns \in Seq(Seq(S)) : /\ TakeTurns(groups, limit) = Take(FlattenSeq(turns), limit)
                                     /\ AllTurns(turns, groups, S)
    BY TurnsMade, Zenon
  <2> QED  BY <2>1, Zenon DEF AllTurns
<1> DEFINE rounds == Len(turns)
<1>3. rounds \in Nat  OBVIOUS
<1>4. PICK all \in Seq(S) : all = FlattenSeq(turns)
  <2>1. FlattenSeq(turns) \in Seq(S)  BY FlattenOf
  <2> QED  BY <2>1
<1> DEFINE m == Len(all)
<1>5. m \in Nat  OBVIOUS
<1>6. PICK a, b : Origins(all, turns, rounds, a, b)
  <2>1. \E a, b : Origins(FlattenSeq(turns), turns, Len(turns), a, b)
    BY FlattenOrigins, Zenon
  <2> QED  BY <1>4, <2>1, Zenon
<1>7. /\ a \in [1..m -> 1..rounds] /\ b \in [1..m -> Nat \ {0}]
      /\ \A i \in 1..m : b[i] <= Len(turns[a[i]]) /\ all[i] = turns[a[i]][b[i]]
      /\ \A i, j \in 1..m : i < j => a[i] < a[j] \/ (a[i] = a[j] /\ b[i] < b[j])
      /\ \A r \in 1..rounds : \A p \in 1..Len(turns[r]) : \E i \in 1..m : a[i] = r /\ b[i] = p
  BY <1>6, Zenon DEF Origins, Traced
<1> DEFINE From == [r \in 1..rounds |-> CHOOSE from : OfTurn(turns[r], groups, r, from)]
<1>8. \A r \in 1..rounds : OfTurn(turns[r], groups, r, From[r])
  <2>1. ASSUME NEW r \in 1..rounds PROVE \E from : OfTurn(turns[r], groups, r, from)
    <3>1. PICK one \in Seq(Seq(S)) : TurnOf(one, groups, r) /\ turns[r] = FlattenSeq(one)
      BY <1>2, Zenon
    <3>2. r \in Nat \ {0}  OBVIOUS
    <3>3. \E from : OfTurn(FlattenSeq(one), groups, r, from)  BY <3>1, <3>2, TurnFrom
    <3> QED  BY <3>1, <3>3, Zenon
  <2> QED  BY <2>1, Zenon
<1> HIDE DEF From, n, m, rounds
<1>9. ASSUME NEW r \in 1..rounds
      PROVE  /\ From[r] \in [1..Len(turns[r]) -> 1..n]
             /\ \A i \in 1..Len(turns[r]) :
                  r <= Len(groups[From[r][i]]) /\ turns[r][i] = groups[From[r][i]][r]
             /\ \A i, j \in 1..Len(turns[r]) : i < j => From[r][i] < From[r][j]
             /\ \A k \in 1..n : r <= Len(groups[k]) =>
                  \E i \in 1..Len(turns[r]) : From[r][i] = k
  <2>1. OfTurn(turns[r], groups, r, From[r])  BY <1>8, Zenon
  <2> QED  BY <2>1, Zenon DEF OfTurn, n
<1>10. PICK src : src = [i \in 1..m |-> From[a[i]][b[i]]]  OBVIOUS
<1>11. ASSUME NEW i \in 1..m
       PROVE  /\ src[i] \in 1..n /\ a[i] \in Nat \ {0}
              /\ a[i] <= Len(groups[src[i]]) /\ all[i] = groups[src[i]][a[i]]
  <2>1. PICK r \in 1..rounds, p \in Nat \ {0} : r = a[i] /\ p = b[i]  BY <1>7
  <2>2. PICK l \in Nat : l = Len(turns[r])
    <3>1. turns[r] \in Seq(S)  BY DEF rounds
    <3> QED  BY <3>1
  <2>3. p \in 1..l /\ all[i] = turns[r][p]
    <3>1. b[i] <= Len(turns[a[i]]) /\ all[i] = turns[a[i]][b[i]]  BY <1>7, Zenon
    <3>2. p <= l /\ all[i] = turns[r][p]  BY <2>1, <2>2, <3>1, Zenon
    <3> QED  BY <3>2
  <2>4. src[i] = From[r][p]  BY <1>10, <2>1
  <2>5. From[r][p] \in 1..n  BY <1>9, <2>2, <2>3
  <2>6. r <= Len(groups[From[r][p]]) /\ turns[r][p] = groups[From[r][p]][r]
    BY <1>9, <2>2, <2>3
  <2>7. r \in Nat \ {0}  OBVIOUS
  <2> QED  BY <2>1, <2>3, <2>4, <2>5, <2>6, <2>7, Zenon
<1>12. ASSUME NEW i \in 1..m, NEW j \in 1..m, i < j
       PROVE  a[i] < a[j] \/ (a[i] = a[j] /\ src[i] < src[j])
  <2>1. CASE a[i] < a[j]  BY <2>1
  <2>2. CASE ~ (a[i] < a[j])
    <3>1. a[i] = a[j] /\ b[i] < b[j]  BY <1>7, <1>12, <2>2
    <3>2. PICK r \in 1..rounds : r = a[i]  BY <1>7
    <3>3. PICK p \in Nat \ {0}, q \in Nat \ {0} : p = b[i] /\ q = b[j]  BY <1>7
    <3>4. PICK l \in Nat : l = Len(turns[r])
      <4>1. turns[r] \in Seq(S)  BY DEF rounds
      <4> QED  BY <4>1
    <3>5. p <= l /\ q <= l  BY <1>7, <3>1, <3>2, <3>3, <3>4
    <3>6. p \in 1..l /\ q \in 1..l /\ p < q  BY <3>1, <3>3, <3>5
    <3>7. From[r][p] < From[r][q]  BY <1>9, <3>4, <3>6
    <3>8. src[i] = From[r][p] /\ src[j] = From[r][q]  BY <1>10, <3>1, <3>2, <3>3
    <3> QED  BY <3>1, <3>7, <3>8, Zenon
  <2> QED  BY <2>1, <2>2
<1>13. ASSUME NEW k \in 1..n, NEW r \in 1..Len(groups[k])
       PROVE  \E i \in 1..m : src[i] = k /\ a[i] = r
  <2>1. PICK g \in Nat : g = Len(groups[k])
    <3>1. groups[k] \in Seq(S)  BY DEF n
    <3> QED  BY <3>1
  <2>2. r \in 1..rounds /\ r <= Len(groups[k])
    <3>1. g <= rounds  BY <1>2, <2>1, Zenon DEF rounds
    <3>2. r \in 1..g  BY <2>1
    <3>3. rounds \in Nat  BY <1>3
    <3> QED  BY <2>1, <3>1, <3>2, <3>3
  <2>3. PICK p \in 1..Len(turns[r]) : From[r][p] = k  BY <1>9, <2>2
  <2>4. PICK i \in 1..m : a[i] = r /\ b[i] = p
    <3> HIDE DEF m, n, rounds
    <3>1. \A q \in 1..Len(turns[r]) : \E i \in 1..m : a[i] = r /\ b[i] = q
      BY <1>7, <2>2, Zenon
    <3> QED  BY <2>3, <3>1, Zenon
  <2>5. src[i] = k  BY <1>10, <2>3, <2>4
  <2> QED  BY <2>4, <2>5
<1>14. TurnOrder(all, groups, src, a)
  <2> USE DEF n, m
  <2>1. src \in [1..m -> 1..n] /\ a \in [1..m -> Nat \ {0}]
    <3> HIDE DEF n, m
    <3>1. \A i \in 1..m : From[a[i]][b[i]] \in 1..n  BY <1>10, <1>11
    <3>2. a = [i \in 1..m |-> a[i]]  BY <1>7
    <3> QED  BY <1>10, <1>11, <3>1, <3>2, Zenon
  <2>2. /\ \A i \in 1..m : a[i] <= Len(groups[src[i]]) /\ all[i] = groups[src[i]][a[i]]
        /\ \A i, j \in 1..m : i < j => a[i] < a[j] \/ (a[i] = a[j] /\ src[i] < src[j])
        /\ \A k \in 1..n : \A r \in 1..Len(groups[k]) :
             \E i \in 1..m : src[i] = k /\ a[i] = r
    <3> HIDE DEF n, m
    <3> QED  BY <1>11, <1>12, <1>13, Zenon
  <2> QED  BY <2>1, <2>2, Zenon DEF TurnOrder
<1> QED  BY <1>2, <1>4, <1>14, Zenon

(* The first n of a list.                                                  *)
LEMMA TakeSays ==
  ASSUME NEW S, NEW s \in Seq(S), NEW n \in Nat
  PROVE  /\ Len(Take(s, n)) = IF n < Len(s) THEN n ELSE Len(s)
         /\ \A i \in 1..Len(Take(s, n)) : Take(s, n)[i] = s[i]
<1>1. PICK one, m, l : /\ one = 1 /\ l \in Nat /\ l = Len(s)
                       /\ m = (IF n < l THEN n ELSE l) /\ m \in Nat
  <2>1. PICK l \in Nat : l = Len(s)  OBVIOUS
  <2> QED  BY <2>1
<1>2. one \in 1..Len(s) + 1 /\ m \in one - 1..Len(s) /\ m - one + 1 = m  BY <1>1
<1>3. PICK t : t = SubSeq(s, one, m)  OBVIOUS
<1>4. Len(t) = m - one + 1 /\ \A k \in 1..m - one + 1 : t[k] = s[one + k - 1]
  BY <1>2, <1>3, PartOf
<1>5. Len(t) = m /\ \A k \in 1..m : t[k] = s[k]  BY <1>1, <1>2, <1>4
<1>6. Take(s, n) = t  BY <1>1, <1>3, Zenon DEF Take
<1> QED  BY <1>1, <1>5, <1>6, Zenon

(* How many results there are.                                             *)
LEMMA TotalLen ==
  ASSUME NEW S, NEW groups \in Seq(Seq(S))
  PROVE  Total(groups) = Len(FlattenSeq(groups))
<1>1. PICK n \in Nat : n = Len(groups)  OBVIOUS
<1>2. PICK f \in [0..n -> Seq(S)] :
        /\ f[0] = <<>>
        /\ \A k \in 1..n : f[k] = f[k - 1] \o groups[k]
        /\ FlattenSeq(groups) = f[n]
  BY <1>1, FlattenDef
<1> DEFINE Sat(u) == u = [k \in 0..n |-> IF k = 0 THEN 0 ELSE u[k - 1] + Len(groups[k])]
           u == CHOOSE u : Sat(u)
           g == [k \in 0..n |-> Len(f[k])]
<1>3. \A k \in 1..n : k - 1 \in 0..n /\ Len(f[k]) = Len(f[k - 1]) + Len(groups[k])
  <2>1. ASSUME NEW k \in 1..n
        PROVE  k - 1 \in 0..n /\ Len(f[k]) = Len(f[k - 1]) + Len(groups[k])
    <3>1. k - 1 \in 0..n  OBVIOUS
    <3>2. PICK s \in Seq(S), t \in Seq(S) : s = f[k - 1] /\ t = groups[k]
      <4>1. f[k - 1] \in Seq(S)  BY <3>1
      <4>2. groups[k] \in Seq(S)  BY <1>1
      <4> QED  BY <4>1, <4>2
    <3>3. f[k] = s \o t  BY <1>2, <3>2
    <3>4. Len(s \o t) = Len(s) + Len(t)  OBVIOUS
    <3> QED  BY <3>1, <3>2, <3>3, <3>4
  <2> QED  BY <2>1
<1>4. Sat(g)
  <2>1. \A k \in 0..n : Len(f[k]) = IF k = 0 THEN 0 ELSE g[k - 1] + Len(groups[k])
    <3>1. Len(f[0]) = 0  BY <1>2
    <3>2. \A k \in 0..n : k # 0 => k \in 1..n  OBVIOUS
    <3>3. \A k \in 1..n : g[k - 1] = Len(f[k - 1])  BY <1>3
    <3> QED  BY <1>3, <3>1, <3>2, <3>3
  <2> QED  BY <2>1
<1>5. Sat(u)
  <2> HIDE DEF Sat, g
  <2> QED  BY <1>4
<1>6. Total(groups) = u[n]  BY <1>1, Zenon DEF Total
<1> HIDE DEF u, g
<1> DEFINE T == {k \in 0..n : u[k] = Len(f[k])}
<1>7. 0 \in T
  <2>1. 0 \in 0..n /\ u[0] = 0 /\ Len(f[0]) = 0  BY <1>2, <1>5
  <2> QED  BY <2>1
<1>8. ASSUME NEW k \in 1..n, k - 1 \in T PROVE k \in T
  <2>1. k \in 0..n /\ k # 0  OBVIOUS
  <2>2. u[k] = u[k - 1] + Len(groups[k])  BY <1>5, <2>1, Zenon
  <2> QED  BY <1>3, <1>8, <2>1, <2>2
<1>9. n \in T
  <2> HIDE DEF T
  <2>1. n \in 0..n  OBVIOUS
  <2> QED  BY <1>7, <1>8, <2>1, UpwardInduction
<1> QED  BY <1>2, <1>6, <1>9

(* Which members are kept when the empty ones are left out.                *)
KeptFrom(kept, groups, f) ==
  /\ f \in [1..Len(kept) -> 1..Len(groups)]
  /\ \A j, k \in 1..Len(kept) : j < k => f[j] < f[k]
  /\ \A k \in 1..Len(kept) : kept[k] = groups[f[k]]
  /\ \A k \in 1..Len(groups) : groups[k] # <<>> => \E j \in 1..Len(kept) : f[j] = k

LEMMA NonEmptyFrom ==
  ASSUME NEW S, NEW groups \in Seq(S)
  PROVE  \E f : KeptFrom(NonEmpty(groups), groups, f)
<1>1. PICK places : places = {k \in DOMAIN groups : groups[k] # <<>>}  OBVIOUS
<1>2. places \in SUBSET (1..Len(groups))  BY <1>1
<1>3. PICK p : p = Picked(groups, places)  OBVIOUS
<1>4. PICK f : /\ Ascends(f, places) /\ p \in Seq(S) /\ Len(p) = Cardinality(places)
               /\ \A k \in 1..Cardinality(places) : p[k] = groups[f[k]]
  BY <1>2, <1>3, PickedFrom
<1>5. /\ f \in [1..Len(p) -> places]
      /\ \A x \in places : \E k \in 1..Len(p) : f[k] = x
      /\ \A j, k \in 1..Len(p) : j < k => f[j] < f[k]
      /\ \A k \in 1..Len(p) : p[k] = groups[f[k]]
  BY <1>4, Zenon DEF Ascends
<1>6. f \in [1..Len(p) -> 1..Len(groups)]  BY <1>2, <1>5
<1>7. \A k \in 1..Len(groups) : groups[k] # <<>> => k \in places  BY <1>1
<1>8. KeptFrom(p, groups, f)  BY <1>5, <1>6, <1>7, Zenon DEF KeptFrom
<1> QED  BY <1>1, <1>3, <1>8, Zenon DEF NonEmpty

(* A result of a file has come by then.                                    *)
Came(src, turn, k, r, i) == \E j \in 1..i : src[j] = k /\ turn[j] = r

(* Where the results of a search come from: the file and the turn.  Each   *)
(* comes once, after those of earlier turns.                               *)
ResultOrder(results, finds, each, src, turn) ==
  /\ src \in [1..Len(results) -> 1..Len(finds)]
  /\ turn \in [1..Len(results) -> Nat \ {0}]
  /\ \A i \in 1..Len(results) : /\ turn[i] <= Len(finds[src[i]]) /\ turn[i] <= each
                                /\ results[i] = finds[src[i]][turn[i]]
  /\ \A i, j \in 1..Len(results) : i < j =>
       turn[i] < turn[j] \/ (turn[i] = turn[j] /\ src[i] # src[j])
  /\ \A i \in 1..Len(results) : \A k \in 1..Len(finds) : \A r \in 1..Len(finds[k]) :
       r < turn[i] /\ r <= each => Came(src, turn, k, r, i - 1)

LEMMA ResultsInOrder ==
  ASSUME NEW S, NEW finds \in Seq(Seq(S)), NEW each \in Nat, NEW limit \in Nat, NEW results,
         results = TakeTurns(NonEmpty([k \in DOMAIN finds |-> Take(finds[k], each)]), limit)
  PROVE  /\ Len(results) <= limit
         /\ \E src, turn : ResultOrder(results, finds, each, src, turn)
<1>1. PICK n \in Nat : n = Len(finds)  OBVIOUS
<1>2. PICK cut : cut = [k \in DOMAIN finds |-> Take(finds[k], each)]  OBVIOUS
<1>3. cut \in Seq(Seq(S)) /\ DOMAIN cut = 1..n
  <2>1. cut \in Seq(Seq(S))  BY <1>2, TakenOf
  <2>2. DOMAIN finds = 1..n  BY <1>1
  <2> QED  BY <1>2, <2>1, <2>2, Zenon
<1>4. ASSUME NEW k \in 1..n
      PROVE  /\ Len(cut[k]) = IF each < Len(finds[k]) THEN each ELSE Len(finds[k])
             /\ \A r \in 1..Len(cut[k]) : cut[k][r] = finds[k][r]
  <2>1. cut[k] = Take(finds[k], each) /\ finds[k] \in Seq(S)
    <3>1. DOMAIN finds = 1..n /\ finds[k] \in Seq(S)  BY <1>1
    <3> QED  BY <1>2, <3>1, Zenon
  <2>2. PICK s \in Seq(S) : s = finds[k]  BY <2>1
  <2>3. /\ Len(Take(s, each)) = IF each < Len(s) THEN each ELSE Len(s)
        /\ \A i \in 1..Len(Take(s, each)) : Take(s, each)[i] = s[i]
    BY TakeSays
  <2> QED  BY <2>1, <2>2, <2>3, Zenon
<1>5. PICK groups \in Seq(Seq(S)) : groups = NonEmpty(cut)  BY <1>3, KeptGroups
<1>6. PICK g \in Nat : g = Len(groups)  OBVIOUS
<1>7. PICK f : /\ f \in [1..g -> 1..n]
               /\ \A j, k \in 1..g : j < k => f[j] < f[k]
               /\ \A k \in 1..g : groups[k] = cut[f[k]]
               /\ \A k \in 1..n : cut[k] # <<>> => \E j \in 1..g : f[j] = k
  <2>1. PICK Q : Q = Seq(S)  OBVIOUS
  <2>2. cut \in Seq(Q) /\ Len(cut) = n  BY <1>3, <2>1
  <2>3. \E f : KeptFrom(NonEmpty(cut), cut, f)  BY <2>2, NonEmptyFrom, Zenon
  <2>4. PICK f : KeptFrom(groups, cut, f)  BY <1>5, <2>3, Zenon
  <2>5. /\ f \in [1..Len(groups) -> 1..Len(cut)]
        /\ \A j, k \in 1..Len(groups) : j < k => f[j] < f[k]
        /\ \A k \in 1..Len(groups) : groups[k] = cut[f[k]]
        /\ \A k \in 1..Len(cut) : cut[k] # <<>> => \E j \in 1..Len(groups) : f[j] = k
    BY <2>4, Zenon DEF KeptFrom
  <2>6. Len(groups) = g /\ Len(cut) = n  BY <1>6, <2>2
  <2> HIDE <1>1, <1>2, <1>3, <1>5, <1>6
  <2>7. /\ f \in [1..g -> 1..n]
        /\ \A j, k \in 1..g : j < k => f[j] < f[k]
        /\ \A k \in 1..g : groups[k] = cut[f[k]]
        /\ \A k \in 1..n : cut[k] # <<>> => \E j \in 1..g : f[j] = k
    BY <2>5, <2>6, SMT
  <2> QED  BY <2>7, Zenon
<1>8. PICK all \in Seq(S) : /\ results = Take(all, limit)
                            /\ \E src, turn : TurnOrder(all, groups, src, turn)
  BY <1>2, <1>5, TurnsInOrder
<1>9. PICK src0, turn0 : TurnOrder(all, groups, src0, turn0)  BY <1>8
<1>10. PICK l \in Nat, m \in Nat : l = Len(all) /\ m = Len(results)
         /\ m <= limit /\ m <= l /\ \A i \in 1..m : results[i] = all[i]
  <2>1. PICK l \in Nat : l = Len(all)  BY <1>8
  <2>2. /\ Len(Take(all, limit)) = IF limit < Len(all) THEN limit ELSE Len(all)
        /\ \A i \in 1..Len(Take(all, limit)) : Take(all, limit)[i] = all[i]
    BY TakeSays
  <2>3. PICK m : m = Len(results)  OBVIOUS
  <2>4. results = Take(all, limit)  BY <1>8
  <2>5. m = (IF limit < l THEN limit ELSE l) /\ \A i \in 1..m : results[i] = all[i]
    BY <2>1, <2>2, <2>3, <2>4, Zenon
  <2>6. m \in Nat /\ m <= limit /\ m <= l  BY <2>5
  <2> QED  BY <2>1, <2>3, <2>5, <2>6, Zenon
<1>11. /\ src0 \in [1..l -> 1..g] /\ turn0 \in [1..l -> Nat \ {0}]
       /\ \A i \in 1..l :
            turn0[i] <= Len(groups[src0[i]]) /\ all[i] = groups[src0[i]][turn0[i]]
       /\ \A i, j \in 1..l : i < j =>
            turn0[i] < turn0[j] \/ (turn0[i] = turn0[j] /\ src0[i] < src0[j])
       /\ \A k \in 1..g : \A r \in 1..Len(groups[k]) :
            \E i \in 1..l : src0[i] = k /\ turn0[i] = r
  BY <1>6, <1>9, <1>10 DEF TurnOrder
<1>12. PICK src, turn : /\ src = [i \in 1..m |-> f[src0[i]]]
                        /\ turn = [i \in 1..m |-> turn0[i]]
  OBVIOUS
<1>13. \A i \in 1..m : i \in 1..l  BY <1>10
<1>14. ASSUME NEW i \in 1..m
       PROVE  /\ src[i] \in 1..n /\ turn[i] \in Nat \ {0} /\ turn[i] = turn0[i]
              /\ turn[i] <= Len(finds[src[i]]) /\ turn[i] <= each
              /\ results[i] = finds[src[i]][turn[i]]
  <2>1. PICK k \in 1..g, r \in Nat \ {0} : k = src0[i] /\ r = turn0[i]  BY <1>11, <1>13
  <2>2. PICK h \in 1..n : h = f[k] /\ h = src[i] /\ r = turn[i]  BY <1>7, <1>12, <2>1
  <2>3. groups[k] = cut[h]  BY <1>7, <2>2
  <2>4. PICK a \in Nat : a = Len(finds[h])
    <3>1. finds[h] \in Seq(S)  BY <1>1
    <3> QED  BY <3>1
  <2>5. r <= Len(cut[h]) /\ all[i] = cut[h][r]  BY <1>11, <1>13, <2>1, <2>3
  <2>6. PICK b \in Nat : b = Len(cut[h]) /\ b = IF each < a THEN each ELSE a  BY <1>4, <2>4
  <2>7. r \in 1..b /\ r <= a /\ r <= each  BY <2>5, <2>6
  <2>8. cut[h][r] = finds[h][r]  BY <1>4, <2>6, <2>7
  <2> QED  BY <1>10, <2>1, <2>2, <2>4, <2>5, <2>7, <2>8, Zenon
<1>15. ASSUME NEW i \in 1..m, NEW j \in 1..m, i < j
       PROVE  turn[i] < turn[j] \/ (turn[i] = turn[j] /\ src[i] # src[j])
  <2>1. turn0[i] < turn0[j] \/ (turn0[i] = turn0[j] /\ src0[i] < src0[j])
    BY <1>11, <1>13, <1>15
  <2>2. CASE turn0[i] < turn0[j]  BY <1>14, <2>2
  <2>3. CASE turn0[i] = turn0[j] /\ src0[i] < src0[j]
    <3>1. f[src0[i]] < f[src0[j]] /\ f[src0[i]] \in 1..n /\ f[src0[j]] \in 1..n
      BY <1>7, <1>11, <1>13, <2>3
    <3>2. src[i] = f[src0[i]] /\ src[j] = f[src0[j]]  BY <1>12
    <3>3. src[i] # src[j]  BY <3>1, <3>2
    <3> QED  BY <1>14, <2>3, <3>3
  <2> QED  BY <2>1, <2>2, <2>3
<1>16. ASSUME NEW i \in 1..m, NEW k \in 1..n, NEW r \in 1..Len(finds[k]),
              r < turn[i], r <= each
       PROVE  Came(src, turn, k, r, i - 1)
  <2>1. PICK a \in Nat : a = Len(finds[k])
    <3>1. finds[k] \in Seq(S)  BY <1>1
    <3> QED  BY <3>1
  <2>2. PICK b \in Nat : b = Len(cut[k]) /\ b = IF each < a THEN each ELSE a  BY <1>4, <2>1
  <2>3. r \in 1..b  BY <1>16, <2>1, <2>2
  <2>4. cut[k] # <<>>
    <3>1. Len(<<>>) = 0  OBVIOUS
    <3>2. b # 0  BY <2>3
    <3> QED  BY <2>2, <3>1, <3>2
  <2>5. PICK h \in 1..g : f[h] = k  BY <1>7, <2>4
  <2>6. groups[h] = cut[k]  BY <1>7, <2>5
  <2>7. r \in 1..Len(groups[h])  BY <2>2, <2>3, <2>6
  <2>8. PICK j \in 1..l : src0[j] = h /\ turn0[j] = r  BY <1>11, <2>7
  <2>9. j < i
    <3>1. PICK x \in Nat \ {0} : x = turn0[i] /\ r < x  BY <1>14, <1>16
    <3>2. CASE j = i  BY <2>8, <3>1, <3>2
    <3>3. CASE i < j
      <4>1. turn0[i] < turn0[j] \/ turn0[i] = turn0[j]  BY <1>11, <1>13, <3>3
      <4> QED  BY <2>8, <3>1, <4>1
    <3> QED  BY <3>2, <3>3
  <2>10. j \in 1..m  BY <2>9
  <2>11. src[j] = k /\ turn[j] = r  BY <1>12, <2>5, <2>8, <2>10
  <2>12. j \in 1..i - 1  BY <2>9
  <2> QED  BY <2>11, <2>12 DEF Came
<1>17. ResultOrder(results, finds, each, src, turn)
  <2>1. src \in [1..m -> 1..n] /\ turn \in [1..m -> Nat \ {0}]
    <3>1. \A i \in 1..m : f[src0[i]] \in 1..n /\ turn0[i] \in Nat \ {0}  BY <1>12, <1>14
    <3> QED  BY <1>12, <3>1
  <2>2. /\ \A i \in 1..m : /\ turn[i] <= Len(finds[src[i]]) /\ turn[i] <= each
                           /\ results[i] = finds[src[i]][turn[i]]
        /\ \A i, j \in 1..m : i < j =>
             turn[i] < turn[j] \/ (turn[i] = turn[j] /\ src[i] # src[j])
        /\ \A i \in 1..m : \A k \in 1..n : \A r \in 1..Len(finds[k]) :
             r < turn[i] /\ r <= each => Came(src, turn, k, r, i - 1)
    BY <1>14, <1>15, <1>16
  <2>3. m = Len(results) /\ n = Len(finds)  BY <1>1, <1>10
  <2>4. /\ src \in [1..Len(results) -> 1..Len(finds)]
        /\ turn \in [1..Len(results) -> Nat \ {0}]
        /\ \A i \in 1..Len(results) : /\ turn[i] <= Len(finds[src[i]]) /\ turn[i] <= each
                                      /\ results[i] = finds[src[i]][turn[i]]
        /\ \A i, j \in 1..Len(results) : i < j =>
             turn[i] < turn[j] \/ (turn[i] = turn[j] /\ src[i] # src[j])
    BY <2>1, <2>2, <2>3, Zenon
  <2>5. \A i \in 1..Len(results) : \A k \in 1..Len(finds) : \A r \in 1..Len(finds[k]) :
          r < turn[i] /\ r <= each => Came(src, turn, k, r, i - 1)
    BY <2>2, <2>3, Zenon
  <2> QED  BY <2>4, <2>5, Zenon DEF ResultOrder
<1> QED  BY <1>10, <1>17

(* If there are as many results as were found, none is left out.           *)
LEMMA AllTaken ==
  ASSUME NEW S, NEW finds \in Seq(Seq(S)), NEW results \in Seq(S), NEW each, NEW src, NEW turn,
         ResultOrder(results, finds, each, src, turn), ~ (Total(finds) > Len(results))
  PROVE  \A k \in 1..Len(finds) : \A r \in 1..Len(finds[k]) :
           \E i \in 1..Len(results) : src[i] = k /\ turn[i] = r
<1>1. PICK n \in Nat, m \in Nat : n = Len(finds) /\ m = Len(results)  OBVIOUS
<1>2. /\ src \in [1..m -> 1..n] /\ turn \in [1..m -> Nat \ {0}]
      /\ \A i \in 1..m : turn[i] <= Len(finds[src[i]])
      /\ \A i, j \in 1..m : i < j =>
           turn[i] < turn[j] \/ (turn[i] = turn[j] /\ src[i] # src[j])
  BY <1>1 DEF ResultOrder
<1>3. PICK flat \in Seq(S) : flat = FlattenSeq(finds)
  <2>1. FlattenSeq(finds) \in Seq(S)  BY FlattenOf
  <2> QED  BY <2>1
<1>4. PICK t \in Nat : t = Len(flat) /\ t <= m
  <2>1. Total(finds) = Len(flat)  BY <1>3, TotalLen
  <2> QED  BY <1>1, <2>1
<1>5. PICK a, b : Origins(flat, finds, n, a, b)
  <2>1. \E a, b : Origins(FlattenSeq(finds), finds, Len(finds), a, b)  BY FlattenOrigins
  <2> QED  BY <1>1, <1>3, <2>1
<1>6. \A k \in 1..n : \A r \in 1..Len(finds[k]) : \E i \in 1..t : a[i] = k /\ b[i] = r
  BY <1>4, <1>5 DEF Origins, Traced
<1>7. PICK h \in [1..m -> 1..t] : \A i \in 1..m : a[h[i]] = src[i] /\ b[h[i]] = turn[i]
  <2>1. ASSUME NEW i \in 1..m PROVE \E j \in 1..t : a[j] = src[i] /\ b[j] = turn[i]
    <3>1. PICK k \in 1..n, r \in Nat \ {0} : k = src[i] /\ r = turn[i]  BY <1>2
    <3>2. PICK l \in Nat : l = Len(finds[k])
      <4>1. finds[k] \in Seq(S)  BY <1>1
      <4> QED  BY <4>1
    <3>3. r \in 1..l
      <4>1. turn[i] <= Len(finds[src[i]])  BY <1>2, Zenon
      <4>2. r <= l  BY <3>1, <3>2, <4>1, Zenon
      <4> QED  BY <4>2
    <3>4. r \in 1..Len(finds[k])  BY <3>2, <3>3, Zenon
    <3>5. \E j \in 1..t : a[j] = k /\ b[j] = r  BY <1>6, <3>4, Zenon
    <3> QED  BY <3>1, <3>5, Zenon
  <2>2. PICK h : h = [i \in 1..m |-> CHOOSE j \in 1..t : a[j] = src[i] /\ b[j] = turn[i]]
    OBVIOUS
  <2>3. ASSUME NEW i \in 1..m
        PROVE  h[i] \in 1..t /\ a[h[i]] = src[i] /\ b[h[i]] = turn[i]
    <3>1. h[i] = CHOOSE j \in 1..t : a[j] = src[i] /\ b[j] = turn[i]  BY <2>2, Zenon
    <3> QED  BY <2>1, <3>1, Zenon
  <2>4. h \in [1..m -> 1..t]
    <3>1. DOMAIN h = 1..m /\ h = [i \in 1..m |-> h[i]]  BY <2>2
    <3> QED  BY <2>3, <3>1, Zenon
  <2> QED  BY <2>3, <2>4, Zenon
<1>8. ASSUME NEW i \in 1..m, NEW j \in 1..m, h[i] = h[j] PROVE i = j
  <2>1. src[i] = src[j] /\ turn[i] = turn[j] /\ turn[i] \in Nat  BY <1>2, <1>7, <1>8
  <2>2. ~ (i < j)  BY <1>2, <2>1
  <2>3. ~ (j < i)  BY <1>2, <2>1
  <2> QED  BY <2>2, <2>3
<1>9. \A x \in 1..t : \E i \in 1..m : h[i] = x
  <2>1. NoRepeats(h, m)  BY <1>8, Zenon DEF NoRepeats
  <2>2. HasAll(h, m, 1..t)  BY <1>4, <2>1, FullRange
  <2> QED  BY <2>2, Zenon DEF HasAll
<1>10. ASSUME NEW k \in 1..n, NEW r \in 1..Len(finds[k])
       PROVE  \E i \in 1..m : src[i] = k /\ turn[i] = r
  <2>1. PICK x \in 1..t : a[x] = k /\ b[x] = r  BY <1>6
  <2>2. PICK i \in 1..m : h[i] = x  BY <1>9
  <2> QED  BY <1>7, <2>1, <2>2
<1> QED  BY <1>1, <1>10

(* The first k hits lie in windows, and the windows follow each other as   *)
(* their first hits do.                                                    *)
Covering(hits, k, ws) ==
  /\ k = 0 => ws = <<>>
  /\ k # 0 => Len(ws) # 0 /\ ws[Len(ws)].line <= hits[k].line
  /\ \A j \in 1..Len(ws) : ws[j].from <= ws[j].line
  /\ \A i, j \in 1..Len(ws) : i < j => ws[i].line < ws[j].line
  /\ \A i \in 1..k : \E j \in 1..Len(ws) :
       ws[j].from <= hits[i].line /\ hits[i].line <= ws[j].to

(* A window in its numbers.                                                *)
LEMMA WindowSays ==
  ASSUME NEW text \in Seq(Tokens), NEW w \in WindowsIn(text)
  PROVE  w.line \in Nat /\ w.from \in Nat /\ w.to \in Nat
<1>1. PICK n \in Nat : n = LineCount(text)  BY LinesOf
<1>2. w.line \in Nat /\ w.from \in 1..n /\ w.to \in 1..n  BY <1>1, Zenon DEF WindowsIn
<1> QED  BY <1>2

(* The last window takes in one more hit.                                  *)
LEMMA CoveredByLast ==
  ASSUME NEW text \in Seq(Tokens), NEW ws \in Seq(WindowsIn(text)),
         NEW hits \in Seq(HitsOf(text)), NEW k \in 1..Len(hits),
         \A i, j \in 1..Len(hits) : i < j => hits[i].line < hits[j].line,
         Covering(hits, k - 1, ws), ws # <<>>,
         NEW x, x.line = Last(ws).line, x.from = Last(ws).from,
         x.to \in Nat, Last(ws).to <= x.to, hits[k].line <= x.to,
         NEW next \in Seq(WindowsIn(text)), next = Append(SubSeq(ws, 1, Len(ws) - 1), x)
  PROVE  Covering(hits, k, next)
<1>1. PICK n \in Nat, l \in Nat \ {0}, m \in Nat \ {0} :
        n = Len(hits) /\ l = Len(ws) /\ m = LineCount(text)
  <2>1. Len(hits) \in Nat /\ Len(ws) \in Nat \ {0}  OBVIOUS
  <2>2. LineCount(text) \in Nat \ {0}  BY LinesOf
  <2> QED  BY <2>1, <2>2
<1>2. k \in 1..n /\ k # 0 /\ k - 1 \in 0..n  BY <1>1
<1>3. \A i \in 1..n : hits[i].line \in Nat
  <2>1. ASSUME NEW i \in 1..n PROVE hits[i].line \in Nat
    <3>1. hits[i] \in HitsOf(text)  BY <1>1
    <3>2. hits[i].line \in 1..m  BY <1>1, <3>1, Zenon DEF HitsOf
    <3> QED  BY <3>2
  <2> QED  BY <2>1
<1>4. \A j \in 1..l : ws[j].line \in Nat /\ ws[j].from \in Nat /\ ws[j].to \in Nat
  <2>1. \A j \in 1..l : ws[j] \in WindowsIn(text)  BY <1>1
  <2> QED  BY <2>1, WindowSays
<1>5. Last(ws) = ws[l]  BY <1>1, Zenon DEF Last
<1>6. /\ Len(next) = l
      /\ \A j \in 1..l : j # l => next[j] = ws[j]
      /\ next[l] = x
  <2>1. PICK W : W = WindowsIn(text)  OBVIOUS
  <2>2. PICK one, b : one = 1 /\ b = l - 1  OBVIOUS
  <2>3. one \in 1..Len(ws) + 1 /\ b \in one - 1..Len(ws) /\ b - one + 1 = l - 1
    BY <1>1, <2>2
  <2>4. ws \in Seq(W)  BY <2>1
  <2>5. PICK s \in Seq(W) : /\ s = SubSeq(ws, one, b) /\ Len(s) = b - one + 1
                            /\ \A i \in 1..b - one + 1 : s[i] = ws[one + i - 1]
    <3>1. /\ SubSeq(ws, one, b) \in Seq(W) /\ Len(SubSeq(ws, one, b)) = b - one + 1
          /\ \A i \in 1..b - one + 1 : SubSeq(ws, one, b)[i] = ws[one + i - 1]
      BY <2>3, <2>4, PartOf
    <3> QED  BY <3>1, Zenon
  <2>6. Len(s) = l - 1 /\ \A i \in 1..l - 1 : s[i] = ws[i]  BY <2>2, <2>3, <2>5
  <2>7. next = Append(s, x)  BY <1>1, <2>2, <2>5, Zenon
  <2>8. Len(Append(s, x)) = l /\ Append(s, x)[l] = x
        /\ \A i \in 1..l - 1 : Append(s, x)[i] = s[i]
    BY <2>6
  <2>9. \A j \in 1..l : j # l => j \in 1..l - 1  OBVIOUS
  <2> QED  BY <2>6, <2>7, <2>8, <2>9
<1>7. /\ \A j \in 1..l : ws[j].from <= ws[j].line
      /\ \A i, j \in 1..l : i < j => ws[i].line < ws[j].line
      /\ \A i \in 1..k - 1 : \E j \in 1..l :
           ws[j].from <= hits[i].line /\ hits[i].line <= ws[j].to
      /\ ws[l].line <= hits[k - 1].line /\ k - 1 \in 1..n
  <2>1. k - 1 # 0  BY <1>2 DEF Covering
  <2>2. k - 1 \in 1..n  BY <1>2, <2>1
  <2> QED  BY <1>1, <2>1, <2>2, Zenon DEF Covering
<1>8. \A j \in 1..l : next[j].line = ws[j].line /\ next[j].from = ws[j].from
  <2>1. next[l].line = ws[l].line /\ next[l].from = ws[l].from  BY <1>5, <1>6, Zenon
  <2>2. ASSUME NEW j \in 1..l, j # l
        PROVE  next[j].line = ws[j].line /\ next[j].from = ws[j].from
    BY <1>6, <2>2
  <2> QED  BY <2>1, <2>2
<1>9. \A j \in 1..l : ws[j].to <= next[j].to
  <2>1. ws[l].to <= next[l].to  BY <1>5, <1>6, Zenon
  <2>2. ASSUME NEW j \in 1..l, j # l PROVE ws[j].to <= next[j].to
    <3>1. next[j] = ws[j] /\ ws[j].to \in Nat  BY <1>4, <1>6, <2>2, Zenon
    <3>2. PICK a \in Nat : a = ws[j].to  BY <3>1
    <3>3. a <= a  OBVIOUS
    <3> QED  BY <3>1, <3>2, <3>3, Zenon
  <2> QED  BY <2>1, <2>2
<1>10. hits[k - 1].line < hits[k].line
  <2>1. k - 1 < k  OBVIOUS
  <2> QED  BY <1>1, <1>2, <1>7, <2>1, Zenon
<1>11. next[l].line <= hits[k].line /\ next[l].from <= hits[k].line /\ hits[k].line <= next[l].to
  <2>1. PICK a \in Nat, b \in Nat, c \in Nat, d \in Nat :
          a = ws[l].line /\ b = ws[l].from /\ c = hits[k - 1].line /\ d = hits[k].line
    <3>1. l \in 1..l  OBVIOUS
    <3> QED  BY <1>2, <1>3, <1>4, <1>7, <3>1, Zenon
  <2>2. a <= c /\ c < d /\ b <= a
    <3>1. l \in 1..l  OBVIOUS
    <3> QED  BY <1>7, <1>10, <2>1, <3>1, Zenon
  <2>3. a <= d /\ b <= d  BY <2>2
  <2>4. next[l].line = a /\ next[l].from = b
    <3>1. l \in 1..l  OBVIOUS
    <3> QED  BY <1>8, <2>1, <3>1, Zenon
  <2>5. hits[k].line <= next[l].to  BY <1>6, Zenon
  <2> QED  BY <2>1, <2>3, <2>4, <2>5, Zenon
<1>12. \A j \in 1..l : next[j].to \in Nat
  <2>1. ASSUME NEW j \in 1..l PROVE next[j].to \in Nat
    <3>1. next[j] \in WindowsIn(text)  BY <1>6
    <3> QED  BY <3>1, WindowSays
  <2> QED  BY <2>1
<1>13. ASSUME NEW i \in 1..k
       PROVE  \E j \in 1..l : next[j].from <= hits[i].line /\ hits[i].line <= next[j].to
  <2>1. CASE i = k
    <3>1. l \in 1..l  OBVIOUS
    <3> QED  BY <1>11, <2>1, <3>1, Zenon
  <2>2. CASE i # k
    <3>1. i \in 1..k - 1 /\ i \in 1..n  BY <1>2, <2>2
    <3>2. PICK j \in 1..l : ws[j].from <= hits[i].line /\ hits[i].line <= ws[j].to
      BY <1>7, <3>1
    <3>3. PICK a \in Nat, b \in Nat, c \in Nat :
            a = hits[i].line /\ b = ws[j].to /\ c = next[j].to
      BY <1>3, <1>4, <1>12, <3>1
    <3>4. a <= b /\ b <= c  BY <1>9, <3>2, <3>3, Zenon
    <3>5. a <= c  BY <3>4
    <3>6. next[j].from <= a  BY <1>8, <3>2, <3>3, Zenon
    <3> QED  BY <3>3, <3>5, <3>6, Zenon
  <2> QED  BY <2>1, <2>2
<1>14. /\ k = 0 => next = <<>>
       /\ k # 0 => Len(next) # 0 /\ next[Len(next)].line <= hits[k].line
       /\ \A j \in 1..l : next[j].from <= next[j].line
       /\ \A i, j \in 1..l : i < j => next[i].line < next[j].line
  <2>1. \A j \in 1..l : next[j].from <= next[j].line  BY <1>7, <1>8, Zenon
  <2>2. \A i, j \in 1..l : i < j => next[i].line < next[j].line  BY <1>7, <1>8, Zenon
  <2>3. l # 0  OBVIOUS
  <2> QED  BY <1>2, <1>6, <1>11, <2>1, <2>2, <2>3, Zenon
<1> QED  BY <1>6, <1>13, <1>14, Zenon DEF Covering

(* The next window begins with one more hit.                               *)
LEMMA CoveredByNext ==
  ASSUME NEW text \in Seq(Tokens), NEW ws \in Seq(WindowsIn(text)),
         NEW hits \in Seq(HitsOf(text)), NEW k \in 1..Len(hits),
         \A i, j \in 1..Len(hits) : i < j => hits[i].line < hits[j].line,
         Covering(hits, k - 1, ws),
         NEW x, x.line = hits[k].line, x.from <= hits[k].line, hits[k].line <= x.to,
         NEW next, next = Append(ws, x)
  PROVE  Covering(hits, k, next)
<1>1. PICK n \in Nat, l \in Nat, m \in Nat \ {0} :
        n = Len(hits) /\ l = Len(ws) /\ m = LineCount(text)
  <2>1. Len(hits) \in Nat /\ Len(ws) \in Nat  OBVIOUS
  <2>2. LineCount(text) \in Nat \ {0}  BY LinesOf
  <2> QED  BY <2>1, <2>2
<1>2. k \in 1..n /\ k # 0 /\ k - 1 \in 0..n  BY <1>1
<1>3. \A i \in 1..n : hits[i].line \in Nat
  <2>1. ASSUME NEW i \in 1..n PROVE hits[i].line \in Nat
    <3>1. hits[i] \in HitsOf(text)  BY <1>1
    <3>2. hits[i].line \in 1..m  BY <1>1, <3>1, Zenon DEF HitsOf
    <3> QED  BY <3>2
  <2> QED  BY <2>1
<1>4. \A j \in 1..l : ws[j].line \in Nat
  <2>1. \A j \in 1..l : ws[j] \in WindowsIn(text)  BY <1>1
  <2> QED  BY <2>1, WindowSays
<1>5. /\ Len(next) = l + 1
      /\ \A j \in 1..l : next[j] = ws[j]
      /\ next[l + 1] = x
  BY <1>1
<1>6. /\ \A j \in 1..l : ws[j].from <= ws[j].line
      /\ \A i, j \in 1..l : i < j => ws[i].line < ws[j].line
      /\ \A i \in 1..k - 1 : \E j \in 1..l :
           ws[j].from <= hits[i].line /\ hits[i].line <= ws[j].to
      /\ k - 1 # 0 => ws[l].line <= hits[k - 1].line
      /\ k - 1 = 0 => ws = <<>>
  BY <1>1, Zenon DEF Covering
<1>7. \A j \in 1..l : ws[j].line < hits[k].line
  <2>1. ASSUME NEW j \in 1..l PROVE ws[j].line < hits[k].line
    <3>1. k - 1 # 0
      <4>1. l # 0  OBVIOUS
      <4>2. ws # <<>>  BY <1>1, <4>1
      <4> QED  BY <1>6, <4>2
    <3>2. k - 1 \in 1..n  BY <1>2, <3>1
    <3>3. hits[k - 1].line < hits[k].line
      <4>1. k - 1 < k  OBVIOUS
      <4> QED  BY <1>1, <1>2, <3>2, <4>1, Zenon
    <3>4. PICK a \in Nat, b \in Nat, c \in Nat, d \in Nat :
            a = ws[j].line /\ b = ws[l].line /\ c = hits[k - 1].line /\ d = hits[k].line
      <4>1. l \in 1..l  OBVIOUS
      <4> QED  BY <1>2, <1>3, <1>4, <3>2, <4>1, Zenon
    <3>5. a <= b
      <4>1. CASE j = l  BY <3>4, <4>1
      <4>2. CASE j # l
        <5>1. j < l /\ l \in 1..l  BY <4>2
        <5>2. ws[j].line < ws[l].line  BY <1>6, <5>1, Zenon
        <5>3. a < b  BY <3>4, <5>2, Zenon
        <5> QED  BY <5>3
      <4> QED  BY <4>1, <4>2
    <3>6. b <= c /\ c < d  BY <1>6, <3>1, <3>3, <3>4, Zenon
    <3>7. a < d  BY <3>5, <3>6
    <3> QED  BY <3>4, <3>7, Zenon
  <2> QED  BY <2>1
<1>8. PICK p \in Nat \ {0} : p = l + 1  OBVIOUS
<1>9. \A j \in 1..p : j \in 1..l \/ j = p  BY <1>8
<1>10. p \in 1..p /\ next[p] = x /\ Len(next) = p  BY <1>5, <1>8
<1>11. ASSUME NEW i \in 1..p, NEW j \in 1..p, i < j PROVE next[i].line < next[j].line
  <2>1. i \in 1..l  BY <1>8, <1>11
  <2>2. CASE j \in 1..l  BY <1>5, <1>6, <1>11, <2>1, <2>2
  <2>3. CASE j = p  BY <1>5, <1>7, <1>10, <2>1, <2>3
  <2> QED  BY <1>9, <2>2, <2>3
<1>12. ASSUME NEW j \in 1..p PROVE next[j].from <= next[j].line
  <2>1. CASE j \in 1..l  BY <1>5, <1>6, <2>1
  <2>2. CASE j = p  BY <1>10, <2>2
  <2> QED  BY <1>9, <2>1, <2>2
<1>13. ASSUME NEW i \in 1..k
       PROVE  \E j \in 1..p : next[j].from <= hits[i].line /\ hits[i].line <= next[j].to
  <2>1. CASE i = k  BY <1>10, <2>1
  <2>2. CASE i # k
    <3>1. i \in 1..k - 1  BY <1>2, <2>2
    <3>2. PICK j \in 1..l : ws[j].from <= hits[i].line /\ hits[i].line <= ws[j].to
      BY <1>6, <3>1
    <3>3. j \in 1..p /\ next[j] = ws[j]  BY <1>5, <1>8
    <3> QED  BY <3>2, <3>3
  <2> QED  BY <2>1, <2>2
<1>14. k # 0 => Len(next) # 0 /\ next[Len(next)].line <= hits[k].line
  <2>1. hits[k].line <= hits[k].line  BY <1>2, <1>3
  <2>2. p # 0  OBVIOUS
  <2> QED  BY <1>10, <2>1, <2>2
<1> QED  BY <1>2, <1>10, <1>11, <1>12, <1>13, <1>14, Zenon DEF Covering

(* Each hit is on a later line than those before it.                       *)
Descends(hits) == \A i, j \in 1..Len(hits) : i < j => hits[i].line < hits[j].line

(* All hits lie in windows.                                                *)
LEMMA WindowsCover ==
  ASSUME NEW text \in Seq(Tokens), NEW hits \in Seq(HitsOf(text)), NEW context \in Nat,
         NEW room, Descends(hits)
  PROVE  Covering(hits, Len(hits), Windows(text, hits, context, room))
<1>1. PICK n \in Nat : n = Len(hits)  OBVIOUS
<1>2. PICK m \in Nat \ {0} : m = LineCount(text)  BY LinesOf
<1>3. \A i, j \in 1..Len(hits) : i < j => hits[i].line < hits[j].line
  BY Zenon DEF Descends
<1>4. PICK f \in [0..n -> Seq(WindowsIn(text))] :
        /\ f[0] = <<>>
        /\ \A k \in 1..n : WindowAdded(text, f[k - 1], hits[k], f[k])
        /\ Windows(text, hits, context, room) = f[n]
  <2>1. PICK f : WindowsSoFar(f, text, hits) /\ Windows(text, hits, context, room) = f[Len(hits)]
    <3> HIDE <1>1, <1>2, <1>3
    <3> QED  BY WindowsMade, SMT
  <2> QED  BY <1>1, <2>1, Zenon DEF WindowsSoFar
<1> DEFINE T == {k \in 0..n : Covering(hits, k, f[k])}
<1>5. 0 \in T
  <2>1. Len(<<>>) = 0 /\ 1..0 = {}  OBVIOUS
  <2>2. Covering(hits, 0, <<>>)  BY <2>1, Zenon DEF Covering
  <2>3. 0 \in 0..n  OBVIOUS
  <2> QED  BY <1>4, <2>2, <2>3
<1>6. ASSUME NEW k \in 1..n, k - 1 \in T PROVE k \in T
  <2>1. k - 1 \in 0..n /\ k \in 0..n  OBVIOUS
  <2>2. PICK ws \in Seq(WindowsIn(text)), next \in Seq(WindowsIn(text)) :
          ws = f[k - 1] /\ next = f[k]
    <3>1. f[k - 1] \in Seq(WindowsIn(text)) /\ f[k] \in Seq(WindowsIn(text))
      BY <1>4, <2>1, Zenon
    <3> QED  BY <3>1, Zenon
  <2>3. Covering(hits, k - 1, ws)  BY <1>6, <2>2
  <2>4. WindowAdded(text, ws, hits[k], next)  BY <1>4, <2>2, Zenon
  <2>5. k \in 1..Len(hits)  BY <1>1
  <2>6. PICK line \in 1..m : line = hits[k].line
    <3>1. hits[k] \in HitsOf(text)  BY <2>5
    <3> QED  BY <1>2, <3>1, Zenon DEF HitsOf
  <2>7. PICK lo \in 1..line, hi \in line..m :
          \/ /\ ws # <<>>
             /\ next = Append(SubSeq(ws, 1, Len(ws) - 1),
                              [line |-> Last(ws).line, from |-> Last(ws).from,
                               to |-> IF hi > Last(ws).to THEN hi ELSE Last(ws).to,
                               hits |-> Append(Last(ws).hits, hits[k])])
          \/ next = Append(ws, [line |-> hits[k].line, from |-> lo, to |-> hi,
                                hits |-> <<hits[k]>>])
    BY <1>2, <2>4, <2>6, Zenon DEF WindowAdded
  <2>8. /\ hi \in Nat /\ line \in Nat /\ lo <= line /\ line <= hi
    <3> HIDE <1>1, <1>3, <1>4, <1>5, <1>6, <2>1, <2>2, <2>3, <2>4, <2>5, <2>6, <2>7
    <3>1. line \in Nat  OBVIOUS
    <3> QED  BY <3>1
  <2>9. CASE /\ ws # <<>>
             /\ next = Append(SubSeq(ws, 1, Len(ws) - 1),
                              [line |-> Last(ws).line, from |-> Last(ws).from,
                               to |-> IF hi > Last(ws).to THEN hi ELSE Last(ws).to,
                               hits |-> Append(Last(ws).hits, hits[k])])
    <3>1. PICK last \in WindowsIn(text) : last = Last(ws)
      <4>1. PICK W : W = WindowsIn(text)  OBVIOUS
      <4>2. ws[Len(ws)] \in W  BY <2>9, <4>1
      <4> QED  BY <4>1, <4>2 DEF Last
    <3>2. PICK to \in Nat : to = last.to  BY WindowSays
    <3>3. PICK end : end = IF hi > to THEN hi ELSE to  OBVIOUS
    <3>4. end \in Nat /\ to <= end /\ line <= end
      <4>1. hi \in Nat /\ line <= hi /\ to \in Nat /\ line \in Nat  BY <2>8
      <4>2. CASE hi > to  BY <3>3, <4>1, <4>2
      <4>3. CASE ~ (hi > to)  BY <3>3, <4>1, <4>3
      <4> QED  BY <4>2, <4>3
    <3>5. PICK x : x = [line |-> last.line, from |-> last.from, to |-> end,
                        hits |-> Append(last.hits, hits[k])]
      OBVIOUS
    <3>6. next = Append(SubSeq(ws, 1, Len(ws) - 1), x)
      BY <2>9, <3>1, <3>2, <3>3, <3>5, Zenon
    <3>7. x.line = last.line /\ x.from = last.from /\ x.to = end  BY <3>5
    <3>8. /\ x.line = Last(ws).line /\ x.from = Last(ws).from
          /\ x.to \in Nat /\ Last(ws).to <= x.to /\ hits[k].line <= x.to
      BY <2>6, <3>1, <3>2, <3>4, <3>7, Zenon
    <3>9. Covering(hits, k, next)  BY <1>3, <2>3, <2>5, <2>9, <3>6, <3>8, CoveredByLast
    <3> QED  BY <2>1, <2>2, <3>9
  <2>10. CASE next = Append(ws, [line |-> hits[k].line, from |-> lo, to |-> hi,
                                hits |-> <<hits[k]>>])
    <3>1. PICK x : x = [line |-> hits[k].line, from |-> lo, to |-> hi, hits |-> <<hits[k]>>]
      OBVIOUS
    <3>2. x.line = hits[k].line /\ x.from = lo /\ x.to = hi  BY <3>1
    <3>3. lo <= line /\ line <= hi  BY <2>8
    <3>4. x.from <= hits[k].line /\ hits[k].line <= x.to  BY <2>6, <3>2, <3>3, Zenon
    <3>5. next = Append(ws, x)  BY <2>10, <3>1, Zenon
    <3>6. Covering(hits, k, next)  BY <1>3, <2>3, <2>5, <3>2, <3>4, <3>5, CoveredByNext
    <3> QED  BY <2>1, <2>2, <3>6
  <2> QED  BY <2>7, <2>9, <2>10
<1>7. n \in T
  <2> HIDE DEF T
  <2>1. n \in 0..n  OBVIOUS
  <2> QED  BY <1>5, <1>6, <2>1, UpwardInduction
<1>8. Covering(hits, n, f[n])  BY <1>7
<1> QED  BY <1>1, <1>4, <1>8, Zenon

(* The matching lines are listed once each, in their order.                *)
HitsRise(hits, text, pattern) ==
  /\ \A i, j \in 1..Len(hits) : i < j => hits[i].line < hits[j].line
  /\ \A i \in 1..Len(text) : text[i] \in pattern =>
       \E k \in 1..Len(hits) : hits[k].line = LineOf(text, i)

LEMMA TextHitsRise ==
  ASSUME NEW text \in Seq(Tokens), NEW pattern, NEW hits, hits = TextHits(text, pattern)
  PROVE  HitsRise(hits, text, pattern)
<1>1. PICK n \in Nat : n = LineCount(text)  BY LinesOf
<1>2. PICK S : S = {LineOf(text, i) : i \in {j \in DOMAIN text : text[j] \in pattern}}  OBVIOUS
<1>3. S \in SUBSET (1..n)
  <2>1. DOMAIN text = 1..Len(text)  OBVIOUS
  <2> QED  BY <1>1, <1>2, <2>1, LinesOf
<1>4. IsFiniteSet(S) /\ S \in SUBSET Nat
  <2>1. n \in Int /\ 1 \in Int  OBVIOUS
  <2>2. IsFiniteSet(1..n)  BY <2>1, FS_Interval
  <2>3. IsFiniteSet(S)  BY <1>3, <2>2, FS_Subset
  <2>4. S \in SUBSET Nat  BY <1>3
  <2> QED  BY <2>3, <2>4
<1>5. PICK lines : lines = Ascending(S)  OBVIOUS
<1>6. PICK m \in Nat : /\ lines \in [1..m -> S]
                       /\ \A x \in S : \E k \in 1..m : lines[k] = x
                       /\ \A j, k \in 1..m : j < k => lines[j] < lines[k]
  <2>1. Ascends(lines, S)  BY <1>4, <1>5, AscendingAscends
  <2> QED  BY <2>1, Zenon DEF Ascends
<1>7. hits = [k \in 1..m |-> [line |-> lines[k], at |-> 0, role |-> NoRole]]
  <2>1. DOMAIN lines = 1..m  BY <1>6
  <2> QED  BY <1>2, <1>5, <2>1, Zenon DEF TextHits
<1>8. Len(hits) = m  BY <1>7
<1>9. \A k \in 1..m : hits[k].line = lines[k]  BY <1>7
<1>10. ASSUME NEW i \in 1..Len(text), text[i] \in pattern
       PROVE  \E k \in 1..m : hits[k].line = LineOf(text, i)
  <2>1. i \in DOMAIN text  OBVIOUS
  <2>2. LineOf(text, i) \in S  BY <1>2, <1>10, <2>1, Zenon
  <2>3. PICK k \in 1..m : lines[k] = LineOf(text, i)  BY <1>6, <2>2, Zenon
  <2> QED  BY <1>9, <2>3, Zenon
<1>11. \A i, j \in 1..m : i < j => hits[i].line < hits[j].line  BY <1>6, <1>9, Zenon
<1> QED  BY <1>8, <1>10, <1>11, Zenon DEF HitsRise

(* The windows of a text search follow each other and hold every match.    *)
LEMMA TextWindows ==
  ASSUME NEW text \in Seq(Tokens), NEW pattern, NEW context \in Nat, NEW room, NEW ws,
         ws = Windows(text, TextHits(text, pattern), context, room)
  PROVE  /\ ws \in Seq(WindowsIn(text))
         /\ \A i, j \in 1..Len(ws) : i < j => ws[i].line < ws[j].line
         /\ \A i \in 1..Len(text) : text[i] \in pattern =>
              \E j \in 1..Len(ws) : LineOf(text, i) \in ws[j].from..ws[j].to
<1>1. PICK hits \in Seq(HitsOf(text)) : hits = TextHits(text, pattern)  BY TextHitsAre
<1>2. /\ \A i, j \in 1..Len(hits) : i < j => hits[i].line < hits[j].line
      /\ \A i \in 1..Len(text) : text[i] \in pattern =>
           \E k \in 1..Len(hits) : hits[k].line = LineOf(text, i)
  <2>1. HitsRise(hits, text, pattern)  BY <1>1, TextHitsRise, Zenon
  <2> QED  BY <2>1, Zenon DEF HitsRise
<1>3. ws \in Seq(WindowsIn(text))  BY <1>1, WindowsAre
<1>4. Covering(hits, Len(hits), ws)
  <2>1. Descends(hits)  BY <1>2, Zenon DEF Descends
  <2> QED  BY <1>1, <2>1, WindowsCover
<1>5. PICK m \in Nat : m = LineCount(text)  BY LinesOf
<1>6. ASSUME NEW i \in 1..Len(text), text[i] \in pattern
      PROVE  \E j \in 1..Len(ws) : LineOf(text, i) \in ws[j].from..ws[j].to
  <2>1. PICK line \in 1..m : line = LineOf(text, i)  BY <1>5, LinesOf
  <2>2. PICK k \in 1..Len(hits) : hits[k].line = line  BY <1>2, <1>6, <2>1
  <2>3. PICK j \in 1..Len(ws) : ws[j].from <= line /\ line <= ws[j].to
    BY <1>4, <2>2, Zenon DEF Covering
  <2>4. ws[j] \in WindowsIn(text)
    <3>1. PICK W : W = WindowsIn(text)  OBVIOUS
    <3>2. ws[j] \in W  BY <1>3, <3>1
    <3> QED  BY <3>1, <3>2
  <2>5. PICK from \in Nat, to \in Nat : from = ws[j].from /\ to = ws[j].to
    BY <2>4, WindowSays
  <2>6. line \in from..to  BY <2>3, <2>5
  <2> QED  BY <2>1, <2>5, <2>6
<1> QED  BY <1>3, <1>4, <1>6, Zenon DEF Covering

(* The results of a set are of one file, and the set has all of it.        *)
OnlyFrom(results, src, j, P) == \A i \in 1..Len(results) : results[i] \in P => src[i] = j
AllInto(results, src, k, Q) == \A i \in 1..Len(results) : src[i] = k => results[i] \in Q

NoTwoAlike(s) == \A q, r \in 1..Len(s) : s[q] = s[r] => q = r

(* All that was found in a file is given.                                  *)
AllGiven(results, group, src, turn, k) ==
  \A r \in 1..Len(group) : \E i \in 1..Len(results) : src[i] = k /\ turn[i] = r

(* Two files: one gives at most one result more than the other, unless all *)
(* of the other's are given.                                               *)
LEMMA TurnsFair ==
  ASSUME NEW S, NEW finds \in Seq(Seq(S)), NEW results \in Seq(S), NEW each \in Nat,
         NEW src, NEW turn, ResultOrder(results, finds, each, src, turn),
         NEW P \in SUBSET Range(results), NEW Q, IsFiniteSet(Q),
         NEW j \in 1..Len(finds), NEW k \in 1..Len(finds),
         OnlyFrom(results, src, j, P), AllInto(results, src, k, Q), NoTwoAlike(finds[k])
  PROVE  \/ Cardinality(P) <= Cardinality(Q) + 1
         \/ AllGiven(results, finds[k], src, turn, k)
<1>1. PICK n \in Nat, m \in Nat : n = Len(finds) /\ m = Len(results)  OBVIOUS
<1>2. /\ src \in [1..m -> 1..n] /\ turn \in [1..m -> Nat \ {0}]
      /\ \A i \in 1..m : /\ turn[i] <= Len(finds[src[i]]) /\ turn[i] <= each
                         /\ results[i] = finds[src[i]][turn[i]]
      /\ \A h, i \in 1..m : h < i =>
           turn[h] < turn[i] \/ (turn[h] = turn[i] /\ src[h] # src[i])
      /\ \A i \in 1..m : \A h \in 1..n : \A r \in 1..Len(finds[h]) :
           r < turn[i] /\ r <= each => Came(src, turn, h, r, i - 1)
  BY <1>1, Zenon DEF ResultOrder
<1>3. PICK c \in Nat : c = Cardinality(Q)  BY FS_CardinalityType
<1>4. PICK at : at = {i \in 1..m : results[i] \in P}  OBVIOUS
<1>5. \A x \in P : \E i \in at : results[i] = x
  <2>1. ASSUME NEW x \in P PROVE \E i \in at : results[i] = x
    <3>1. PICK i \in DOMAIN results : results[i] = x  BY DEF Range
    <3>2. i \in 1..m  BY <1>1, <3>1
    <3> QED  BY <1>4, <3>1, <3>2
  <2> QED  BY <2>1
<1>6. CASE at = {}
  <2>1. \A x \in P : \E r \in 1..0 : results[r] = x  BY <1>5, <1>6
  <2>2. Cardinality(P) \in Nat /\ Cardinality(P) <= 0
    <3>1. PICK zero \in Nat : zero = 0  OBVIOUS
    <3>2. HasAll(results, zero, P)  BY <2>1, <3>1 DEF HasAll
    <3>3. Cardinality(P) \in Nat /\ Cardinality(P) <= zero  BY <3>2, AtMost, Zenon
    <3> QED  BY <3>1, <3>3
  <2>3. Cardinality(P) <= c + 1  BY <2>2
  <2> QED  BY <1>3, <2>3
<1>7. CASE at # {}
  <2>1. PICK last \in at : \A i \in at : i <= last
    <3>1. at \in SUBSET (1..m)  BY <1>4
    <3> QED  BY <1>7, <3>1, LargestIn
  <2>2. PICK t \in Nat \ {0} : t = turn[last] /\ last \in 1..m  BY <1>2, <1>4
  <2>3. ASSUME NEW x \in P PROVE \E r \in 1..t : finds[j][r] = x
    <3>1. PICK i \in at : results[i] = x  BY <1>5
    <3>2. i \in 1..m /\ src[i] = j  BY <1>1, <1>4, Zenon DEF OnlyFrom
    <3>3. turn[i] \in 1..t
      <4>1. PICK r \in Nat \ {0} : r = turn[i]  BY <1>2, <3>2
      <4>2. CASE i = last  BY <2>2, <4>1, <4>2
      <4>3. CASE i # last
        <5>1. i < last  BY <1>4, <2>1, <2>2, <3>2, <4>3
        <5>2. turn[i] < turn[last] \/ turn[i] = turn[last]  BY <1>2, <2>2, <3>2, <5>1
        <5> QED  BY <2>2, <4>1, <5>2
      <4> QED  BY <4>2, <4>3
    <3>4. finds[j][turn[i]] = x  BY <1>2, <3>1, <3>2, Zenon
    <3> QED  BY <3>3, <3>4
  <2>4. Cardinality(P) \in Nat /\ Cardinality(P) <= t
    <3>1. PICK f : f = finds[j]  OBVIOUS
    <3>2. PICK u \in Nat : u = t  OBVIOUS
    <3>3. HasAll(f, u, P)  BY <2>3, <3>1, <3>2, Zenon DEF HasAll
    <3>4. Cardinality(P) \in Nat /\ Cardinality(P) <= u  BY <3>3, AtMost, Zenon
    <3> QED  BY <3>2, <3>4, Zenon
  <2>5. PICK l \in Nat : l = Len(finds[k])
    <3>1. finds[k] \in Seq(S)  OBVIOUS
    <3> QED  BY <3>1
  <2>6. ASSUME NEW r \in 1..l, r < t
        PROVE  \E i \in 1..m : src[i] = k /\ turn[i] = r
    <3>1. r <= each
      <4>1. t <= each  BY <1>2, <2>2
      <4> QED  BY <2>6, <4>1
    <3>2. k \in 1..n /\ r \in 1..Len(finds[k]) /\ r < turn[last]  BY <1>1, <2>2, <2>5, <2>6
    <3>3. Came(src, turn, k, r, last - 1)  BY <1>2, <2>2, <3>1, <3>2, Zenon
    <3>4. PICK i \in 1..last - 1 : src[i] = k /\ turn[i] = r  BY <3>3 DEF Came
    <3>5. i \in 1..m  BY <2>2
    <3> QED  BY <3>4, <3>5
  <2>7. CASE l < t
    <3>1. \A r \in 1..l : r < t  BY <2>7
    <3> QED  BY <1>1, <2>5, <2>6, <3>1, Zenon DEF AllGiven
  <2>8. CASE ~ (l < t)
    <3>1. PICK u \in Nat : u = t - 1 /\ u <= l  BY <2>8
    <3>2. PICK f : f = finds[k]  OBVIOUS
    <3>3. \A r \in 1..u : f[r] \in Q
      <4>1. ASSUME NEW r \in 1..u PROVE f[r] \in Q
        <5>1. r \in 1..l /\ r < t  BY <3>1
        <5>2. PICK i \in 1..m : src[i] = k /\ turn[i] = r  BY <2>6, <5>1
        <5>3. results[i] = finds[k][r]  BY <1>2, <5>2, Zenon
        <5>4. results[i] \in Q  BY <1>1, <5>2, Zenon DEF AllInto
        <5> QED  BY <3>2, <5>3, <5>4
      <4> QED  BY <4>1
    <3>4. \A r, s \in 1..u : f[r] = f[s] => r = s
      <4>1. \A r \in 1..u : r \in 1..Len(finds[k])  BY <2>5, <3>1
      <4> QED  BY <3>2, <4>1, Zenon DEF NoTwoAlike
    <3>5. u <= Cardinality(Q)  BY <3>3, <3>4, AtLeast
    <3>6. u <= c  BY <1>3, <3>5
    <3>7. Cardinality(P) <= c + 1  BY <2>4, <3>1, <3>6
    <3> QED  BY <1>3, <3>7
  <2> QED  BY <2>7, <2>8
<1> QED  BY <1>6, <1>7

(* The files of a scope, each once.                                        *)
ScopeOf(view, paths) == {p \in IndexPaths : view[p] # Nil /\ (paths = {} \/ p \in paths)}

LEMMA FilesListed ==
  ASSUME NEW paths
  PROVE  /\ FilesIn(paths) \in Seq(Present)
         /\ \A j, k \in 1..Len(FilesIn(paths)) : FilesIn(paths)[j] = FilesIn(paths)[k] => j = k
         /\ \A p \in ScopeOf(indexed, paths) :
              \E k \in 1..Len(FilesIn(paths)) : FilesIn(paths)[k] = p
<1>1. PICK S : S = ScopeOf(indexed, paths)  OBVIOUS
<1>2. PICK f : f = Ascending(S)  OBVIOUS
<1>3. f = FilesIn(paths)  BY <1>1, <1>2, Zenon DEF FilesIn, ScopeOf
<1>4. IsFiniteSet(S) /\ S \in SUBSET Nat
  <2>1. NumPaths \in Nat /\ S \in SUBSET (1..NumPaths)
    BY <1>1, RetrievalAssumption DEF ScopeOf, IndexPaths
  <2>2. NumPaths \in Int /\ 1 \in Int  BY <2>1
  <2>3. IsFiniteSet(1..NumPaths)  BY <2>2, FS_Interval
  <2>4. IsFiniteSet(S)  BY <2>1, <2>3, FS_Subset
  <2>5. S \in SUBSET Nat  BY <2>1
  <2> QED  BY <2>4, <2>5
<1>5. PICK m \in Nat : /\ f \in [1..m -> S]
                       /\ \A x \in S : \E k \in 1..m : f[k] = x
                       /\ \A j, k \in 1..m : j < k => f[j] < f[k]
  <2>1. Ascends(f, S)  BY <1>2, <1>4, AscendingAscends
  <2> QED  BY <2>1, Zenon DEF Ascends
<1>6. Len(f) = m  BY <1>5
<1>7. ASSUME NEW j \in 1..m, NEW k \in 1..m, f[j] = f[k] PROVE j = k
  <2>1. f[j] \in Nat /\ f[k] \in Nat  BY <1>4, <1>5
  <2>2. PICK a \in Nat : a = f[j] /\ a = f[k]  BY <1>7, <2>1
  <2>3. ~ (a < a)  OBVIOUS
  <2>4. ~ (j < k)  BY <1>5, <2>2, <2>3, Zenon
  <2>5. ~ (k < j)  BY <1>5, <2>2, <2>3, Zenon
  <2> QED  BY <2>4, <2>5
<1>8. f \in Seq(Present)  BY <1>3, FilesPresent
<1> QED  BY <1>1, <1>3, <1>5, <1>6, <1>7, <1>8, Zenon

(* The results of one file: of that file, each once, every match in one.   *)
FileFound(group, p, pattern) ==
  /\ \A r \in 1..Len(group) : group[r].path = p
  /\ NoTwoAlike(group)
  /\ \A i \in 1..Len(indexed[p]) : indexed[p][i] \in pattern =>
       \E r \in 1..Len(group) :
         LineOf(indexed[p], i) \in group[r].handle.from..group[r].handle.to

LEMMA GivenFound ==
  ASSUME IndexTyped, NEW p \in Present, NEW pattern, NEW context \in Nat, NEW room, NEW ws,
         ws = Windows(indexed[p], TextHits(indexed[p], pattern), context, room)
  PROVE  /\ Given(p, ws) \in Seq(Results)
         /\ FileFound(Given(p, ws), p, pattern)
<1>1. PICK text \in Seq(Tokens) : text = indexed[p]  BY TextPresent
<1>2. /\ ws \in Seq(WindowsIn(text))
      /\ \A i, j \in 1..Len(ws) : i < j => ws[i].line < ws[j].line
      /\ \A i \in 1..Len(text) : text[i] \in pattern =>
           \E j \in 1..Len(ws) : LineOf(text, i) \in ws[j].from..ws[j].to
  <2>1. ws = Windows(text, TextHits(text, pattern), context, room)  BY <1>1
  <2> QED  BY <2>1, TextWindows
<1>3. PICK n \in Nat : n = Len(ws)  BY <1>2
<1>4. PICK g : g = Given(p, ws)  OBVIOUS
<1>5. g \in Seq(Results)  BY <1>1, <1>2, <1>4, GivenAre
<1>6. g = [j \in 1..n |-> WithHandle(p, ws[j])]
  <2>1. DOMAIN ws = 1..n  BY <1>2, <1>3
  <2> QED  BY <1>4, <2>1, Zenon DEF Given
<1>7. Len(g) = n  BY <1>3, <1>6
<1>8. ASSUME NEW j \in 1..n
      PROVE  /\ g[j].path = p /\ g[j].line = ws[j].line
             /\ g[j].handle.from = ws[j].from /\ g[j].handle.to = ws[j].to
  <2>1. PICK w : w = ws[j]  OBVIOUS
  <2>2. PICK h, s : h = RangeHandle(p, text, w.from, w.to) /\ s = SliceLines(text, w.from, w.to)
    OBVIOUS
  <2>3. g[j] = [path |-> p, line |-> w.line, hits |-> w.hits, handle |-> h, preview |-> s]
    <3>1. g[j] = WithHandle(p, w)  BY <1>6, <2>1
    <3> QED  BY <1>1, <2>2, <3>1, Zenon DEF WithHandle
  <2>4. h.from = w.from /\ h.to = w.to  BY <2>2 DEF RangeHandle
  <2>5. g[j].path = p /\ g[j].line = w.line /\ g[j].handle = h  BY <2>3
  <2> QED  BY <2>1, <2>4, <2>5
<1>9. ASSUME NEW r \in 1..n, NEW s \in 1..n, g[r] = g[s] PROVE r = s
  <2>1. ws[r] \in WindowsIn(text) /\ ws[s] \in WindowsIn(text)
    <3>1. PICK W : W = WindowsIn(text)  OBVIOUS
    <3>2. ws[r] \in W /\ ws[s] \in W  BY <1>2, <1>3, <3>1
    <3> QED  BY <3>1, <3>2
  <2>2. PICK a \in Nat : a = ws[r].line /\ a = ws[s].line
    <3>1. ws[r].line \in Nat  BY <2>1, WindowSays
    <3>2. ws[r].line = ws[s].line  BY <1>8, <1>9, Zenon
    <3> QED  BY <3>1, <3>2
  <2>3. ~ (a < a)  OBVIOUS
  <2>4. ~ (r < s)  BY <1>2, <1>3, <2>2, <2>3, Zenon
  <2>5. ~ (s < r)  BY <1>2, <1>3, <2>2, <2>3, Zenon
  <2> QED  BY <2>4, <2>5
<1>10. ASSUME NEW i \in 1..Len(text), text[i] \in pattern
       PROVE  \E r \in 1..n : LineOf(text, i) \in g[r].handle.from..g[r].handle.to
  <2>1. PICK j \in 1..n : LineOf(text, i) \in ws[j].from..ws[j].to  BY <1>2, <1>3, <1>10
  <2> QED  BY <1>8, <2>1, Zenon
<1>11. NoTwoAlike(g)  BY <1>7, <1>9, Zenon DEF NoTwoAlike
<1>12. FileFound(g, p, pattern)
  BY <1>1, <1>7, <1>8, <1>10, <1>11, Zenon DEF FileFound
<1> QED  BY <1>4, <1>5, <1>12

(* What a text search finds, and what it answers.                          *)
Searched(outcome, sources, finds, each, limit, pattern) ==
  /\ sources \in Seq(Present) /\ finds \in Seq(Seq(Results)) /\ Len(finds) = Len(sources)
  /\ each \in Nat /\ limit \in Nat
  /\ outcome.results = TakeTurns(NonEmpty([k \in DOMAIN finds |-> Take(finds[k], each)]), limit)
  /\ outcome.truncated = (Total(finds) > Len(outcome.results))
  /\ \A k \in 1..Len(finds) : FileFound(finds[k], sources[k], pattern)

LEMMA TextFound ==
  ASSUME IndexTyped, NEW op, op.context \in Nat, op.max \in Nat
  PROVE  \E finds, each, limit :
           Searched(SearchText(op), FilesIn(op.paths), finds, each, limit, op.pattern)
<1> DEFINE sources == FilesIn(op.paths)
           limit == AtLeastOne(op.max)
           each == IF Cardinality(op.paths) = 1 \/ limit < PerFile
                   THEN limit ELSE PerFile
           WindowsOf(text) ==
             Windows(text, TextHits(text, op.pattern), op.context, LineCount(text))
           groups == [k \in DOMAIN sources |-> Given(sources[k], WindowsOf(indexed[sources[k]]))]
           taken == NonEmpty([k \in DOMAIN groups |-> Take(groups[k], each)])
<1>1. sources \in Seq(Present)  BY FilesPresent
<1>2. limit \in Nat  BY AtLeastNat
<1>3. each \in Nat  BY <1>2, RetrievalAssumption
<1>4. SearchText(op) = SearchResult(groups, taken, <<>>, limit)  BY Zenon DEF SearchText
<1> HIDE DEF sources, limit, each
<1>5. ASSUME NEW p \in Present
      PROVE  /\ Given(p, WindowsOf(indexed[p])) \in Seq(Results)
             /\ FileFound(Given(p, WindowsOf(indexed[p])), p, op.pattern)
  <2>1. PICK context \in Nat : context = op.context  OBVIOUS
  <2>5. PICK room, pattern : room = LineCount(indexed[p]) /\ pattern = op.pattern
    OBVIOUS
  <2>2. PICK ws : ws = WindowsOf(indexed[p])  OBVIOUS
  <2>3. ws = Windows(indexed[p], TextHits(indexed[p], pattern), context, room)
    BY <2>1, <2>2, <2>5, Zenon
  <2>4. Given(p, ws) \in Seq(Results) /\ FileFound(Given(p, ws), p, pattern)
    BY <2>3, GivenFound
  <2> QED  BY <2>1, <2>2, <2>4, <2>5, Zenon
<1> HIDE DEF WindowsOf
<1>6. PICK n \in Nat : n = Len(sources)  BY <1>1
<1>7. DOMAIN sources = 1..n /\ \A k \in 1..n : sources[k] \in Present  BY <1>1, <1>6
<1>8. groups \in [1..n -> Seq(Results)]  BY <1>5, <1>7, Zenon
<1>9. \A k \in 1..n : FileFound(groups[k], sources[k], op.pattern)
  <2>1. \A k \in 1..n : groups[k] = Given(sources[k], WindowsOf(indexed[sources[k]]))
    BY <1>7, Zenon
  <2> HIDE DEF groups
  <2> QED  BY <1>5, <1>7, <2>1, Zenon
<1> HIDE DEF groups
<1>10. groups \in Seq(Seq(Results)) /\ Len(groups) = n  BY <1>8
<1>11. taken \in Seq(Seq(Results))  BY <1>3, <1>10, TakenOf, KeptGroups
<1>12. PICK y : y = SearchText(op)  OBVIOUS
<1>13. y = [results |-> TakeTurns(taken, limit),
            truncated |-> Total(groups) > Len(TakeTurns(taken, limit))]
  <2>1. PICK Q : Q = Seq(Results)  OBVIOUS
  <2> HIDE DEF taken
  <2>2. taken \in Seq(Q)  BY <1>11, <2>1
  <2>3. <<>> \o taken = taken  BY <2>2
  <2> QED  BY <1>4, <1>12, <2>3, Zenon DEF SearchResult
<1>14. y.results = TakeTurns(taken, limit) /\ y.truncated = (Total(groups) > Len(y.results))
  <2>1. PICK a, b : a = TakeTurns(taken, limit) /\ b = (Total(groups) > Len(a))  OBVIOUS
  <2>2. y = [results |-> a, truncated |-> b]  BY <1>13, <2>1, Zenon
  <2>3. y.results = a /\ y.truncated = b  BY <2>2
  <2> QED  BY <2>1, <2>3, Zenon
<1>15. Searched(y, sources, groups, each, limit, op.pattern)
  BY <1>1, <1>2, <1>3, <1>6, <1>9, <1>10, <1>14, Zenon DEF Searched
<1> QED  BY <1>12, <1>15, Zenon DEF sources

ShownBy(outcome, p) == {r \in Range(outcome.results) : r.path = p}

(* Every match in a file lies in the range of some result.                 *)
ShowsFile(outcome, text, p, pattern) ==
  \A i \in DOMAIN text : text[i] \in pattern =>
    \E r \in ShownBy(outcome, p) : LineOf(text, i) \in r.handle.from..r.handle.to

(* What a fair answer to a text search is.                                 *)
FairAnswer(view, op, outcome) ==
  /\ ~ outcome.truncated =>
       \A p \in ScopeOf(view, op.paths) : ShowsFile(outcome, view[p], p, op.pattern)
  /\ \A p, q \in ScopeOf(view, op.paths) :
       \/ Cardinality(ShownBy(outcome, p)) <= Cardinality(ShownBy(outcome, q)) + 1
       \/ ShowsFile(outcome, view[q], q, op.pattern)

(* Where the results of a text search come from.                           *)
LEMMA SearchOrder ==
  ASSUME NEW y, NEW sources, NEW finds, NEW each, NEW limit, NEW pattern,
         Searched(y, sources, finds, each, limit, pattern)
  PROVE  /\ y.results \in Seq(Results)
         /\ \E src, turn : ResultOrder(y.results, finds, each, src, turn)
<1>1. /\ finds \in Seq(Seq(Results)) /\ each \in Nat /\ limit \in Nat
      /\ y.results = TakeTurns(NonEmpty([k \in DOMAIN finds |-> Take(finds[k], each)]), limit)
  BY DEF Searched
<1>2. PICK taken \in Seq(Seq(Results)) :
        taken = NonEmpty([k \in DOMAIN finds |-> Take(finds[k], each)])
  BY <1>1, TakenOf, KeptGroups
<1>3. TakeTurns(taken, limit) \in Seq(Results)  BY <1>1, TurnsOf
<1>4. PICK results : results = y.results  OBVIOUS
<1>5. \E src, turn : ResultOrder(results, finds, each, src, turn)
  <2>1. results = TakeTurns(NonEmpty([k \in DOMAIN finds |-> Take(finds[k], each)]), limit)
    BY <1>1, <1>4
  <2> QED  BY <1>1, <2>1, ResultsInOrder
<1> QED  BY <1>1, <1>2, <1>3, <1>4, <1>5, Zenon

(* A file all of whose results are given is shown.                         *)
LEMMA FileShown ==
  ASSUME NEW y, NEW results \in Seq(Results), results = y.results, NEW finds, NEW each,
         NEW src, NEW turn, ResultOrder(results, finds, each, src, turn),
         NEW k, NEW q, IndexTyped, q \in Present, NEW pattern, FileFound(finds[k], q, pattern),
         AllGiven(results, finds[k], src, turn, k)
  PROVE  ShowsFile(y, indexed[q], q, pattern)
<1>1. PICK text \in Seq(Tokens) : text = indexed[q]  BY TextPresent
<1>2. DOMAIN text = 1..Len(text)  OBVIOUS
<1>3. \A i \in 1..Len(results) : results[i] = finds[src[i]][turn[i]]
  BY Zenon DEF ResultOrder
<1>4. ASSUME NEW i \in DOMAIN text, text[i] \in pattern
      PROVE  \E r \in ShownBy(y, q) : LineOf(text, i) \in r.handle.from..r.handle.to
  <2>1. i \in 1..Len(text)  BY <1>2
  <2>2. PICK r \in 1..Len(finds[k]) :
          LineOf(text, i) \in finds[k][r].handle.from..finds[k][r].handle.to
    BY <1>1, <1>4, <2>1, Zenon DEF FileFound
  <2>3. PICK j \in 1..Len(results) : src[j] = k /\ turn[j] = r
    BY Zenon DEF AllGiven
  <2>4. PICK x : x = results[j] /\ x = finds[k][r]  BY <1>3, <2>3, Zenon
  <2>5. x.path = q
    <3>1. \A s \in 1..Len(finds[k]) : finds[k][s].path = q  BY Zenon DEF FileFound
    <3> QED  BY <2>4, <3>1, Zenon
  <2>6. x \in Range(results)
    <3>1. DOMAIN results = 1..Len(results)  OBVIOUS
    <3> QED  BY <2>4, <3>1, Zenon DEF Range
  <2>7. x \in ShownBy(y, q)  BY <2>5, <2>6, Zenon DEF ShownBy
  <2> QED  BY <2>2, <2>4, <2>7, Zenon
<1> QED  BY <1>1, <1>4, Zenon DEF ShowsFile

(* Two files of the scope.                                                 *)
LEMMA FilesFair ==
  ASSUME IndexTyped, NEW y, NEW sources, NEW finds, NEW each, NEW limit, NEW pattern,
         Searched(y, sources, finds, each, limit, pattern),
         \A j, k \in 1..Len(sources) : sources[j] = sources[k] => j = k,
         NEW j \in 1..Len(sources), NEW k \in 1..Len(sources)
  PROVE  \/ Cardinality(ShownBy(y, sources[j])) <= Cardinality(ShownBy(y, sources[k])) + 1
         \/ ShowsFile(y, indexed[sources[k]], sources[k], pattern)
<1>1. /\ sources \in Seq(Present) /\ finds \in Seq(Seq(Results)) /\ Len(finds) = Len(sources)
      /\ each \in Nat /\ \A h \in 1..Len(finds) : FileFound(finds[h], sources[h], pattern)
  BY DEF Searched
<1>2. PICK results \in Seq(Results) : results = y.results  BY SearchOrder
<1>3. PICK src, turn : ResultOrder(results, finds, each, src, turn)
  BY <1>2, SearchOrder
<1>4. PICK n \in Nat, m \in Nat : n = Len(finds) /\ n = Len(sources) /\ m = Len(results)
  BY <1>1, <1>2
<1>5. ASSUME NEW i \in 1..m
      PROVE  src[i] \in 1..n /\ results[i] \in Range(results)
             /\ results[i].path = sources[src[i]]
  <2>1. /\ src \in [1..m -> 1..n] /\ turn \in [1..m -> Nat \ {0}]
        /\ turn[i] <= Len(finds[src[i]]) /\ results[i] = finds[src[i]][turn[i]]
    BY <1>3, <1>4, Zenon DEF ResultOrder
  <2>2. PICK h \in 1..n, r \in Nat \ {0} : h = src[i] /\ r = turn[i]  BY <2>1
  <2>3. PICK l \in Nat : l = Len(finds[h])
    <3>1. finds[h] \in Seq(Results)  BY <1>1, <1>4
    <3> QED  BY <3>1
  <2>4. r \in 1..l
    <3>1. r <= l  BY <2>1, <2>2, <2>3, Zenon
    <3> QED  BY <3>1
  <2>5. finds[h][r].path = sources[h]  BY <1>1, <1>4, <2>3, <2>4, Zenon DEF FileFound
  <2>6. results[i] \in Range(results)
    <3>1. DOMAIN results = 1..m  BY <1>2, <1>4
    <3> QED  BY <3>1, Zenon DEF Range
  <2> QED  BY <2>1, <2>2, <2>5, <2>6, Zenon
<1>6. PICK P, Q : P = ShownBy(y, sources[j]) /\ Q = ShownBy(y, sources[k])  OBVIOUS
<1>7. P \in SUBSET Range(results)  BY <1>2, <1>6 DEF ShownBy
<1>8. OnlyFrom(results, src, j, P)
  <2>1. ASSUME NEW i \in 1..m, results[i] \in P PROVE src[i] = j
    <3>1. results[i].path = sources[j]  BY <1>6, <2>1, Zenon DEF ShownBy
    <3>2. src[i] \in 1..Len(sources) /\ sources[src[i]] = sources[j]  BY <1>4, <1>5, <3>1, Zenon
    <3> QED  BY <3>2, Zenon
  <2> QED  BY <1>4, <2>1, Zenon DEF OnlyFrom
<1>9. AllInto(results, src, k, Q)
  <2>1. ASSUME NEW i \in 1..m, src[i] = k PROVE results[i] \in Q
    BY <1>2, <1>5, <1>6, <2>1, Zenon DEF ShownBy
  <2> QED  BY <1>4, <2>1, Zenon DEF AllInto
<1>10. IsFiniteSet(Q)
  <2>1. HasAll(results, m, Q)
    <3>1. DOMAIN results = 1..m  BY <1>2, <1>4
    <3> QED  BY <1>2, <1>6, <3>1, Zenon DEF ShownBy, HasAll, Range
  <2> QED  BY <2>1, AtMost
<1>11. j \in 1..Len(finds) /\ k \in 1..Len(finds)  BY <1>4
<1>12. NoTwoAlike(finds[k])
  BY <1>1, <1>11, Zenon DEF FileFound
<1>13. \/ Cardinality(P) <= Cardinality(Q) + 1
       \/ AllGiven(results, finds[k], src, turn, k)
  BY <1>1, <1>3, <1>7, <1>8, <1>9, <1>10, <1>11, <1>12, TurnsFair
<1>14. ASSUME AllGiven(results, finds[k], src, turn, k)
       PROVE  ShowsFile(y, indexed[sources[k]], sources[k], pattern)
  <2>1. PICK q \in Present : q = sources[k]
    <3>1. sources[k] \in Present  BY <1>1
    <3> QED  BY <3>1
  <2>2. FileFound(finds[k], q, pattern)  BY <1>1, <1>11, <2>1
  <2>3. ShowsFile(y, indexed[q], q, pattern)  BY <1>2, <1>3, <1>14, <2>2, FileShown
  <2> QED  BY <2>1, <2>3
<1> QED  BY <1>6, <1>13, <1>14

(* A text search is answered fairly.                                       *)
LEMMA TextFair ==
  ASSUME IndexTyped, NEW op, op.context \in Nat, op.max \in Nat
  PROVE  FairAnswer(indexed, op, SearchText(op))
<1>1. PICK y, sources, pattern, scope :
        /\ y = SearchText(op) /\ sources = FilesIn(op.paths) /\ pattern = op.pattern
        /\ scope = ScopeOf(indexed, op.paths)
  OBVIOUS
<1>2. PICK finds, each, limit : Searched(y, sources, finds, each, limit, pattern)
  BY <1>1, TextFound
<1>3. /\ sources \in Seq(Present)
      /\ \A j, k \in 1..Len(sources) : sources[j] = sources[k] => j = k
      /\ \A p \in scope : \E k \in 1..Len(sources) : sources[k] = p
  BY <1>1, FilesListed, Zenon
<1>4. ASSUME NEW p \in scope, NEW q \in scope
      PROVE  \/ Cardinality(ShownBy(y, p)) <= Cardinality(ShownBy(y, q)) + 1
             \/ ShowsFile(y, indexed[q], q, pattern)
  <2>1. PICK j \in 1..Len(sources) : sources[j] = p  BY <1>3
  <2>2. PICK k \in 1..Len(sources) : sources[k] = q  BY <1>3
  <2>3. \/ Cardinality(ShownBy(y, sources[j])) <= Cardinality(ShownBy(y, sources[k])) + 1
        \/ ShowsFile(y, indexed[sources[k]], sources[k], pattern)
    BY <1>2, <1>3, FilesFair
  <2> QED  BY <2>1, <2>2, <2>3, Zenon
<1>5. ASSUME ~ y.truncated, NEW p \in scope PROVE ShowsFile(y, indexed[p], p, pattern)
  <2>1. PICK k \in 1..Len(sources) : sources[k] = p  BY <1>3
  <2>2. PICK q \in Present : q = p
    <3>1. sources[k] \in Present  BY <1>3
    <3> QED  BY <2>1, <3>1
  <2>3. /\ finds \in Seq(Seq(Results)) /\ Len(finds) = Len(sources)
        /\ y.truncated = (Total(finds) > Len(y.results))
        /\ \A h \in 1..Len(finds) : FileFound(finds[h], sources[h], pattern)
    BY <1>2, Zenon DEF Searched
  <2>4. PICK results \in Seq(Results) : results = y.results  BY <1>2, SearchOrder
  <2>5. PICK src, turn : ResultOrder(results, finds, each, src, turn)
    BY <1>2, <2>4, SearchOrder
  <2>6. ~ (Total(finds) > Len(results))  BY <1>5, <2>3, <2>4, Zenon
  <2>7. \A h \in 1..Len(finds) : \A r \in 1..Len(finds[h]) :
          \E i \in 1..Len(results) : src[i] = h /\ turn[i] = r
    BY <2>3, <2>5, <2>6, AllTaken
  <2>8. k \in 1..Len(finds)  BY <2>3
  <2>9. FileFound(finds[k], q, pattern)  BY <2>1, <2>2, <2>3, <2>8, Zenon
  <2>10. AllGiven(results, finds[k], src, turn, k)  BY <2>7, <2>8, Zenon DEF AllGiven
  <2>11. ShowsFile(y, indexed[q], q, pattern)  BY <2>4, <2>5, <2>9, <2>10, FileShown
  <2> QED  BY <2>2, <2>11
<1> QED  BY <1>1, <1>4, <1>5, Zenon DEF FairAnswer

-----------------------------------------------------------------------------
(* Fair searches of a call. *)

EntryFair(entry, op) == op.kind = "search_text" => FairAnswer(entry.view, op, entry.outcome)
AnswersFair(c) == \A k \in 1..Len(c.results) : EntryFair(c.results[k], c.ops[c.results[k].at])

SearchInv ==
  /\ call # Nil => AnswersFair(call)
  /\ answered # Nil => AnswersFair(answered)

(* An operation is run.                                                    *)
LEMMA OperateSearches ==
  ASSUME SearchInv, ReadsInv, AnswersInv, Operate
  PROVE  SearchInv'
<1>1. /\ call # Nil /\ call.done < Len(call.ops) /\ answered' = answered
  BY DEF Operate
<1>2. CallGood(call) /\ answered = Nil /\ IndexTyped /\ AnswersFair(call)
  BY <1>1 DEF ReadsInv, AnswersInv, SearchInv
<1>3. PICK op, told, outcome, seen :
        /\ op = call.ops[call.done + 1]
        /\ told = (IF op.id \in call.seen THEN Failed("duplicate_id") ELSE Retrieved(op))
        /\ outcome = Compacted(op, told)
        /\ call' = Recorded(op, outcome, seen)
  BY Zenon DEF Operate
<1>4. PICK c, d, entry : /\ c = call /\ d = Recorded(op, outcome, seen)
                         /\ entry = [id |-> op.id, at |-> call.done + 1, view |-> indexed,
                                     outcome |-> outcome]
  OBVIOUS
<1>5. d.ops = c.ops /\ d.results = IF IsError(outcome) THEN c.results
                                   ELSE Append(c.results, entry)
  <2>1. /\ d.ops = call.ops
        /\ d.results = IF IsError(outcome) THEN call.results
                       ELSE Append(call.results, [id |-> op.id, at |-> call.done + 1,
                                                  view |-> indexed, outcome |-> outcome])
    BY <1>2, <1>4, RecordedSays, Zenon
  <2> QED  BY <1>4, <2>1, Zenon
<1>6. CASE IsError(outcome)
  <2>1. d.results = c.results  BY <1>5, <1>6, Zenon
  <2>2. AnswersFair(d)  BY <1>2, <1>4, <1>5, <2>1, Zenon DEF AnswersFair
  <2> QED  BY <1>1, <1>2, <1>3, <1>4, <2>2, Zenon DEF SearchInv
<1>7. CASE ~ IsError(outcome)
  <2>1. told = Retrieved(op)
    <3>1. ~ IsError(told)  BY <1>3, <1>7, CompactedIs, Zenon
    <3> QED  BY <1>3, <3>1, FailedIs, Zenon
  <2>2. entry.view = indexed /\ entry.outcome = outcome /\ entry.at = call.done + 1
    BY <1>4, Zenon
  <2>3. EntryFair(entry, op)
    <3>1. CASE op.kind = "search_text"
      <4>1. ClientOperation(op) \/ FollowGood(op, reading)  BY <1>1, <1>3, OperationGood
      <4>2. ~ FollowGood(op, reading)  BY <3>1 DEF FollowGood
      <4>3. op.context \in Nat /\ op.max \in Nat  BY <3>1, <4>1, <4>2 DEF ClientOperation
      <4>4. outcome = SearchText(op)
        <5>1. told = SearchText(op)  BY <2>1, <3>1, Zenon DEF Retrieved
        <5>2. ~ IsRead(op)  BY <3>1 DEF IsRead
        <5> QED  BY <1>3, <5>1, <5>2, Zenon DEF Compacted
      <4>5. FairAnswer(indexed, op, SearchText(op))  BY <1>2, <4>3, TextFair
      <4> QED  BY <2>2, <4>4, <4>5, Zenon DEF EntryFair
    <3>2. CASE op.kind # "search_text"  BY <3>2, Zenon DEF EntryFair
    <3> QED  BY <3>1, <3>2
  <2>4. d.results = Append(c.results, entry)  BY <1>5, <1>7, Zenon
  <2>5. PICK n \in Nat : n = Len(c.results)
    <3>1. IsSeq(c.results)  BY <1>2, <1>4, Zenon DEF CallGood
    <3> QED  BY <3>1, OneMore
  <2>6. /\ Len(d.results) = n + 1 /\ d.results[n + 1] = entry
        /\ \A k \in 1..n : d.results[k] = c.results[k]
    <3>1. IsSeq(c.results)  BY <1>2, <1>4, Zenon DEF CallGood
    <3>2. PICK s : s = c.results /\ IsSeq(s)  BY <3>1
    <3>3. /\ Len(Append(s, entry)) = Len(s) + 1 /\ Append(s, entry)[Len(s) + 1] = entry
          /\ \A k \in 1..Len(s) : Append(s, entry)[k] = s[k]
      BY <3>2, OneMore
    <3> QED  BY <2>4, <2>5, <3>2, <3>3, Zenon
  <2>7. ASSUME NEW k \in 1..n + 1 PROVE EntryFair(d.results[k], d.ops[d.results[k].at])
    <3>1. k \in 1..n \/ k = n + 1  OBVIOUS
    <3>2. CASE k \in 1..n
      <4>1. EntryFair(c.results[k], c.ops[c.results[k].at])
        BY <1>2, <1>4, <2>5, <3>2, Zenon DEF AnswersFair
      <4> QED  BY <1>5, <2>6, <3>2, <4>1, Zenon
    <3>3. CASE k = n + 1
      <4>1. d.ops[entry.at] = op  BY <1>3, <1>4, <1>5, <2>2, Zenon
      <4> QED  BY <2>3, <2>6, <3>3, <4>1, Zenon
    <3> QED  BY <3>1, <3>2, <3>3
  <2>8. AnswersFair(d)  BY <2>6, <2>7, Zenon DEF AnswersFair
  <2> QED  BY <1>1, <1>2, <1>3, <1>4, <2>8, Zenon DEF SearchInv
<1> QED  BY <1>6, <1>7

(* Every step keeps it.                                                    *)
LEMMA SearchesKept ==
  SearchInv /\ ReadsInv /\ AnswersInv /\ [RetrievalNext]_retrievalVars => SearchInv'
<1> SUFFICES ASSUME SearchInv, ReadsInv, AnswersInv, [RetrievalNext]_retrievalVars
             PROVE  SearchInv'
  OBVIOUS
<1>1. CASE call' = call /\ answered' = answered  BY <1>1, Zenon DEF SearchInv
<1>2. CASE \E c \in Calls \union Follows, pin \in Pins : StartCall(c, pin)
  <2>1. PICK c : /\ answered' = Nil
                 /\ call' = [ops |-> c.ops, fail_fast |-> c.fail_fast, snapshot |-> indexed,
                             seen |-> {}, done |-> 0, results |-> <<>>, errors |-> <<>>]
    BY <1>2, Zenon DEF StartCall
  <2>2. PICK d : d = call'  OBVIOUS
  <2>3. d.results = <<>>
    <3>1. PICK e : e = <<>>  OBVIOUS
    <3>2. d = [ops |-> c.ops, fail_fast |-> c.fail_fast, snapshot |-> indexed,
               seen |-> {}, done |-> 0, results |-> e, errors |-> e]
      BY <2>1, <2>2, <3>1, Zenon
    <3>3. d.results = e  BY <3>2
    <3> QED  BY <3>1, <3>3
  <2>4. AnswersFair(d)
    <3>1. Len(<<>>) = 0 /\ 1..0 = {}  OBVIOUS
    <3> QED  BY <2>3, <3>1, Zenon DEF AnswersFair
  <2> QED  BY <2>1, <2>2, <2>4, Zenon DEF SearchInv
<1>3. CASE \E pin \in Pins : RefuseCall(pin)
  <2>1. call = Nil /\ answered' = Nil /\ call' = call  BY <1>3 DEF RefuseCall
  <2> QED  BY <2>1, Zenon DEF SearchInv
<1>4. CASE Operate  BY <1>4, OperateSearches
<1>5. CASE AnswerCall
  <2>1. call # Nil /\ answered' = call /\ call' = Nil  BY <1>5 DEF AnswerCall
  <2> QED  BY <2>1, Zenon DEF SearchInv
<1> QED
  BY <1>1, <1>2, <1>3, <1>4, <1>5, Zenon DEF RetrievalNext, ChangeIndex, retrievalVars

(* It says what the property says.                                         *)
LEMMA SearchesSay == SearchInv /\ AnswersInv => SearchFair
<1> SUFFICES ASSUME SearchInv, AnswersInv PROVE SearchFair  OBVIOUS
<1>1. ASSUME NEW entry \in Searches("search_text")
      PROVE  FairAnswer(entry.view, AskedFor(entry), entry.outcome)
  <2>1. /\ answered # Nil /\ entry \in Range(answered.results)
        /\ AskedFor(entry).kind = "search_text"
    <3>1. entry \in ResultsGiven /\ AskedFor(entry).kind = "search_text"
      BY DEF Searches
    <3>2. answered # Nil  BY <3>1 DEF ResultsGiven
    <3> QED  BY <3>1, <3>2 DEF ResultsGiven
  <2>2. IsSeq(answered.results)  BY <2>1, Zenon DEF AnswersInv, CallGood
  <2>3. DOMAIN answered.results = 1..Len(answered.results)  BY <2>2 DEF IsSeq
  <2>4. PICK k \in 1..Len(answered.results) : answered.results[k] = entry
    BY <2>1, <2>3, Zenon DEF Range
  <2>5. EntryFair(entry, answered.ops[entry.at])
    BY <2>1, <2>4, Zenon DEF SearchInv, AnswersFair
  <2> QED  BY <2>1, <2>5, Zenon DEF EntryFair, AskedFor
<1>2. ASSUME NEW entry
      PROVE  InScope(entry) = ScopeOf(entry.view, AskedFor(entry).paths)
  BY Zenon DEF InScope, ScopeOf
<1>3. ASSUME NEW entry, NEW p PROVE ShownOf(entry, p) = ShownBy(entry.outcome, p)
  BY Zenon DEF ShownOf, ShownBy
<1>4. ASSUME NEW entry, NEW p,
             ShowsFile(entry.outcome, entry.view[p], p, AskedFor(entry).pattern)
      PROVE  AllShown(entry, p)
  BY <1>3, <1>4, Zenon DEF AllShown, ShowsFile
<1>5. SearchComplete
  BY <1>1, <1>2, <1>4, Zenon DEF SearchComplete, FairAnswer
<1>6. TurnsTaken
  <2> SUFFICES ASSUME NEW entry \in Searches("search_text"),
                      NEW p \in InScope(entry), NEW q \in InScope(entry)
               PROVE  \/ Cardinality(ShownOf(entry, p)) <= Cardinality(ShownOf(entry, q)) + 1
                      \/ AllShown(entry, q)
    BY DEF TurnsTaken
  <2>1. \/ Cardinality(ShownBy(entry.outcome, p)) <= Cardinality(ShownBy(entry.outcome, q)) + 1
        \/ ShowsFile(entry.outcome, entry.view[q], q, AskedFor(entry).pattern)
    BY <1>1, <1>2, Zenon DEF FairAnswer
  <2> QED  BY <1>3, <1>4, <2>1, Zenon
<1> QED  BY <1>5, <1>6 DEF SearchFair

(* Theorem: a text search that leaves matches out says so, and the files    *)
(* of its scope give their results in turns: none gives two more than      *)
(* another that still had some to give (windows.rs).                       *)
THEOREM SearchesAreFair == RetrievalSpec => []SearchFair
<1>1. RetrievalInit => SearchInv /\ ReadsInv /\ AnswersInv
  <2>1. 0 \in 0..MaxIndexChanges  BY RetrievalAssumption
  <2> QED  BY <2>1 DEF RetrievalInit, SearchInv, ReadsInv, IndexTyped, AnswersInv
<1> QED  BY <1>1, SearchesKept, ReadsKept, AnswersKept, SearchesSay, PTL DEF RetrievalSpec

=============================================================================
