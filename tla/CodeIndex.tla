------------------------------ MODULE CodeIndex ------------------------------
(***************************************************************************)
(* The workspace index and its persistent symbol cache: store.rs, scan.rs, *)
(* cache.rs and entry.rs of src/index, with the drain of queued paths that *)
(* decides what is re-read.                                                *)
(*                                                                         *)
(* Opening a workspace walks the tree, reads every file (reusing cached    *)
(* symbols for an unchanged hash), does the same with the artifact paths,  *)
(* rewrites the cache and starts the watcher; later the paths the watcher  *)
(* reports are re-read, until a read fails.  The process may die at any    *)
(* step and be opened again with other settings, and other programs change *)
(* the tree all the time.                                                  *)
(*                                                                         *)
(* A content hash is the text itself (SHA-256 taken to be injective).      *)
(***************************************************************************)
EXTENDS Naturals, Sequences, FiniteSets

CONSTANTS
  Paths,        \* workspace-relative paths
  Below,        \* Below[p]: the paths inside directory p
  SourceTexts,        \* texts of indexable files
  Names,        \* symbol names
  SymbolsOf,    \* SymbolsOf[t]: the symbol names extract_symbols finds in t
  Settings,     \* scan settings a workspace may be opened with
  Excluded,     \* Excluded[s]: paths the walk does not list under settings s
  GitIgnored,   \* paths a .gitignore names: the first walk skips them, a refresh does not
  Artifacts,    \* Artifacts[s]: paths at or below the artifact paths of s, walked again
  Nothing,      \* no entry, no cache
  MaxChanges    \* bound: changes by other programs

(* What is at a path when it is no text: "skipped" is a regular file that  *)
(* is binary, not UTF-8 or too large.                                      *)
Kinds == {"absent", "dir", "skipped"}

ASSUME IndexAssumption ==
  /\ Below \in [Paths -> SUBSET Paths]
  /\ \A p \in Paths : p \notin Below[p] /\ \A q \in Below[p] : Below[q] \subseteq Below[p]
  /\ SymbolsOf \in [SourceTexts -> Seq(Names)]
  /\ Excluded \in [Settings -> SUBSET Paths]
  \* what lies in an excluded directory is excluded: WorkspaceExclusions::new refuses
  \* negated patterns, and is_ignored tries the parents of a path too
  /\ \A s \in Settings : \A p \in Excluded[s] : Below[p] \subseteq Excluded[s]
  /\ GitIgnored \subseteq Paths
  /\ Artifacts \in [Settings -> SUBSET Paths]
  /\ Kinds \cap SourceTexts = {}
  /\ Nothing \notin Settings
  /\ Nothing \notin [hash : SourceTexts, symbols : Seq(Names)]
  /\ MaxChanges \in Nat

Entries == [hash : SourceTexts, symbols : Seq(Names)]

VARIABLES
  tree,        \* what is at each path
  pending,     \* reported paths that were not drained yet
  unseen,      \* history: paths whose last change nobody reported, or whose report is lost
  phase,       \* "down", "scanning", "artifacts", "storing", "up"
  settings,    \* the settings of the open workspace
  toRead,      \* listed or drained paths still to be read
  cached,      \* the symbol cache loaded for this scan
  files,       \* files of CodeIndex: entry of each path, or Nothing
  postings,    \* symbol_index: paths and positions declaring each name
  acc,         \* snapshot_acc: digests XORed, as the set that is odd in it
  cacheFile,   \* index.json
  changes      \* changes so far

indexVars == <<files, postings, acc>>
treeVars == <<tree, pending, unseen, changes>>
allIndexVars == <<treeVars, phase, settings, toRead, cached, indexVars, cacheFile>>

-----------------------------------------------------------------------------
(* The in-memory index. *)

Digest(p, hash) == <<p, hash>>
Xor(a, b) == (a \ b) \union (b \ a)

Held(f) == {p \in Paths : f[p] # Nothing}
SymbolPositions(entry, n) == {i \in DOMAIN entry.symbols : entry.symbols[i] = n}

(* CodeIndex::remove, for several paths at once as in remove_tree.         *)
Removed(ix, ps) ==
  LET gone == ps \intersect Held(ix.files)
      Mentions(n) == \E p \in gone : SymbolPositions(ix.files[p], n) # {} IN
    [files |-> [p \in Paths |-> IF p \in gone THEN Nothing ELSE ix.files[p]],
     postings |-> [n \in Names |->
                     IF Mentions(n)
                     THEN {at \in ix.postings[n] :
                             ~ (at[1] \in gone /\ SymbolPositions(ix.files[at[1]], n) # {})}
                     ELSE ix.postings[n]],
     acc |-> Xor(ix.acc, {Digest(p, ix.files[p].hash) : p \in gone})]

(* Mutant: the entry that is replaced is not removed first. *)
InsertedOver(ix, p, entry) ==
  [files |-> [ix.files EXCEPT ![p] = entry],
   postings |-> [n \in Names |-> ix.postings[n] \union
                   {<<p, i>> : i \in SymbolPositions(entry, n)}],
   acc |-> Xor(ix.acc, {Digest(p, entry.hash)})]

(* CodeIndex::insert. *)
Inserted(ix, p, entry) ==
  LET without == Removed(ix, {p}) IN
    [files |-> [without.files EXCEPT ![p] = entry],
     postings |-> [n \in Names |-> without.postings[n] \union
                     {<<p, i>> : i \in SymbolPositions(entry, n)}],
     acc |-> Xor(without.acc, {Digest(p, entry.hash)})]

ThisIndex == [files |-> files, postings |-> postings, acc |-> acc]
NewIndex == [files |-> [p \in Paths |-> Nothing],
             postings |-> [n \in Names |-> {}], acc |-> {}]
SetIndex(ix) == files' = ix.files /\ postings' = ix.postings /\ acc' = ix.acc

(* Mutant: the hash a cached file was parsed for is not compared. *)
CachedForPath(p, t) == IF cached = Nothing THEN Nothing ELSE cached[p]

(* SymbolCache::symbols_for. *)
SymbolsFor(p, t) ==
  IF cached = Nothing \/ cached[p] = Nothing THEN Nothing
  ELSE IF cached[p].hash = t THEN cached[p] ELSE Nothing

(* read_entry of a file with text t. *)
EntryFor(p, t) ==
  [hash |-> t, symbols |-> IF SymbolsFor(p, t) = Nothing THEN SymbolsOf[t]
                           ELSE SymbolsFor(p, t).symbols]

-----------------------------------------------------------------------------
IndexTypeOK ==
  /\ tree \in [Paths -> SourceTexts \union Kinds]
  /\ pending \subseteq Paths
  /\ unseen \subseteq Paths
  /\ phase \in {"down", "scanning", "artifacts", "storing", "up"}
  /\ settings \in Settings \union {Nothing}
  /\ phase # "down" => settings \in Settings
  /\ toRead \subseteq Paths
  /\ phase \in {"down", "storing"} => toRead = {}
  /\ cached \in [Paths -> Entries \union {Nothing}] \union {Nothing}
  /\ files \in [Paths -> Entries \union {Nothing}]
  /\ postings \in [Names -> SUBSET (Paths \X Nat)]
  /\ acc \subseteq Paths \X SourceTexts
  /\ changes \in 0..MaxChanges

IndexInit ==
  /\ tree = [p \in Paths |-> "absent"]
  /\ pending = {} /\ unseen = {} /\ toRead = {}
  /\ phase = "down"
  /\ settings = Nothing /\ cached = Nothing /\ cacheFile = Nothing
  /\ files = NewIndex.files /\ postings = NewIndex.postings /\ acc = NewIndex.acc
  /\ changes = 0

(* The tree after p became k: nothing is left below a path that is no      *)
(* directory, and a path exists only inside directories.                   *)
TreeWith(p, k) ==
  [q \in Paths |-> IF q = p THEN k
                   ELSE IF q \in Below[p] /\ k # "dir" THEN "absent" ELSE tree[q]]

(* The files once below x of which no report tells: x was a directory and  *)
(* becomes something else at once, or its removal is not handled yet and   *)
(* what is there now will be found instead.                                *)
Unreported(x) ==
  IF tree[x] = "dir" \/ (tree[x] = "absent" /\ x \in pending \union toRead)
  THEN Below[x] \ (pending \union toRead) ELSE {}

(* The watcher runs once the workspace is up; it names x for a change that *)
(* makes x a thing of kind k, and says nothing of the paths in others.     *)
Notify(x, k, others) ==
  IF phase = "up"
  THEN /\ pending' = pending \union {x}
       /\ unseen' = IF k = "absent" THEN unseen \ ({x} \union Below[x])
                    ELSE (unseen \ {x}) \union Unreported(x) \union others
  ELSE unseen' = unseen \union {x} \union Below[x] /\ UNCHANGED pending

(* Another program writes, replaces or removes p; removing a directory is  *)
(* reported for the directory alone.                                       *)
ChangePath(p, k) ==
  /\ changes < MaxChanges
  /\ changes' = changes + 1
  /\ tree[p] # k
  /\ \A d \in Paths : p \in Below[d] => tree[d] = "dir"
  /\ tree' = TreeWith(p, k)
  /\ Notify(p, k, {})
  /\ UNCHANGED <<phase, settings, toRead, cached, indexVars, cacheFile>>

(* A directory is moved into the workspace with a file in it: the watcher  *)
(* names the directory only.                                               *)
MoveIn(d, p, t) ==
  /\ changes < MaxChanges
  /\ changes' = changes + 1
  /\ tree[d] = "absent"
  /\ p \in Below[d]
  /\ \A e \in Paths : (d \in Below[e] \/ (p \in Below[e] /\ e # d)) => tree[e] = "dir"
  /\ tree' = [tree EXCEPT ![d] = "dir", ![p] = t]
  /\ Notify(d, "dir", {p} \union Below[p])
  /\ UNCHANGED <<phase, settings, toRead, cached, indexVars, cacheFile>>

-----------------------------------------------------------------------------
(* Opening. *)

(* cache::load: another document, or one for other settings, is a miss.    *)
Load(s) == IF cacheFile # Nothing /\ cacheFile.settings = s THEN cacheFile.files
           ELSE Nothing

(* What a walk lists under settings s: regular files that are not excluded.*)
Walked(s, ps) ==
  {p \in ps \ Excluded[s] : tree[p] \in SourceTexts \union {"skipped"}}

(* scan_cached loads the cache and the walk of the root lists what Git     *)
(* does not ignore.                                                        *)
OpenWorkspace(s) ==
  /\ phase = "down"
  /\ phase' = "scanning"
  /\ settings' = s
  /\ cached' = Load(s)
  /\ toRead' = Walked(s, Paths \ GitIgnored)
  /\ SetIndex(NewIndex)
  /\ pending' = {}
  /\ unseen' = {}
  /\ UNCHANGED <<tree, changes, cacheFile>>

(* scan_directory reads a listed file; its entry is inserted if it is text.*)
ScanFile(p) ==
  /\ phase \in {"scanning", "artifacts"}
  /\ p \in toRead
  /\ toRead' = toRead \ {p}
  /\ IF tree[p] \in SourceTexts THEN SetIndex(Inserted(ThisIndex, p, EntryFor(p, tree[p])))
     ELSE UNCHANGED indexVars
  /\ UNCHANGED <<treeVars, phase, settings, cached, cacheFile>>

(* The artifact paths are walked next, ignored by Git or not; the model    *)
(* walks them together.                                                    *)
WalkArtifacts ==
  /\ phase = "scanning"
  /\ toRead = {}
  /\ phase' = "artifacts"
  /\ toRead' = Walked(settings, Artifacts[settings])
  /\ UNCHANGED <<treeVars, settings, cached, indexVars, cacheFile>>

(* cache::store writes and syncs a temporary file,                         *)
WriteCache ==
  /\ phase = "artifacts"
  /\ toRead = {}
  /\ phase' = "storing"
  /\ UNCHANGED <<treeVars, settings, toRead, cached, indexVars, cacheFile>>

(* and renames it over the previous cache; the watcher starts.             *)
RenameCache ==
  /\ phase = "storing"
  /\ cacheFile' = [settings |-> settings, files |-> files]
  /\ phase' = "up"
  /\ cached' = Nothing
  /\ UNCHANGED <<treeVars, settings, toRead, indexVars>>

(* The process dies or the open fails (a read or the store of the cache    *)
(* returns an error): what was built is lost, a temporary file is ignored. *)
Crash ==
  /\ phase # "down"
  /\ phase' = "down"
  /\ SetIndex(NewIndex)
  /\ pending' = {} /\ toRead' = {}
  /\ settings' = Nothing /\ cached' = Nothing
  /\ UNCHANGED <<tree, unseen, changes, cacheFile>>

-----------------------------------------------------------------------------
(* Reconciling. *)

(* drain_pending skips excluded paths and whatever is a directory now.     *)
Drain ==
  /\ phase = "up"
  /\ pending # {} /\ toRead = {}
  /\ toRead' = {p \in pending \ Excluded[settings] : tree[p] # "dir"}
  /\ pending' = {}
  /\ UNCHANGED <<tree, unseen, changes, phase, settings, cached, indexVars, cacheFile>>

(* Mutant: a missing path removes its own entry only. *)
RefreshPathOnly(p) ==
  /\ phase = "up"
  /\ p \in toRead
  /\ toRead' = toRead \ {p}
  /\ CASE tree[p] \in SourceTexts -> SetIndex(Inserted(ThisIndex, p, EntryFor(p, tree[p])))
       [] tree[p] = "skipped" -> UNCHANGED indexVars
       [] OTHER -> SetIndex(Removed(ThisIndex, {p}))
  /\ UNCHANGED <<treeVars, phase, settings, cached, cacheFile>>

(* refresh_paths, one path: no regular file there removes the tree; a file *)
(* that cannot be indexed leaves its entry alone.                          *)
RefreshPath(p) ==
  /\ phase = "up"
  /\ p \in toRead
  /\ toRead' = toRead \ {p}
  /\ CASE tree[p] \in SourceTexts -> SetIndex(Inserted(ThisIndex, p, EntryFor(p, tree[p])))
       [] tree[p] = "skipped" -> UNCHANGED indexVars
       [] OTHER -> SetIndex(Removed(ThisIndex, {p} \union Below[p]))
  /\ UNCHANGED <<treeVars, phase, settings, cached, cacheFile>>

(* The read of a regular file fails: refresh_paths returns the error, and  *)
(* nobody reads what is left of the paths that were drained.               *)
RefreshFails ==
  /\ phase = "up"
  /\ \E p \in toRead : tree[p] \in SourceTexts \union {"skipped"}
  /\ toRead' = {}
  /\ unseen' = unseen \union ((UNION {{p} \union Below[p] : p \in toRead}) \ pending)
  /\ UNCHANGED <<tree, pending, changes, phase, settings, cached, indexVars, cacheFile>>

IndexNext ==
  \/ \E p \in Paths, k \in SourceTexts \union Kinds : ChangePath(p, k)
  \/ \E d, p \in Paths, t \in SourceTexts : MoveIn(d, p, t)
  \/ \E s \in Settings : OpenWorkspace(s)
  \/ \E p \in Paths : ScanFile(p) \/ RefreshPath(p)
  \/ WalkArtifacts \/ WriteCache \/ RenameCache \/ Crash \/ Drain \/ RefreshFails

IndexSpec == IndexInit /\ [][IndexNext]_allIndexVars

-----------------------------------------------------------------------------
(* Properties. *)

(* The postings and the digest are those of the files held, however the    *)
(* index got there: find_symbols misses nothing and names no file that is  *)
(* gone, and equal file sets have equal snapshot ids.                      *)
PostingsExact ==
  \A n \in Names : postings[n] =
    UNION {{<<p, i>> : i \in SymbolPositions(files[p], n)} : p \in Held(files)}
DigestExact == acc = {Digest(p, files[p].hash) : p \in Held(files)}
IndexDerived == PostingsExact /\ DigestExact

(* Symbols are always those of the text they are stored with, whatever the *)
(* cache held, which run wrote it and where that run died.                 *)
SymbolsOfContent ==
  \A p \in Held(files) : files[p].symbols = SymbolsOf[files[p].hash]

(* Once the reported paths are re-read, the index agrees with the tree at  *)
(* every path whose last change was reported to a refresh that did not     *)
(* fail: text is indexed as it is, and nothing is indexed that is gone,    *)
(* itself or with the directory it was in.  (A file that became binary, or *)
(* a directory, keeps the entry it had; what lies in a directory that is   *)
(* replaced before its removal is handled is reported by nobody, nor is a  *)
(* file moved in with its directory; and what Git ignores is not indexed   *)
(* before it changes, unless it is an artifact.)                           *)
Caught ==
  (phase = "up" /\ pending = {} /\ toRead = {}) =>
    \A p \in Paths \ (unseen \union Excluded[settings]) :
      /\ (tree[p] \in SourceTexts /\ p \notin GitIgnored \ Artifacts[settings])
           => files[p] = [hash |-> tree[p], symbols |-> SymbolsOf[tree[p]]]
      /\ tree[p] = "absent" => files[p] = Nothing

(* The index is what a fresh one of the same files would be, symbols       *)
(* included (index/store.rs insert and remove, index/cache.rs).            *)
IndexSound == IndexTypeOK /\ IndexDerived /\ SymbolsOfContent

=============================================================================
