----------------------------- MODULE RunProofs -----------------------------
(***************************************************************************)
(* Proofs about what outlives a run: that overlapping evictions over stale *)
(* copies keep the table of runs sound, for any number of runs and any     *)
(* limit (src/bash.rs RunTable), and that what a client reads of a run's   *)
(* output is what the process wrote, for any bytes, chunks, limits and     *)
(* reads (src/bash/output.rs).                                             *)
(***************************************************************************)
EXTENDS RunTable, RunOutput, FiniteSetTheorems, SequenceLemmas, TLAPS

-----------------------------------------------------------------------------
(* The table. *)

Started == {r \in Runs : insert[r] # "none"}
Reading == {r \in Runs : insert[r] = "reading"}

(* The runs that are active or ended after v did.                          *)
Newer(v) == ActiveRuns \union {s \in EndedRuns : endedAt[s] > endedAt[v]}

(* What r's insert may still evict.                                        *)
Candidates(r) == unread[r] \union seen[r]

(* A run has a record once it is inserted; its end is the newest one.      *)
RecordsKept ==
  /\ IsFiniteSet(Started)
  /\ \A r \in Runs : status[r] = "absent" <=> insert[r] = "none"
  /\ \A r \in Reading : status[r] = "active"
  /\ table \subseteq Started
  /\ \A r \in EndedRuns : endedAt[r] <= Cardinality(EndedRuns)
  /\ \A r \in Runs \ Reading : unread[r] = {} /\ seen[r] = {}
  /\ \A r \in Runs : seen[r] \subseteq EndedRuns

(* The copy an insert works on: D had ended when it was taken, A was       *)
(* active.  What is in A ends after all of D, and D alone is enough to     *)
(* bring the table down to the limit.                                      *)
Copied(r, D, A) ==
  /\ D \subseteq EndedRuns
  /\ A \subseteq ActiveRuns \union EndedRuns
  /\ D \intersect A = {}
  /\ D \subseteq Candidates(r)
  /\ Candidates(r) \subseteq D \union A
  /\ Cardinality(D \union A) = Retain + excess[r]
  /\ Cardinality(A) <= Retain
  /\ \A a \in A : status[a] = "active" \/ \A d \in D : endedAt[a] > endedAt[d]

CopiesKept == \A r \in Reading : \E D, A \in SUBSET Runs : Copied(r, D, A)

(* RetentionBound does not survive an eviction by itself: another insert   *)
(* may have removed the victims before.  It holds whichever of the inserts *)
(* in progress have evicted whatever they may.                             *)
MayEvict(R, V) == \A r \in R : V[r] \subseteq Candidates(r) /\ Cardinality(V[r]) = excess[r]

EvictionsSuffice ==
  \A R \in SUBSET Reading : \A V \in [Runs -> SUBSET Runs] :
    MayEvict(R, V) =>
      Cardinality(table \ UNION {V[r] : r \in R}) <= Retain + Cardinality(Reading \ R)

TableInv ==
  /\ TableTypeOK /\ RecordsKept /\ ActiveRetained
  /\ CopiesKept /\ EvictionsSuffice /\ EvictedOnlyForNewer

-----------------------------------------------------------------------------
(* Sizes of finite sets. *)
LEMMA Smaller ==
  ASSUME NEW S, NEW T, IsFiniteSet(S), T \subseteq S
  PROVE  /\ IsFiniteSet(T) /\ Cardinality(T) \in Nat /\ Cardinality(S) \in Nat
         /\ Cardinality(T) <= Cardinality(S)
<1>1. IsFiniteSet(T) /\ Cardinality(T) <= Cardinality(S)
  BY FS_Subset
<1> QED BY <1>1, FS_CardinalityType

LEMMA OneMore ==
  ASSUME NEW S, NEW x, IsFiniteSet(S), x \notin S
  PROVE  IsFiniteSet(S \union {x}) /\ Cardinality(S \union {x}) = Cardinality(S) + 1
BY FS_AddElement

LEMMA Rest ==
  ASSUME NEW S, NEW T, IsFiniteSet(S), T \subseteq S
  PROVE  /\ IsFiniteSet(S \ T) /\ Cardinality(S \ T) = Cardinality(S) - Cardinality(T)
         /\ Cardinality(S) \in Nat /\ Cardinality(T) \in Nat
<1>1. S \intersect T = T
  OBVIOUS
<1>2. IsFiniteSet(S \ T) /\ Cardinality(S \ T) = Cardinality(S) - Cardinality(S \intersect T)
  BY FS_Difference
<1> QED BY <1>1, <1>2, Smaller

(* Everything a table is made of is finite.                                *)
LEMMA AllFinite ==
  ASSUME TableTypeOK, RecordsKept
  PROVE  /\ ActiveRuns \subseteq Started /\ EndedRuns \subseteq Started
         /\ Reading \subseteq Started
         /\ IsFiniteSet(Started) /\ IsFiniteSet(ActiveRuns) /\ IsFiniteSet(EndedRuns)
         /\ IsFiniteSet(Reading) /\ IsFiniteSet(table)
         /\ \A S \in SUBSET Started : IsFiniteSet(S) /\ Cardinality(S) \in Nat
<1>1. /\ IsFiniteSet(Started) /\ table \subseteq Started
      /\ ActiveRuns \subseteq Started /\ EndedRuns \subseteq Started /\ Reading \subseteq Started
  BY DEF RecordsKept, ActiveRuns, EndedRuns, Started, Reading
<1>2. \A S \in SUBSET Started : IsFiniteSet(S) /\ Cardinality(S) \in Nat
  BY <1>1, Smaller
<1> QED BY <1>1, <1>2

-----------------------------------------------------------------------------
(* The steps.  A new record, inserted into a table that has room.          *)

(* What both forms of Insert do.                                           *)
LEMMA InsertFacts ==
  ASSUME TableInv, NEW r \in Runs, Insert(r)
  PROVE  /\ r \notin Started /\ r \notin table /\ r \notin ActiveRuns /\ r \notin EndedRuns
         /\ ActiveRuns' = ActiveRuns \union {r} /\ EndedRuns' = EndedRuns
         /\ Started' = Started \union {r}
         /\ table' = table \union {r}
         /\ UNCHANGED <<endedAt, seen>>
         /\ status' = [status EXCEPT ![r] = "active"]
<1>0. TableTypeOK /\ RecordsKept
  BY DEF TableInv
<1>1. /\ insert[r] = "none" /\ status' = [status EXCEPT ![r] = "active"]
      /\ table' = table \union {r} /\ UNCHANGED <<endedAt, seen>>
      /\ \E v \in {"done", "reading"} : insert' = [insert EXCEPT ![r] = v]
  BY DEF Insert
<1>2. status[r] = "absent" /\ r \notin Started /\ r \notin table
  BY <1>0, <1>1 DEF RecordsKept, Started
<1>3. ActiveRuns' = ActiveRuns \union {r} /\ EndedRuns' = EndedRuns
  BY <1>0, <1>1, <1>2 DEF ActiveRuns, EndedRuns, TableTypeOK
<1>4. Started' = Started \union {r}
  BY <1>0, <1>1 DEF Started, TableTypeOK
<1> QED BY <1>1, <1>2, <1>3, <1>4 DEF ActiveRuns, EndedRuns

LEMMA InsertKeepsEvicted ==
  ASSUME TableInv, NEW r \in Runs, Insert(r)
  PROVE  ActiveRetained' /\ EvictedOnlyForNewer'
<1>0. TableTypeOK /\ RecordsKept /\ ActiveRetained /\ EvictedOnlyForNewer
  BY DEF TableInv
<1>1. /\ r \notin EndedRuns /\ EndedRuns' = EndedRuns /\ ActiveRuns' = ActiveRuns \union {r}
      /\ table' = table \union {r} /\ endedAt' = endedAt
      /\ ActiveRuns \subseteq Started /\ EndedRuns \subseteq Started /\ IsFiniteSet(Started)
      /\ \A S \in SUBSET Started : IsFiniteSet(S) /\ Cardinality(S) \in Nat
  BY <1>0, InsertFacts, AllFinite
<1>2. ActiveRetained'
  BY <1>0, <1>1 DEF ActiveRetained
<1>3. ASSUME NEW v \in EndedRuns' \ table' PROVE Cardinality(Newer(v)') >= Retain
  <2>1. v \in EndedRuns \ table
    BY <1>1, <1>3
  <2>2. Cardinality(Newer(v)) >= Retain
    BY <1>0, <2>1 DEF EvictedOnlyForNewer, Newer
  <2>3. Newer(v)' = Newer(v) \union {r} /\ Newer(v) \subseteq Started
    BY <1>1 DEF Newer
  <2>4. IsFiniteSet(Newer(v)) /\ IsFiniteSet(Newer(v) \union {r})
    BY <1>1, <2>3, FS_AddElement
  <2>5. Cardinality(Newer(v)) <= Cardinality(Newer(v) \union {r})
        /\ Cardinality(Newer(v)) \in Nat /\ Cardinality(Newer(v) \union {r}) \in Nat
    BY <2>4, Smaller
  <2> QED BY <2>2, <2>3, <2>5, TableAssumption
<1> QED BY <1>2, <1>3 DEF EvictedOnlyForNewer, Newer

LEMMA InsertKeepsCopies ==
  ASSUME TableInv, NEW r \in Runs, Insert(r), NEW q \in Reading,
         UNCHANGED <<unread[q], seen[q], excess[q]>>
  PROVE  \E D, A \in SUBSET Runs : Copied(q, D, A)'
<1>0. TableTypeOK /\ RecordsKept /\ CopiesKept
  BY DEF TableInv
<1>1. PICK D \in SUBSET Runs, A \in SUBSET Runs : Copied(q, D, A)
  BY <1>0 DEF CopiesKept
<1>2. /\ r \notin ActiveRuns \union EndedRuns
      /\ EndedRuns' = EndedRuns /\ ActiveRuns' = ActiveRuns \union {r}
      /\ endedAt' = endedAt /\ status' = [status EXCEPT ![r] = "active"]
  BY InsertFacts
<1>3. \A a \in A : status'[a] = status[a]
  BY <1>0, <1>1, <1>2 DEF Copied, TableTypeOK
<1>4. Candidates(q)' = Candidates(q)
  BY DEF Candidates
<1>5. Copied(q, D, A)'
  BY <1>1, <1>2, <1>3, <1>4 DEF Copied
<1> QED BY <1>5

LEMMA InsertOK ==
  ASSUME TableInv, NEW r \in Runs, Insert(r)
  PROVE  TableInv'
<1>0. TableTypeOK /\ RecordsKept /\ CopiesKept /\ EvictionsSuffice /\ ActiveRetained
  BY DEF TableInv
<1> DEFINE runs == table \union {r}
<1>1. /\ r \notin Started /\ r \notin table /\ r \notin ActiveRuns /\ r \notin EndedRuns
      /\ ActiveRuns' = ActiveRuns \union {r} /\ EndedRuns' = EndedRuns
      /\ Started' = Started \union {r} /\ table' = runs
      /\ UNCHANGED <<endedAt, seen>>
      /\ status' = [status EXCEPT ![r] = "active"]
  BY InsertFacts
<1>2. ActiveRetained' /\ EvictedOnlyForNewer'
  BY InsertKeepsEvicted
<1>3. /\ IsFiniteSet(Started) /\ IsFiniteSet(ActiveRuns) /\ IsFiniteSet(Reading)
      /\ IsFiniteSet(table) /\ Reading \subseteq Started
  BY <1>0, AllFinite
<1>4. /\ IsFiniteSet(runs) /\ Cardinality(runs) \in Nat
      /\ IsFiniteSet(Started') /\ runs \subseteq Started'
  BY <1>0, <1>1, <1>3, FS_AddElement, FS_CardinalityType DEF RecordsKept
<1>5. Retain \in Nat /\ MaxActive \in Nat /\ MaxActive <= Retain
  BY TableAssumption
<1> HIDE DEF runs
<1>6. CASE Cardinality(runs) <= Retain
  <2>1. insert' = [insert EXCEPT ![r] = "done"] /\ UNCHANGED <<excess, unread>>
    BY <1>6 DEF Insert, runs
  <2>2. Reading' = Reading /\ r \notin Reading
    BY <1>0, <1>1, <2>1 DEF Reading, TableTypeOK, Started
  <2>3. TableTypeOK'
    BY <1>0, <1>1, <2>1 DEF TableTypeOK, runs
  <2>4. RecordsKept'
    BY <1>0, <1>1, <1>4, <2>1, <2>2 DEF RecordsKept, TableTypeOK, Reading
  <2>5. CopiesKept'
    BY <1>1, <2>1, <2>2, InsertKeepsCopies DEF CopiesKept
  <2>6. EvictionsSuffice'
    <3>1. ASSUME NEW R \in SUBSET Reading, NEW S PROVE Cardinality(runs \ S) <= Retain + Cardinality(Reading \ R)
      <4>1. /\ Cardinality(runs \ S) \in Nat /\ Cardinality(runs \ S) <= Cardinality(runs)
        BY <1>4, Smaller
      <4>2. Cardinality(Reading \ R) \in Nat
        BY <1>3, Smaller
      <4> QED BY <1>4, <1>5, <1>6, <4>1, <4>2
    <3> QED BY <1>1, <2>2, <3>1 DEF EvictionsSuffice
  <2> QED BY <1>2, <2>3, <2>4, <2>5, <2>6 DEF TableInv
<1>7. CASE ~(Cardinality(runs) <= Retain)
  <2>1. /\ insert' = [insert EXCEPT ![r] = "reading"]
        /\ excess' = [excess EXCEPT ![r] = Cardinality(runs) - Retain]
        /\ unread' = [unread EXCEPT ![r] = runs]
        /\ Cardinality(ActiveRuns) < MaxActive
    BY <1>7 DEF Insert, runs
  <2>2. Cardinality(runs) - Retain \in Nat
    BY <1>4, <1>5, <1>7
  <2>3. Reading' = Reading \union {r} /\ r \notin Reading
    BY <1>0, <1>1, <2>1 DEF Reading, TableTypeOK, Started
  <2>4. TableTypeOK'
    BY <1>0, <1>1, <2>1, <2>2 DEF TableTypeOK, runs
  <2>5. RecordsKept'
    BY <1>0, <1>1, <1>4, <2>1, <2>3 DEF RecordsKept, TableTypeOK
  <2>6. seen[r] = {} /\ Candidates(r)' = runs
    BY <1>0, <1>1, <2>1, <2>3 DEF RecordsKept, TableTypeOK, Candidates
  <2>7. \A q \in Reading : UNCHANGED <<unread[q], seen[q], excess[q]>> /\ Candidates(q)' = Candidates(q)
    BY <1>0, <1>1, <2>1, <2>3 DEF TableTypeOK, Candidates, Reading
  <2>8. CopiesKept'
    <3>0. PICK D \in SUBSET Runs, A \in SUBSET Runs :
            D = runs \intersect EndedRuns /\ A = runs \intersect ActiveRuns'
      BY DEF ActiveRuns, EndedRuns
    <3>1. D \union A = runs
      BY <1>0, <1>1, <3>0 DEF RecordsKept, ActiveRuns, EndedRuns, Started, TableTypeOK, runs
    <3>2. D \intersect A = {}
      BY <1>1, <3>0 DEF ActiveRuns, EndedRuns
    <3>3. Cardinality(A) <= Retain
      <4>1. /\ IsFiniteSet(ActiveRuns \union {r})
            /\ Cardinality(ActiveRuns \union {r}) = Cardinality(ActiveRuns) + 1
        BY <1>1, <1>3, OneMore
      <4>2. /\ Cardinality(A) \in Nat /\ Cardinality(A) <= Cardinality(ActiveRuns \union {r})
            /\ Cardinality(ActiveRuns) \in Nat
        BY <1>1, <1>3, <3>0, <4>1, Smaller, FS_CardinalityType
      <4> QED BY <1>5, <2>1, <4>1, <4>2
    <3>4. Cardinality(runs) = Retain + excess'[r]
      BY <1>0, <1>4, <1>5, <2>1 DEF TableTypeOK
    <3>5. \A a \in A : status'[a] = "active"
      BY <3>0 DEF ActiveRuns
    <3>7. Copied(r, D, A)'
      <4>1. /\ D \subseteq EndedRuns' /\ A \subseteq ActiveRuns' \union EndedRuns'
            /\ D \subseteq Candidates(r)' /\ Candidates(r)' \subseteq D \union A
        BY <1>1, <2>6, <3>0, <3>1
      <4> QED BY <3>1, <3>2, <3>3, <3>4, <3>5, <4>1 DEF Copied
    <3>8. \E X, Y \in SUBSET Runs : Copied(r, X, Y)'
      BY <3>7
    <3> QED BY <2>3, <2>7, <3>8, InsertKeepsCopies DEF CopiesKept
  <2>9. EvictionsSuffice'
    <3>1. ASSUME NEW R \in SUBSET Reading', NEW V \in [Runs -> SUBSET Runs], MayEvict(R, V)'
          PROVE  Cardinality(runs \ UNION {V[q] : q \in R}) <= Retain + Cardinality(Reading' \ R)
      <4> DEFINE U == UNION {V[q] : q \in R}
      <4>0. IsFiniteSet(Reading') /\ Cardinality(Reading' \ R) \in Nat
        BY <1>3, <2>3, Smaller, FS_AddElement
      <4>1. CASE r \in R
        <5>1. V[r] \subseteq runs /\ Cardinality(V[r]) = Cardinality(runs) - Retain
          BY <1>0, <2>1, <2>6, <3>1, <4>1 DEF MayEvict, TableTypeOK
        <5>2. IsFiniteSet(runs \ V[r]) /\ Cardinality(runs \ V[r]) = Cardinality(runs) - Cardinality(V[r])
          BY <1>4, <5>1, Rest
        <5>3. runs \ U \subseteq runs \ V[r]
          BY <4>1
        <5>4. /\ Cardinality(runs \ U) <= Cardinality(runs \ V[r])
              /\ Cardinality(runs \ U) \in Nat /\ Cardinality(runs \ V[r]) \in Nat
          BY <5>2, <5>3, Smaller
        <5> QED BY <1>4, <1>5, <4>0, <5>1, <5>2, <5>4
      <4>2. CASE r \notin R
        <5>1. R \in SUBSET Reading /\ MayEvict(R, V)
          BY <2>3, <2>7, <3>1, <4>2 DEF MayEvict
        <5>2. Cardinality(table \ U) <= Retain + Cardinality(Reading \ R)
          BY <1>0, <5>1 DEF EvictionsSuffice
        <5> HIDE DEF U
        <5>3. runs \ U \subseteq (table \ U) \union {r}
          BY DEF runs
        <5>4. /\ IsFiniteSet(table \ U) /\ r \notin table \ U /\ IsFiniteSet(Reading \ R)
              /\ Cardinality(table \ U) \in Nat /\ Cardinality(Reading \ R) \in Nat
          BY <1>1, <1>3, Smaller
        <5>5. /\ IsFiniteSet((table \ U) \union {r})
              /\ Cardinality((table \ U) \union {r}) = Cardinality(table \ U) + 1
          BY <5>4, OneMore
        <5>6. Cardinality(runs \ U) <= Cardinality((table \ U) \union {r})
              /\ Cardinality(runs \ U) \in Nat
          BY <5>3, <5>5, Smaller
        <5>7. Reading' \ R = (Reading \ R) \union {r} /\ r \notin Reading \ R
          BY <2>3, <4>2
        <5>8. Cardinality(Reading' \ R) = Cardinality(Reading \ R) + 1
          BY <5>4, <5>7, OneMore
        <5>9. Cardinality(runs \ U) <= Retain + Cardinality(Reading' \ R)
          BY <1>5, <5>2, <5>4, <5>5, <5>6, <5>8
        <5> QED BY <5>9 DEF U
      <4> QED BY <4>1, <4>2
    <3> QED BY <1>1, <3>1 DEF EvictionsSuffice
  <2> QED BY <1>2, <2>4, <2>5, <2>8, <2>9 DEF TableInv
<1> QED BY <1>6, <1>7

LEMMA ReadRecordOK ==
  ASSUME TableInv, NEW r \in Runs, NEW s \in Runs, ReadRecord(r, s)
  PROVE  TableInv'
<1>0. TableTypeOK /\ RecordsKept /\ CopiesKept /\ EvictionsSuffice
  BY DEF TableInv
<1>1. /\ r \in Reading /\ s \in unread[r]
      /\ unread' = [unread EXCEPT ![r] = unread[r] \ {s}]
      /\ seen' = [seen EXCEPT ![r] = IF status[s] = "ended" THEN seen[r] \union {s} ELSE seen[r]]
      /\ UNCHANGED <<table, status, endedAt, insert, excess>>
  BY DEF ReadRecord, Reading
<1>2. /\ ActiveRuns' = ActiveRuns /\ EndedRuns' = EndedRuns /\ Started' = Started
      /\ Reading' = Reading
  BY <1>1 DEF ActiveRuns, EndedRuns, Started, Reading
<1>3. /\ \A q \in Runs : Candidates(q)' \subseteq Candidates(q)
      /\ \A q \in Runs : Candidates(q) \intersect EndedRuns \subseteq Candidates(q)'
  BY <1>0, <1>1 DEF Candidates, TableTypeOK, EndedRuns
<1>4. TableTypeOK'
  BY <1>0, <1>1 DEF TableTypeOK
<1>5. RecordsKept'
  BY <1>0, <1>1, <1>2 DEF RecordsKept, TableTypeOK, EndedRuns
<1>6. CopiesKept'
  <2>1. ASSUME NEW q \in Reading PROVE \E D, A \in SUBSET Runs : Copied(q, D, A)'
    <3>1. PICK D \in SUBSET Runs, A \in SUBSET Runs : Copied(q, D, A)
      BY <1>0 DEF CopiesKept
    <3>2. Copied(q, D, A)'
      BY <1>1, <1>2, <1>3, <3>1 DEF Copied, Reading
    <3> QED BY <3>2
  <2> QED BY <1>2, <2>1 DEF CopiesKept
<1>7. EvictionsSuffice'
  <2>1. ASSUME NEW R \in SUBSET Reading, NEW V, MayEvict(R, V)' PROVE MayEvict(R, V)
    BY <1>1, <1>3, <2>1 DEF MayEvict, Reading
  <2> QED BY <1>0, <1>1, <1>2, <2>1 DEF EvictionsSuffice
<1>8. ActiveRetained' /\ EvictedOnlyForNewer'
  BY <1>1, <1>2 DEF TableInv, ActiveRetained, EvictedOnlyForNewer
<1> QED BY <1>4, <1>5, <1>6, <1>7, <1>8 DEF TableInv

LEMMA EvictOK ==
  ASSUME TableInv, NEW r \in Runs, Evict(r)
  PROVE  TableInv'
<1>0. TableTypeOK /\ RecordsKept /\ CopiesKept /\ EvictionsSuffice
      /\ ActiveRetained /\ EvictedOnlyForNewer
  BY DEF TableInv
<1>1. PICK W \in SUBSET seen[r] : IsOldest(W, seen[r], excess[r]) /\ table' = table \ W
  BY DEF Evict
<1>2. /\ r \in Reading /\ unread[r] = {} /\ insert' = [insert EXCEPT ![r] = "done"]
      /\ seen' = [seen EXCEPT ![r] = {}] /\ excess' = [excess EXCEPT ![r] = 0]
      /\ UNCHANGED <<status, endedAt, unread>>
  BY DEF Evict, Reading
<1>3. /\ ActiveRuns' = ActiveRuns /\ EndedRuns' = EndedRuns /\ Started' = Started
      /\ Reading' = Reading \ {r}
  BY <1>0, <1>2 DEF ActiveRuns, EndedRuns, Started, Reading, TableTypeOK
<1>4. \A q \in Reading \ {r} : Candidates(q)' = Candidates(q) /\ excess'[q] = excess[q]
  BY <1>0, <1>2 DEF Candidates, TableTypeOK, Reading
<1>5. TableTypeOK'
  BY <1>0, <1>1, <1>2 DEF TableTypeOK
<1>6. RecordsKept'
  BY <1>0, <1>1, <1>2, <1>3 DEF RecordsKept, TableTypeOK, Reading
<1>7. CopiesKept'
  <2>1. ASSUME NEW q \in Reading \ {r} PROVE \E D, A \in SUBSET Runs : Copied(q, D, A)'
    <3>1. PICK D \in SUBSET Runs, A \in SUBSET Runs : Copied(q, D, A)
      BY <1>0 DEF CopiesKept
    <3>2. Copied(q, D, A)'
      BY <1>2, <1>3, <1>4, <3>1 DEF Copied
    <3> QED BY <3>2
  <2> QED BY <1>3, <2>1 DEF CopiesKept
<1>8. PICK D \in SUBSET Runs, A \in SUBSET Runs : Copied(r, D, A)
  BY <1>0, <1>2 DEF CopiesKept
<1>9. /\ IsFiniteSet(Started) /\ ActiveRuns \subseteq Started /\ EndedRuns \subseteq Started
      /\ \A S \in SUBSET Started : IsFiniteSet(S) /\ Cardinality(S) \in Nat
  BY <1>0, AllFinite
<1>10. /\ seen[r] \subseteq EndedRuns /\ D \subseteq seen[r] /\ seen[r] \subseteq D \union A
       /\ IsFiniteSet(D) /\ IsFiniteSet(A) /\ IsFiniteSet(W) /\ IsFiniteSet(D \union A)
       /\ Cardinality(D) \in Nat /\ Cardinality(A) \in Nat /\ Cardinality(W) \in Nat
       /\ W \subseteq D \union A /\ Retain \in Nat /\ excess[r] \in Nat
  <2>1. /\ seen[r] \subseteq EndedRuns /\ D \subseteq seen[r] /\ seen[r] \subseteq D \union A
        /\ D \union A \subseteq Started
    BY <1>0, <1>2, <1>8, <1>9 DEF RecordsKept, Copied, Candidates
  <2>2. D \in SUBSET Started /\ A \in SUBSET Started /\ W \in SUBSET Started
        /\ D \union A \in SUBSET Started /\ W \subseteq D \union A
    BY <2>1
  <2>3. Retain \in Nat /\ excess[r] \in Nat
    BY <1>0, TableAssumption DEF TableTypeOK
  <2> QED BY <1>9, <2>1, <2>2, <2>3
(* What ended before the copy was taken is enough.                         *)
<1>11. Cardinality(D) >= excess[r]
  <2>1. D \intersect A = {} /\ Cardinality(D \union A) = Retain + excess[r] /\ Cardinality(A) <= Retain
    BY <1>8 DEF Copied
  <2>2. (D \union A) \ A = D /\ A \subseteq D \union A
    BY <2>1
  <2>3. Cardinality(D) = Cardinality(D \union A) - Cardinality(A)
    BY <1>10, <2>2, Rest
  <2> QED BY <1>10, <2>1, <2>3
<1>12. Cardinality(W) = excess[r]
  <2>1. SUFFICES ASSUME Cardinality(seen[r]) < excess[r] PROVE FALSE
    BY <1>1 DEF IsOldest
  <2>2. IsFiniteSet(seen[r])
    BY <1>9, <1>10
  <2>3. Cardinality(D) <= Cardinality(seen[r]) /\ Cardinality(seen[r]) \in Nat
    BY <1>10, <2>2, Smaller
  <2> QED BY <1>10, <1>11, <2>1, <2>3
(* Nothing that was active when the copy was taken is evicted.             *)
<1>13. W \subseteq D
  <2>1. SUFFICES ASSUME NEW w \in W, w \notin D PROVE FALSE
    OBVIOUS
  <2>2. w \in A /\ status[w] # "active" /\ w \in EndedRuns
    BY <1>10, <2>1 DEF EndedRuns
  <2>3. \A d \in D : endedAt[w] > endedAt[d]
    BY <1>8, <2>2 DEF Copied
  <2>4. D \subseteq W
    <3>1. SUFFICES ASSUME NEW d \in D, d \notin W PROVE FALSE
      OBVIOUS
    <3>2. endedAt[w] < endedAt[d]
      BY <1>1, <1>10, <2>1, <3>1 DEF IsOldest
    <3>3. endedAt[w] \in Nat /\ endedAt[d] \in Nat
      BY <1>0, <1>10, <2>2, <3>1 DEF TableTypeOK, EndedRuns
    <3> QED BY <2>3, <3>1, <3>2, <3>3
  <2>5. D \union {w} \subseteq W /\ Cardinality(D \union {w}) = Cardinality(D) + 1
    BY <1>10, <2>1, <2>4, OneMore
  <2>6. Cardinality(D \union {w}) <= Cardinality(W)
    BY <1>10, <2>5, Smaller
  <2> QED BY <1>10, <1>11, <1>12, <2>5, <2>6
<1>14. ActiveRetained'
  BY <1>0, <1>1, <1>3, <1>10 DEF ActiveRetained, ActiveRuns, EndedRuns
<1>15. EvictedOnlyForNewer'
  <2>1. ASSUME NEW v \in EndedRuns \ table' PROVE Cardinality(Newer(v)) >= Retain
    <3>1. CASE v \notin table
      BY <1>0, <2>1, <3>1 DEF EvictedOnlyForNewer, Newer
    <3>2. CASE v \in table
      <4>1. v \in W /\ v \in D
        BY <1>1, <1>13, <2>1, <3>2
      <4>2. ASSUME NEW s \in (D \union A) \ W PROVE s \in Newer(v)
        <5>1. CASE s \in D
          <6>1. s \in EndedRuns /\ endedAt[v] < endedAt[s]
            BY <1>1, <1>10, <4>1, <4>2, <5>1 DEF IsOldest
          <6>2. endedAt[v] \in Nat /\ endedAt[s] \in Nat
            BY <1>0, <2>1, <6>1 DEF TableTypeOK, EndedRuns
          <6> QED BY <6>1, <6>2 DEF Newer
        <5>2. CASE s \in A
          <6>1. status[s] = "active" \/ endedAt[s] > endedAt[v]
            BY <1>8, <4>1, <5>2 DEF Copied
          <6>2. s \in ActiveRuns \union EndedRuns
            BY <1>8, <5>2 DEF Copied
          <6> QED BY <6>1, <6>2 DEF Newer, ActiveRuns, EndedRuns
        <5> QED BY <4>2, <5>1, <5>2
      <4>3. /\ Cardinality((D \union A) \ W) = Cardinality(D \union A) - Cardinality(W)
            /\ Cardinality(D \union A) \in Nat
        BY <1>10, Rest
      <4>4. Cardinality((D \union A) \ W) = Retain
        <5>1. Cardinality(D \union A) = Retain + excess[r]
          BY <1>8 DEF Copied
        <5> QED BY <1>10, <1>12, <4>3, <5>1
      <4>5. IsFiniteSet(Newer(v))
        BY <1>9 DEF Newer
      <4>6. Cardinality((D \union A) \ W) <= Cardinality(Newer(v)) /\ Cardinality(Newer(v)) \in Nat
        BY <4>2, <4>5, Smaller
      <4> QED BY <1>10, <4>4, <4>6
    <3> QED BY <3>1, <3>2
  <2>2. \A v \in Runs : Newer(v)' = Newer(v)
    BY <1>2, <1>3 DEF Newer
  <2> QED BY <1>2, <1>3, <2>1 DEF EvictedOnlyForNewer, Newer
<1>16. EvictionsSuffice'
  <2>1. ASSUME NEW R \in SUBSET Reading', NEW V \in [Runs -> SUBSET Runs], MayEvict(R, V)'
        PROVE  Cardinality(table' \ UNION {V[q] : q \in R}) <= Retain + Cardinality(Reading' \ R)
    <3>1. PICK Z \in [Runs -> SUBSET Runs] : Z = [V EXCEPT ![r] = W]
      BY <1>10, <1>3 DEF EndedRuns
    <3>2. R \union {r} \in SUBSET Reading /\ r \notin R
      BY <1>2, <1>3
    <3>3. \A q \in R : Z[q] = V[q] /\ q \in Reading \ {r}
      BY <1>3, <3>1, <3>2 DEF Reading
    <3>4. Z[r] = W
      BY <3>1
    <3>5. MayEvict(R \union {r}, Z)
      BY <1>4, <1>12, <2>1, <3>3, <3>4 DEF MayEvict, Candidates
    <3>6. Cardinality(table \ UNION {Z[q] : q \in R \union {r}})
            <= Retain + Cardinality(Reading \ (R \union {r}))
      BY <1>0, <3>2, <3>5 DEF EvictionsSuffice
    <3>7. table \ UNION {Z[q] : q \in R \union {r}} = table' \ UNION {V[q] : q \in R}
      BY <1>1, <3>3, <3>4
    <3>8. Reading \ (R \union {r}) = Reading' \ R
      BY <1>3
    <3> QED BY <3>6, <3>7, <3>8
  <2> QED BY <2>1 DEF EvictionsSuffice
<1> QED BY <1>5, <1>6, <1>7, <1>14, <1>15, <1>16 DEF TableInv

LEMMA EndOK ==
  ASSUME TableInv, NEW r \in Runs, End(r)
  PROVE  TableInv'
<1>0. TableTypeOK /\ RecordsKept /\ CopiesKept /\ EvictionsSuffice
      /\ ActiveRetained /\ EvictedOnlyForNewer
  BY DEF TableInv
<1>1. /\ status[r] = "active" /\ insert[r] = "done"
      /\ status' = [status EXCEPT ![r] = "ended"]
      /\ endedAt' = [endedAt EXCEPT ![r] = Cardinality(EndedRuns) + 1]
      /\ UNCHANGED <<table, insert, excess, unread, seen>>
  BY DEF End
<1>2. /\ ActiveRuns' = ActiveRuns \ {r} /\ EndedRuns' = EndedRuns \union {r}
      /\ r \in ActiveRuns /\ r \notin EndedRuns
      /\ Started' = Started /\ Reading' = Reading
  BY <1>0, <1>1 DEF ActiveRuns, EndedRuns, Started, Reading, TableTypeOK
<1>3. /\ IsFiniteSet(Started) /\ ActiveRuns \subseteq Started /\ EndedRuns \subseteq Started
      /\ \A S \in SUBSET Started : IsFiniteSet(S) /\ Cardinality(S) \in Nat
  BY <1>0, AllFinite
<1>4. Cardinality(EndedRuns) \in Nat /\ Cardinality(EndedRuns') = Cardinality(EndedRuns) + 1
  BY <1>2, <1>3, OneMore
<1>5. \A s \in EndedRuns : endedAt'[s] = endedAt[s] /\ endedAt[s] \in Nat /\ endedAt'[r] > endedAt[s]
  <2>1. ASSUME NEW s \in EndedRuns
        PROVE  endedAt'[s] = endedAt[s] /\ endedAt[s] \in Nat /\ endedAt'[r] > endedAt[s]
    <3>1. s # r /\ s \in Runs /\ endedAt[s] <= Cardinality(EndedRuns)
      BY <1>0, <1>2 DEF RecordsKept, EndedRuns
    <3>2. endedAt'[s] = endedAt[s] /\ endedAt[s] \in Nat /\ endedAt'[r] = Cardinality(EndedRuns) + 1
      BY <1>0, <1>1, <3>1 DEF TableTypeOK
    <3> QED BY <1>4, <3>1, <3>2
  <2> QED BY <2>1
<1>6. TableTypeOK'
  BY <1>0, <1>1, <1>4 DEF TableTypeOK
<1>7. RecordsKept'
  <2>1. \A s \in EndedRuns' : endedAt'[s] <= Cardinality(EndedRuns')
    <3>1. endedAt'[r] = Cardinality(EndedRuns) + 1
      BY <1>0, <1>1 DEF TableTypeOK
    <3>2. \A s \in EndedRuns : endedAt'[s] <= Cardinality(EndedRuns) + 1
      BY <1>0, <1>4, <1>5 DEF RecordsKept
    <3> QED BY <1>2, <1>4, <3>1, <3>2
  <2>2. \A s \in Runs : (status'[s] = "absent" <=> insert[s] = "none")
    BY <1>0, <1>1 DEF RecordsKept, TableTypeOK
  <2>3. \A s \in Reading : status'[s] = "active"
    BY <1>0, <1>1 DEF RecordsKept, TableTypeOK, Reading
  <2> QED BY <1>0, <1>1, <1>2, <2>1, <2>2, <2>3 DEF RecordsKept
<1>8. CopiesKept'
  <2>1. ASSUME NEW q \in Reading PROVE \E D, A \in SUBSET Runs : Copied(q, D, A)'
    <3>1. PICK D \in SUBSET Runs, A \in SUBSET Runs : Copied(q, D, A)
      BY <1>0 DEF CopiesKept
    <3>2. ASSUME NEW a \in A
          PROVE  status'[a] = "active" \/ \A d \in D : endedAt'[a] > endedAt'[d]
      <4>1. D \subseteq EndedRuns /\ a \in ActiveRuns \union EndedRuns
        BY <3>1 DEF Copied
      <4>2. CASE a = r
        BY <1>5, <4>1, <4>2
      <4>3. CASE a # r
        <5>1. status'[a] = status[a] /\ endedAt'[a] = endedAt[a]
          BY <1>0, <1>1, <4>3 DEF TableTypeOK
        <5>2. status[a] = "active" \/ \A d \in D : endedAt[a] > endedAt[d]
          BY <3>1 DEF Copied
        <5> QED BY <1>5, <4>1, <5>1, <5>2
      <4> QED BY <4>2, <4>3
    <3>3. Candidates(q)' = Candidates(q) /\ excess' = excess
      BY <1>1 DEF Candidates
    <3>4. D \subseteq EndedRuns' /\ A \subseteq ActiveRuns' \union EndedRuns'
      BY <1>2, <3>1 DEF Copied
    <3>5. Copied(q, D, A)'
      BY <3>1, <3>2, <3>3, <3>4 DEF Copied
    <3> QED BY <3>5
  <2> QED BY <1>2, <2>1 DEF CopiesKept
<1>9. ActiveRetained'
  BY <1>0, <1>1, <1>2 DEF ActiveRetained
<1>10. EvictedOnlyForNewer'
  <2>1. ASSUME NEW v \in EndedRuns' \ table PROVE Cardinality(Newer(v)') >= Retain
    <3>1. v \in EndedRuns \ table
      BY <1>0, <1>2, <2>1 DEF ActiveRetained
    <3>2. Cardinality(Newer(v)) >= Retain
      BY <1>0, <3>1 DEF EvictedOnlyForNewer, Newer
    <3>3. Newer(v) \subseteq Newer(v)' /\ Newer(v)' \subseteq Started
      BY <1>2, <1>3, <1>5, <3>1 DEF Newer
    <3>4. IsFiniteSet(Newer(v)')
      BY <1>3, <3>3
    <3>5. Cardinality(Newer(v)) <= Cardinality(Newer(v)')
          /\ Cardinality(Newer(v)) \in Nat /\ Cardinality(Newer(v)') \in Nat
      BY <3>3, <3>4, Smaller
    <3> QED BY <3>2, <3>5, TableAssumption
  <2> QED BY <1>1, <2>1 DEF EvictedOnlyForNewer, Newer
<1>11. EvictionsSuffice'
  BY <1>0, <1>1, <1>2 DEF EvictionsSuffice, MayEvict, Candidates
<1> QED BY <1>6, <1>7, <1>8, <1>9, <1>10, <1>11 DEF TableInv

-----------------------------------------------------------------------------
LEMMA InitTable == TableInit => TableInv
<1> SUFFICES ASSUME TableInit PROVE TableInv
  OBVIOUS
<1>1. TableTypeOK
  BY DEF TableInit, TableTypeOK
<1>2. Started = {} /\ Reading = {} /\ ActiveRuns = {} /\ EndedRuns = {}
  BY DEF TableInit, Started, Reading, ActiveRuns, EndedRuns
<1>3. IsFiniteSet({}) /\ Cardinality({}) = 0
  BY FS_EmptySet
<1>4. RecordsKept
  BY <1>2, <1>3 DEF TableInit, RecordsKept
<1>5. CopiesKept /\ ActiveRetained /\ EvictedOnlyForNewer
  BY <1>2 DEF CopiesKept, ActiveRetained, EvictedOnlyForNewer
<1>6. EvictionsSuffice
  <2>1. \A S, R : {} \ S = {} /\ Reading \ R = {}
    BY <1>2
  <2>2. 0 <= Retain + 0 /\ table = {}
    BY TableAssumption DEF TableInit
  <2> QED BY <1>3, <2>1, <2>2 DEF EvictionsSuffice
<1> QED BY <1>1, <1>4, <1>5, <1>6 DEF TableInv

(* Overlapping inserts that evict from stale copies keep every active run, *)
(* end within the limit, and never let go of a run before the runs that    *)
(* ended later fill the table (bash.rs RunTable::insert).                  *)
THEOREM EvictionIsSound == TableSpec => []EvictionSound
<1>1. ASSUME TableInv, [TableNext]_tableVars PROVE TableInv'
  <2>1. CASE \E r \in Runs : Insert(r)
    BY <1>1, <2>1, InsertOK
  <2>2. CASE \E r \in Runs : Evict(r)
    BY <1>1, <2>2, EvictOK
  <2>3. CASE \E r \in Runs : End(r)
    BY <1>1, <2>3, EndOK
  <2>4. CASE \E r, s \in Runs : ReadRecord(r, s)
    BY <1>1, <2>4, ReadRecordOK
  <2>5. CASE UNCHANGED tableVars
    <3>1. UNCHANGED <<table, status, endedAt, insert, excess, unread, seen>>
      BY <2>5 DEF tableVars
    <3>2. UNCHANGED <<Started, Reading, ActiveRuns, EndedRuns>>
      BY <3>1 DEF Started, Reading, ActiveRuns, EndedRuns
    <3>3. TableTypeOK' /\ RecordsKept' /\ ActiveRetained' /\ EvictedOnlyForNewer'
      BY <1>1, <3>1, <3>2, Zenon
         DEF TableInv, TableTypeOK, RecordsKept, ActiveRetained, EvictedOnlyForNewer
    <3>4. CopiesKept'
      BY <1>1, <3>1, <3>2 DEF TableInv, CopiesKept, Copied, Candidates
    <3>5. EvictionsSuffice'
      BY <1>1, <3>1, <3>2 DEF TableInv, EvictionsSuffice, MayEvict, Candidates
    <3> QED BY <3>3, <3>4, <3>5 DEF TableInv
  <2> QED BY <1>1, <2>1, <2>2, <2>3, <2>4, <2>5 DEF TableNext
<1>2. ASSUME TableInv PROVE EvictionSound
  <2>1. RetentionBound
    <3>1. MayEvict({}, [r \in Runs |-> {}]) /\ [r \in Runs |-> {}] \in [Runs -> SUBSET Runs]
      BY DEF MayEvict
    <3>2. Cardinality(table \ UNION {[r \in Runs |-> {}][q] : q \in {}})
            <= Retain + Cardinality(Reading \ {})
      BY <1>2, <3>1 DEF TableInv, EvictionsSuffice
    <3>3. table \ UNION {[r \in Runs |-> {}][q] : q \in {}} = table /\ Reading \ {} = Reading
      OBVIOUS
    <3> QED BY <3>2, <3>3 DEF RetentionBound, Reading
  <2> QED BY <1>2, <2>1 DEF TableInv, EvictionSound
<1> QED BY InitTable, <1>1, <1>2, PTL DEF TableSpec

-----------------------------------------------------------------------------
(* The output: decoding. *)

Lefts == {<<>>, <<"e2">>, <<"e3">>, <<"e3", "tail">>}
Read == [chars : Seq(Chars), left : Seq(Bytes)]

(* A sequence has at most three bytes, all in the text; only an incomplete *)
(* one at the end of the text has none.                                    *)
LEMMA SequenceAtType ==
  ASSUME NEW bytes \in Seq(Bytes), NEW i \in 1..Len(bytes)
  PROVE  /\ SequenceAt(bytes, i).char \in Chars
         /\ SequenceAt(bytes, i).size \in 0..3
         /\ i + SequenceAt(bytes, i).size <= Len(bytes) + 1
         /\ SequenceAt(bytes, i).size = 0 =>
              \/ i = Len(bytes) /\ bytes[i] \in {"e2", "e3"}
              \/ i + 1 = Len(bytes) /\ bytes[i] = "e3" /\ bytes[i + 1] = "tail"
<1>1. bytes[i] \in Bytes  OBVIOUS
<1> DEFINE b == bytes[i]
<1>2. CASE b = "tail"
  <2>1. SequenceAt(bytes, i) = [char |-> "bad", size |-> 1]  BY <1>2 DEF SequenceAt
  <2> QED  BY <1>2, <2>1 DEF Chars
<1>3. CASE b = "e2"  BY <1>3 DEF SequenceAt, Chars, Bytes
<1>4. CASE b = "e3"  BY <1>4 DEF SequenceAt, Chars, Bytes
<1>5. CASE b \notin {"tail", "e2", "e3"}
  <2>1. SequenceAt(bytes, i) = [char |-> b, size |-> 1]  BY <1>5 DEF SequenceAt
  <2> QED  BY <1>1, <1>5, <2>1 DEF Chars
<1> QED  BY <1>2, <1>3, <1>4, <1>5

(* The sequence at a place is the same in every text that goes on from     *)
(* there in the same way; more bytes change it only if it was incomplete.  *)
LEMMA SequenceAtSuffix ==
  ASSUME NEW bytes \in Seq(Bytes), NEW k \in 0..Len(bytes),
         NEW j \in 1..Len(bytes) - k
  PROVE  SequenceAt(bytes, k + j) = SequenceAt(SubSeq(bytes, k + 1, Len(bytes)), j)
<1> DEFINE y == SubSeq(bytes, k + 1, Len(bytes))
           n == Len(bytes)
<1>1. y \in Seq(Bytes) /\ Len(y) = n - k
  BY SubSeqProperties
<1>2. \A m \in 1..n - k : y[m] = bytes[k + m]  BY SubSeqProperties
<1> HIDE DEF y
<1>3. y[j] = bytes[k + j]  BY <1>2
<1>4. /\ (j + 1 <= Len(y) <=> k + j + 1 <= n) /\ (j + 2 <= Len(y) <=> k + j + 2 <= n)
      /\ (j = Len(y) <=> k + j = n) /\ (j + 1 = Len(y) <=> k + j + 1 = n)  BY <1>1
<1>5. /\ j + 1 <= Len(y) => y[j + 1] = bytes[k + j + 1]
      /\ j + 2 <= Len(y) => y[j + 2] = bytes[k + j + 2]
  <2>1. /\ k + (j + 1) = k + j + 1 /\ k + (j + 2) = k + j + 2
        /\ j + 1 <= Len(y) => j + 1 \in 1..n - k
        /\ j + 2 <= Len(y) => j + 2 \in 1..n - k  BY <1>1
  <2> QED  BY <1>2, <2>1
<1>6. k + j \in 1..n /\ n \in Nat  OBVIOUS
<1>7. k + j + 1 \in Nat /\ k + j + 2 \in Nat /\ j + 1 \in Nat /\ j + 2 \in Nat  OBVIOUS
<1>8. SequenceAt(bytes, k + j) = SequenceAt(y, j)
  <2>1. CASE bytes[k + j] \notin {"e2", "e3"}  BY <1>3, <2>1 DEF SequenceAt
  <2>2. CASE bytes[k + j] = "e2"  BY <1>3, <1>4, <1>5, <2>2, Zenon DEF SequenceAt
  <2>3. CASE bytes[k + j] = "e3"  BY <1>3, <1>4, <1>5, <2>3, Zenon DEF SequenceAt
  <2> QED  BY <2>1, <2>2, <2>3
<1> QED  BY <1>8 DEF y

(* A complete sequence stays what it is when more bytes arrive.            *)
LEMMA SequenceAtMore ==
  ASSUME NEW a \in Seq(Bytes), NEW b \in Seq(Bytes), NEW i \in 1..Len(a),
         SequenceAt(a, i).size # 0
  PROVE  SequenceAt(a \o b, i) = SequenceAt(a, i)
<1> DEFINE x == a \o b
           n == Len(a)
<1>1. x \in Seq(Bytes) /\ Len(x) = n + Len(b) /\ Len(b) \in Nat /\ n \in Nat  OBVIOUS
<1>2. \A m \in 1..n : x[m] = a[m]  OBVIOUS
<1> HIDE DEF x
<1>3. /\ x[i] = a[i]
      /\ i + 1 <= n => x[i + 1] = a[i + 1]
      /\ i + 2 <= n => x[i + 2] = a[i + 2]  BY <1>1, <1>2
<1>4. CASE a[i] = "tail"  BY <1>3, <1>4 DEF SequenceAt
<1>5. CASE a[i] = "e2"
  <2>1. ~ (i = n)
    <3> SUFFICES ASSUME i = n PROVE FALSE  OBVIOUS
    <3>1. SequenceAt(a, i) = [char |-> "bad", size |-> 0]  BY <1>5 DEF SequenceAt
    <3> QED  BY <3>1
  <2>2. i < n  BY <2>1
  <2> QED  BY <1>1, <1>3, <1>5, <2>2 DEF SequenceAt
<1>6. CASE a[i] = "e3"
  <2>1. ~ (i = n)
    <3> SUFFICES ASSUME i = n PROVE FALSE  OBVIOUS
    <3>1. SequenceAt(a, i) = [char |-> "bad", size |-> 0]  BY <1>6 DEF SequenceAt
    <3> QED  BY <3>1
  <2>2. ~ (i + 1 = n /\ a[i + 1] = "tail")
    <3> SUFFICES ASSUME i + 1 = n, a[i + 1] = "tail" PROVE FALSE  OBVIOUS
    <3>1. SequenceAt(a, i) = [char |-> "bad", size |-> 0]  BY <1>6 DEF SequenceAt
    <3> QED  BY <3>1
  <2>3. i < n /\ (a[i + 1] = "tail" => i + 1 < n)  BY <2>1, <2>2
  <2> QED  BY <1>1, <1>3, <1>6, <2>3 DEF SequenceAt
<1>7. CASE a[i] \notin {"tail", "e2", "e3"}  BY <1>3, <1>7 DEF SequenceAt
<1> QED  BY <1>4, <1>5, <1>6, <1>7

(* What Utf8From computes at each place from the places after it.          *)
Utf8Step(bytes, f, i) ==
  IF i > Len(bytes) THEN [chars |-> <<>>, left |-> <<>>]
  ELSE IF SequenceAt(bytes, i).size = 0
       THEN [chars |-> <<>>, left |-> SubSeq(bytes, i, Len(bytes))]
       ELSE [chars |-> <<SequenceAt(bytes, i).char>>
                         \o f[i + SequenceAt(bytes, i).size].chars,
             left |-> f[i + SequenceAt(bytes, i).size].left]

(* Utf8From is what its definition says: the recursion is well founded.    *)
LEMMA Utf8FromDef ==
  ASSUME NEW bytes \in Seq(Bytes)
  PROVE  /\ Utf8From(bytes) \in [1..Len(bytes) + 3 -> Read]
         /\ \A i \in 1..Len(bytes) + 3 :
              Utf8From(bytes)[i] = Utf8Step(bytes, Utf8From(bytes), i)
<1> DEFINE n == Len(bytes)
           D == 1..n + 3
           Sat(f) == f = [i \in D |-> Utf8Step(bytes, f, i)]
           rank == [i \in D |-> n + 3 - i]
           body == [fi \in [D -> Read] \X D |-> Utf8Step(bytes, fi[1], fi[2])]
<1>1. n \in Nat  OBVIOUS
<1>2. rank \in [D -> 0..n + 3]  OBVIOUS
<1>3. ASSUME NEW f \in [D -> Read], NEW i \in D PROVE Utf8Step(bytes, f, i) \in Read
  <2>1. CASE i > n  BY <2>1 DEF Utf8Step, Read
  <2>2. CASE i <= n /\ SequenceAt(bytes, i).size = 0
    <3>1. SubSeq(bytes, i, n) \in Seq(Bytes)  BY <2>2
    <3> QED  BY <2>2, <3>1 DEF Utf8Step, Read
  <2>3. CASE i <= n /\ SequenceAt(bytes, i).size # 0
    <3>1. i \in 1..n  BY <2>3
    <3>2. i + SequenceAt(bytes, i).size \in D /\ SequenceAt(bytes, i).char \in Chars
      BY <3>1, SequenceAtType
    <3>3. f[i + SequenceAt(bytes, i).size] \in Read  BY <3>2
    <3>4. f[i + SequenceAt(bytes, i).size].chars \in Seq(Chars)
          /\ f[i + SequenceAt(bytes, i).size].left \in Seq(Bytes)  BY <3>3 DEF Read
    <3>5. <<SequenceAt(bytes, i).char>> \o f[i + SequenceAt(bytes, i).size].chars \in Seq(Chars)
      BY <3>2, <3>4
    <3> QED  BY <2>3, <3>4, <3>5 DEF Utf8Step, Read
  <2> QED  BY <2>1, <2>2, <2>3
<1>4. body \in [[D -> Read] \X D -> Read]  BY <1>3
<1>5. \A f \in [D -> Read], i \in D : body[<<f, i>>] = Utf8Step(bytes, f, i)  OBVIOUS
<1>6. ASSUME NEW f \in [D -> Read], NEW g \in [D -> Read], NEW i \in D,
             \A j \in D : rank[j] < rank[i] => f[j] = g[j]
      PROVE  body[<<f, i>>] = body[<<g, i>>]
  <2>1. CASE i > n  BY <2>1, <1>5 DEF Utf8Step
  <2>2. CASE i <= n /\ SequenceAt(bytes, i).size = 0  BY <2>2, <1>5 DEF Utf8Step
  <2>3. CASE i <= n /\ SequenceAt(bytes, i).size # 0
    <3>1. i \in 1..n  BY <2>3
    <3>2. SequenceAt(bytes, i).size \in 1..3  BY <2>3, <3>1, SequenceAtType
    <3>3. i + SequenceAt(bytes, i).size \in D  BY <3>1, <3>2
    <3>4. rank[i + SequenceAt(bytes, i).size] < rank[i]  BY <3>2, <3>3
    <3>5. f[i + SequenceAt(bytes, i).size] = g[i + SequenceAt(bytes, i).size]
      BY <1>6, <3>3, <3>4
    <3> QED  BY <1>5, <2>3, <3>5 DEF Utf8Step
  <2> QED  BY <2>1, <2>2, <2>3
<1>7. Read # {}
  <2>1. <<>> \in Seq(Chars) /\ <<>> \in Seq(Bytes)  OBVIOUS
  <2>2. [chars |-> <<>>, left |-> <<>>] \in Read  BY <2>1 DEF Read
  <2> QED  BY <2>2
<1> HIDE DEF rank, body
<1>8. PICK f \in [D -> Read] : \A i \in D : f[i] = body[<<f, i>>]
  <2>1. n + 3 \in Nat  BY <1>1
  <2>2. \A g, h \in [D -> Read] : \A i \in D :
          (\A j \in D : rank[j] < rank[i] => g[j] = h[j]) => body[<<g, i>>] = body[<<h, i>>]
    BY <1>6
  <2> HIDE DEF D, n
  <2>3. Recursion(D, Read, n + 3, rank, body)
    BY <1>2, <1>4, <1>7, <2>1, <2>2, Zenon DEF Recursion
  <2> QED  BY <2>3, RankedRecursion
<1>9. Sat(f)  BY <1>5, <1>8
<1>10. Utf8From(bytes) = CHOOSE g : Sat(g)  BY DEF Utf8From, Utf8Step
<1>11. Sat(Utf8From(bytes))
  <2> HIDE DEF Sat
  <2> QED  BY <1>9, <1>10
<1>12. \A i \in D : Utf8From(bytes)[i] = Utf8Step(bytes, Utf8From(bytes), i)  BY <1>11
<1>13. Utf8From(bytes) \in [D -> Read]  
  <2> DEFINE u == Utf8From(bytes)
             T == {i \in D : u[i] \in Read}
  <2>1. u = [i \in D |-> Utf8Step(bytes, u, i)]  BY <1>11
  <2>2. ASSUME NEW i \in D, \A j \in D : i < j => j \in T PROVE i \in T
    <3>1. PICK s \in Read : TRUE  BY <1>7
    <3> DEFINE v == [j \in D |-> IF i < j THEN u[j] ELSE s]
    <3>2. v \in [D -> Read]  BY <2>2
    <3>3. \A j \in D : i < j => v[j] = u[j]  OBVIOUS
    <3> HIDE DEF v, u
    <3>4. Utf8Step(bytes, v, i) \in Read  BY <1>3, <3>2
    <3>5. Utf8Step(bytes, u, i) = Utf8Step(bytes, v, i)
      <4>1. CASE i > n  BY <4>1 DEF Utf8Step
      <4>2. CASE i <= n /\ SequenceAt(bytes, i).size = 0  BY <4>2 DEF Utf8Step
      <4>3. CASE i <= n /\ SequenceAt(bytes, i).size # 0
        <5>1. i \in 1..n  BY <4>3
        <5>2. SequenceAt(bytes, i).size \in 1..3  BY <4>3, <5>1, SequenceAtType
        <5>3. i + SequenceAt(bytes, i).size \in D /\ i < i + SequenceAt(bytes, i).size
          BY <5>1, <5>2
        <5> QED  BY <3>3, <4>3, <5>3 DEF Utf8Step
      <4> QED  BY <4>1, <4>2, <4>3
    <3>6. u[i] = Utf8Step(bytes, u, i)  BY <1>12 DEF u
    <3> QED  BY <3>4, <3>5, <3>6
  <2> HIDE DEF T
  <2>3. \A i \in D : i \in T
    <3>1. n + 3 \in Nat  BY <1>1
    <3> QED  BY <2>2, <3>1, DownwardInduction
  <2> QED  BY <2>1, <2>3 DEF T
<1> QED  BY <1>12, <1>13

(* What is left over is the beginning of a sequence.                       *)
LEMMA LeftOver ==
  ASSUME NEW bytes \in Seq(Bytes)
  PROVE  \A i \in 1..Len(bytes) + 3 : Utf8From(bytes)[i].left \in Lefts
<1> DEFINE n == Len(bytes)
           u == Utf8From(bytes)
           T == {i \in 1..n + 3 : u[i].left \in Lefts}
<1>1. n \in Nat /\ n + 3 \in Nat  OBVIOUS
<1>2. \A i \in 1..n + 3 : u[i] = Utf8Step(bytes, u, i)  BY Utf8FromDef
<1>3. ASSUME NEW i \in 1..n + 3, \A j \in 1..n + 3 : i < j => j \in T PROVE i \in T
  <2> HIDE DEF u
  <2>0. u[i] = Utf8Step(bytes, u, i)  BY <1>2
  <2>1. CASE i > n
    <3>1. u[i] = [chars |-> <<>>, left |-> <<>>]  BY <2>0, <2>1 DEF Utf8Step
    <3>2. u[i].left = <<>>  BY ONLY <3>1
    <3> QED  BY <3>2 DEF Lefts
  <2>2. CASE i <= n /\ SequenceAt(bytes, i).size = 0
    <3>0. u[i] = [chars |-> <<>>, left |-> SubSeq(bytes, i, n)]  BY <2>0, <2>2 DEF Utf8Step
    <3>1. u[i].left = SubSeq(bytes, i, n)  BY ONLY <3>0
    <3>2. \/ i = n /\ bytes[i] \in {"e2", "e3"}
          \/ i + 1 = n /\ bytes[i] = "e3" /\ bytes[i + 1] = "tail"
      BY <2>2, SequenceAtType
    <3>3. CASE i = n /\ bytes[i] \in {"e2", "e3"}
      <4>1. SubSeq(bytes, i, n) = <<bytes[i]>>  BY <2>2, <3>3, SubSeqOne
      <4> QED  BY <3>1, <3>3, <4>1 DEF Lefts
    <3>4. CASE i + 1 = n /\ bytes[i] = "e3" /\ bytes[i + 1] = "tail"
      <4>1. SubSeq(bytes, i, i + 1) = <<bytes[i], bytes[i + 1]>>  BY <2>2, <3>4, SubSeqTwo
      <4> QED  BY <3>1, <3>4, <4>1 DEF Lefts
    <3> QED  BY <3>2, <3>3, <3>4
  <2>3. CASE i <= n /\ SequenceAt(bytes, i).size # 0
    <3>1. i \in 1..n  BY <2>3
    <3>2. SequenceAt(bytes, i).size \in 1..3  BY <2>3, <3>1, SequenceAtType
    <3>3. i + SequenceAt(bytes, i).size \in 1..n + 3 /\ i < i + SequenceAt(bytes, i).size
      BY <3>1, <3>2
    <3> DEFINE w == u[i + SequenceAt(bytes, i).size]
    <3>0. u[i] = [chars |-> <<SequenceAt(bytes, i).char>> \o w.chars, left |-> w.left]
      BY <2>0, <2>3 DEF Utf8Step
    <3>4. u[i].left = w.left  BY ONLY <3>0
    <3> QED  BY <1>3, <3>3, <3>4
  <2> QED  BY <2>1, <2>2, <2>3
<1> HIDE DEF T
<1>4. \A i \in 1..n + 3 : i \in T  BY <1>1, <1>3, DownwardInduction
<1> QED  BY <1>4 DEF T

(* Decoding from a place is decoding what follows it.                      *)
LEMMA Utf8Suffix ==
  ASSUME NEW bytes \in Seq(Bytes), NEW k \in 0..Len(bytes)
  PROVE  \A j \in 1..Len(bytes) - k + 3 :
           Utf8From(bytes)[k + j] = Utf8From(SubSeq(bytes, k + 1, Len(bytes)))[j]
<1> DEFINE n == Len(bytes)
           y == SubSeq(bytes, k + 1, n)
           m == n - k
           u == Utf8From(bytes)
           v == Utf8From(y)
           T == {j \in 1..m + 3 : u[k + j] = v[j]}
<1>1. n \in Nat /\ m \in Nat /\ m + 3 \in Nat  OBVIOUS
<1>2. y \in Seq(Bytes) /\ Len(y) = m  BY SubSeqProperties
<1>3. \A i \in 1..n + 3 : u[i] = Utf8Step(bytes, u, i)  BY Utf8FromDef
<1>4. \A i \in 1..m + 3 : v[i] = Utf8Step(y, v, i)  BY <1>2, Utf8FromDef
<1>5. \A j \in 1..m : SequenceAt(bytes, k + j) = SequenceAt(y, j)  BY SequenceAtSuffix
<1>6. \A j \in 1..m : SubSeq(bytes, k + j, n) = SubSeq(y, j, m)  OBVIOUS
<1>7. ASSUME NEW j \in 1..m + 3, \A i \in 1..m + 3 : j < i => i \in T PROVE j \in T
  <2> HIDE DEF u, v, y
  <2>1. k + j \in 1..n + 3 /\ (k + j > n <=> j > m)  OBVIOUS
  <2>2. u[k + j] = Utf8Step(bytes, u, k + j) /\ v[j] = Utf8Step(y, v, j)
    BY <1>3, <1>4, <2>1
  <2>3. CASE j > m  BY <1>2, <2>1, <2>2, <2>3 DEF Utf8Step
  <2>4. CASE j <= m
    <3>1. j \in 1..m  BY <2>4
    <3> DEFINE s == SequenceAt(y, j)
    <3>2. s = SequenceAt(bytes, k + j)  BY <1>5, <3>1
    <3>3. SubSeq(bytes, k + j, n) = SubSeq(y, j, m)  BY <1>6, <3>1
    <3>4. s.size \in 0..3 BY <1>2, <3>1, SequenceAtType
    <3> HIDE DEF s
    <3>5. CASE s.size = 0
      <4>1. u[k + j] = [chars |-> <<>>, left |-> SubSeq(bytes, k + j, n)]
        BY <2>1, <2>2, <2>4, <3>2, <3>5 DEF Utf8Step
      <4>2. v[j] = [chars |-> <<>>, left |-> SubSeq(y, j, m)]
        BY <1>2, <2>2, <2>4, <3>5 DEF Utf8Step, s
      <4> QED  BY <3>3, <4>1, <4>2
    <3>6. CASE s.size # 0
      <4>0. s.size \in 1..3  BY <3>4, <3>6
      <4> DEFINE Next(i) == j + i \in 1..m + 3 /\ j < j + i /\ k + (j + i) = k + j + i
      <4>5. \A i \in 1..3 : Next(i)  BY <3>1
      <4> HIDE DEF Next
      <4>6. Next(s.size)  BY <4>0, <4>5
      <4>1. j + s.size \in 1..m + 3 /\ j < j + s.size /\ k + (j + s.size) = k + j + s.size
        BY <4>6, Zenon DEF Next
      <4>2. u[k + j + s.size] = v[j + s.size]  BY <1>7, <4>1
      <4>3. u[k + j] = [chars |-> <<s.char>> \o u[k + j + s.size].chars,
                        left |-> u[k + j + s.size].left]
        BY <2>1, <2>2, <2>4, <3>2, <3>6 DEF Utf8Step
      <4>4. v[j] = [chars |-> <<s.char>> \o v[j + s.size].chars, left |-> v[j + s.size].left]
        BY <1>2, <2>2, <2>4, <3>6 DEF Utf8Step, s
      <4> QED  BY <4>2, <4>3, <4>4
    <3> QED  BY <3>5, <3>6
  <2> QED  BY <2>3, <2>4
<1> HIDE DEF T
<1>8. \A j \in 1..m + 3 : j \in T  BY <1>1, <1>7, DownwardInduction
<1> QED  BY <1>8 DEF T

(* Decoding two chunks one after the other, the bytes left over by the     *)
(* first put before the second, is decoding them together.                 *)
LEMMA Utf8Chunks ==
  ASSUME NEW a \in Seq(Bytes), NEW b \in Seq(Bytes)
  PROVE  Utf8(a \o b) = [chars |-> Utf8(a).chars \o Utf8(Utf8(a).left \o b).chars,
                         left |-> Utf8(Utf8(a).left \o b).left]
<1> DEFINE n == Len(a)
           x == a \o b
           u == Utf8From(x)
           v == Utf8From(a)
           T == {i \in 1..n + 1 :
                   u[i] = [chars |-> v[i].chars \o Utf8(v[i].left \o b).chars,
                           left |-> Utf8(v[i].left \o b).left]}
<1>1. n \in Nat /\ n + 1 \in Nat /\ x \in Seq(Bytes) /\ Len(x) = n + Len(b) /\ Len(b) \in Nat
  OBVIOUS
<1>2. \A i \in 1..n : i <= Len(x)  BY <1>1
<1>3. \A i \in 1..Len(x) + 3 : u[i] = Utf8Step(x, u, i)  BY <1>1, Utf8FromDef
<1>4. /\ \A i \in 1..n + 3 : v[i] = Utf8Step(a, v, i)
      /\ v \in [1..n + 3 -> Read]  BY Utf8FromDef
<1>5. \A y \in Seq(Bytes) : Utf8(y) \in Read
  <2> SUFFICES ASSUME NEW y \in Seq(Bytes) PROVE Utf8From(y)[1] \in Read  BY DEF Utf8
  <2>1. 1 \in 1..Len(y) + 3  OBVIOUS
  <2> QED  BY <2>1, Utf8FromDef
<1>6. ASSUME NEW i \in 1..n + 1 PROVE u[i] = Utf8(SubSeq(x, i, Len(x)))
  <2>1. i - 1 \in 0..Len(x) /\ 1 \in 1..Len(x) - (i - 1) + 3 /\ (i - 1) + 1 = i  BY <1>1
  <2> QED  BY <1>1, <2>1, Utf8Suffix DEF Utf8
<1>7. ASSUME NEW i \in 1..n + 1, \A j \in 1..n + 1 : i < j => j \in T PROVE i \in T
  <2>1. u[i] = Utf8Step(x, u, i) /\ v[i] = Utf8Step(a, v, i)  BY <1>1, <1>3, <1>4
  <2>2. u[i] = Utf8(SubSeq(x, i, Len(x)))  BY <1>6
  <2>3. SubSeq(x, i, Len(x)) \in Seq(Bytes)  BY <1>1
  <2>4. CASE i = n + 1 \/ SequenceAt(a, i).size = 0
    <3>1. v[i].chars = <<>> /\ v[i].left \o b = SubSeq(x, i, Len(x))
      <4>1. CASE i = n + 1
        <5>1. v[i] = [chars |-> <<>>, left |-> <<>>]  BY <2>1, <4>1 DEF Utf8Step
        <5> QED  BY <4>1, <5>1
      <4>2. CASE i # n + 1
        <5>1. v[i] = [chars |-> <<>>, left |-> SubSeq(a, i, n)]
          BY <2>1, <2>4, <4>2 DEF Utf8Step
        <5>2. SubSeq(a, i, n) \o b = SubSeq(x, i, Len(x))  BY EndOfConcat
        <5>3. v[i].chars = <<>> /\ v[i].left = SubSeq(a, i, n)  BY ONLY <5>1
        <5> QED  BY <5>2, <5>3
      <4> QED  BY <4>1, <4>2
    <3>2. Utf8(SubSeq(x, i, Len(x))) \in Read  BY <1>5, <2>3
    <3> HIDE DEF u, v, x
    <3>3. u[i] = [chars |-> u[i].chars, left |-> u[i].left] /\ u[i].chars \in Seq(Chars)
      BY <2>2, <3>2 DEF Read
    <3>4. <<>> \o u[i].chars = u[i].chars  BY <3>3
    <3> QED  BY <2>2, <3>1, <3>3, <3>4
  <2>5. CASE i # n + 1 /\ SequenceAt(a, i).size # 0
    <3> DEFINE q == SequenceAt(a, i)
    <3>1. i \in 1..n  BY <2>5
    <3>2. SequenceAt(x, i) = q  BY <2>5, <3>1, SequenceAtMore
    <3>3. q.size \in 1..3 /\ q.char \in Chars /\ i + q.size <= n + 1
      BY <2>5, <3>1, SequenceAtType
    <3> HIDE DEF q, u, v, x
    <3>4. i + q.size \in 1..n + 1 /\ i < i + q.size  BY <3>1, <3>3
    <3>5. PICK chars, left : chars = v[i + q.size].chars /\ left = v[i + q.size].left
      OBVIOUS
    <3>6. PICK more, rest : more = Utf8(left \o b).chars /\ rest = Utf8(left \o b).left
      OBVIOUS
    <3>7. v[i + q.size] \in Read  BY <1>4, <3>4
    <3>8. left \in Seq(Bytes) /\ chars \in Seq(Chars)  BY <3>5, <3>7 DEF Read
    <3>9. left \o b \in Seq(Bytes)  BY <3>8
    <3>10. more \in Seq(Chars)  BY <1>5, <3>6, <3>9 DEF Read
    <3>11. <<q.char>> \in Seq(Chars)  BY <3>3
    <3>12. u[i + q.size] = [chars |-> chars \o more, left |-> rest]
      BY <1>7, <3>4, <3>5, <3>6
    <3>13. v[i] = [chars |-> <<q.char>> \o chars, left |-> left]
      BY <2>1, <2>5, <3>1, <3>5 DEF Utf8Step, q
    <3>14. u[i] = [chars |-> <<q.char>> \o u[i + q.size].chars, left |-> u[i + q.size].left]
      BY <1>1, <1>2, <2>1, <2>5, <3>1, <3>2 DEF Utf8Step, q
    <3>15. u[i] = [chars |-> <<q.char>> \o (chars \o more), left |-> rest]
      BY <3>12, <3>14
    <3>16. <<q.char>> \o (chars \o more) = (<<q.char>> \o chars) \o more
      <4>1. Associates(<<q.char>>, chars, more)  BY <3>8, <3>10, <3>11, ConcatAssociates
      <4> QED  BY <4>1 DEF Associates
    <3>17. v[i].chars = <<q.char>> \o chars /\ v[i].left = left  BY <3>13
    <3> QED  BY <3>6, <3>15, <3>16, <3>17
  <2> QED  BY <2>4, <2>5
<1> HIDE DEF T
<1>8. \A i \in 1..n + 1 : i \in T  BY <1>1, <1>7, DownwardInduction
<1>9. 1 \in T  BY <1>1, <1>8
<1> QED  BY <1>9 DEF T, Utf8

Seen == [ansi : AnsiStates, out : Seq(Chars)]

(* One character of strip_ansi, from what the characters before it gave.   *)
AnsiStep(state, chars, f, k) ==
  IF k = 0 THEN [ansi |-> state, out |-> <<>>]
  ELSE [ansi |-> NextAnsi(f[k - 1].ansi, chars[k]),
        out |-> IF f[k - 1].ansi = "Text" /\ chars[k] # "esc"
                THEN Append(f[k - 1].out, chars[k])
                ELSE f[k - 1].out]

(* Types of the escape state machine.                                      *)
LEMMA NextAnsiType ==
  ASSUME NEW state \in AnsiStates, NEW c PROVE NextAnsi(state, c) \in AnsiStates
BY DEF NextAnsi, AnsiStates

(* One character of strip_ansi keeps the types.                            *)
LEMMA AnsiStepType ==
  ASSUME NEW state \in AnsiStates, NEW chars \in Seq(Chars), NEW k \in 0..Len(chars),
         NEW f, k # 0 => f[k - 1] \in Seen
  PROVE  AnsiStep(state, chars, f, k) \in Seen
<1>1. CASE k = 0
  <2>1. <<>> \in Seq(Chars)  OBVIOUS
  <2> QED  BY <1>1, <2>1 DEF AnsiStep, Seen
<1>2. CASE k # 0
  <2>1. chars[k] \in Chars  BY <1>2
  <2>2. f[k - 1].ansi \in AnsiStates /\ f[k - 1].out \in Seq(Chars)  BY <1>2 DEF Seen
  <2>3. Append(f[k - 1].out, chars[k]) \in Seq(Chars)  BY <2>1, <2>2
  <2>4. NextAnsi(f[k - 1].ansi, chars[k]) \in AnsiStates  BY <2>2, NextAnsiType
  <2>5. (IF f[k - 1].ansi = "Text" /\ chars[k] # "esc"
         THEN Append(f[k - 1].out, chars[k]) ELSE f[k - 1].out) \in Seq(Chars)
    BY <2>2, <2>3
  <2> QED  BY <1>2, <2>4, <2>5 DEF AnsiStep, Seen
<1> QED  BY <1>1, <1>2

(* AnsiAfter is what its definition says.                                  *)
LEMMA AnsiAfterDef ==
  ASSUME NEW state \in AnsiStates, NEW chars \in Seq(Chars)
  PROVE  \A k \in 0..Len(chars) :
           /\ AnsiAfter(state, chars)[k] \in Seen
           /\ AnsiAfter(state, chars)[k] = AnsiStep(state, chars, AnsiAfter(state, chars), k)
<1> DEFINE n == Len(chars)
           D == 0..n
           Sat(f) == f = [k \in D |-> AnsiStep(state, chars, f, k)]
           rank == [k \in D |-> k]
           body == [fk \in [D -> Seen] \X D |-> AnsiStep(state, chars, fk[1], fk[2])]
           u == AnsiAfter(state, chars)
<1>1. n \in Nat /\ rank \in [D -> 0..n]  OBVIOUS
<1>2. ASSUME NEW f \in [D -> Seen], NEW k \in D PROVE AnsiStep(state, chars, f, k) \in Seen
  <2>1. k # 0 => k - 1 \in D  OBVIOUS
  <2> QED  BY <2>1, AnsiStepType
<1>3. body \in [[D -> Seen] \X D -> Seen]  BY <1>2
<1>4. \A f \in [D -> Seen], k \in D : body[<<f, k>>] = AnsiStep(state, chars, f, k)  OBVIOUS
<1>5. ASSUME NEW f \in [D -> Seen], NEW g \in [D -> Seen], NEW k \in D,
             \A j \in D : rank[j] < rank[k] => f[j] = g[j]
      PROVE  body[<<f, k>>] = body[<<g, k>>]
  <2>1. k # 0 => k - 1 \in D /\ rank[k - 1] < rank[k]  OBVIOUS
  <2>2. k # 0 => f[k - 1] = g[k - 1]  BY <1>5, <2>1
  <2> QED  BY <1>4, <2>2 DEF AnsiStep
<1>6. Seen # {}
  <2>1. [ansi |-> "Text", out |-> <<>>] \in Seen  BY DEF Seen, AnsiStates
  <2> QED  BY <2>1
<1> HIDE DEF rank, body
<1>7. PICK f \in [D -> Seen] : \A k \in D : f[k] = body[<<f, k>>]
  <2>1. \A g, h \in [D -> Seen] : \A k \in D :
          (\A j \in D : rank[j] < rank[k] => g[j] = h[j]) => body[<<g, k>>] = body[<<h, k>>]
    BY <1>5
  <2> HIDE DEF D, n
  <2>2. Recursion(D, Seen, n, rank, body)  BY <1>1, <1>3, <1>6, <2>1, Zenon DEF Recursion
  <2> QED  BY <2>2, RankedRecursion
<1>8. Sat(f)  BY <1>4, <1>7
<1>9. u = CHOOSE g : Sat(g)  BY DEF AnsiAfter, AnsiStep
<1>10. Sat(u)
  <2> HIDE DEF Sat
  <2> QED  BY <1>8, <1>9
<1>11. \A k \in D : u[k] = AnsiStep(state, chars, u, k)  BY <1>10
<1> HIDE DEF u
<1> DEFINE T == {k \in Nat : k \in D => u[k] \in Seen}
<1>12. 0 \in T
  <2>1. 0 \in D  BY <1>1
  <2>2. AnsiStep(state, chars, u, 0) \in Seen  BY <2>1, AnsiStepType
  <2> QED  BY <1>11, <2>1, <2>2
<1>13. ASSUME NEW k \in Nat, k \in T PROVE k + 1 \in T
  <2> SUFFICES ASSUME k + 1 \in D PROVE u[k + 1] \in Seen  OBVIOUS
  <2>1. k \in D /\ (k + 1) - 1 = k  BY <1>1
  <2>2. AnsiStep(state, chars, u, k + 1) \in Seen  BY <1>13, <2>1, AnsiStepType
  <2> QED  BY <1>11, <2>2
<1>14. \A k \in Nat : k \in T
  <2> HIDE DEF T
  <2> QED  BY <1>12, <1>13, NumberInduction
<1>15. \A k \in D : u[k] \in Seen  BY <1>14
<1> QED  BY <1>11, <1>15 DEF u

(* Stripping two texts one after the other is stripping them together.     *)
LEMMA AnsiTexts ==
  ASSUME NEW state \in AnsiStates, NEW a \in Seq(Chars), NEW b \in Seq(Chars)
  PROVE  /\ StripAnsi(state, a) \in Seen
         /\ StripAnsi(StripAnsi(state, a).ansi, b) \in Seen
         /\ StripAnsi(state, a \o b) =
              [ansi |-> StripAnsi(StripAnsi(state, a).ansi, b).ansi,
               out |-> StripAnsi(state, a).out \o StripAnsi(StripAnsi(state, a).ansi, b).out]
<1> DEFINE n == Len(a)
           m == Len(b)
           x == a \o b
           first == AnsiAfter(state, a)
<1>1. n \in Nat /\ m \in Nat /\ x \in Seq(Chars) /\ Len(x) = n + m  OBVIOUS
<1>2. /\ \A k \in 1..n : x[k] = a[k]
      /\ \A k \in 1..m : x[n + k] = b[k]  OBVIOUS
<1>3. \A k \in 0..n : first[k] \in Seen /\ first[k] = AnsiStep(state, a, first, k)  BY AnsiAfterDef
<1>4. PICK w : w = AnsiAfter(state, x)  OBVIOUS
<1>5. \A k \in 0..n + m : w[k] \in Seen /\ w[k] = AnsiStep(state, x, w, k)
  BY <1>1, <1>4, AnsiAfterDef
<1> DEFINE T == {k \in Nat : k <= n => w[k] = first[k]}
<1>6. \A k \in Nat : k \in T
  <2> HIDE DEF first, x
  <2>1. 0 \in T
    <3>1. 0 \in 0..n /\ 0 \in 0..n + m  BY <1>1
    <3> QED  BY <1>3, <1>5, <3>1 DEF AnsiStep
  <2>2. ASSUME NEW k \in Nat, k \in T PROVE k + 1 \in T
    <3> SUFFICES ASSUME k + 1 <= n PROVE w[k + 1] = first[k + 1]  OBVIOUS
    <3>1. /\ k + 1 \in 0..n /\ k + 1 \in 0..n + m /\ k + 1 \in 1..n
          /\ (k + 1) - 1 = k /\ k + 1 # 0  BY <1>1
    <3>2. w[k] = first[k] /\ x[k + 1] = a[k + 1]  BY <1>2, <2>2, <3>1
    <3>3. AnsiStep(state, x, w, k + 1) = AnsiStep(state, a, first, k + 1)
      BY <3>1, <3>2 DEF AnsiStep
    <3> QED  BY <1>3, <1>5, <3>1, <3>3
  <2> HIDE DEF T
  <2> QED  BY <2>1, <2>2, NumberInduction
<1>7. w[n] = first[n] /\ first[n] \in Seen  BY <1>1, <1>3, <1>6
<1>8. PICK mid, out : mid = first[n].ansi /\ out = first[n].out  OBVIOUS
<1>9. mid \in AnsiStates /\ out \in Seq(Chars) /\ first[n] = [ansi |-> mid, out |-> out]
  BY <1>7, <1>8 DEF Seen
<1>10. PICK v : v = AnsiAfter(mid, b)  OBVIOUS
<1>11. \A k \in 0..m : v[k] \in Seen /\ v[k] = AnsiStep(mid, b, v, k)
  BY <1>9, <1>10, AnsiAfterDef
<1> DEFINE V == {k \in Nat : k <= m => w[n + k] = [ansi |-> v[k].ansi, out |-> out \o v[k].out]}
<1>12. \A k \in Nat : k \in V
  <2> HIDE DEF first, x
  <2>1. 0 \in V
    <3>1. 0 \in 0..m /\ n + 0 = n  BY <1>1
    <3>2. v[0] = [ansi |-> mid, out |-> <<>>]  BY <1>11, <3>1 DEF AnsiStep
    <3>3. v[0].ansi = mid /\ v[0].out = <<>>  BY <3>2
    <3>4. out \o <<>> = out  BY <1>9
    <3> QED  BY <1>7, <1>9, <3>1, <3>3, <3>4
  <2>2. ASSUME NEW k \in Nat, k \in V PROVE k + 1 \in V
    <3> SUFFICES ASSUME k + 1 <= m
                 PROVE  w[n + (k + 1)] = [ansi |-> v[k + 1].ansi, out |-> out \o v[k + 1].out]
      OBVIOUS
    <3>1. /\ k + 1 \in 0..m /\ n + (k + 1) \in 0..n + m /\ k + 1 \in 1..m /\ k \in 0..m
          /\ (k + 1) - 1 = k /\ k + 1 # 0 /\ n + (k + 1) # 0 /\ (n + (k + 1)) - 1 = n + k
      BY <1>1
    <3>2. PICK c : c = b[k + 1]  OBVIOUS
    <3>3. x[n + (k + 1)] = c /\ c \in Chars  BY <1>2, <3>1, <3>2
    <3>4. PICK ansi, sofar : ansi = v[k].ansi /\ sofar = v[k].out  OBVIOUS
    <3>5. v[k] \in Seen  BY <1>11, <3>1
    <3>6. ansi \in AnsiStates /\ sofar \in Seq(Chars)  BY <3>4, <3>5 DEF Seen
    <3>7. w[n + k] = [ansi |-> ansi, out |-> out \o sofar]  BY <2>2, <3>4
    <3>8. w[n + k].ansi = ansi /\ w[n + k].out = out \o sofar  BY <3>7
    <3>9. v[k + 1] = [ansi |-> NextAnsi(ansi, c),
                      out |-> IF ansi = "Text" /\ c # "esc" THEN Append(sofar, c) ELSE sofar]
      BY <1>11, <3>1, <3>2, <3>4 DEF AnsiStep
    <3>10. w[n + (k + 1)] =
             [ansi |-> NextAnsi(ansi, c),
              out |-> IF ansi = "Text" /\ c # "esc" THEN Append(out \o sofar, c)
                      ELSE out \o sofar]
      BY <1>5, <3>1, <3>3, <3>8 DEF AnsiStep
    <3>11. Append(out \o sofar, c) = out \o Append(sofar, c)
      <4>1. AppendsLast(out, sofar, c)  BY <1>9, <3>3, <3>6, AppendConcat
      <4> QED  BY <4>1 DEF AppendsLast
    <3>12. CASE ansi = "Text" /\ c # "esc"
      <4>1. v[k + 1] = [ansi |-> NextAnsi(ansi, c), out |-> Append(sofar, c)]  BY <3>9, <3>12
      <4>2. w[n + (k + 1)] = [ansi |-> NextAnsi(ansi, c), out |-> out \o Append(sofar, c)]
        BY <3>10, <3>11, <3>12
      <4>3. v[k + 1].ansi = NextAnsi(ansi, c) /\ v[k + 1].out = Append(sofar, c)  BY <4>1
      <4> QED  BY <4>2, <4>3
    <3>13. CASE ~ (ansi = "Text" /\ c # "esc")
      <4>1. v[k + 1] = [ansi |-> NextAnsi(ansi, c), out |-> sofar]  BY <3>9, <3>13
      <4>2. w[n + (k + 1)] = [ansi |-> NextAnsi(ansi, c), out |-> out \o sofar]
        BY <3>10, <3>13
      <4>3. v[k + 1].ansi = NextAnsi(ansi, c) /\ v[k + 1].out = sofar  BY <4>1
      <4> QED  BY <4>2, <4>3
    <3> QED  BY <3>12, <3>13
  <2> HIDE DEF V
  <2> QED  BY <2>1, <2>2, NumberInduction
<1>13. w[n + m] = [ansi |-> v[m].ansi, out |-> out \o v[m].out] /\ v[m] \in Seen
  <2> HIDE DEF V
  <2>1. m \in V /\ m \in 0..m  BY <1>1, <1>12
  <2>2. w[n + m] = [ansi |-> v[m].ansi, out |-> out \o v[m].out]  BY <1>1, <2>1 DEF V
  <2> QED  BY <1>11, <2>1, <2>2
<1>14. StripAnsi(state, a) = first[n] /\ StripAnsi(mid, b) = v[m] /\ StripAnsi(state, x) = w[n + m]
  BY <1>1, <1>4, <1>10 DEF StripAnsi
<1> HIDE DEF first, x
<1> QED  BY <1>7, <1>8, <1>13, <1>14 DEF x

Decoders == [pending : Lefts, ansi : AnsiStates]

(* What decoding leaves over is a proper beginning of a sequence.          *)
LEMMA Utf8Type ==
  ASSUME NEW bytes \in Seq(Bytes)
  PROVE  Utf8(bytes).chars \in Seq(Chars) /\ Utf8(bytes).left \in Lefts
<1>1. 1 \in 1..Len(bytes) + 3  OBVIOUS
<1>2. Utf8(bytes) \in Read  BY <1>1, Utf8FromDef DEF Utf8
<1> QED  BY <1>1, <1>2, LeftOver DEF Read, Utf8

(* What is left over are bytes.                                            *)
LEMMA LeftsAreBytes == Lefts \subseteq Seq(Bytes)
BY DEF Lefts, Bytes

(* Stripping keeps the types.                                              *)
LEMMA StripAnsiType ==
  ASSUME NEW state \in AnsiStates, NEW chars \in Seq(Chars)
  PROVE  StripAnsi(state, chars).ansi \in AnsiStates /\ StripAnsi(state, chars).out \in Seq(Chars)
<1>1. StripAnsi(state, chars) \in Seen  BY AnsiTexts
<1> QED  BY <1>1 DEF Seen

(* So does a decoder.                                                      *)
LEMMA DecodeType ==
  ASSUME NEW d \in Decoders, NEW bytes \in Seq(Bytes)
  PROVE  /\ Decode(d, bytes).decoder \in Decoders /\ Decode(d, bytes).out \in Seq(Chars)
         /\ Flush(d) \in Seq(Chars)
<1>1. d.pending \in Seq(Bytes) /\ d.ansi \in AnsiStates  BY LeftsAreBytes DEF Decoders
<1>2. d.pending \o bytes \in Seq(Bytes)  BY <1>1
<1>3. PICK chars, left : chars = Utf8(d.pending \o bytes).chars /\ left = Utf8(d.pending \o bytes).left
  OBVIOUS
<1>4. chars \in Seq(Chars) /\ left \in Lefts  BY <1>2, <1>3, Utf8Type
<1>5. PICK ansi, out : ansi = StripAnsi(d.ansi, chars).ansi /\ out = StripAnsi(d.ansi, chars).out
  OBVIOUS
<1>6. ansi \in AnsiStates /\ out \in Seq(Chars)  BY <1>1, <1>4, <1>5, StripAnsiType
<1>7. Decode(d, bytes) = [decoder |-> [pending |-> left, ansi |-> ansi], out |-> out]
  BY <1>3, <1>5 DEF Decode
<1>8. Decode(d, bytes).decoder = [pending |-> left, ansi |-> ansi] /\ Decode(d, bytes).out = out
  BY <1>7
<1>9. Flush(d) \in Seq(Chars)
  <2>1. (IF d.pending = <<>> THEN <<>> ELSE <<"bad">>) \in Seq(Chars)  BY DEF Chars
  <2> QED  BY <1>1, <2>1, StripAnsiType DEF Flush
<1> QED  BY <1>4, <1>6, <1>8, <1>9 DEF Decoders

(* Decoding chunk by chunk is decoding all at once.                        *)
LEMMA DecodeChunks ==
  ASSUME NEW a \in Seq(Bytes), NEW b \in Seq(Bytes), NEW d, NEW out,
         Decode(NewDecoder, a) = [decoder |-> d, out |-> out]
  PROVE  Decode(NewDecoder, a \o b) =
           [decoder |-> Decode(d, b).decoder, out |-> out \o Decode(d, b).out]
<1>1. <<>> \o a = a /\ <<>> \o (a \o b) = a \o b /\ a \o b \in Seq(Bytes)  OBVIOUS
<1>2. NewDecoder.pending = <<>> /\ NewDecoder.ansi = "Text" /\ "Text" \in AnsiStates
  BY DEF NewDecoder, AnsiStates
<1>3. PICK c1, l1 : c1 = Utf8(a).chars /\ l1 = Utf8(a).left  OBVIOUS
<1>4. c1 \in Seq(Chars) /\ l1 \in Seq(Bytes)  BY <1>3, Utf8Type, LeftsAreBytes
<1>5. PICK c2, l2 : c2 = Utf8(l1 \o b).chars /\ l2 = Utf8(l1 \o b).left  OBVIOUS
<1>6. c2 \in Seq(Chars)
  <2>1. l1 \o b \in Seq(Bytes)  BY <1>4
  <2> QED  BY <1>5, <2>1, Utf8Type
<1>7. Utf8(a \o b) = [chars |-> c1 \o c2, left |-> l2]  BY <1>3, <1>5, Utf8Chunks
<1>8. PICK s1, o1 : s1 = StripAnsi("Text", c1).ansi /\ o1 = StripAnsi("Text", c1).out  OBVIOUS
<1>9. PICK s2, o2 : s2 = StripAnsi(s1, c2).ansi /\ o2 = StripAnsi(s1, c2).out  OBVIOUS
<1>10. StripAnsi("Text", c1 \o c2) = [ansi |-> s2, out |-> o1 \o o2]
  BY <1>2, <1>4, <1>6, <1>8, <1>9, AnsiTexts
<1>11. Decode(NewDecoder, a) = [decoder |-> [pending |-> l1, ansi |-> s1], out |-> o1]
  BY <1>1, <1>2, <1>3, <1>8, Zenon DEF Decode
<1>12. d = [pending |-> l1, ansi |-> s1] /\ out = o1  BY <1>11
<1>13. d.pending = l1 /\ d.ansi = s1  BY <1>12
<1>14. Decode(d, b) = [decoder |-> [pending |-> l2, ansi |-> s2], out |-> o2]
  BY <1>5, <1>9, <1>13, Zenon DEF Decode
<1>15. Utf8(a \o b).chars = c1 \o c2 /\ Utf8(a \o b).left = l2  BY <1>7
<1>16. StripAnsi("Text", c1 \o c2).ansi = s2 /\ StripAnsi("Text", c1 \o c2).out = o1 \o o2
  BY <1>10
<1>17. Decode(NewDecoder, a \o b) =
         [decoder |-> [pending |-> l2, ansi |-> s2], out |-> o1 \o o2]
  BY <1>1, <1>2, <1>15, <1>16, Zenon DEF Decode
<1>18. Decode(d, b).decoder = [pending |-> l2, ansi |-> s2] /\ Decode(d, b).out = o2  BY <1>14
<1> QED  BY <1>12, <1>17, <1>18

-----------------------------------------------------------------------------
Buffers == [text : Seq(Chars), start : Nat, retained : Nat, dropped : Nat]

(* A buffer of all that was pushed to it.                                  *)
Holds(b, whole) ==
  /\ b \in Buffers
  /\ b.start + b.retained = Len(b.text)
  /\ b.retained <= OutputLimit
  /\ b.dropped + b.retained = Len(whole)
  /\ Retained(b) = SubSeq(whole, b.dropped + 1, Len(whole))

(* A new buffer holds the empty stream.                                    *)
LEMMA NewHolds == Holds(NewBuffer, <<>>)
<1>1. NewBuffer = [text |-> <<>>, start |-> 0, retained |-> 0, dropped |-> 0]  BY DEF NewBuffer
<1>2. <<>> \in Seq(Chars) /\ Len(<<>>) = 0  OBVIOUS
<1>3. NewBuffer \in Buffers  BY <1>1, <1>2 DEF Buffers
<1>4. OutputLimit \in Nat  BY OutputAssumption
<1>5. Retained(NewBuffer) = SubSeq(<<>>, 0 + 1, Len(<<>>))  BY <1>1, <1>2 DEF Retained
<1> QED  BY <1>1, <1>2, <1>3, <1>4, <1>5 DEF Holds

(* Pushing extends what a buffer holds, whether it drops, compacts or      *)
(* neither.                                                                *)
LEMMA PushHolds ==
  ASSUME NEW b, NEW whole \in Seq(Chars), Holds(b, whole), NEW text \in Seq(Chars)
  PROVE  Holds(Push(b, text), whole \o text)
<1>1. PICK bt, start, kept0, dropped :
        bt = b.text /\ start = b.start /\ kept0 = b.retained /\ dropped = b.dropped
  OBVIOUS
<1>2. /\ bt \in Seq(Chars) /\ start \in Nat /\ kept0 \in Nat /\ dropped \in Nat
      /\ start + kept0 = Len(bt) /\ dropped + kept0 = Len(whole)
  BY <1>1 DEF Holds, Buffers
<1>3. SubSeq(bt, start + 1, Len(bt)) = SubSeq(whole, dropped + 1, Len(whole))
  BY <1>1 DEF Holds, Retained
<1>4. PICK all, more : all = bt \o text /\ more = whole \o text  OBVIOUS
<1>5. PICK kept : kept = kept0 + Len(text)  OBVIOUS
<1>6. PICK over : over = IF kept <= OutputLimit THEN 0 ELSE kept - OutputLimit  OBVIOUS
<1>7. /\ all \in Seq(Chars) /\ more \in Seq(Chars) /\ Len(text) \in Nat
      /\ Len(all) = Len(bt) + Len(text) /\ Len(more) = Len(whole) + Len(text)
  BY <1>2, <1>4
<1>8. OutputLimit \in Nat  BY OutputAssumption
<1>9. /\ kept \in Nat /\ over \in 0..kept /\ kept - over <= OutputLimit
      /\ start + kept = Len(all) /\ dropped + kept = Len(more)
  <2>0. Len(bt) \in Nat /\ Len(whole) \in Nat /\ kept \in Nat  BY <1>2, <1>5, <1>7
  <2>1. kept \in Nat /\ start + kept = Len(all) /\ dropped + kept = Len(more)
    <3>3. PICK l \in Nat, m \in Nat, n \in Nat : l = Len(text) /\ m = Len(bt) /\ n = Len(whole)
      BY <1>7, <2>0
    <3>4. /\ kept = kept0 + l /\ start + kept0 = m /\ dropped + kept0 = n
          /\ start \in Nat /\ kept0 \in Nat /\ dropped \in Nat  BY <1>2, <1>5, <3>3
    <3>5. start + kept = m + l /\ dropped + kept = n + l  BY ONLY <3>4, l \in Nat, m \in Nat, n \in Nat
    <3>1. start + kept = Len(bt) + Len(text)  BY <3>3, <3>5
    <3>2. dropped + kept = Len(whole) + Len(text)  BY <3>3, <3>5
    <3> QED  BY <1>7, <2>0, <3>1, <3>2
  <2>2. over \in 0..kept /\ kept - over <= OutputLimit
    <3>1. CASE kept <= OutputLimit  BY <1>6, <1>8, <2>1, <3>1
    <3>2. CASE ~ (kept <= OutputLimit)  BY <1>6, <1>8, <2>1, <3>2
    <3> QED  BY <3>1, <3>2
  <2> QED  BY <2>1, <2>2
<1>10. SubSeq(all, start + 1, Len(all)) = SubSeq(more, dropped + 1, Len(more))
  <2>1. start + 1 \in 1..Len(bt) + 1 /\ dropped + 1 \in 1..Len(whole) + 1  BY <1>2
  <2>2. SubSeq(all, start + 1, Len(all)) = SubSeq(bt, start + 1, Len(bt)) \o text
    BY <1>2, <1>4, <2>1, EndOfConcat
  <2>3. SubSeq(more, dropped + 1, Len(more)) = SubSeq(whole, dropped + 1, Len(whole)) \o text
    BY <1>4, <2>1, EndOfConcat
  <2> QED  BY <1>3, <2>2, <2>3
<1>11. SubSeq(all, start + over + 1, Len(all)) = SubSeq(more, dropped + over + 1, Len(more))
  <2>1. /\ start \in 0..Len(all) /\ dropped \in 0..Len(more)
        /\ over \in 0..Len(all) - start /\ over \in 0..Len(more) - dropped
        /\ Len(all) - start = kept /\ Len(more) - dropped = kept
    BY <1>2, <1>7, <1>9
  <2>2. SubSeq(SubSeq(all, start + 1, Len(all)), over + 1, kept)
          = SubSeq(all, start + over + 1, Len(all))
    BY <1>7, <2>1, EndOfEnd
  <2>3. SubSeq(SubSeq(more, dropped + 1, Len(more)), over + 1, kept)
          = SubSeq(more, dropped + over + 1, Len(more))
    BY <1>7, <2>1, EndOfEnd
  <2> QED  BY <1>10, <2>2, <2>3
<1>12. PICK compact : compact = (over > 0 /\ ByteLength(SubSeq(all, 1, start + over))
                                                > ByteLength(all) \div 2)
  OBVIOUS
<1>13. PICK tail : tail = SubSeq(all, start + over + 1, Len(all))  OBVIOUS
<1>14. Push(b, text) = [text |-> IF compact THEN tail ELSE all,
                        start |-> IF compact THEN 0 ELSE start + over,
                        retained |-> kept - over, dropped |-> dropped + over]
  BY <1>1, <1>4, <1>5, <1>6, <1>12, <1>13, Zenon DEF Push
<1>15. tail \in Seq(Chars) /\ Len(tail) = kept - over
  <2>1. start + over + 1 \in 1..Len(all) + 1  BY <1>2, <1>7, <1>9
  <2>2. tail \in Seq(Chars) /\ Len(tail) = Len(all) - (start + over + 1) + 1
    BY <1>7, <1>13, <2>1, EndOf
  <2> QED  BY <1>2, <1>9, <2>2
<1>16. PICK nt, ns : nt = (IF compact THEN tail ELSE all)
                     /\ ns = (IF compact THEN 0 ELSE start + over)  OBVIOUS
<1>17. /\ nt \in Seq(Chars) /\ ns \in Nat /\ ns + (kept - over) = Len(nt)
       /\ SubSeq(nt, ns + 1, Len(nt)) = tail
  <2>1. CASE compact
    <3>1. nt = tail /\ ns = 0  BY <1>16, <2>1
    <3>2. SubSeq(tail, 1, Len(tail)) = tail  BY <1>15, SubSeqFull
    <3>3. 0 + (kept - over) = kept - over /\ 0 + 1 = 1  BY <1>9
    <3> QED  BY <1>15, <3>1, <3>2, <3>3
  <2>2. CASE ~ compact
    <3>1. nt = all /\ ns = start + over  BY <1>16, <2>2
    <3>2. ns \in Nat /\ ns + (kept - over) = Len(all)  BY <1>2, <1>9, <3>1, SMTT(20)
    <3> QED  BY <1>7, <1>13, <3>1, <3>2
  <2> QED  BY <2>1, <2>2
<1>18. Push(b, text) = [text |-> nt, start |-> ns, retained |-> kept - over,
                        dropped |-> dropped + over]
  BY <1>14, <1>16
<1>19. /\ Push(b, text).text = nt /\ Push(b, text).start = ns
       /\ Push(b, text).retained = kept - over /\ Push(b, text).dropped = dropped + over
  BY ONLY <1>18
<1>20. kept - over \in Nat /\ dropped + over \in Nat
       /\ (dropped + over) + (kept - over) = Len(more)  BY <1>2, <1>9, SMTT(20)
<1>21. Push(b, text) \in Buffers  BY <1>17, <1>18, <1>20 DEF Buffers
<1>22. Retained(Push(b, text)) = SubSeq(more, (dropped + over) + 1, Len(more))
  BY <1>11, <1>13, <1>17, <1>19 DEF Retained
<1> QED  BY <1>4, <1>9, <1>17, <1>19, <1>20, <1>21, <1>22 DEF Holds

(* Where a page begins.                                                    *)
First(asked, dropped) == IF asked > dropped THEN asked ELSE dropped

(* A page of a buffer is the part of the stream it says it is.             *)
LEMMA PageHolds ==
  ASSUME NEW b, NEW whole \in Seq(Chars), Holds(b, whole), NEW from \in 0..Len(whole)
  PROVE  LET page == PageOf(b, from) first == First(from, b.dropped) IN
           /\ b.dropped \in Nat
           /\ page.begin = first
           /\ page.text \in Seq(Chars)
           /\ first + Len(page.text) <= Len(whole)
           /\ page.text = SubSeq(whole, first + 1, first + Len(page.text))
           /\ page.next \in {NoToken, first + Len(page.text)}
<1>1. PICK kept, dropped : kept = b.retained /\ dropped = b.dropped  OBVIOUS
<1>2. kept \in Nat /\ dropped \in Nat /\ dropped + kept = Len(whole)
  BY <1>1 DEF Holds, Buffers
<1>3. Retained(b) = SubSeq(whole, dropped + 1, Len(whole))  BY <1>1 DEF Holds
<1>4. PICK skip : skip = Least(IF from > dropped THEN from - dropped ELSE 0, kept)  OBVIOUS
<1>5. PICK first : first = First(from, dropped)  OBVIOUS
<1>6. skip \in 0..kept /\ dropped + skip = first /\ first \in dropped..Len(whole)
  <2>1. CASE from > dropped
    <3>1. from - dropped \in 0..kept  BY <1>2, <2>1
    <3>2. skip = from - dropped /\ first = from  BY <1>2, <1>4, <1>5, <2>1, <3>1 DEF Least, First
    <3> QED  BY <1>2, <2>1, <3>1, <3>2
  <2>2. CASE ~ (from > dropped)
    <3>1. skip = 0 /\ first = dropped  BY <1>2, <1>4, <1>5, <2>2 DEF Least, First
    <3> QED  BY <1>2, <3>1
  <2> QED  BY <2>1, <2>2
<1>7. PICK rest : rest = SubSeq(Retained(b), skip + 1, kept)  OBVIOUS
<1>8. rest = SubSeq(whole, first + 1, Len(whole))
  <2>1. /\ dropped \in 0..Len(whole) /\ skip \in 0..Len(whole) - dropped
        /\ Len(whole) - dropped = kept /\ dropped + skip + 1 = first + 1
    BY <1>2, <1>6
  <2>2. SubSeq(SubSeq(whole, dropped + 1, Len(whole)), skip + 1, Len(whole) - dropped)
          = SubSeq(whole, dropped + skip + 1, Len(whole))  BY <2>1, EndOfEnd
  <2> QED  BY <1>3, <1>7, <2>1, <2>2
<1>9. rest \in Seq(Chars) /\ Len(rest) = Len(whole) - first
  <2>1. first + 1 \in 1..Len(whole) + 1  BY <1>2, <1>6
  <2>2. rest \in Seq(Chars) /\ Len(rest) = Len(whole) - (first + 1) + 1
    BY <1>8, <2>1, EndOf
  <2> QED  BY <1>2, <1>6, <2>2
<1>10. PICK end : end = Least(PageChars, Len(rest))  OBVIOUS
<1>11. end \in 0..Len(rest)
  <2>1. PageChars \in Nat /\ Len(rest) \in Nat  BY <1>9, OutputAssumption
  <2> QED  BY <1>10, <2>1 DEF Least
<1>12. PICK text, next :
         text = SubSeq(rest, 1, end)
         /\ next = IF end < Len(rest) THEN dropped + skip + end ELSE NoToken  OBVIOUS
<1>13. PageOf(b, from) = [text |-> text, begin |-> dropped + skip, next |-> next]
  BY <1>1, <1>4, <1>7, <1>10, <1>12, Zenon DEF PageOf
<1>14. text \in Seq(Chars) /\ Len(text) = end
  <2>1. 1 \in 1..Len(rest) + 1 /\ end \in 1 - 1..Len(rest) /\ end - 1 + 1 = end  BY <1>9, <1>11
  <2> QED  BY <1>9, <1>12, <2>1, PartOf
<1>15. text = SubSeq(whole, first + 1, first + end)
  <2>1. /\ first + 1 \in 1..Len(whole) + 1 /\ Len(whole) \in (first + 1) - 1..Len(whole)
        /\ end \in 0..Len(whole) - (first + 1) + 1
        /\ (first + 1) + end - 1 = first + end
    BY <1>2, <1>6, <1>9, <1>11
  <2>2. SubSeq(SubSeq(whole, first + 1, Len(whole)), 1, end)
          = SubSeq(whole, first + 1, (first + 1) + end - 1)  BY <2>1, StartOfPart
  <2> QED  BY <1>8, <1>12, <2>1, <2>2
<1>16. first + end <= Len(whole) /\ next \in {NoToken, first + end}
  BY <1>2, <1>6, <1>9, <1>11, <1>12
<1>17. /\ PageOf(b, from).begin = first /\ PageOf(b, from).text = text
       /\ PageOf(b, from).next = next  BY <1>6, <1>13
<1>18. First(from, b.dropped) = first /\ b.dropped \in Nat  BY <1>1, <1>2, <1>5
<1> QED  BY <1>14, <1>15, <1>16, <1>17, <1>18, Zenon

-----------------------------------------------------------------------------
(* The inductive invariant. *)

OutputWork == [chunks : [Pipes -> SUBSET (Seq(Bytes) \ {<<>>})], bytes : Nat, reads : Nat]

(* The part of the type invariant the other parts need.                    *)
OutputTypes ==
  /\ written \in [Pipes -> Seq(Bytes)]
  /\ decoder \in [Pipes -> Decoders]
  /\ open \subseteq Pipes
  /\ printed \in [Streams -> Seq(Chars)]
  /\ DOMAIN buffer = Streams
  /\ work \in OutputWork

BuffersHold == \A s \in Streams : Holds(buffer[s], printed[s])

(* All that either pipe printed is in the combined stream.                 *)
CombinedLonger == \A p \in Pipes : Len(printed[p]) <= Len(printed["combined"])

(* An open pipe has printed what decoding all of its bytes so far prints,  *)
(* and its decoder is where that leaves it.                                *)
DecodedSoFar ==
  \A p \in open :
    Decode(NewDecoder, written[p]) = [decoder |-> decoder[p], out |-> printed[p]]

(* The client holds a page of its stream and an offset of some stream as a *)
(* continuation, as far as the stream goes by now.                         *)
ReaderInv ==
  /\ reader.stream \in Streams
  /\ reader.token # NoToken =>
       \E s \in Streams : \E n \in 0..Len(printed[s]) : reader.token = [stream |-> s, offset |-> n]
  /\ reader.page # NoToken =>
       LET page == reader.page first == First(reader.end, reader.dropped) IN
         /\ first \in Nat
         /\ page.begin = first
         /\ page.text \in Seq(Chars)
         /\ first + Len(page.text) <= Len(printed[reader.stream])
         /\ page.text = SubSeq(printed[reader.stream], first + 1, first + Len(page.text))
         /\ page.next \in {NoToken, first + Len(page.text)}

OutputInv ==
  /\ OutputTypes /\ BuffersHold /\ CombinedLonger /\ DecodedSoFar /\ ChunksInvisible
  /\ ReaderInv /\ UntruncatedIsWhole

(* The invariant is strong enough.                                         *)
LEMMA OutputInvFaithful == OutputInv => OutputFaithful
<1> SUFFICES ASSUME OutputInv PROVE OutputFaithful  OBVIOUS
<1>1. OutputTypeOK
  <2>1. ASSUME NEW p \in Pipes
        PROVE  decoder[p].ansi \in AnsiStates
               /\ decoder[p].pending \in {<<>>, <<"e2">>, <<"e3">>, <<"e3", "tail">>}
    BY DEF OutputInv, OutputTypes, Decoders, Lefts
  <2>2. ASSUME NEW s \in Streams
        PROVE  buffer[s].text \in Seq(Chars) /\ buffer[s].retained <= OutputLimit
               /\ printed[s] \in Seq(Chars)
    BY DEF OutputInv, OutputTypes, BuffersHold, Holds, Buffers
  <2>3. /\ written \in [Pipes -> Seq(Bytes)] /\ open \subseteq Pipes
        /\ work.bytes \in Nat /\ work.reads \in Nat
    BY DEF OutputInv, OutputTypes, OutputWork
  <2> QED  BY <2>1, <2>2, <2>3, Zenon DEF OutputTypeOK
<1>2. TailExact  BY DEF OutputInv, BuffersHold, Holds, TailExact
<1>3. PageFaithful
  <2> SUFFICES ASSUME reader.page # NoToken
               PROVE  LET page == reader.page
                          first == IF reader.end > reader.dropped THEN reader.end
                                   ELSE reader.dropped IN
                        /\ page.begin = first
                        /\ page.text = SubSeq(printed[reader.stream], first + 1,
                                              first + Len(page.text))
                        /\ page.next # NoToken => page.next = first + Len(page.text)
    BY Zenon DEF PageFaithful
  <2> QED  BY DEF OutputInv, ReaderInv, First
<1>4. UntruncatedIsWhole  BY DEF OutputInv
<1> QED  BY <1>1, <1>2, <1>3, <1>4 DEF OutputFaithful

(* What append does to the streams.                                        *)
LEMMA AppendHolds ==
  ASSUME printed \in [Streams -> Seq(Chars)], BuffersHold, CombinedLonger,
         NEW pipe \in Pipes, NEW text \in Seq(Chars), AppendText(pipe, text)
  PROVE  /\ printed' \in [Streams -> Seq(Chars)] /\ DOMAIN buffer' = Streams
         /\ BuffersHold' /\ CombinedLonger'
         /\ printed'[pipe] = printed[pipe] \o text
         /\ \A p \in Pipes : p # pipe => printed'[p] = printed[p]
         /\ \A s \in Streams : \E t \in Seq(Chars) : printed'[s] = printed[s] \o t
<1>1. pipe \in Streams /\ "combined" \in Streams /\ "combined" \notin Pipes /\ Pipes \subseteq Streams
  BY DEF Streams, Pipes
<1> DEFINE into == {pipe, "combined"}
<1>2. buffer' = [s \in Streams |-> IF s \in into /\ text # <<>>
                                   THEN Push(buffer[s], text) ELSE buffer[s]]
      /\ printed' = [s \in Streams |-> IF s \in into THEN printed[s] \o text ELSE printed[s]]
  BY DEF AppendText
<1>3. ASSUME NEW s \in Streams
      PROVE  /\ printed'[s] \in Seq(Chars)
             /\ Holds(buffer'[s], printed'[s])
             /\ \E t \in Seq(Chars) : printed'[s] = printed[s] \o t
  <2>1. printed[s] \in Seq(Chars) /\ Holds(buffer[s], printed[s])  BY DEF BuffersHold
  <2>2. CASE s \in into /\ text # <<>>
    <3>1. buffer'[s] = Push(buffer[s], text) /\ printed'[s] = printed[s] \o text
      BY <1>2, <2>2
    <3>2. printed[s] \o text \in Seq(Chars)  BY <2>1
    <3> QED  BY <2>1, <3>1, <3>2, PushHolds
  <2>3. CASE ~ (s \in into /\ text # <<>>)
    <3>1. buffer'[s] = buffer[s]  BY <1>2, <2>3
    <3>2. printed'[s] = printed[s]
      <4>1. CASE s \notin into  BY <1>2, <4>1
      <4>2. CASE s \in into
        <5>1. printed'[s] = printed[s] \o <<>>  BY <1>2, <2>3, <4>2
        <5> QED  BY <2>1, <5>1, ConcatEmptySeq
      <4> QED  BY <4>1, <4>2
    <3>3. printed[s] = printed[s] \o <<>> /\ <<>> \in Seq(Chars)  BY <2>1, ConcatEmptySeq
    <3> QED  BY <2>1, <3>1, <3>2, <3>3
  <2> QED  BY <2>2, <2>3
<1>4. printed' \in [Streams -> Seq(Chars)] /\ DOMAIN buffer' = Streams  BY <1>2, <1>3
<1>5. BuffersHold'  BY <1>3 DEF BuffersHold
<1>6. printed'[pipe] = printed[pipe] \o text /\ printed'["combined"] = printed["combined"] \o text
  BY <1>1, <1>2
<1>7. \A p \in Pipes : p # pipe => printed'[p] = printed[p]  BY <1>1, <1>2
<1>8. CombinedLonger'
  <2> SUFFICES ASSUME NEW p \in Pipes PROVE Len(printed'[p]) <= Len(printed'["combined"])
    BY DEF CombinedLonger
  <2>1. Len(printed[p]) <= Len(printed["combined"]) /\ Len(text) \in Nat
        /\ Len(printed[p]) \in Nat /\ Len(printed["combined"]) \in Nat
    BY <1>1 DEF CombinedLonger
  <2>2. Len(printed["combined"] \o text) = Len(printed["combined"]) + Len(text)
        /\ Len(printed[p] \o text) = Len(printed[p]) + Len(text)  BY <1>1, ConcatProperties
  <2>3. CASE p = pipe  BY <1>6, <2>1, <2>2, <2>3
  <2>4. CASE p # pipe  BY <1>6, <1>7, <2>1, <2>2, <2>4
  <2> QED  BY <2>3, <2>4
<1> QED  BY <1>3, <1>4, <1>5, <1>6, <1>7, <1>8

(* The client's last page and token stay true of streams that only grow.   *)
LEMMA ReaderInvGrowing ==
  ASSUME ReaderInv, printed \in [Streams -> Seq(Chars)], UNCHANGED reader,
         \A s \in Streams : \E t \in Seq(Chars) : printed'[s] = printed[s] \o t
  PROVE  ReaderInv'
<1>1. ASSUME NEW s \in Streams
      PROVE  Len(printed[s]) \in Nat /\ Len(printed'[s]) \in Nat /\ Len(printed[s]) <= Len(printed'[s])
  <2>1. PICK t \in Seq(Chars) : printed'[s] = printed[s] \o t  OBVIOUS
  <2>2. printed[s] \in Seq(Chars) /\ Len(t) \in Nat  OBVIOUS
  <2>3. Len(printed'[s]) = Len(printed[s]) + Len(t)  BY <2>1, <2>2, ConcatProperties
  <2> QED  BY <2>2, <2>3
<1>2. reader'.stream \in Streams  BY DEF ReaderInv
<1>3. reader'.token # NoToken =>
        \E s \in Streams : \E n \in 0..Len(printed'[s]) : reader'.token = [stream |-> s, offset |-> n]
  <2> SUFFICES ASSUME reader.token # NoToken
               PROVE  \E s \in Streams : \E n \in 0..Len(printed'[s]) :
                        reader.token = [stream |-> s, offset |-> n]
    OBVIOUS
  <2>1. PICK s \in Streams : \E n \in 0..Len(printed[s]) : reader.token = [stream |-> s, offset |-> n]
    BY Zenon DEF ReaderInv
  <2>3. PICK n \in 0..Len(printed[s]) : reader.token = [stream |-> s, offset |-> n]  BY <2>1
  <2>2. n \in 0..Len(printed'[s])  BY <1>1
  <2> QED  BY <2>2, <2>3
<1>4. ASSUME reader.page # NoToken
      PROVE  LET page == reader.page first == First(reader.end, reader.dropped) IN
         /\ first \in Nat
         /\ page.begin = first
         /\ page.text \in Seq(Chars)
         /\ first + Len(page.text) <= Len(printed'[reader.stream])
         /\ page.text = SubSeq(printed'[reader.stream], first + 1, first + Len(page.text))
         /\ page.next \in {NoToken, first + Len(page.text)}
  <2>1. PICK first, text, stream : first = First(reader.end, reader.dropped)
                                   /\ text = reader.page.text /\ stream = reader.stream
    OBVIOUS
  <2>2. /\ first \in Nat /\ reader.page.begin = first /\ text \in Seq(Chars)
        /\ first + Len(text) <= Len(printed[stream])
        /\ text = SubSeq(printed[stream], first + 1, first + Len(text))
        /\ reader.page.next \in {NoToken, first + Len(text)} /\ stream \in Streams
    BY <1>4, <2>1, Zenon DEF ReaderInv
  <2>3. PICK t \in Seq(Chars) : printed'[stream] = printed[stream] \o t  BY <2>2
  <2>4. printed[stream] \in Seq(Chars) /\ Len(text) \in Nat /\ Len(printed[stream]) \in Nat  BY <2>2
  <2>5. first + 1 \in 1..Len(printed[stream]) + 1
        /\ first + Len(text) \in (first + 1) - 1..Len(printed[stream])  BY <2>2, <2>4
  <2>6. SubSeq(printed[stream] \o t, first + 1, first + Len(text))
          = SubSeq(printed[stream], first + 1, first + Len(text))
    BY <2>4, <2>5, PartOfConcat
  <2>7. first + Len(text) <= Len(printed'[stream])  BY <1>1, <2>2, <2>4
  <2>8. text = SubSeq(printed'[stream], first + 1, first + Len(text))  BY <2>2, <2>3, <2>6
  <2> QED  BY <2>1, <2>2, <2>7, <2>8, Zenon
<1> QED  BY <1>2, <1>3, <1>4, Zenon DEF ReaderInv

(* It holds at the beginning.                                              *)
LEMMA OutputInvInit == OutputInit => OutputInv
<1> SUFFICES ASSUME OutputInit PROVE OutputInv  OBVIOUS
<1> USE DEF OutputInit
<1>1. <<>> \in Seq(Bytes) /\ <<>> \in Seq(Chars) /\ Len(<<>>) = 0  OBVIOUS
<1>2. NewDecoder \in Decoders  BY DEF NewDecoder, Decoders, Lefts, AnsiStates
<1>3. OutputTypes
  <2>1. work \in OutputWork  BY OutputAssumption DEF OutputWork
  <2> QED  BY <1>1, <1>2, <2>1 DEF OutputTypes
<1>4. BuffersHold  BY NewHolds DEF BuffersHold
<1>5. CombinedLonger  BY <1>1 DEF CombinedLonger, Streams, Pipes
<1>6. Decode(NewDecoder, <<>>) = [decoder |-> NewDecoder, out |-> <<>>]
  <2>1. NewDecoder.pending = <<>> /\ NewDecoder.ansi = "Text" /\ "Text" \in AnsiStates
        /\ NewDecoder = [pending |-> <<>>, ansi |-> "Text"]
    BY DEF NewDecoder, AnsiStates
  <2>2. <<>> \o <<>> = <<>>  BY <1>1, ConcatEmptySeq
  <2>3. 1 \in 1..Len(<<>>) + 3 /\ 1 > Len(<<>>) /\ 0 \in 0..Len(<<>>)  BY <1>1
  <2>4. Utf8From(<<>>)[1] = Utf8Step(<<>>, Utf8From(<<>>), 1)
    BY <1>1, <2>3, Utf8FromDef
  <2>5. Utf8(<<>>) = [chars |-> <<>>, left |-> <<>>]  BY <2>3, <2>4 DEF Utf8Step, Utf8
  <2>6. AnsiAfter("Text", <<>>)[0] = AnsiStep("Text", <<>>, AnsiAfter("Text", <<>>), 0)
    BY <1>1, <2>1, <2>3, AnsiAfterDef
  <2>7. StripAnsi("Text", <<>>) = [ansi |-> "Text", out |-> <<>>]
    BY <1>1, <2>6 DEF StripAnsi, AnsiStep
  <2>8. Utf8(<<>>).chars = <<>> /\ Utf8(<<>>).left = <<>>  BY <2>5
  <2>9. StripAnsi("Text", <<>>).ansi = "Text" /\ StripAnsi("Text", <<>>).out = <<>>  BY <2>7
  <2> QED  BY <2>1, <2>2, <2>8, <2>9, Zenon DEF Decode
<1>7. DecodedSoFar
  <2> SUFFICES ASSUME NEW p \in open
               PROVE  Decode(NewDecoder, written[p]) = [decoder |-> decoder[p], out |-> printed[p]]
    BY DEF DecodedSoFar
  <2>1. p \in Pipes /\ p \in Streams  BY DEF Streams
  <2> QED  BY <1>6, <2>1
<1>8. ChunksInvisible  BY DEF ChunksInvisible
<1>9. ReaderInv
  <2>1. reader.stream = "combined" /\ reader.token = NoToken /\ reader.page = NoToken  OBVIOUS
  <2> QED  BY <2>1, Zenon DEF ReaderInv, Streams
<1>10. UntruncatedIsWhole  BY DEF UntruncatedIsWhole
<1> QED  BY <1>3, <1>4, <1>5, <1>7, <1>8, <1>9, <1>10 DEF OutputInv

(* Reading a chunk of a pipe keeps it.                                     *)
LEMMA IngestKeeps ==
  ASSUME OutputInv, NEW pipe \in Pipes, NEW bytes \in work.chunks[pipe], Ingest(pipe, bytes)
  PROVE  OutputInv'
<1>1. /\ written \in [Pipes -> Seq(Bytes)] /\ decoder \in [Pipes -> Decoders]
      /\ printed \in [Streams -> Seq(Chars)] /\ open \subseteq Pipes
      /\ work \in OutputWork
      /\ BuffersHold /\ CombinedLonger /\ DecodedSoFar /\ ChunksInvisible /\ ReaderInv
      /\ UntruncatedIsWhole
  BY DEF OutputInv, OutputTypes
<1>2. bytes \in Seq(Bytes) /\ Len(bytes) \in Nat
  <2>1. bytes \in Seq(Bytes)  BY <1>1 DEF OutputWork
  <2> QED  BY <2>1
<1>3. PICK d, out : d = Decode(decoder[pipe], bytes).decoder /\ out = Decode(decoder[pipe], bytes).out
  OBVIOUS
<1>4. d \in Decoders /\ out \in Seq(Chars)  BY <1>1, <1>2, <1>3, DecodeType
<1>5. /\ pipe \in open /\ Len(bytes) <= work.bytes
      /\ decoder' = [decoder EXCEPT ![pipe] = d] /\ AppendText(pipe, out)
      /\ written' = [written EXCEPT ![pipe] = @ \o bytes]
      /\ work' = [work EXCEPT !.bytes = @ - Len(bytes)]
      /\ open' = open /\ reader' = reader /\ shown' = shown
  BY <1>3, Zenon DEF Ingest
<1>6. /\ printed' \in [Streams -> Seq(Chars)] /\ DOMAIN buffer' = Streams
      /\ BuffersHold' /\ CombinedLonger'
      /\ printed'[pipe] = printed[pipe] \o out
      /\ \A p \in Pipes : p # pipe => printed'[p] = printed[p]
      /\ \A s \in Streams : \E t \in Seq(Chars) : printed'[s] = printed[s] \o t
  BY <1>1, <1>4, <1>5, AppendHolds
<1>7. written[pipe] \in Seq(Bytes) /\ written[pipe] \o bytes \in Seq(Bytes)  BY <1>1, <1>2
<1>8. OutputTypes'
  <2>1. written' \in [Pipes -> Seq(Bytes)]  BY <1>1, <1>5, <1>7
  <2>2. decoder' \in [Pipes -> Decoders]  BY <1>1, <1>4, <1>5
  <2>3. work' \in OutputWork
    <3>1. work.bytes \in Nat  BY <1>1 DEF OutputWork
    <3>2. work.bytes - Len(bytes) \in Nat  BY <1>2, <1>5, <3>1
    <3> QED  BY <1>1, <1>5, <3>2 DEF OutputWork
  <2> QED  BY <1>1, <1>5, <1>6, <2>1, <2>2, <2>3 DEF OutputTypes
<1>9. DecodedSoFar'
  <2> SUFFICES ASSUME NEW p \in open
               PROVE  Decode(NewDecoder, written'[p]) = [decoder |-> decoder'[p], out |-> printed'[p]]
    BY <1>5 DEF DecodedSoFar
  <2>1. Decode(NewDecoder, written[p]) = [decoder |-> decoder[p], out |-> printed[p]] /\ p \in Pipes
    BY <1>1 DEF DecodedSoFar
  <2>2. CASE p = pipe
    <3>1. written'[p] = written[p] \o bytes /\ decoder'[p] = d /\ printed'[p] = printed[p] \o out
      BY <1>1, <1>5, <1>6, <2>2
    <3>2. Decode(NewDecoder, written[p] \o bytes)
            = [decoder |-> Decode(decoder[p], bytes).decoder,
               out |-> printed[p] \o Decode(decoder[p], bytes).out]
      BY <1>2, <1>7, <2>1, <2>2, DecodeChunks
    <3> QED  BY <1>3, <2>2, <3>1, <3>2
  <2>3. CASE p # pipe
    <3>1. written'[p] = written[p] /\ decoder'[p] = decoder[p] /\ printed'[p] = printed[p]
      BY <1>1, <1>5, <1>6, <2>1, <2>3
    <3> QED  BY <2>1, <3>1
  <2> QED  BY <2>2, <2>3
<1>10. ChunksInvisible'
  <2> SUFFICES ASSUME NEW p \in Pipes \ open
               PROVE  LET whole == Decode(NewDecoder, written'[p]) IN
                        printed'[p] = whole.out \o Flush(whole.decoder)
    BY <1>5, Zenon DEF ChunksInvisible
  <2>1. written'[p] = written[p] /\ printed'[p] = printed[p]  BY <1>1, <1>5, <1>6
  <2> QED  BY <1>1, <2>1, Zenon DEF ChunksInvisible
<1>11. ReaderInv'  BY <1>1, <1>5, <1>6, ReaderInvGrowing
<1>12. UntruncatedIsWhole'  BY <1>1, <1>5 DEF UntruncatedIsWhole
<1> QED  BY <1>6, <1>8, <1>9, <1>10, <1>11, <1>12 DEF OutputInv

(* So does the end of a pipe.                                              *)
LEMMA FinishPipeKeeps ==
  ASSUME OutputInv, NEW pipe \in Pipes, FinishPipe(pipe)
  PROVE  OutputInv'
<1>1. /\ written \in [Pipes -> Seq(Bytes)] /\ decoder \in [Pipes -> Decoders]
      /\ printed \in [Streams -> Seq(Chars)] /\ open \subseteq Pipes
      /\ OutputTypes
      /\ BuffersHold /\ CombinedLonger /\ DecodedSoFar /\ ChunksInvisible /\ ReaderInv
      /\ UntruncatedIsWhole
  BY DEF OutputInv, OutputTypes
<1>2. PICK out : out = Flush(decoder[pipe])  OBVIOUS
<1>3. out \in Seq(Chars)
  <2>1. <<>> \in Seq(Bytes)  OBVIOUS
  <2> QED  BY <1>1, <1>2, <2>1, DecodeType
<1>4. /\ pipe \in open /\ AppendText(pipe, out)
      /\ decoder' = [decoder EXCEPT ![pipe] = NewDecoder] /\ open' = open \ {pipe}
      /\ written' = written /\ reader' = reader /\ shown' = shown /\ work' = work
  BY <1>2 DEF FinishPipe
<1>5. /\ printed' \in [Streams -> Seq(Chars)] /\ DOMAIN buffer' = Streams
      /\ BuffersHold' /\ CombinedLonger'
      /\ printed'[pipe] = printed[pipe] \o out
      /\ \A p \in Pipes : p # pipe => printed'[p] = printed[p]
      /\ \A s \in Streams : \E t \in Seq(Chars) : printed'[s] = printed[s] \o t
  BY <1>1, <1>3, <1>4, AppendHolds
<1>6. OutputTypes'
  <2>1. NewDecoder \in Decoders  BY DEF NewDecoder, Decoders, Lefts, AnsiStates
  <2>2. decoder' \in [Pipes -> Decoders]  BY <1>1, <1>4, <2>1
  <2> QED  BY <1>1, <1>4, <1>5, <2>2 DEF OutputTypes
<1>7. DecodedSoFar'
  <2> SUFFICES ASSUME NEW p \in open \ {pipe}
               PROVE  Decode(NewDecoder, written'[p]) = [decoder |-> decoder'[p], out |-> printed'[p]]
    BY <1>4 DEF DecodedSoFar
  <2>1. written'[p] = written[p] /\ decoder'[p] = decoder[p] /\ printed'[p] = printed[p]
    BY <1>1, <1>4, <1>5
  <2> QED  BY <1>1, <2>1 DEF DecodedSoFar
<1>8. ChunksInvisible'
  <2> SUFFICES ASSUME NEW p \in Pipes, p = pipe \/ p \notin open
               PROVE  LET whole == Decode(NewDecoder, written'[p]) IN
                        printed'[p] = whole.out \o Flush(whole.decoder)
    BY <1>4, Zenon DEF ChunksInvisible
  <2>1. CASE p = pipe
    <3>1. Decode(NewDecoder, written[p]) = [decoder |-> decoder[p], out |-> printed[p]]
      BY <1>1, <1>4, <2>1 DEF DecodedSoFar
    <3>2. Decode(NewDecoder, written'[p]).decoder = decoder[p]
          /\ Decode(NewDecoder, written'[p]).out = printed[p]  BY <1>4, <3>1
    <3> QED  BY <1>2, <1>5, <2>1, <3>2, Zenon
  <2>2. CASE p # pipe
    <3>1. written'[p] = written[p] /\ printed'[p] = printed[p] /\ p \in Pipes \ open
      BY <1>4, <1>5, <2>2
    <3> QED  BY <1>1, <3>1, Zenon DEF ChunksInvisible
  <2> QED  BY <2>1, <2>2
<1>9. ReaderInv'  BY <1>1, <1>4, <1>5, ReaderInvGrowing
<1>10. UntruncatedIsWhole'  BY <1>1, <1>4 DEF UntruncatedIsWhole
<1> QED  BY <1>5, <1>6, <1>7, <1>8, <1>9, <1>10 DEF OutputInv

(* A continuation counts only as an offset of the stream it is used for.   *)
LEMMA OffsetInStream ==
  ASSUME OutputInv, NEW stream \in Streams, NEW token \in Tokens,
         ContinuationOffset(token, stream) # NoToken
  PROVE  ContinuationOffset(token, stream) \in 0..Len(printed[stream])
<1>1. token # NoToken /\ ContinuationOffset(token, stream) = token.offset
      /\ token.stream \in {stream} \union (IF stream = "combined" THEN {"short"} ELSE {})
  BY DEF ContinuationOffset
<1>2. reader.token # NoToken /\ (token = reader.token \/ token = [reader.token EXCEPT !.stream = "short"])
  BY <1>1 DEF Tokens
<1>3. PICK s \in Streams : \E n \in 0..Len(printed[s]) : reader.token = [stream |-> s, offset |-> n]
  BY <1>2, Zenon DEF OutputInv, ReaderInv
<1>4. PICK n \in 0..Len(printed[s]) : reader.token = [stream |-> s, offset |-> n]  BY <1>3
<1>5. "short" \notin Streams  BY DEF Streams, Pipes
<1>6. CASE token = reader.token
  <2>1. token.stream = s /\ token.offset = n  BY <1>4, <1>6
  <2>2. s = stream  BY <1>1, <1>5, <2>1
  <2> QED  BY <1>1, <1>4, <2>1, <2>2
<1>7. CASE token = [reader.token EXCEPT !.stream = "short"]
  <2>1. token = [stream |-> "short", offset |-> n]  BY <1>4, <1>7
  <2>2. token.stream = "short" /\ token.offset = n  BY <2>1
  <2>3. stream = "combined"  BY <1>1, <1>5, <2>2
  <2>4. Len(printed[s]) \in Nat /\ Len(printed[stream]) \in Nat
    BY DEF OutputInv, OutputTypes
  <2>5. Len(printed[s]) <= Len(printed[stream])
    <3>1. CASE s = "combined"  BY <2>3, <2>4, <3>1
    <3>2. CASE s # "combined"  BY <2>3, <3>2 DEF OutputInv, CombinedLonger, Streams
    <3> QED  BY <3>1, <3>2
  <2> QED  BY <1>1, <1>4, <2>2, <2>4, <2>5
<1> QED  BY <1>2, <1>6, <1>7

(* A read leaves the streams alone.                                        *)
LEMMA ReadKeepsTypes ==
  ASSUME OutputInv, work.reads > 0, work' = [work EXCEPT !.reads = @ - 1],
         UNCHANGED <<written, decoder, open, buffer, printed>>
  PROVE  OutputTypes' /\ BuffersHold' /\ CombinedLonger' /\ DecodedSoFar' /\ ChunksInvisible'
<1>1. work \in OutputWork /\ work.reads \in Nat  BY DEF OutputInv, OutputTypes, OutputWork
<1>2. work' \in OutputWork
  <2>1. work.reads - 1 \in Nat  BY <1>1
  <2> QED  BY <1>1, <2>1 DEF OutputWork
<1>3. OutputTypes'  BY <1>2 DEF OutputInv, OutputTypes
<1>4. BuffersHold' /\ CombinedLonger' /\ DecodedSoFar' /\ ChunksInvisible'
  BY Zenon DEF OutputInv, BuffersHold, CombinedLonger, DecodedSoFar, ChunksInvisible
<1> QED  BY <1>3, <1>4

(* A page is what it says it is, whatever continuation the client          *)
(* presents.                                                               *)
LEMMA OutputStreamKeeps ==
  ASSUME OutputInv, NEW stream \in Streams, NEW token \in Tokens, OutputStream(stream, token)
  PROVE  OutputInv'
<1>1. PICK b, whole : b = buffer[stream] /\ whole = printed[stream]  OBVIOUS
<1>2. Holds(b, whole) /\ whole \in Seq(Chars)  BY <1>1 DEF OutputInv, BuffersHold, OutputTypes
<1>3. PICK asked : asked = ContinuationOffset(token, stream)  OBVIOUS
<1>4. PICK from : from = IF asked = NoToken THEN b.dropped ELSE asked  OBVIOUS
<1>5. b.dropped \in 0..Len(whole)  BY <1>2 DEF Holds, Buffers
<1>6. from \in 0..Len(whole)  BY <1>1, <1>3, <1>4, <1>5, OffsetInStream
<1>7. PICK page, first : page = PageOf(b, from) /\ first = First(from, b.dropped)  OBVIOUS
<1>8. /\ b.dropped \in Nat /\ page.begin = first /\ page.text \in Seq(Chars)
      /\ first + Len(page.text) <= Len(whole)
      /\ page.text = SubSeq(whole, first + 1, first + Len(page.text))
      /\ page.next \in {NoToken, first + Len(page.text)}
  BY <1>2, <1>6, <1>7, PageHolds, Zenon
<1>9. first \in Nat  BY <1>6, <1>7, <1>8 DEF First
<1>10. PICK next, end :
         next = (IF page.next = NoToken THEN NoToken ELSE [stream |-> stream, offset |-> page.next])
         /\ end = (IF asked = NoToken THEN page.begin ELSE asked)  OBVIOUS
<1>11. /\ work.reads > 0 /\ work' = [work EXCEPT !.reads = @ - 1]
       /\ UNCHANGED <<written, decoder, open, buffer, printed>> /\ shown' = shown
       /\ reader' = [stream |-> stream, token |-> next, page |-> page, dropped |-> b.dropped,
                     end |-> end]
  BY <1>1, <1>3, <1>4, <1>7, <1>10, Zenon DEF OutputStream
<1>12. First(end, b.dropped) = first
  <2>1. CASE asked = NoToken
    <3>1. end = first /\ from = b.dropped  BY <1>4, <1>8, <1>10, <2>1
    <3> QED  BY <1>7, <1>8, <3>1 DEF First
  <2>2. CASE asked # NoToken
    <3>1. end = from  BY <1>4, <1>10, <2>2
    <3> QED  BY <1>7, <3>1
  <2> QED  BY <2>1, <2>2
<1>13. next # NoToken => \E n \in 0..Len(whole) : next = [stream |-> stream, offset |-> n]
  <2> SUFFICES ASSUME next # NoToken PROVE \E n \in 0..Len(whole) : next = [stream |-> stream, offset |-> n]
    OBVIOUS
  <2>1. page.next # NoToken /\ next = [stream |-> stream, offset |-> page.next]  BY <1>10
  <2>2. page.next = first + Len(page.text)  BY <1>8, <2>1
  <2>3. Len(page.text) \in Nat /\ Len(whole) \in Nat  BY <1>2, <1>8
  <2>4. page.next \in 0..Len(whole)  BY <1>8, <1>9, <2>2, <2>3
  <2> QED  BY <2>1, <2>4
<1>14. /\ reader'.stream = stream /\ reader'.token = next /\ reader'.page = page
       /\ reader'.dropped = b.dropped /\ reader'.end = end /\ printed'[stream] = whole
  BY <1>1, <1>11
<1>15. ReaderInv'
  <2>1. reader'.token # NoToken =>
          \E s \in Streams : \E n \in 0..Len(printed'[s]) : reader'.token = [stream |-> s, offset |-> n]
    BY <1>13, <1>14, Zenon
  <2>2. LET pg == reader'.page f == First(reader'.end, reader'.dropped) IN
         /\ f \in Nat
         /\ pg.begin = f
         /\ pg.text \in Seq(Chars)
         /\ f + Len(pg.text) <= Len(printed'[reader'.stream])
         /\ pg.text = SubSeq(printed'[reader'.stream], f + 1, f + Len(pg.text))
         /\ pg.next \in {NoToken, f + Len(pg.text)}
    BY <1>8, <1>9, <1>12, <1>14, Zenon
  <2> QED  BY <1>14, <2>1, <2>2, Zenon DEF ReaderInv
<1>16. UntruncatedIsWhole'  BY <1>11 DEF OutputInv, UntruncatedIsWhole
<1> QED  BY <1>11, <1>15, <1>16, ReadKeepsTypes DEF OutputInv

(* A status that is not marked as truncated is all of the stream.          *)
LEMMA StatusKeeps ==
  ASSUME OutputInv, NEW keepTail \in BOOLEAN, Status(keepTail)
  PROVE  OutputInv'
<1>1. "combined" \in Streams  BY DEF Streams
<1>2. PICK b, whole : b = buffer["combined"] /\ whole = printed["combined"]  OBVIOUS
<1>3. Holds(b, whole) /\ whole \in Seq(Chars)  BY <1>1, <1>2 DEF OutputInv, BuffersHold, OutputTypes
<1>4. PICK text, clamped : text = Retained(b) /\ clamped = ClampChars(text, keepTail)  OBVIOUS
<1>5. /\ work.reads > 0 /\ work' = [work EXCEPT !.reads = @ - 1]
      /\ UNCHANGED <<written, decoder, open, buffer, printed>> /\ reader' = reader
      /\ shown' = [text |-> clamped, whole |-> whole,
                   truncated |-> clamped # text \/ b.dropped > 0]
  BY <1>2, <1>4, Zenon DEF Status
<1>6. UntruncatedIsWhole'
  <2>1. /\ shown'.text = clamped /\ shown'.whole = whole
        /\ shown'.truncated = (clamped # text \/ b.dropped > 0)  BY <1>5, Zenon
  <2> SUFFICES ASSUME ~ shown'.truncated PROVE clamped = whole
    BY <2>1, Zenon DEF UntruncatedIsWhole
  <2>2. clamped = text /\ ~ (b.dropped > 0)  BY <2>1, Zenon
  <2>3. b.dropped = 0  BY <1>3, <2>2 DEF Holds, Buffers
  <2>4. text = SubSeq(whole, 0 + 1, Len(whole))  BY <1>3, <1>4, <2>3 DEF Holds
  <2>5. SubSeq(whole, 1, Len(whole)) = whole  BY <1>3, SubSeqFull
  <2> QED  BY <2>2, <2>4, <2>5
<1>7. ReaderInv'
  <2>1. printed' = printed /\ reader' = reader  BY <1>5
  <2> QED  BY <2>1, Zenon DEF OutputInv, ReaderInv
<1> QED  BY <1>5, <1>6, <1>7, ReadKeepsTypes DEF OutputInv

(* Every step keeps the invariant.                                         *)
LEMMA OutputInvStep == OutputInv /\ [OutputNext]_outputVars => OutputInv'
<1> SUFFICES ASSUME OutputInv, [OutputNext]_outputVars PROVE OutputInv'  OBVIOUS
<1>1. ASSUME NEW pipe \in Pipes, NEW bytes \in work.chunks[pipe], Ingest(pipe, bytes)
      PROVE  OutputInv'
  BY <1>1, IngestKeeps
<1>2. ASSUME NEW pipe \in Pipes, FinishPipe(pipe) PROVE OutputInv'  BY <1>2, FinishPipeKeeps
<1>3. ASSUME NEW stream \in Streams, NEW token \in Tokens, OutputStream(stream, token)
      PROVE  OutputInv'
  BY <1>3, OutputStreamKeeps
<1>4. ASSUME NEW keepTail \in BOOLEAN, Status(keepTail) PROVE OutputInv'
  BY <1>4, StatusKeeps
<1>5. CASE UNCHANGED outputVars
  BY <1>5, Zenon DEF outputVars, OutputInv, OutputTypes, BuffersHold, CombinedLonger, DecodedSoFar,
         ChunksInvisible, ReaderInv, UntruncatedIsWhole
<1> QED  BY <1>1, <1>2, <1>3, <1>4, <1>5 DEF OutputNext

(* It always holds.                                                        *)
LEMMA OutputInvariant == OutputSpec => []OutputInv
BY OutputInvInit, OutputInvStep, PTL DEF OutputSpec

(* Theorem: how the output of a process is cut into chunks never shows,    *)
(* whatever the chunks (bash/output.rs StreamDecoder).                     *)
THEOREM OutputChunksInvisible == OutputSpec => []ChunksInvisible
<1>1. OutputInv => ChunksInvisible  BY DEF OutputInv
<1> QED  BY <1>1, OutputInvariant, PTL

(* Theorem: pages, tails and status views are what they say they are for   *)
(* every limit, page size and sequence of reads (TailBuffer, view).        *)
THEOREM OutputIsFaithful == OutputSpec => []OutputFaithful
BY OutputInvFaithful, OutputInvariant, PTL

=============================================================================
