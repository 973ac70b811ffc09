------------------------------ MODULE RunTable ------------------------------
(***************************************************************************)
(* The table of retained runs: struct RunTable of src/bash.rs.             *)
(*                                                                         *)
(* Starting a run inserts its record and then evicts the oldest ended runs *)
(* beyond the limit.  The eviction works on a copy of the table taken      *)
(* under the table lock and reads each copied record after giving that     *)
(* lock up ("the table lock is never held while a record lock is taken"),  *)
(* so other requests insert, evict and end runs in between.                *)
(***************************************************************************)
EXTENDS Naturals, FiniteSets

CONSTANTS
  Runs,      \* run identities
  Retain,    \* MAX_RETAINED_RUNS
  MaxActive  \* bound: runs that may be active at the same moment

ASSUME TableAssumption == Retain \in Nat /\ MaxActive \in 1..Retain

VARIABLES
  table,     \* the retained runs
  status,    \* "absent", "active" or "ended", as the record would show it
  endedAt,   \* RunRecord.ended_at, 0 while unset
  insert,    \* insert[r]: where RunTable::insert stands for r
  excess,    \* excess[r]: how many runs r's insert means to evict
  unread,    \* unread[r]: the copied records it has not looked at yet
  seen       \* seen[r]: the copied records that showed an end time

tableVars == <<table, status, endedAt, insert, excess, unread, seen>>

ActiveRuns == {r \in Runs : status[r] = "active"}
EndedRuns  == {r \in Runs : status[r] = "ended"}

TableTypeOK ==
  /\ table \in SUBSET Runs
  /\ status \in [Runs -> {"absent", "active", "ended"}]
  /\ endedAt \in [Runs -> Nat]
  /\ insert \in [Runs -> {"none", "reading", "done"}]
  /\ excess \in [Runs -> Nat]
  /\ unread \in [Runs -> SUBSET Runs]
  /\ seen \in [Runs -> SUBSET Runs]

TableInit ==
  /\ table = {}
  /\ status = [r \in Runs |-> "absent"]
  /\ endedAt = [r \in Runs |-> 0]
  /\ insert = [r \in Runs |-> "none"]
  /\ excess = [r \in Runs |-> 0]
  /\ unread = [r \in Runs |-> {}]
  /\ seen = [r \in Runs |-> {}]

-----------------------------------------------------------------------------

(* RunTable::insert under the table lock: add the record; if the table has *)
(* outgrown the limit, copy it and note by how much.                       *)
Insert(r) ==
  LET runs == table \union {r} IN
  /\ insert[r] = "none"
  /\ Cardinality(ActiveRuns) < MaxActive
  /\ status' = [status EXCEPT ![r] = "active"]
  /\ table' = runs
  /\ IF Cardinality(runs) <= Retain
     THEN /\ insert' = [insert EXCEPT ![r] = "done"]
          /\ UNCHANGED <<excess, unread>>
     ELSE /\ insert' = [insert EXCEPT ![r] = "reading"]
          /\ excess' = [excess EXCEPT ![r] = Cardinality(runs) - Retain]
          /\ unread' = [unread EXCEPT ![r] = runs]
  /\ UNCHANGED <<endedAt, seen>>

(* Mutant: active runs are candidates too. *)
ReadRecordUnfiltered(r, s) ==
  /\ insert[r] = "reading"
  /\ s \in unread[r]
  /\ unread' = [unread EXCEPT ![r] = @ \ {s}]
  /\ seen' = [seen EXCEPT ![r] = @ \union {s}]
  /\ UNCHANGED <<table, status, endedAt, insert, excess>>

(* Each copied record is locked on its own and read once. *)
ReadRecord(r, s) ==
  /\ insert[r] = "reading"
  /\ s \in unread[r]
  /\ unread' = [unread EXCEPT ![r] = @ \ {s}]
  /\ seen' = [seen EXCEPT ![r] = IF status[s] = "ended" THEN @ \union {s} ELSE @]
  /\ UNCHANGED <<table, status, endedAt, insert, excess>>

(* Mutant: one run too few is evicted. *)
IsOldestShort(victims, ended, count) ==
  /\ \/ Cardinality(victims) = count - 1
     \/ Cardinality(ended) < count - 1 /\ victims = ended
  /\ \A v \in victims, s \in ended \ victims : endedAt[v] < endedAt[s]

(* Mutant: sorted the wrong way round. *)
IsNewest(victims, ended, count) ==
  /\ \/ Cardinality(victims) = count
     \/ Cardinality(ended) < count /\ victims = ended
  /\ \A v \in victims, s \in ended \ victims : endedAt[v] > endedAt[s]

(* Sorting `ended` by end time and taking the first `count`. *)
IsOldest(victims, ended, count) ==
  /\ \/ Cardinality(victims) = count
     \/ Cardinality(ended) < count /\ victims = ended
  /\ \A v \in victims, s \in ended \ victims : endedAt[v] < endedAt[s]

(* RunTable::insert, second critical section: remove the oldest runs seen  *)
(* as ended; those another insert removed meanwhile are simply not there.  *)
Evict(r) ==
  /\ insert[r] = "reading"
  /\ unread[r] = {}
  /\ \E victims \in SUBSET seen[r] :
       /\ IsOldest(victims, seen[r], excess[r])
       /\ table' = table \ victims
  /\ insert' = [insert EXCEPT ![r] = "done"]
  /\ seen' = [seen EXCEPT ![r] = {}]
  /\ excess' = [excess EXCEPT ![r] = 0]
  /\ UNCHANGED <<status, endedAt, unread>>

(* The run ends.  Its task is spawned only after insert has returned. *)
End(r) ==
  /\ status[r] = "active"
  /\ insert[r] = "done"
  /\ status' = [status EXCEPT ![r] = "ended"]
  /\ endedAt' = [endedAt EXCEPT ![r] = Cardinality(EndedRuns) + 1]
  /\ UNCHANGED <<table, insert, excess, unread, seen>>

TableNext ==
  \E r \in Runs :
    \/ Insert(r) \/ Evict(r) \/ End(r)
    \/ \E s \in Runs : ReadRecord(r, s)

TableSpec == TableInit /\ [][TableNext]_tableVars

-----------------------------------------------------------------------------
(* Properties.                                                             *)

(* "Active runs are never evicted": a started run can be polled and        *)
(* cancelled until it ends, however many inserts work on stale copies.     *)
ActiveRetained == ActiveRuns \subseteq table

(* "At most 128 completed runs are retained": the table outgrows its limit *)
(* by no more than the inserts still on their way to evicting.             *)
RetentionBound ==
  Cardinality(table) <=
    Retain + Cardinality({r \in Runs : insert[r] = "reading"})

(* Output remains available: a run is gone only after the runs that ended  *)
(* later, or are still active, fill the table.                             *)
EvictedOnlyForNewer ==
  \A r \in EndedRuns \ table :
    Cardinality(ActiveRuns \union {s \in EndedRuns : endedAt[s] > endedAt[r]})
      >= Retain

(* What overlapping inserts over stale copies do to the table of runs      *)
(* (bash.rs RunTable::insert): all of the above at once.                   *)
EvictionSound ==
  TableTypeOK /\ ActiveRetained /\ RetentionBound /\ EvictedOnlyForNewer

=============================================================================
