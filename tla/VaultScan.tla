------------------------------- MODULE VaultScan -------------------------------
(***************************************************************************)
(* The vault scanner of one node: VaultSyncManager._scan_folder for one    *)
(* shared folder, while people edit the files.                             *)
(*                                                                         *)
(* Phase 1 walks the folder without the write lock, skips the files whose  *)
(* stat is in the in-memory stat cache, and collects the content of those  *)
(* that differ from the database.  Phase 2 writes the rows of              *)
(* vault_sync_state and queues the events, one statement at a time, then   *)
(* tombstones the rows whose file the walk did not see.                    *)
(*                                                                         *)
(* An operator may ask for reconcile(mode="repair") at any time: it reads  *)
(* what differs between the rows and the disk, and makes the disk win, one *)
(* path at a time, taking the lock for each.                               *)
(*                                                                         *)
(* Incoming events share the lock and the files: see VaultSync.            *)
(***************************************************************************)
EXTENDS Integers, FiniteSets

CONSTANTS
  Path,          \* the files of the folder that can exist
  Content,       \* what a file can hold; a hash is its content
  Absent,        \* no file
  NoRow,         \* no row in vault_sync_state
  Tombstone,     \* a row with is_deleted
  NoPath,
  MaxFiles,      \* MAX_FILES_PER_SCAN
  CreateBudget,  \* MAX_EVENTS_PER_SCAN - DELETE_EVENT_RESERVE
  MaxEvents,     \* MAX_EVENTS_PER_SCAN
  MaxHiccups,    \* bound: files the walk overlooks or cannot read
  MaxRestarts,   \* bound: restarts of the process
  MaxFailures,   \* bound: scans and repairs ended by an exception
  MaxRepairs     \* bound: reconcile calls

ASSUME ScanAssumption ==
  /\ IsFiniteSet(Path) /\ NoPath \notin Path
  /\ {Absent, NoRow, Tombstone} \intersect Content = {}
  /\ NoRow # Tombstone
  /\ {MaxFiles, CreateBudget, MaxEvents} \subseteq Nat
  /\ {MaxHiccups, MaxRestarts, MaxFailures, MaxRepairs} \subseteq Nat

VARIABLES
  disk,      \* the content of each file, or Absent
  row,       \* content_hash of each row, NoRow or Tombstone
  cached,    \* the files whose present mtime and size are in _stat_cache
  told,      \* what the events queued so far tell the peers of each path
  pc,        \* the phase of the scan
  preload,   \* db_hashes, read at the start of the scan
  todo,      \* the paths the walk has still to visit
  seen,      \* seen_paths
  changed,   \* changed_files: the bytes read, Absent when not collected
  truncated, \* scan_truncated
  telling,   \* a path whose row is written and event not yet queued ...
  payload,   \* ... and what the event says of it, Absent for a FORGET
  gone,      \* the rows the deletion pass has still to look at
  events,    \* events_this_cycle
  fix,       \* the step of reconcile; waiting and holding are for the lock
  drift,     \* what it found about each path and has not repaired yet
  fixing,    \* the path it is repairing
  bytes,     \* what it read there, Absent when it is to be forgotten
  hiccups, restarts, failures, repairs

scanVars == <<pc, preload, todo, seen, changed, truncated, telling, payload,
              gone, events>>
fixVars == <<fix, drift, fixing, bytes>>
faultVars == <<hiccups, restarts, failures, repairs>>
vars == <<disk, row, cached, told, scanVars, fixVars, faultVars>>

Collected == {p \in Path : changed[p] # Absent}

Drift == {"no", "missing_in_db", "hash_mismatch", "missing_on_disk"}

TypeOK ==
  /\ disk \in [Path -> Content \union {Absent}]
  /\ row \in [Path -> Content \union {NoRow, Tombstone}]
  /\ cached \in SUBSET {p \in Path : disk[p] # Absent}
  /\ told \in [Path -> Content \union {Absent}]
  /\ pc \in {"idle", "walk", "write", "delete"}
  /\ preload \in [Path -> Content \union {NoRow}]
  /\ todo \in SUBSET Path
  /\ seen \in SUBSET Path
  /\ changed \in [Path -> Content \union {Absent}]
  /\ truncated \in BOOLEAN
  /\ telling \in Path \union {NoPath}
  /\ payload \in Content \union {Absent}
  /\ gone \in SUBSET Path
  /\ events \in Nat
  /\ fix \in {"none", "report", "waiting", "holding", "telling"}
  /\ drift \in [Path -> Drift]
  /\ fixing \in Path \union {NoPath}
  /\ bytes \in Content \union {Absent}
  /\ {hiccups, restarts, failures, repairs} \subseteq Nat

\* The local variables of _scan_folder when no scan runs.
NoScan ==
  /\ pc = "idle"
  /\ preload = [p \in Path |-> NoRow]
  /\ todo = {} /\ seen = {} /\ gone = {}
  /\ changed = [p \in Path |-> Absent]
  /\ truncated = FALSE
  /\ telling = NoPath /\ payload = Absent
  /\ events = 0

EndScan ==
  /\ pc' = "idle"
  /\ preload' = [p \in Path |-> NoRow]
  /\ todo' = {} /\ seen' = {} /\ gone' = {}
  /\ changed' = [p \in Path |-> Absent]
  /\ truncated' = FALSE
  /\ telling' = NoPath /\ payload' = Absent
  /\ events' = 0

Init ==
  /\ disk = [p \in Path |-> Absent]
  /\ row = [p \in Path |-> NoRow]
  /\ cached = {}
  /\ told = [p \in Path |-> Absent]
  /\ NoScan
  /\ fix = "none" /\ drift = [p \in Path |-> "no"]
  /\ fixing = NoPath /\ bytes = Absent
  /\ hiccups = 0 /\ restarts = 0 /\ failures = 0 /\ repairs = 0

\* _write_lock: held by the scan in phase 2 or by a repair, never by both.
ScanHolds == pc \in {"write", "delete"}
RepairHolds == fix \in {"holding", "telling"}

\* Releasing the lock passes it to the repair that waits for it.
PassLock == fix' = (IF fix = "waiting" THEN "holding" ELSE fix)
            /\ UNCHANGED <<drift, fixing, bytes>>

Announce(p, c) == telling' = p /\ payload' = c
Silent == UNCHANGED <<telling, payload>>

-----------------------------------------------------------------------------
(* People and their editors: a write or a removal changes the file's stat. *)

Write(p, c) ==
  /\ c # disk[p]
  /\ disk' = [disk EXCEPT ![p] = c]
  /\ cached' = cached \ {p}
  /\ UNCHANGED <<row, told, scanVars, fixVars, faultVars>>

\* Fault: the cache remembers paths, not stats.
KeepCached(p) ==
  /\ disk[p] # Absent
  /\ disk' = [disk EXCEPT ![p] = Absent]
  /\ UNCHANGED <<row, cached, told, scanVars, fixVars, faultVars>>

Remove(p) ==
  /\ disk[p] # Absent
  /\ disk' = [disk EXCEPT ![p] = Absent]
  /\ cached' = cached \ {p}
  /\ UNCHANGED <<row, told, scanVars, fixVars, faultVars>>

-----------------------------------------------------------------------------
(* Phase 1, without the lock.                                              *)

\* run_cycle finds no scan in progress; the hashes of the live rows are read.
StartScan ==
  /\ pc = "idle"
  /\ pc' = "walk"
  /\ preload' = [p \in Path |-> IF row[p] \in Content THEN row[p] ELSE NoRow]
  /\ todo' = Path
  /\ Silent
  /\ UNCHANGED <<disk, row, cached, told, seen, changed, truncated, gone,
                 events, fixVars, faultVars>>

Skip(p) == todo' = todo \ {p} /\ UNCHANGED <<changed, truncated>>

\* The cap ends the walk: the rest of the folder is not visited.
Capped == truncated' = TRUE /\ todo' = {} /\ UNCHANGED changed

Collect(p) ==
  /\ changed' = [changed EXCEPT ![p] = disk[p]]
  /\ todo' = todo \ {p}
  /\ UNCHANGED truncated

\* The file is hashed; its stat goes into the cache before the hash is
\* compared with the database and before the cap is looked at.
ReadFile(p) ==
  /\ cached' = cached \union {p}
  /\ IF preload[p] = disk[p] THEN Skip(p)
     ELSE IF Cardinality(Collected) >= MaxFiles THEN Capped
     ELSE Collect(p)

\* Fault: a file that could not be read is cached all the same.
CacheUnread(p) ==
  /\ seen' = seen \union {p}
  /\ cached' = cached \union {p}
  /\ \/ p \in cached /\ Skip(p) /\ UNCHANGED hiccups
     \/ p \notin cached /\ ReadFile(p) /\ UNCHANGED hiccups
     \/ p \notin cached /\ hiccups < MaxHiccups /\ hiccups' = hiccups + 1 /\ Skip(p)

VisitFile(p) ==
  /\ seen' = seen \union {p}
  /\ \/ p \in cached /\ Skip(p) /\ UNCHANGED <<cached, hiccups>>
     \/ p \notin cached /\ ReadFile(p) /\ UNCHANGED hiccups
     \/ \* stat or read failed, or the file was still being written
        /\ p \notin cached /\ hiccups < MaxHiccups
        /\ hiccups' = hiccups + 1
        /\ Skip(p) /\ UNCHANGED cached

\* The walk does not yield a file that is there.
Overlook(p) ==
  /\ hiccups < MaxHiccups
  /\ hiccups' = hiccups + 1
  /\ Skip(p) /\ UNCHANGED <<seen, cached>>

Visit(p) ==
  /\ pc = "walk" /\ p \in todo
  /\ \/ disk[p] = Absent /\ Skip(p) /\ UNCHANGED <<seen, cached, hiccups>>
     \/ disk[p] # Absent /\ (VisitFile(p) \/ Overlook(p))
  /\ Silent
  /\ UNCHANGED <<disk, row, told, pc, preload, gone, events, fixVars,
                 restarts, failures, repairs>>

-----------------------------------------------------------------------------
(* Phase 2, under the lock.                                                *)

\* Fault: phase 2 does not wait for the lock.
NoLock ==
  /\ pc = "walk" /\ todo = {}
  /\ pc' = "write"
  /\ Silent
  /\ UNCHANGED <<disk, row, cached, told, preload, todo, seen, changed,
                 truncated, gone, events, fixVars, faultVars>>

TakeLock ==
  /\ pc = "walk" /\ todo = {} /\ ~RepairHolds
  /\ pc' = "write"
  /\ Silent
  /\ UNCHANGED <<disk, row, cached, told, preload, todo, seen, changed,
                 truncated, gone, events, fixVars, faultVars>>

\* A NEW row, a file that came back after its tombstone, or an edited one.
Record(p) ==
  /\ pc = "write" /\ telling = NoPath
  /\ p \in Collected /\ events < CreateBudget
  /\ changed' = [changed EXCEPT ![p] = Absent]
  /\ IF row[p] = changed[p]
     THEN Silent /\ UNCHANGED <<row, events>>
     ELSE /\ row' = [row EXCEPT ![p] = changed[p]]
          /\ Announce(p, changed[p])
          /\ events' = events + 1
  /\ UNCHANGED <<disk, cached, told, pc, preload, todo, seen, truncated, gone,
                 fixVars, faultVars>>

\* _queue_event, for every peer of the folder.
Tell ==
  /\ telling # NoPath
  /\ told' = [told EXCEPT ![telling] = payload]
  /\ telling' = NoPath /\ payload' = Absent
  /\ UNCHANGED <<disk, row, cached, pc, preload, todo, seen, changed,
                 truncated, gone, events, fixVars, faultVars>>

\* Fault: files are never missed.
NothingGone == {}

\* The live rows whose file the walk did not see; none if it was cut short.
Gone == IF truncated THEN {}
        ELSE {p \in Path : row[p] \in Content /\ p \notin seen}

\* All changes are recorded or the budget is spent.
StartDeletions ==
  /\ pc = "write" /\ telling = NoPath
  /\ Collected = {} \/ events >= CreateBudget
  /\ pc' = "delete"
  /\ gone' = Gone
  /\ Silent
  /\ UNCHANGED <<disk, row, cached, told, preload, todo, seen, changed,
                 truncated, events, fixVars, faultVars>>

AbsenceConfirmed(p) == disk[p] = Absent

Forget(p) ==
  /\ pc = "delete" /\ telling = NoPath
  /\ p \in gone /\ events < MaxEvents
  /\ gone' = gone \ {p}
  /\ IF AbsenceConfirmed(p)
     THEN /\ row' = [row EXCEPT ![p] = Tombstone]
          /\ cached' = cached \ {p}
          /\ Announce(p, Absent)
          /\ events' = events + 1
     ELSE Silent /\ UNCHANGED <<row, cached, events>>
  /\ UNCHANGED <<disk, told, pc, preload, todo, seen, changed, truncated,
                 fixVars, faultVars>>

\* The lock is released; _cleanup_tombstones purges the old ones.
FinishScan ==
  /\ pc = "delete" /\ telling = NoPath
  /\ gone = {} \/ events >= MaxEvents
  /\ \E old \in SUBSET {p \in Path : row[p] = Tombstone} :
       row' = [p \in Path |-> IF p \in old THEN NoRow ELSE row[p]]
  /\ EndScan /\ PassLock
  /\ UNCHANGED <<disk, cached, told, faultVars>>

-----------------------------------------------------------------------------
(* reconcile(mode="repair", confirm=True).                                 *)

\* The rows are read under the lock, the disk after it.  A file that cannot
\* be read is unknown; the walk may also overlook one that is there.
Found(p) ==
  IF row[p] \in Content
  THEN IF disk[p] = Absent THEN "missing_on_disk"
       ELSE IF disk[p] # row[p] THEN "hash_mismatch" ELSE "no"
  ELSE IF disk[p] # Absent THEN "missing_in_db" ELSE "no"

Detect ==
  /\ fix = "none" /\ ~ScanHolds /\ repairs < MaxRepairs
  /\ repairs' = repairs + 1
  /\ fix' = "report"
  /\ \/ drift' = [p \in Path |-> Found(p)] /\ UNCHANGED hiccups
     \/ /\ hiccups < MaxHiccups /\ hiccups' = hiccups + 1
        /\ \E p \in Path, d \in {"no", "missing_on_disk"} :
             /\ disk[p] # Absent
             /\ d = "missing_on_disk" => row[p] \in Content
             /\ drift' = [q \in Path |-> IF q = p THEN d ELSE Found(q)]
  /\ UNCHANGED <<disk, row, cached, told, scanVars, fixing, bytes, restarts,
                 failures>>

\* The file is read, or its absence confirmed, before the lock is asked for.
RepairRead(p) ==
  /\ fix = "report" /\ drift[p] # "no"
  /\ (drift[p] = "missing_on_disk") = AbsenceConfirmed(p)
  /\ fix' = IF ScanHolds THEN "waiting" ELSE "holding"
  /\ fixing' = p /\ bytes' = disk[p]
  /\ UNCHANGED <<disk, row, cached, told, scanVars, drift, faultVars>>

\* A file that is gone, or back, is left alone.
RepairSkips(p) ==
  /\ fix = "report" /\ drift[p] # "no"
  /\ (drift[p] = "missing_on_disk") # AbsenceConfirmed(p)
  /\ drift' = [drift EXCEPT ![p] = "no"]
  /\ UNCHANGED <<disk, row, cached, told, scanVars, fix, fixing, bytes,
                 faultVars>>

\* The NEW repair inserts or overwrites the row; the others update the row
\* there is, and an UPDATE leaves a tombstone a tombstone.
RepairedRow ==
  CASE drift[fixing] = "missing_in_db" -> bytes
    [] drift[fixing] = "hash_mismatch" ->
         IF row[fixing] \in Content THEN bytes ELSE row[fixing]
    [] OTHER -> IF row[fixing] = NoRow THEN NoRow ELSE Tombstone

RepairWrite ==
  /\ fix = "holding"
  /\ fix' = "telling"
  /\ row' = [row EXCEPT ![fixing] = RepairedRow]
  /\ drift' = [drift EXCEPT ![fixing] = "no"]
  /\ UNCHANGED <<disk, cached, told, scanVars, fixing, bytes, faultVars>>

\* _queue_event, then the lock is released.
RepairTell ==
  /\ fix = "telling"
  /\ fix' = "report" /\ fixing' = NoPath /\ bytes' = Absent
  /\ told' = [told EXCEPT ![fixing] = bytes]
  /\ UNCHANGED <<disk, row, cached, scanVars, drift, faultVars>>

EndRepair ==
  /\ fix' = "none" /\ drift' = [p \in Path |-> "no"]
  /\ fixing' = NoPath /\ bytes' = Absent

\* Everything is repaired, or max_actions is reached.
FinishRepair ==
  /\ fix = "report"
  /\ EndRepair
  /\ UNCHANGED <<disk, row, cached, told, scanVars, faultVars>>

-----------------------------------------------------------------------------
(* Failures.                                                               *)

\* run_cycle logs the exception: rows written stay, the cache stays.
ScanFails ==
  /\ pc # "idle" /\ failures < MaxFailures
  /\ failures' = failures + 1
  /\ EndScan
  /\ IF ScanHolds
     THEN PassLock
     ELSE UNCHANGED fixVars
  /\ UNCHANGED <<disk, row, cached, told, hiccups, restarts, repairs>>

RepairFails ==
  /\ RepairHolds /\ failures < MaxFailures
  /\ failures' = failures + 1
  /\ EndRepair
  /\ UNCHANGED <<disk, row, cached, told, scanVars, hiccups, restarts, repairs>>

\* The stat cache is in memory.
Restart ==
  /\ restarts < MaxRestarts
  /\ restarts' = restarts + 1
  /\ cached' = {}
  /\ EndScan /\ EndRepair
  /\ UNCHANGED <<disk, row, told, hiccups, failures, repairs>>

-----------------------------------------------------------------------------

ScanStep ==
  \/ StartScan
  \/ \E p \in Path : Visit(p) \/ Record(p) \/ Forget(p)
  \/ TakeLock \/ Tell \/ StartDeletions \/ FinishScan

Next ==
  \/ \E p \in Path : Remove(p) \/ \E c \in Content : Write(p, c)
  \/ ScanStep
  \/ Detect \/ RepairWrite \/ RepairTell \/ FinishRepair
  \/ \E p \in Path : RepairRead(p) \/ RepairSkips(p)
  \/ ScanFails \/ RepairFails
  \/ Restart

Spec == Init /\ [][Next]_vars

\* The poll loop runs a cycle at least once per scan interval, and whoever
\* holds the lock goes on.
FairSpec == Spec /\ WF_vars(ScanStep) /\ WF_vars(RepairWrite \/ RepairTell)

-----------------------------------------------------------------------------
(* Properties.                                                             *)

\* Between scans a file the next scan will skip for its stat is recorded in
\* the database as it is on disk: the cache hides no edit.  A scan that fails
\* leaves its cache entries, and a repair may write bytes read before an edit.
SkippedIsRecorded ==
  pc = "idle" /\ failures = 0 /\ repairs = 0 =>
    \A p \in cached : row[p] = disk[p]

\* Until a process dies or a statement fails, the peers have been told of
\* every live row as it is, by scans and repairs taking turns: nothing else
\* will tell them, since a row that matches its file is never announced.
RecordedIsTold ==
  restarts = 0 /\ failures = 0 =>
    \A p \in Path :
      row[p] \in Content /\ telling # p /\ ~(fix = "telling" /\ fixing = p)
        => told[p] = row[p]

\* What is on disk long enough is what the peers are told, removals
\* included, unless the node restarts between a row and its event.
PeersLearn ==
  \A p \in Path, c \in Content \union {Absent} :
    disk[p] = c ~> (told[p] = c \/ disk[p] # c \/ restarts > 0)

\* A row is tombstoned only while its file is absent, by a scan or a repair:
\* absence is established "at the moment of the tombstone write"
\* (_absence_confirmed).  A repair does not keep this.
TombstonesAreTrue ==
  [][\A p \in Path : row[p] \in Content /\ row'[p] = Tombstone
                       => disk[p] = Absent]_vars

===============================================================================
