--------------------------- MODULE VaultScanProofs ---------------------------
(***************************************************************************)
(* What a vault scan or a repair records, the peers are told: proofs about *)
(* VaultScan, for any files and contents, any caps, and any number of      *)
(* scans and repairs.                                                      *)
(***************************************************************************)
EXTENDS VaultScan, FiniteSetTheorems, TLAPS

USE ScanAssumption

(***************************************************************************)
(* RecordedIsTold excuses the one row that is written and whose event is   *)
(* still to be queued.  The step that queues the event must therefore find *)
(* the row as the event says (ScanTellsRow, RepairTellsRow).  The scan     *)
(* writes its rows and queues its events under the lock, a repair as well, *)
(* and a scan looks for the lock only once: LockIsExclusive keeps each     *)
(* from writing the row the other is about to announce.                    *)
(***************************************************************************)
LockIsExclusive == ~(ScanHolds /\ RepairHolds)

ScanTellsRow ==
  telling # NoPath =>
    /\ ScanHolds
    /\ row[telling] \in Content => payload = row[telling]

RepairReads ==
  fix \in {"waiting", "holding", "telling"} => fixing \in Path

RepairKnows ==
  fix \in {"waiting", "holding"} =>
    (drift[fixing] \in {"missing_in_db", "hash_mismatch"} => bytes \in Content)

RepairTellsRow ==
  fix = "telling" => (row[fixing] \in Content => bytes = row[fixing])

ScanInv ==
  /\ TypeOK
  /\ LockIsExclusive
  /\ ScanTellsRow
  /\ RepairReads
  /\ RepairKnows
  /\ RepairTellsRow
  /\ RecordedIsTold

LEMMA InitScan == Init => ScanInv
<1> SUFFICES ASSUME Init PROVE ScanInv
  OBVIOUS
<1>1. TypeOK
  <2>1. /\ disk \in [Path -> Content \union {Absent}]
        /\ row \in [Path -> Content \union {NoRow, Tombstone}]
        /\ told \in [Path -> Content \union {Absent}]
        /\ drift \in [Path -> Drift]
    BY DEF Init, Drift
  <2>2. /\ preload \in [Path -> Content \union {NoRow}]
        /\ changed \in [Path -> Content \union {Absent}]
    BY DEF Init, NoScan
  <2>3. {hiccups, restarts, failures, repairs} \subseteq Nat
    BY DEF Init
  <2>. QED
    BY <2>1, <2>2, <2>3 DEF Init, NoScan, TypeOK
<1>2. pc = "idle" /\ telling = NoPath /\ fix = "none"
  BY DEF Init, NoScan
<1>3. \A p \in Path : row[p] \notin Content
  BY DEF Init
<1>. QED
  BY <1>1, <1>2, <1>3 DEF ScanInv, LockIsExclusive, ScanHolds, RepairHolds,
     ScanTellsRow, RepairReads, RepairKnows, RepairTellsRow, RecordedIsTold

-----------------------------------------------------------------------------
(* Types.                                                                  *)

LEMMA EndScanTypes ==
  ASSUME EndScan
  PROVE  /\ pc' = "idle"
         /\ preload' \in [Path -> Content \union {NoRow}]
         /\ todo' = {} /\ seen' = {} /\ gone' = {}
         /\ changed' \in [Path -> Content \union {Absent}]
         /\ truncated' \in BOOLEAN
         /\ telling' = NoPath /\ payload' = Absent
         /\ events' = 0
BY DEF EndScan

LEMMA VisitTypes ==
  ASSUME TypeOK, NEW p \in Path, Visit(p)
  PROVE  TypeOK'
<1> USE DEF Silent, fixVars
<1>1. /\ UNCHANGED <<disk, row, told, pc, preload, telling, payload, gone,
                     events, fix, drift, fixing, bytes, restarts, failures, repairs>>
      /\ \/ disk[p] = Absent /\ Skip(p) /\ UNCHANGED <<seen, cached, hiccups>>
         \/ disk[p] # Absent /\ (VisitFile(p) \/ Overlook(p))
  BY DEF Visit
<1>2. seen' \in SUBSET Path /\ hiccups' \in Nat
  BY <1>1 DEF TypeOK, VisitFile, Overlook, Skip
<1>3. cached' \in SUBSET {q \in Path : disk[q] # Absent}
  BY <1>1 DEF TypeOK, VisitFile, ReadFile, Overlook, Skip
<1>4. todo' \in SUBSET Path
  BY <1>1 DEF TypeOK, VisitFile, ReadFile, Overlook, Skip, Capped, Collect
<1>5. changed' \in [Path -> Content \union {Absent}]
  BY <1>1 DEF TypeOK, VisitFile, ReadFile, Overlook, Skip, Capped, Collect
<1>6. truncated' \in BOOLEAN
  <2>1. truncated' = truncated \/ truncated' = TRUE
    BY <1>1, Zenon DEF VisitFile, ReadFile, Overlook, Skip, Capped, Collect
  <2>. QED
    BY <2>1 DEF TypeOK
<1>. QED
  BY <1>1, <1>2, <1>3, <1>4, <1>5, <1>6 DEF TypeOK

LEMMA TypeStep == ScanInv /\ [Next]_vars => TypeOK'
<1> SUFFICES ASSUME ScanInv, [Next]_vars PROVE TypeOK'
  OBVIOUS
<1> USE DEF ScanInv, scanVars, fixVars, faultVars
<1>1. ASSUME NEW p \in Path, Remove(p) PROVE TypeOK'
  BY <1>1 DEF TypeOK, Remove
<1>2. ASSUME NEW p \in Path, NEW c \in Content, Write(p, c) PROVE TypeOK'
  BY <1>2 DEF TypeOK, Write
<1>3. CASE StartScan
  BY <1>3 DEF TypeOK, StartScan, Silent
<1>4. ASSUME NEW p \in Path, Visit(p) PROVE TypeOK'
  BY <1>4, VisitTypes
<1>5. CASE TakeLock
  BY <1>5 DEF TypeOK, TakeLock, Silent
<1>6. ASSUME NEW p \in Path, Record(p) PROVE TypeOK'
  <2>1. changed[p] \in Content
    BY <1>6 DEF TypeOK, Record, Collected
  <2>2. row' \in [Path -> Content \union {NoRow, Tombstone}]
    BY <1>6, <2>1 DEF TypeOK, Record
  <2>3. changed' \in [Path -> Content \union {Absent}]
    BY <1>6 DEF TypeOK, Record
  <2>4. telling' \in Path \union {NoPath} /\ payload' \in Content \union {Absent}
        /\ events' \in Nat
    BY <1>6, <2>1 DEF TypeOK, Record, Announce, Silent
  <2>. QED
    BY <1>6, <2>2, <2>3, <2>4 DEF TypeOK, Record
<1>7. CASE Tell
  BY <1>7 DEF TypeOK, Tell
<1>8. CASE StartDeletions
  BY <1>8 DEF TypeOK, StartDeletions, Silent, Gone
<1>9. ASSUME NEW p \in Path, Forget(p) PROVE TypeOK'
  <2>1. row' \in [Path -> Content \union {NoRow, Tombstone}]
    BY <1>9 DEF TypeOK, Forget
  <2>2. /\ telling' \in Path \union {NoPath} /\ payload' \in Content \union {Absent}
        /\ events' \in Nat /\ cached' \subseteq cached /\ gone' \subseteq Path
    BY <1>9 DEF TypeOK, Forget, Announce, Silent
  <2>. QED
    BY <1>9, <2>1, <2>2 DEF TypeOK, Forget
<1>10. CASE FinishScan
  <2>1. PICK old \in SUBSET {p \in Path : row[p] = Tombstone} :
          row' = [p \in Path |-> IF p \in old THEN NoRow ELSE row[p]]
    BY <1>10 DEF FinishScan
  <2>2. row' \in [Path -> Content \union {NoRow, Tombstone}]
    BY <2>1 DEF TypeOK
  <2>. QED
    BY <1>10, <2>2, EndScanTypes DEF TypeOK, FinishScan, PassLock
<1>11. CASE Detect
  <2>1. \A p \in Path : Found(p) \in Drift
    BY DEF Found, Drift
  <2>2. drift' \in [Path -> Drift]
    BY <1>11, <2>1 DEF Detect, Drift
  <2>3. hiccups' \in Nat /\ repairs' \in Nat
    BY <1>11 DEF TypeOK, Detect
  <2>. QED
    BY <1>11, <2>2, <2>3 DEF TypeOK, Detect
<1>12. ASSUME NEW p \in Path, RepairRead(p) \/ RepairSkips(p) PROVE TypeOK'
  BY <1>12 DEF TypeOK, Drift, RepairRead, RepairSkips
<1>13. CASE RepairWrite
  <2>1. fixing \in Path
    BY <1>13 DEF RepairWrite, RepairReads
  <2>2. RepairedRow \in Content \union {NoRow, Tombstone}
    BY <1>13, <2>1 DEF RepairWrite, RepairedRow, RepairKnows, TypeOK
  <2>. QED
    BY <1>13, <2>1, <2>2 DEF TypeOK, Drift, RepairWrite
<1>14. CASE RepairTell
  BY <1>14 DEF TypeOK, RepairTell
<1>15. CASE FinishRepair
  BY <1>15 DEF TypeOK, Drift, FinishRepair, EndRepair
<1>16. CASE ScanFails
  BY <1>16, EndScanTypes DEF TypeOK, ScanFails, PassLock
<1>17. CASE RepairFails
  BY <1>17 DEF TypeOK, Drift, RepairFails, EndRepair
<1>18. CASE Restart
  BY <1>18, EndScanTypes DEF TypeOK, Drift, Restart, EndRepair
<1>19. CASE UNCHANGED vars
  BY <1>19 DEF TypeOK, vars
<1>. QED
  BY <1>1, <1>2, <1>3, <1>4, <1>5, <1>6, <1>7, <1>8, <1>9, <1>10, <1>11, <1>12,
     <1>13, <1>14, <1>15, <1>16, <1>17, <1>18, <1>19 DEF Next, ScanStep

-----------------------------------------------------------------------------
(* The lock and the events it protects.                                    *)

Protected ==
  /\ LockIsExclusive
  /\ ScanTellsRow
  /\ RepairReads
  /\ RepairKnows
  /\ RepairTellsRow
  /\ RecordedIsTold

\* Rows, events and the lock are left alone.
LEMMA QuietStep ==
  ASSUME ScanInv, UNCHANGED <<row, told, telling, payload, fix, drift, fixing,
                              bytes, restarts, failures>>,
         ScanHolds' <=> ScanHolds
  PROVE  Protected'
BY DEF ScanInv, Protected, LockIsExclusive, ScanHolds, RepairHolds, ScanTellsRow,
   RepairReads, RepairKnows, RepairTellsRow, RecordedIsTold

\* After a failure or a restart RecordedIsTold promises nothing.
LEMMA FailureStep ==
  ASSUME ScanInv, telling' = NoPath,
         restarts' > 0 \/ failures' > 0,
         fix' \in {"none", "waiting", "report"} \/ ~ScanHolds',
         \/ fix' = "none"
         \/ UNCHANGED <<drift, fixing, bytes>> /\ fix' = fix /\ (fix = "telling" => row' = row)
         \/ UNCHANGED <<drift, fixing, bytes>> /\ fix = "waiting" /\ fix' = "holding"
  PROVE  Protected'
BY DEF ScanInv, Protected, LockIsExclusive, ScanHolds, RepairHolds, ScanTellsRow,
   RepairReads, RepairKnows, RepairTellsRow, RecordedIsTold

LEMMA ProtectedStep == ScanInv /\ [Next]_vars => Protected'
<1> SUFFICES ASSUME ScanInv, [Next]_vars PROVE Protected'
  OBVIOUS
<1> USE DEF scanVars, fixVars, faultVars
<1>1. ASSUME NEW p \in Path,
             Remove(p) \/ (\E c \in Content : Write(p, c)) \/ Visit(p)
      PROVE  Protected'
  BY <1>1, QuietStep DEF Remove, Write, Visit, ScanHolds, Silent
<1>2. CASE StartScan \/ StartDeletions \/ UNCHANGED vars
  BY <1>2, QuietStep DEF StartScan, StartDeletions, ScanHolds, Silent, vars
<1>3. CASE TakeLock
  BY <1>3 DEF TakeLock, Silent, ScanInv, Protected, LockIsExclusive, ScanHolds,
     RepairHolds, ScanTellsRow, RepairReads, RepairKnows, RepairTellsRow,
     RecordedIsTold
<1>4. ASSUME NEW p \in Path, Record(p) \/ Forget(p) PROVE Protected'
  <2>1. /\ ScanHolds /\ ScanHolds' /\ telling = NoPath
        /\ UNCHANGED <<told, fix, drift, fixing, bytes, restarts, failures>>
    BY <1>4 DEF Record, Forget, ScanHolds
  <2>2. \/ UNCHANGED <<row, telling, payload>>
        \/ /\ \A q \in Path \ {p} : row'[q] = row[q]
           /\ telling' = p
           /\ row'[p] \in Content => payload' = row'[p]
    <3>1. CASE Record(p)
      BY <3>1 DEF Record, Announce, Silent, ScanInv, TypeOK
    <3>2. CASE Forget(p)
      BY <3>2 DEF Forget, Announce, Silent, ScanInv, TypeOK
    <3>. QED
      BY <1>4, <3>1, <3>2
  <2>3. ~RepairHolds /\ ~RepairHolds'
    BY <2>1 DEF ScanInv, LockIsExclusive, RepairHolds
  <2>4. LockIsExclusive' /\ RepairReads' /\ RepairKnows' /\ RepairTellsRow'
    BY <2>1, <2>3 DEF ScanInv, LockIsExclusive, RepairHolds, RepairReads,
       RepairKnows, RepairTellsRow
  <2>5. ScanTellsRow' /\ RecordedIsTold'
    BY <2>1, <2>2, <2>3 DEF ScanInv, ScanTellsRow, RecordedIsTold, RepairHolds, TypeOK
  <2>. QED
    BY <2>4, <2>5 DEF Protected
<1>5. CASE Tell
  <2>1. /\ ScanHolds /\ ScanHolds' /\ telling \in Path
        /\ row[telling] \in Content => payload = row[telling]
        /\ telling' = NoPath /\ told' = [told EXCEPT ![telling] = payload]
        /\ UNCHANGED <<row, fix, drift, fixing, bytes, restarts, failures>>
    BY <1>5 DEF Tell, ScanInv, ScanTellsRow, TypeOK, ScanHolds
  <2>2. LockIsExclusive' /\ RepairReads' /\ RepairKnows' /\ RepairTellsRow' /\ ScanTellsRow'
    BY <2>1 DEF ScanInv, LockIsExclusive, RepairHolds, RepairReads, RepairKnows,
       RepairTellsRow, ScanTellsRow
  <2>3. RecordedIsTold'
    BY <2>1 DEF ScanInv, RecordedIsTold, TypeOK
  <2>. QED
    BY <2>2, <2>3 DEF Protected
<1>6. CASE FinishScan
  <2>1. PICK old \in SUBSET {p \in Path : row[p] = Tombstone} :
          row' = [p \in Path |-> IF p \in old THEN NoRow ELSE row[p]]
    BY <1>6 DEF FinishScan
  <2>2. /\ ScanHolds /\ pc' = "idle" /\ telling' = NoPath /\ telling = NoPath
        /\ UNCHANGED <<told, drift, fixing, bytes, restarts, failures>>
        /\ fix' = (IF fix = "waiting" THEN "holding" ELSE fix)
    BY <1>6 DEF FinishScan, EndScan, PassLock, ScanHolds
  <2>3. \A q \in Path : row'[q] \in Content => row'[q] = row[q]
    BY <2>1
  <2>4. ~RepairHolds
    BY <2>2 DEF ScanInv, LockIsExclusive
  <2>5. LockIsExclusive' /\ ScanTellsRow' /\ RepairReads' /\ RepairKnows' /\ RepairTellsRow'
    BY <2>2, <2>4 DEF ScanInv, LockIsExclusive, ScanHolds, RepairHolds, RepairReads,
       RepairKnows, RepairTellsRow, ScanTellsRow
  <2>6. RecordedIsTold'
    BY <2>2, <2>3, <2>4 DEF ScanInv, RecordedIsTold, RepairHolds
  <2>. QED
    BY <2>5, <2>6 DEF Protected
<1>7. CASE Detect
  BY <1>7 DEF Detect, ScanInv, Protected, LockIsExclusive, ScanHolds, RepairHolds,
     ScanTellsRow, RepairReads, RepairKnows, RepairTellsRow, RecordedIsTold
<1>8. ASSUME NEW p \in Path, RepairRead(p) PROVE Protected'
  <2>1. /\ fix = "report" /\ fixing' = p /\ bytes' = disk[p]
        /\ fix' \in {"waiting", "holding"} /\ (fix' = "holding" => ~ScanHolds)
        /\ (drift[p] = "missing_on_disk") = (disk[p] = Absent)
        /\ UNCHANGED <<row, told, pc, telling, payload, drift, restarts, failures>>
    BY <1>8 DEF RepairRead, AbsenceConfirmed
  <2>2. drift[p] # "missing_on_disk" => bytes' \in Content
    BY <2>1 DEF ScanInv, TypeOK
  <2>. QED
    BY <2>1, <2>2 DEF ScanInv, Protected, LockIsExclusive, ScanHolds, RepairHolds,
       ScanTellsRow, RepairReads, RepairKnows, RepairTellsRow, RecordedIsTold
<1>9. ASSUME NEW p \in Path, RepairSkips(p) PROVE Protected'
  BY <1>9 DEF RepairSkips, ScanInv, Protected, LockIsExclusive, ScanHolds, RepairHolds,
     ScanTellsRow, RepairReads, RepairKnows, RepairTellsRow, RecordedIsTold
<1>10. CASE RepairWrite
  <2>1. /\ fix = "holding" /\ fix' = "telling" /\ fixing \in Path
        /\ row' = [row EXCEPT ![fixing] = RepairedRow]
        /\ UNCHANGED <<told, pc, telling, payload, fixing, bytes, restarts, failures>>
    BY <1>10 DEF RepairWrite, ScanInv, RepairReads
  <2>2. ~ScanHolds /\ telling = NoPath
    BY <2>1 DEF ScanInv, LockIsExclusive, RepairHolds, ScanTellsRow
  <2>3. row'[fixing] \in Content => bytes = row'[fixing]
    BY <2>1 DEF RepairedRow, ScanInv, TypeOK, RepairKnows
  <2>4. \A q \in Path \ {fixing} : row'[q] = row[q]
    BY <2>1 DEF ScanInv, TypeOK
  <2>. QED
    BY <2>1, <2>2, <2>3, <2>4 DEF ScanInv, Protected, LockIsExclusive, ScanHolds,
       RepairHolds, ScanTellsRow, RepairReads, RepairKnows, RepairTellsRow,
       RecordedIsTold
<1>11. CASE RepairTell
  <2>1. /\ fix = "telling" /\ fix' = "report" /\ fixing \in Path
        /\ told' = [told EXCEPT ![fixing] = bytes]
        /\ row[fixing] \in Content => bytes = row[fixing]
        /\ UNCHANGED <<row, pc, telling, payload, restarts, failures>>
    BY <1>11 DEF RepairTell, ScanInv, RepairReads, RepairTellsRow
  <2>2. LockIsExclusive' /\ ScanTellsRow' /\ RepairReads' /\ RepairKnows' /\ RepairTellsRow'
    BY <2>1 DEF ScanInv, LockIsExclusive, ScanHolds, RepairHolds, ScanTellsRow,
       RepairReads, RepairKnows, RepairTellsRow
  <2>3. RecordedIsTold'
    BY <2>1 DEF ScanInv, RecordedIsTold, TypeOK
  <2>. QED
    BY <2>2, <2>3 DEF Protected
<1>12. CASE FinishRepair
  BY <1>12 DEF FinishRepair, EndRepair, ScanInv, Protected, LockIsExclusive, ScanHolds,
     RepairHolds, ScanTellsRow, RepairReads, RepairKnows, RepairTellsRow,
     RecordedIsTold
<1>13. CASE ScanFails
  <2>1. /\ telling' = NoPath /\ pc' = "idle" /\ failures' > 0 /\ row' = row
        /\ \/ UNCHANGED <<fix, drift, fixing, bytes>>
           \/ fix = "waiting" /\ fix' = "holding" /\ UNCHANGED <<drift, fixing, bytes>>
    BY <1>13 DEF ScanFails, EndScan, PassLock, ScanInv, TypeOK
  <2>. QED
    BY <2>1, FailureStep DEF ScanHolds
<1>14. CASE RepairFails
  <2>1. /\ fix' = "none" /\ failures' > 0
        /\ UNCHANGED <<row, pc, telling, payload>>
    BY <1>14 DEF RepairFails, EndRepair, ScanInv, TypeOK
  <2>. QED
    BY <2>1 DEF ScanInv, Protected, LockIsExclusive, ScanHolds, RepairHolds,
       ScanTellsRow, RepairReads, RepairKnows, RepairTellsRow, RecordedIsTold
<1>15. CASE Restart
  <2>1. telling' = NoPath /\ pc' = "idle" /\ fix' = "none" /\ restarts' > 0
    BY <1>15 DEF Restart, EndScan, EndRepair, ScanInv, TypeOK
  <2>. QED
    BY <2>1, FailureStep DEF ScanHolds
<1>. QED
  BY <1>1, <1>2, <1>3, <1>4, <1>5, <1>6, <1>7, <1>8, <1>9, <1>10, <1>11, <1>12,
     <1>13, <1>14, <1>15 DEF Next, ScanStep

-----------------------------------------------------------------------------

\* The inductive invariant holds: who writes rows has the lock, and who is about
\* to announce a row announces what is in it.
THEOREM ScanInvariant == Spec => []ScanInv
<1>1. ScanInv /\ [Next]_vars => ScanInv'
  BY TypeStep, ProtectedStep DEF ScanInv, Protected
<1>. QED
  BY <1>1, InitScan, PTL DEF Spec

\* Files, rows, the scan and the repair keep their types.
THEOREM ScanTypes == Spec => []TypeOK
<1>1. ScanInv => TypeOK
  BY DEF ScanInv
<1>. QED
  BY <1>1, ScanInvariant, PTL

\* Whatever the caps cut off and however scans and repairs alternate: until a
\* statement fails or the process ends, peers were told of each live row.
THEOREM WhatIsRecordedIsTold == Spec => []RecordedIsTold
<1>1. ScanInv => RecordedIsTold
  BY DEF ScanInv
<1>. QED
  BY <1>1, ScanInvariant, PTL

-----------------------------------------------------------------------------
(***************************************************************************)
(* What the stat cache hides is recorded, as long as no cap cuts a scan    *)
(* off, no statement fails and nobody repairs.  During a scan the cache is *)
(* ahead of the rows: a file enters it when it is read, and its row        *)
(* follows in phase 2.  CacheIsKnown says what a cached file owes: the     *)
(* bytes collected of it are the bytes on disk or, when none are, its row  *)
(* is what is on disk.  No path is collected twice (VisitedOnce), the walk *)
(* compares with rows nobody has changed since (PreloadIsRow), and the     *)
(* budget is larger than what is left to record (BudgetLasts), so that the *)
(* scan ends with nothing collected and unrecorded.                        *)
(***************************************************************************)
CapsSuffice ==
  Cardinality(Path) =< MaxFiles /\ Cardinality(Path) =< CreateBudget

CacheIsKnown ==
  \A p \in cached : IF changed[p] # Absent THEN changed[p] = disk[p]
                                           ELSE row[p] = disk[p]

VisitedOnce == Collected \intersect todo = {}

PreloadIsRow ==
  pc = "walk" =>
    \A p \in Path : preload[p] \in Content => row[p] = preload[p]

BudgetLasts ==
  /\ pc \in {"idle", "walk"} => events = 0
  /\ pc \in {"idle", "delete"} => Collected = {}
  /\ pc = "write" => events + Cardinality(Collected) =< Cardinality(Path)

CacheInv ==
  failures = 0 /\ repairs = 0 =>
    /\ fix = "none"
    /\ CacheIsKnown
    /\ VisitedOnce
    /\ PreloadIsRow
    /\ BudgetLasts

LEMMA InitCache == Init => CacheInv
BY DEF Init, NoScan, CacheInv, CacheIsKnown, VisitedOnce, PreloadIsRow,
   BudgetLasts, Collected

\* Neither the scan nor the files of it move.
LEMMA AsideCache ==
  ASSUME CacheInv, failures' = 0 /\ repairs' = 0 => failures = 0 /\ repairs = 0,
         UNCHANGED <<row, pc, preload, todo, changed, events, fix>>,
         \A p \in cached' : p \in cached /\ disk'[p] = disk[p]
  PROVE  CacheInv'
BY DEF CacheInv, CacheIsKnown, VisitedOnce, PreloadIsRow, BudgetLasts, Collected

\* The scan is over, with what is cached recorded.
LEMMA EndCache ==
  ASSUME CacheInv, EndScan, fix = "none" => fix' = "none",
         failures' = 0 /\ repairs' = 0 =>
           /\ failures = 0 /\ repairs = 0
           /\ \A p \in cached' : p \in Path /\ row'[p] = disk'[p]
  PROVE  CacheInv'
BY DEF CacheInv, EndScan, CacheIsKnown, VisitedOnce, PreloadIsRow, BudgetLasts,
   Collected

LEMMA VisitCache ==
  ASSUME ScanInv, CacheInv, CapsSuffice, NEW p \in Path, Visit(p)
  PROVE  CacheInv'
<1> SUFFICES ASSUME failures = 0, repairs = 0 PROVE CacheInv'
  BY DEF Visit, CacheInv
<1>1. /\ UNCHANGED <<disk, row, pc, preload, events, fix>>
      /\ pc = "walk" /\ p \in todo
      /\ \/ disk[p] = Absent /\ Skip(p) /\ UNCHANGED <<seen, cached, hiccups>>
         \/ disk[p] # Absent /\ (VisitFile(p) \/ Overlook(p))
  BY DEF Visit, fixVars
<1>2. /\ fix = "none" /\ CacheIsKnown /\ VisitedOnce /\ PreloadIsRow /\ events = 0
      /\ TypeOK /\ changed[p] = Absent
  BY <1>1 DEF CacheInv, BudgetLasts, ScanInv, VisitedOnce, Collected
<1>3. Cardinality(Collected) < MaxFiles
  <2>1. IsFiniteSet(Path) /\ Collected \subseteq Path \ {p}
    BY <1>2 DEF Collected
  <2>2. /\ Cardinality(Path \ {p}) = Cardinality(Path) - 1
        /\ IsFiniteSet(Path \ {p})
    BY <2>1, FS_RemoveElement
  <2>3. Cardinality(Collected) =< Cardinality(Path \ {p})
    BY <2>1, <2>2, FS_Subset
  <2>4. Cardinality(Path) \in Nat /\ Cardinality(Collected) \in Nat
    BY <2>1, <2>2, FS_CardinalityType, FS_Subset
  <2>. QED
    BY <2>2, <2>3, <2>4 DEF CapsSuffice
<1>4. \/ UNCHANGED <<cached, changed>> /\ todo' = todo \ {p}
      \/ /\ cached' = cached \union {p} /\ todo' = todo \ {p}
         /\ disk[p] # Absent
         /\ \/ preload[p] = disk[p] /\ changed' = changed
            \/ changed' = [changed EXCEPT ![p] = disk[p]]
  <2>1. ~(Cardinality(Collected) >= MaxFiles)
    <3>1. IsFiniteSet(Collected)
      BY FS_Subset DEF Collected
    <3>. QED
      BY <1>3, <3>1, FS_CardinalityType
  <2>2. ReadFile(p) => /\ cached' = cached \union {p} /\ todo' = todo \ {p}
                       /\ \/ preload[p] = disk[p] /\ changed' = changed
                          \/ changed' = [changed EXCEPT ![p] = disk[p]]
    BY <2>1 DEF ReadFile, Skip, Collect
  <2>. QED
    BY <1>1, <2>2 DEF VisitFile, Overlook, Skip
<1>5. VisitedOnce'
  BY <1>1, <1>2, <1>4 DEF VisitedOnce, Collected, TypeOK
<1>6. CacheIsKnown'
  <2>1. CASE UNCHANGED <<cached, changed>>
    BY <2>1, <1>1, <1>2 DEF CacheIsKnown
  <2>2. CASE /\ cached' = cached \union {p} /\ disk[p] # Absent
             /\ preload[p] = disk[p] /\ changed' = changed
    <3>1. row[p] = disk[p]
      BY <2>2, <1>1, <1>2 DEF PreloadIsRow, TypeOK
    <3>. QED
      BY <2>2, <3>1, <1>1, <1>2 DEF CacheIsKnown
  <2>3. CASE /\ cached' = cached \union {p} /\ disk[p] # Absent
             /\ changed' = [changed EXCEPT ![p] = disk[p]]
    BY <2>3, <1>1, <1>2 DEF CacheIsKnown, TypeOK
  <2>. QED
    BY <1>4, <2>1, <2>2, <2>3
<1>7. PreloadIsRow' /\ BudgetLasts'
  BY <1>1, <1>2 DEF PreloadIsRow, BudgetLasts
<1>. QED
  BY <1>1, <1>2, <1>5, <1>6, <1>7 DEF CacheInv

LEMMA RecordCache ==
  ASSUME ScanInv, CacheInv, NEW p \in Path, Record(p)
  PROVE  CacheInv'
<1> SUFFICES ASSUME failures = 0, repairs = 0 PROVE CacheInv'
  BY DEF Record, CacheInv, faultVars
<1>1. /\ UNCHANGED <<disk, cached, pc, preload, todo, fix>>
      /\ pc = "write" /\ changed[p] # Absent
      /\ changed' = [changed EXCEPT ![p] = Absent]
      /\ row'[p] = changed[p] /\ \A q \in Path \ {p} : row'[q] = row[q]
      /\ events' \in {events, events + 1}
  BY DEF Record, Collected, ScanInv, TypeOK, fixVars
<1>2. /\ fix = "none" /\ CacheIsKnown /\ VisitedOnce /\ BudgetLasts /\ TypeOK
  BY DEF CacheInv, ScanInv
<1>3. Collected' = Collected \ {p} /\ p \in Collected /\ IsFiniteSet(Collected)
  <2>1. IsFiniteSet(Collected)
    BY FS_Subset DEF Collected
  <2>. QED
    BY <1>1, <1>2, <2>1 DEF Collected, TypeOK
<1>4. BudgetLasts'
  <2>1. Cardinality(Collected') = Cardinality(Collected) - 1
    BY <1>3, FS_RemoveElement
  <2>2. Cardinality(Collected) \in Nat /\ Cardinality(Path) \in Nat /\ events \in Nat
    BY <1>2, <1>3, FS_CardinalityType DEF TypeOK
  <2>. QED
    BY <1>1, <1>2, <2>1, <2>2 DEF BudgetLasts
<1>5. CacheIsKnown'
  BY <1>1, <1>2 DEF CacheIsKnown, TypeOK
<1>6. VisitedOnce' /\ PreloadIsRow'
  BY <1>1, <1>2, <1>3 DEF VisitedOnce, PreloadIsRow
<1>. QED
  BY <1>1, <1>2, <1>4, <1>5, <1>6 DEF CacheInv

LEMMA PhaseCache ==
  ASSUME ScanInv, CacheInv, CapsSuffice, StartScan \/ TakeLock \/ StartDeletions
  PROVE  CacheInv'
<1> SUFFICES ASSUME failures = 0, repairs = 0 PROVE CacheInv'
  BY DEF StartScan, TakeLock, StartDeletions, CacheInv, faultVars
<1>1. /\ UNCHANGED <<disk, row, cached, changed, events, fix>>
      /\ fix = "none" /\ CacheIsKnown /\ VisitedOnce /\ PreloadIsRow /\ BudgetLasts
      /\ TypeOK
  BY DEF CacheInv, ScanInv, StartScan, TakeLock, StartDeletions, fixVars
<1>2. Collected' = Collected /\ IsFiniteSet(Collected)
  <2>1. IsFiniteSet(Collected)
    BY FS_Subset DEF Collected
  <2>. QED
    BY <1>1, <2>1 DEF Collected
<1>3. /\ Cardinality(Collected) \in Nat /\ Cardinality(Path) \in Nat
      /\ Cardinality(Collected) =< Cardinality(Path)
  BY <1>2, FS_CardinalityType, FS_Subset DEF Collected
<1>4. CacheIsKnown'
  BY <1>1 DEF CacheIsKnown
<1>5. CASE StartScan
  <2>1. Collected = {} /\ pc' = "walk" /\ events' = events /\ events = 0
        /\ preload' = [q \in Path |-> IF row[q] \in Content THEN row[q] ELSE NoRow]
    BY <1>1, <1>5 DEF StartScan, BudgetLasts
  <2>2. PreloadIsRow' /\ VisitedOnce'
    BY <1>1, <1>2, <2>1 DEF PreloadIsRow, VisitedOnce
  <2>3. BudgetLasts'
    BY <2>1 DEF BudgetLasts
  <2>. QED
    BY <1>1, <1>4, <2>2, <2>3 DEF CacheInv
<1>6. CASE TakeLock
  BY <1>1, <1>2, <1>3, <1>4, <1>6 DEF TakeLock, CacheInv, BudgetLasts, VisitedOnce,
     PreloadIsRow
<1>7. CASE StartDeletions
  <2>1. pc = "write" /\ pc' = "delete" /\ todo' = todo
        /\ (Collected = {} \/ events >= CreateBudget)
    BY <1>7 DEF StartDeletions
  <2>2. Collected = {}
    <3>1. Cardinality(Collected) = 0 => Collected = {}
      BY <1>2, FS_EmptySet
    <3>. QED
      BY <1>1, <1>3, <2>1, <3>1 DEF BudgetLasts, CapsSuffice, TypeOK
  <2>. QED
    BY <1>1, <1>2, <1>4, <2>1, <2>2 DEF CacheInv, BudgetLasts, VisitedOnce, PreloadIsRow
<1>. QED
  BY <1>5, <1>6, <1>7

LEMMA DeleteCache ==
  ASSUME ScanInv, CacheInv, NEW p \in Path, Forget(p)
  PROVE  CacheInv'
<1> SUFFICES ASSUME failures = 0, repairs = 0 PROVE CacheInv'
  BY DEF Forget, CacheInv, faultVars
<1>1. /\ UNCHANGED <<disk, changed, todo, preload, pc, fix>> /\ pc = "delete"
      /\ fix = "none" /\ CacheIsKnown /\ VisitedOnce /\ BudgetLasts /\ TypeOK
  BY DEF CacheInv, ScanInv, Forget, fixVars
<1>2. \/ UNCHANGED <<row, cached>>
      \/ /\ cached' = cached \ {p}
         /\ \A q \in Path \ {p} : row'[q] = row[q]
  BY <1>1 DEF Forget, TypeOK
<1>3. CacheIsKnown'
  BY <1>1, <1>2 DEF CacheIsKnown, TypeOK
<1>. QED
  BY <1>1, <1>3 DEF CacheInv, VisitedOnce, PreloadIsRow, BudgetLasts, Collected

LEMMA FinishCache ==
  ASSUME ScanInv, CacheInv, FinishScan
  PROVE  CacheInv'
<1>1. PICK old \in SUBSET {p \in Path : row[p] = Tombstone} :
        row' = [p \in Path |-> IF p \in old THEN NoRow ELSE row[p]]
  BY DEF FinishScan
<1>2. EndScan /\ UNCHANGED <<disk, cached, failures, repairs>>
      /\ (fix = "none" => fix' = "none") /\ pc = "delete"
  BY DEF FinishScan, PassLock, faultVars
<1>3. ASSUME failures = 0, repairs = 0, NEW p \in cached
      PROVE  p \in Path /\ row'[p] = disk[p]
  <2>1. Collected = {} /\ CacheIsKnown /\ TypeOK
    BY <1>2, <1>3 DEF CacheInv, BudgetLasts, ScanInv
  <2>2. p \in Path /\ disk[p] \in Content /\ row[p] = disk[p]
    BY <2>1 DEF CacheIsKnown, Collected, TypeOK
  <2>. QED
    BY <1>1, <2>2
<1>. QED
  BY <1>2, <1>3, EndCache

LEMMA CacheStep == CapsSuffice /\ ScanInv /\ CacheInv /\ [Next]_vars => CacheInv'
<1> SUFFICES ASSUME CapsSuffice, ScanInv, CacheInv, [Next]_vars PROVE CacheInv'
  OBVIOUS
<1> USE DEF scanVars, fixVars, faultVars
<1>1. ASSUME NEW p \in Path, Remove(p) \/ \E c \in Content : Write(p, c)
      PROVE  CacheInv'
  <2>1. \A q \in cached' : q \in cached /\ disk'[q] = disk[q]
    BY <1>1 DEF Remove, Write, ScanInv, TypeOK
  <2>. QED
    BY <1>1, <2>1, AsideCache DEF Remove, Write
<1>2. CASE StartScan \/ TakeLock \/ StartDeletions
  BY <1>2, PhaseCache
<1>3. ASSUME NEW p \in Path, Visit(p) \/ Record(p) \/ Forget(p) PROVE CacheInv'
  BY <1>3, VisitCache, RecordCache, DeleteCache
<1>4. CASE Tell \/ UNCHANGED vars
  BY <1>4, AsideCache DEF Tell, vars
<1>5. CASE FinishScan
  BY <1>5, FinishCache
<1>6. CASE Detect \/ ScanFails \/ RepairFails
  <2>1. failures' > 0 \/ repairs' > 0
    BY <1>6 DEF Detect, ScanFails, RepairFails, ScanInv, TypeOK
  <2>. QED
    BY <2>1 DEF CacheInv
<1>7. CASE RepairWrite \/ RepairTell \/ FinishRepair
           \/ \E p \in Path : RepairRead(p) \/ RepairSkips(p)
  <2>1. fix # "none" /\ UNCHANGED <<failures, repairs>>
    BY <1>7 DEF RepairWrite, RepairTell, FinishRepair, RepairRead, RepairSkips
  <2>. QED
    BY <2>1 DEF CacheInv
<1>8. CASE Restart
  BY <1>8, EndCache DEF Restart, EndRepair
<1>. QED
  BY <1>1, <1>2, <1>3, <1>4, <1>5, <1>6, <1>7, <1>8 DEF Next, ScanStep

\* The stat cache hides no edit: between scans a cached file is recorded as it
\* is, through unreadable and overlooked files and restarts, when the caps allow
\* for every path of the folder.
THEOREM WhatIsSkippedIsRecorded ==
  ASSUME CapsSuffice
  PROVE  Spec => []SkippedIsRecorded
<1>1. ScanInv /\ CacheInv => SkippedIsRecorded
  BY DEF ScanInv, TypeOK, CacheInv, CacheIsKnown, BudgetLasts, Collected,
     SkippedIsRecorded
<1>2. Init => CacheInv
  BY InitCache
<1>3. ScanInv /\ CacheInv /\ [Next]_vars => CacheInv'
  BY CacheStep
<1>. QED
  BY <1>1, <1>2, <1>3, ScanInvariant, PTL DEF Spec

=============================================================================
