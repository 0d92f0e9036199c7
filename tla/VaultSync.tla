------------------------------- MODULE VaultSync -------------------------------
(***************************************************************************)
(* One shared file on several nodes: VaultSyncManager.apply_event and the  *)
(* scanner that produces what it applies.                                  *)
(*                                                                         *)
(* A node knows the file three times: on disk, as a row of                 *)
(* vault_sync_state, and in the in-memory stat cache that lets a scan skip *)
(* it.  People edit the disk; scans carry the disk into the row and queue  *)
(* events; events of peers are applied to the disk and then to the row,    *)
(* and forwarded.                                                          *)
(*                                                                         *)
(* A queue hands an event over at most once (PollDelivery), so an event    *)
(* can be lost.  Caps, the walk and reconcile are in VaultScan.            *)
(***************************************************************************)
EXTENDS Integers, Sequences, FiniteSets

CONSTANTS
  Node,
  PeersOf,      \* vault_sync_peers of each node
  Editor,       \* the nodes whose people touch the file
  Concurrent,   \* POST /vault-sync/trigger may scan while the poller applies
  Absent,       \* no file, no row, no base_hash
  NoNode,
  MaxEdits,     \* bound: versions people write
  MaxRemovals,  \* bound: removals by people
  MaxLosses,    \* bound: events handed over and never applied
  MaxFailures   \* bound: restarts, exceptions and unlinks that fail

ASSUME VaultAssumption ==
  /\ IsFiniteSet(Node) /\ NoNode \notin Node /\ Editor \subseteq Node
  /\ PeersOf \in [Node -> SUBSET Node]
  /\ \A n \in Node : n \notin PeersOf[n]
  /\ Concurrent \in BOOLEAN
  /\ {MaxEdits, MaxRemovals, MaxLosses, MaxFailures} \subseteq Nat
  /\ Absent \notin Nat

\* What people write is always new: a version is its own hash.
Version == 1..MaxEdits
Hash == Version \union {Absent}

VARIABLES
  disk,      \* the file on each node
  row,       \* its row of vault_sync_state
  cached,    \* the file's present stat is in _stat_cache
  scan,      \* the scan of each node
  apply,     \* the event each node's poller is applying
  applied,   \* vault_sync_applied_events
  queue,     \* koi_net_events of a node for a peer, not yet delivered
  copies,    \* conflict copies, the latest one apart
  latest,    \* the latest conflict copy
  edits, removals, losses, failures,
  scanned,   \* history: versions a scan has recorded
  settled,   \* history: versions a person has replaced or removed
  dropped,   \* history: versions the people of each node removed there
  torn       \* history: nodes where a failure left a file without its row

scanVars == <<scan, scanned>>
applyVars == <<apply, applied, copies, latest>>
boundVars == <<edits, removals, losses, failures>>
userVars == <<settled, dropped>>
vars == <<disk, row, cached, scanVars, applyVars, queue, boundVars, userVars,
          torn>>

\* A row; its hash is Absent when there is none.
Row == [hash : Hash, origin : Node \union {NoNode}, oseq : Nat, lseq : Nat,
        deleted : BOOLEAN]

\* The manifest of an event; first is the peer it was queued for, which with
\* origin and seq stands for its event_id.
Event == [kind : {"NEW", "UPDATE", "FORGET"}, hash : Version, base : Hash,
          origin : Node, seq : Nat, first : Node \union {NoNode}]

Live(r) == r.hash # Absent /\ ~r.deleted

NoScan == [pc |-> "idle"]
NoApply == [pc |-> "idle"]

Scan == {NoScan}
  \union [pc : {"read"}, bytes : Hash, seen : BOOLEAN]
  \union [pc : {"tell"}, event : Event, to : SUBSET Node]
Apply == {NoApply}
  \union [pc : {"wait", "row", "stat", "record"}, event : Event, from : Node]
  \union [pc : {"forward"}, event : Event, to : SUBSET Node]

TypeOK ==
  /\ disk \in [Node -> Hash]
  /\ row \in [Node -> Row]
  /\ cached \in [Node -> BOOLEAN]
  /\ scan \in [Node -> Scan]
  /\ apply \in [Node -> Apply]
  /\ applied \in [Node -> SUBSET Event]
  /\ queue \in [Node \X Node -> Seq(Event)]
  /\ copies \in [Node -> SUBSET Version]
  /\ latest \in [Node -> Hash]
  /\ {edits, removals, losses, failures} \subseteq Nat
  /\ edits =< MaxEdits
  /\ scanned \subseteq Version /\ settled \subseteq Version
  /\ dropped \in [Node -> SUBSET Version]
  /\ torn \subseteq Node
  /\ \A n \in Node : cached[n] => disk[n] # Absent

Init ==
  /\ disk = [n \in Node |-> Absent]
  /\ row = [n \in Node |-> [hash |-> Absent, origin |-> NoNode, oseq |-> 0,
                            lseq |-> 0, deleted |-> FALSE]]
  /\ cached = [n \in Node |-> FALSE]
  /\ scan = [n \in Node |-> NoScan]
  /\ apply = [n \in Node |-> NoApply]
  /\ applied = [n \in Node |-> {}]
  /\ queue = [e \in Node \X Node |-> <<>>]
  /\ copies = [n \in Node |-> {}]
  /\ latest = [n \in Node |-> Absent]
  /\ edits = 0 /\ removals = 0 /\ losses = 0 /\ failures = 0
  /\ scanned = {} /\ settled = {}
  /\ dropped = [n \in Node |-> {}]
  /\ torn = {}

ScanIdle(n) == scan[n].pc = "idle"
ApplyIdle(n) == apply[n].pc = "idle"

\* _write_lock.
ApplyHolds(n) == apply[n].pc \in {"row", "stat", "record"}
ScanHolds(n) == scan[n].pc = "tell"

-----------------------------------------------------------------------------
(* People.                                                                 *)

Seen(n) == IF disk[n] = Absent THEN {} ELSE {disk[n]}

Edit(n) ==
  /\ n \in Editor /\ edits < MaxEdits
  /\ edits' = edits + 1
  /\ disk' = [disk EXCEPT ![n] = edits']
  /\ cached' = [cached EXCEPT ![n] = FALSE]
  /\ settled' = settled \union Seen(n)
  /\ UNCHANGED <<row, scanVars, applyVars, queue, removals, losses, failures,
                 dropped, torn>>

Remove(n) ==
  /\ n \in Editor /\ removals < MaxRemovals
  /\ disk[n] # Absent
  /\ removals' = removals + 1
  /\ disk' = [disk EXCEPT ![n] = Absent]
  /\ cached' = [cached EXCEPT ![n] = FALSE]
  /\ settled' = settled \union Seen(n)
  /\ dropped' = [dropped EXCEPT ![n] = @ \union Seen(n)]
  /\ UNCHANGED <<row, scanVars, applyVars, queue, edits, losses, failures, torn>>

-----------------------------------------------------------------------------
(* The scan of a node.  The poll loop applies, then scans; only a scan an  *)
(* operator triggers runs beside the poller.                               *)

\* Phase 1, without the lock: what differs from the row is read, and its
\* stat goes into the cache.
ScanRead(n) ==
  /\ ScanIdle(n) /\ (Concurrent \/ ApplyIdle(n))
  /\ LET there == disk[n] # Absent
         same == cached[n] \/ (Live(row[n]) /\ row[n].hash = disk[n])
     IN scan' = [scan EXCEPT ![n] =
                   [pc |-> "read", seen |-> there,
                    bytes |-> IF there /\ ~same THEN disk[n] ELSE Absent]]
  /\ cached' = [cached EXCEPT ![n] = disk[n] # Absent]
  /\ UNCHANGED <<disk, row, applyVars, queue, boundVars, userVars, scanned, torn>>

Manifest(n, kind, hash, base) ==
  [kind |-> kind, hash |-> hash, base |-> base, origin |-> n,
   seq |-> row[n].lseq + 1, first |-> NoNode]

\* Phase 2 writes the row of a new, returned or edited file.
RecordChange(n) ==
  LET read == scan[n].bytes
      kind == IF Live(row[n]) THEN "UPDATE" ELSE "NEW"
      seq == row[n].lseq + 1
  IN /\ read # Absent
     /\ ~(Live(row[n]) /\ row[n].hash = read)
     /\ row' = [row EXCEPT ![n] = [hash |-> read, origin |-> n, oseq |-> seq,
                                   lseq |-> seq, deleted |-> FALSE]]
     /\ scan' = [scan EXCEPT ![n] =
          [pc |-> "tell", to |-> PeersOf[n],
           event |-> Manifest(n, kind, read,
                       IF kind = "NEW" THEN Absent ELSE row[n].hash)]]
     /\ scanned' = scanned \union {read}
     /\ UNCHANGED cached

\* ... or tombstones the row of a file that is gone; the row keeps its origin.
RecordRemoval(n) ==
  /\ ~scan[n].seen /\ Live(row[n]) /\ disk[n] = Absent
  /\ row' = [row EXCEPT ![n].oseq = row[n].lseq + 1,
                        ![n].lseq = row[n].lseq + 1,
                        ![n].deleted = TRUE]
  /\ scan' = [scan EXCEPT ![n] =
       [pc |-> "tell", to |-> PeersOf[n],
        event |-> Manifest(n, "FORGET", row[n].hash, row[n].hash)]]
  /\ cached' = [cached EXCEPT ![n] = FALSE]
  /\ UNCHANGED scanned

NothingToRecord(n) ==
  /\ scan[n].bytes = Absent \/ (Live(row[n]) /\ row[n].hash = scan[n].bytes)
  /\ scan[n].seen \/ ~Live(row[n]) \/ disk[n] # Absent
  /\ scan' = [scan EXCEPT ![n] = NoScan]
  /\ UNCHANGED <<row, cached, scanned>>

ScanRecord(n) ==
  /\ scan[n].pc = "read" /\ ~ApplyHolds(n)
  /\ RecordChange(n) \/ RecordRemoval(n) \/ NothingToRecord(n)
  /\ UNCHANGED <<disk, applyVars, queue, boundVars, userVars, torn>>

Send(n, m, e) == queue' = [queue EXCEPT ![<<n, m>>] = Append(@, e)]

\* What is left to send once a peer has been served.
Served(task, m) == [task EXCEPT !.to = @ \ {m}]

\* _queue_event for one peer; each gets an event_id of its own.
ScanTell(n, m) ==
  /\ scan[n].pc = "tell" /\ m \in scan[n].to
  /\ Send(n, m, [scan[n].event EXCEPT !.first = m])
  /\ scan' = [scan EXCEPT ![n] = IF @.to = {m} THEN NoScan
                                 ELSE Served(@, m)]
  /\ UNCHANGED <<disk, row, cached, applyVars, boundVars, userVars, scanned, torn>>

-----------------------------------------------------------------------------
(* Applying an event.                                                      *)

\* The poller takes the next event of a peer; one it has applied is dropped.
Receive(n, m) ==
  /\ ApplyIdle(n) /\ (Concurrent \/ ScanIdle(n))
  /\ queue[<<m, n>>] # <<>>
  /\ LET e == Head(queue[<<m, n>>])
     IN apply' = IF e \in applied[n] THEN apply
                 ELSE [apply EXCEPT ![n] = [pc |-> "wait", event |-> e, from |-> m]]
  /\ queue' = [queue EXCEPT ![<<m, n>>] = Tail(@)]
  /\ UNCHANGED <<disk, row, cached, scanVars, applied, copies, latest,
                 boundVars, userVars, torn>>

Step(n, pc) == apply' = [apply EXCEPT ![n].pc = pc]

\* The stale-event guard: same origin, older or equal seq.
Stale(n, e) ==
  Live(row[n]) /\ row[n].origin = e.origin /\ e.seq =< row[n].oseq

Reject(n) ==
  /\ apply' = [apply EXCEPT ![n] = NoApply]
  /\ UNCHANGED <<disk, row, cached, copies, latest>>

\* Nothing to do but to remember the event.
Acknowledge(n) ==
  Step(n, "record") /\ UNCHANGED <<disk, row, cached, copies, latest>>

\* Fault: the stat of the file that was there stays in the cache.
KeepStat(n, h) ==
  /\ Step(n, "row")
  /\ disk' = [disk EXCEPT ![n] = h]
  /\ UNCHANGED <<cached, row, copies, latest>>

\* The write to disk; the row follows.
PutFile(n, h) ==
  /\ Step(n, "row")
  /\ disk' = [disk EXCEPT ![n] = h]
  /\ cached' = [cached EXCEPT ![n] = FALSE]
  /\ UNCHANGED <<row, copies, latest>>

\* Fault: the conflict copy is registered under the path of the file.
RegisterOnFile(n, h) ==
  /\ Step(n, "record")
  /\ latest' = [latest EXCEPT ![n] = h]
  /\ row' = [row EXCEPT ![n].hash = h]
  /\ UNCHANGED <<disk, copies, cached>>

\* _create_conflict_copy names the copy after the second it is made in: a
\* copy made in the same second as the latest one replaces it.
ConflictCopy(n, h) ==
  /\ Step(n, "record")
  /\ latest' = [latest EXCEPT ![n] = h]
  /\ \/ copies' = [copies EXCEPT ![n] = @ \union ({latest[n]} \ {Absent})]
     \/ latest[n] # Absent /\ UNCHANGED copies
  /\ UNCHANGED <<disk, row, cached>>

Upserted(n, e) ==
  [hash |-> e.hash, origin |-> e.origin, oseq |-> e.seq, lseq |-> row[n].lseq,
   deleted |-> FALSE]

\* A file that is there and unknown, with the very content of the event.
Adopt(n, e) ==
  /\ Step(n, "record")
  /\ row' = [row EXCEPT ![n] = Upserted(n, e)]
  /\ UNCHANGED <<disk, cached, copies, latest>>

NewOnFile(n, e) ==
  LET known == row[n].hash # Absent
      local == IF known THEN row[n].hash ELSE disk[n]
  IN IF local = e.hash
     THEN IF known THEN Acknowledge(n) ELSE Adopt(n, e)
     ELSE ConflictCopy(n, e.hash)

\* Fault: the last writer wins.
Overwrite(n, e) == PutFile(n, e.hash)

UpdateOnFile(n, e) ==
  IF row[n].hash = e.hash THEN Acknowledge(n)
  ELSE IF row[n].hash = e.base THEN PutFile(n, e.hash)
  ELSE ConflictCopy(n, e.hash)

\* Stale delete protection: only what the peer saw is deleted.
Deletes(n, e) == Live(row[n]) /\ row[n].hash = e.base

\* An unlink that fails is UnlinkFails.
ApplyForget(n, e) ==
  IF Deletes(n, e) THEN PutFile(n, Absent) ELSE Acknowledge(n)

ApplyNewOrUpdate(n, e) ==
  LET exists == disk[n] # Absent
  IN CASE e.kind = "NEW" /\ exists -> NewOnFile(n, e)
       [] e.kind = "UPDATE" /\ exists /\ row[n].hash # Absent -> UpdateOnFile(n, e)
       [] OTHER -> PutFile(n, e.hash)

\* Under the lock.
Decide(n) ==
  /\ apply[n].pc = "wait" /\ ~ScanHolds(n)
  /\ LET e == apply[n].event
     IN IF Stale(n, e) THEN Reject(n)
        ELSE IF e.kind = "FORGET" THEN ApplyForget(n, e)
        ELSE ApplyNewOrUpdate(n, e)
  /\ UNCHANGED <<scanVars, applied, queue, boundVars, userVars, torn>>

\* The row follows the disk.
ApplyRow(n) ==
  /\ apply[n].pc = "row"
  /\ LET e == apply[n].event
     IN IF e.kind = "FORGET"
        THEN row' = [row EXCEPT ![n].deleted = TRUE] /\ Step(n, "record")
        ELSE row' = [row EXCEPT ![n] = Upserted(n, e)] /\ Step(n, "stat")
  /\ UNCHANGED <<disk, cached, scanVars, applied, copies, latest, queue,
                 boundVars, userVars, torn>>

\* The file's stat goes into the cache, whatever the file is by now.
ApplyStat(n) ==
  /\ apply[n].pc = "stat"
  /\ Step(n, "record")
  /\ cached' = [cached EXCEPT ![n] = disk[n] # Absent]
  /\ UNCHANGED <<disk, row, scanVars, applied, copies, latest, queue,
                 boundVars, userVars, torn>>

\* Faults: an event goes back to where it came from, or no further.
EchoBack(n, m) == PeersOf[n]
KeepToSelf(n, m) == {}

Others(n, m) == PeersOf[n] \ {m}

\* _record_applied; the lock is released and the event goes on to the others.
ApplyRecord(n) ==
  /\ apply[n].pc = "record"
  /\ applied' = [applied EXCEPT ![n] = @ \union {apply[n].event}]
  /\ apply' = [apply EXCEPT ![n] =
       IF Others(n, @.from) = {} THEN NoApply
       ELSE [pc |-> "forward", event |-> @.event, to |-> Others(n, @.from)]]
  /\ UNCHANGED <<disk, row, cached, scanVars, copies, latest, queue,
                 boundVars, userVars, torn>>

\* _forward_to_peers, under the same event_id.
Forward(n, m) ==
  /\ apply[n].pc = "forward" /\ m \in apply[n].to
  /\ Send(n, m, apply[n].event)
  /\ apply' = [apply EXCEPT ![n] = IF @.to = {m} THEN NoApply
                                   ELSE Served(@, m)]
  /\ UNCHANGED <<disk, row, cached, scanVars, applied, copies, latest,
                 boundVars, userVars, torn>>

-----------------------------------------------------------------------------
(* Failures.                                                               *)

\* Marked delivered and never applied, or expired.
Lose(m, n) ==
  /\ queue[<<m, n>>] # <<>> /\ losses < MaxLosses
  /\ losses' = losses + 1
  /\ queue' = [queue EXCEPT ![<<m, n>>] = Tail(@)]
  /\ UNCHANGED <<disk, row, cached, scanVars, applyVars, edits, removals,
                 failures, userVars, torn>>

Fail == failures < MaxFailures /\ failures' = failures + 1

\* The file is written and its row is not.
Parted(n) == apply[n].pc = "row" /\ apply[n].event.kind # "FORGET"

\* Disk and database survive; the cache and what was under way do not.
Crash(n) ==
  /\ Fail
  /\ torn' = IF Parted(n) THEN torn \union {n} ELSE torn
  /\ cached' = [cached EXCEPT ![n] = FALSE]
  /\ scan' = [scan EXCEPT ![n] = NoScan]
  /\ apply' = [apply EXCEPT ![n] = NoApply]
  /\ UNCHANGED <<disk, row, applied, copies, latest, queue, edits, removals,
                 losses, scanned, userVars>>

\* An exception ends the application: the poller logs it and goes on, and the
\* event was marked delivered already.
ApplyRaises(n) ==
  /\ Fail
  /\ ~ApplyIdle(n)
  /\ torn' = IF Parted(n) THEN torn \union {n} ELSE torn
  /\ apply' = [apply EXCEPT ![n] = NoApply]
  /\ UNCHANGED <<disk, row, cached, scanVars, applied, copies, latest, queue,
                 edits, removals, losses, userVars>>

\* An exception ends the scan; the stats it has read stay in the cache.
ScanRaises(n) ==
  /\ Fail
  /\ ~ScanIdle(n)
  /\ scan' = [scan EXCEPT ![n] = NoScan]
  /\ UNCHANGED <<disk, row, cached, scanned, applyVars, queue, edits, removals,
                 losses, userVars, torn>>

\* The unlink of _apply_forget fails and is logged: the row is tombstoned all
\* the same, over a file that is still there.
UnlinkFails(n) ==
  LET e == apply[n].event
  IN /\ Fail
     /\ apply[n].pc = "wait" /\ ~ScanHolds(n)
     /\ e.kind = "FORGET" /\ ~Stale(n, e) /\ Deletes(n, e)
     /\ disk[n] # Absent
     /\ torn' = torn \union {n}
     /\ cached' = [cached EXCEPT ![n] = FALSE]
     /\ Step(n, "row")
     /\ UNCHANGED <<disk, row, scanVars, applied, copies, latest, queue, edits,
                    removals, losses, userVars>>

-----------------------------------------------------------------------------

ScanStep(n) ==
  ScanRead(n) \/ ScanRecord(n) \/ \E m \in Node : ScanTell(n, m)

ApplyStep(n) ==
  \/ Decide(n) \/ ApplyRow(n) \/ ApplyStat(n) \/ ApplyRecord(n)
  \/ \E m \in Node : Forward(n, m)

Next ==
  \E n \in Node :
    \/ Edit(n) \/ Remove(n)
    \/ ScanStep(n)
    \/ \E m \in Node : Receive(n, m) \/ Lose(m, n)
    \/ ApplyStep(n)
    \/ Crash(n) \/ ApplyRaises(n) \/ ScanRaises(n) \/ UnlinkFails(n)

Spec == Init /\ [][Next]_vars

\* The poll loop of each node comes back to every peer and to the scan, and
\* finishes what it has begun.
FairSpec ==
  /\ Spec
  /\ \A n \in Node : WF_vars(ScanStep(n)) /\ WF_vars(ApplyStep(n))
  /\ \A n, m \in Node : SF_vars(Receive(n, m))

-----------------------------------------------------------------------------
(* Properties.                                                             *)

Carried(e, v) == e.kind # "FORGET" /\ e.hash = v

InFlight(v) ==
  \/ \E m, n \in Node : \E i \in DOMAIN queue[<<m, n>>] : Carried(queue[<<m, n>>][i], v)
  \/ \E n \in Node : apply[n].pc # "idle" /\ Carried(apply[n].event, v)
  \/ \E n \in Node : scan[n].pc = "tell" /\ Carried(scan[n].event, v)

\* A version a scan has recorded stays in a file until a person replaces or
\* removes it, on whatever node: no update, deletion, conflict, loss, restart or
\* exception takes the last one.
ScannedIsKept ==
  \A v \in scanned : v \in settled \/ \E n \in Node : disk[n] = v

\* A version people write is at least in a file, a conflict copy or an event:
\* "no unresolved data-loss bugs in create/update/delete/conflict flows".
WrittenIsKept ==
  \A v \in 1..edits :
    \/ v \in settled
    \/ \E n \in Node : disk[n] = v \/ latest[n] = v \/ v \in copies[n]
    \/ InFlight(v)

\* A FORGET asks the peers to delete a version that a person has replaced or
\* removed, never one that is merely missing.
ForgetsAreEarned ==
  /\ \A m, n \in Node : \A i \in DOMAIN queue[<<m, n>>] :
       queue[<<m, n>>][i].kind = "FORGET" => queue[<<m, n>>][i].base \in settled
  /\ \A n \in Node :
       scan[n].pc = "tell" /\ scan[n].event.kind = "FORGET"
         => scan[n].event.base \in settled

\* A version its people removed does not come back to a node, over lost events,
\* restarts and exceptions, until one of them parts a file from its row or the
\* unlink of a deletion fails (then the next scan takes the file for a new one).
RemovedStaysRemoved ==
  [][torn = {} =>
       \A n \in Node : disk[n] = Absent => disk'[n] \notin dropped[n]]_vars

Agreed ==
  \A n \in Node :
    /\ \A m \in Node : disk[m] = disk[n]
    /\ disk[n] = IF Live(row[n]) THEN row[n].hash ELSE Absent

\* When people stop, the nodes come to hold the same file, recorded as it is:
\* a mismatch "will be resolved by normal scan/event cycle".
NodesConverge == <>[]Agreed

===============================================================================
