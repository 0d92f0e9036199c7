---------------------------- MODULE VaultSyncProofs ----------------------------
(***************************************************************************)
(* Proofs about VaultSync: a FORGET is earned, what a scan has recorded is *)
(* kept and, where the peers form a tree, what was removed does not come   *)
(* back; for any number of nodes, versions, removals, losses and failures, *)
(* as long as no triggered scan runs beside the poller.                    *)
(***************************************************************************)
EXTENDS VaultSync, SequenceTheorems, TLAPS

USE VaultAssumption

(***************************************************************************)
(* A scan asks for the deletion of what the row has when the file is gone. *)
(* So what a row has and the file does not must have been settled by a     *)
(* person (RowIsTrue), through failures that leave a row behind its file.  *)
(* An update makes such a row of any peer's, so the base of every event    *)
(* must be settled too (BasesAreSettled), and a scan that has read a       *)
(* change must know that the row it will replace is out of date, although  *)
(* a person may write once more before it does (ScanIsDue).                *)
(***************************************************************************)
BaseIsSettled(e) ==
  e.base \in settled \/ (e.base = Absent /\ e.kind # "FORGET")

RowIsTrue(n) ==
  Live(row[n]) => row[n].hash = disk[n] \/ row[n].hash \in settled

BasesAreSettled(n) ==
  /\ ~ApplyIdle(n) => BaseIsSettled(apply[n].event)
  /\ scan[n].pc = "tell" => BaseIsSettled(scan[n].event)

ScanIsDue(n) ==
  scan[n].pc = "read" /\ scan[n].bytes # Absent =>
    /\ scan[n].bytes = disk[n] \/ scan[n].bytes \in settled
    /\ Live(row[n]) => row[n].hash \in settled

\* Once the file is written, the row an event is about to get is that file,
\* unless a person has been quicker.
FileIsPut(n) ==
  apply[n].pc = "row" /\ apply[n].event.kind # "FORGET" =>
    apply[n].event.hash = disk[n] \/ apply[n].event.hash \in settled

NodeInv(n) ==
  /\ ScanIdle(n) \/ ApplyIdle(n)
  /\ RowIsTrue(n)
  /\ BasesAreSettled(n)
  /\ ScanIsDue(n)
  /\ FileIsPut(n)

QueueInv ==
  \A m, n \in Node : \A i \in DOMAIN queue[<<m, n>>] :
    BaseIsSettled(queue[<<m, n>>][i])

EarnedInv ==
  /\ TypeOK
  /\ \A n \in Node : NodeInv(n)
  /\ QueueInv

-----------------------------------------------------------------------------
(* Types.                                                                  *)

LEMMA ScanShape ==
  ASSUME TypeOK, NEW n \in Node
  PROVE  /\ scan[n].pc \in {"idle", "read", "tell"}
         /\ scan[n].pc = "read" => scan[n].bytes \in Hash /\ scan[n].seen \in BOOLEAN
         /\ scan[n].pc = "tell" =>
              /\ scan[n] \in [pc : {"tell"}, event : Event, to : SUBSET Node]
              /\ scan[n].event \in Event /\ scan[n].to \in SUBSET Node
<1>1. scan[n] \in Scan
  BY DEF TypeOK
<1>. QED
  BY <1>1 DEF Scan, NoScan

LEMMA ApplyShape ==
  ASSUME TypeOK, NEW n \in Node
  PROVE  /\ apply[n].pc \in {"idle", "wait", "row", "stat", "record", "forward"}
         /\ apply[n].pc \in {"wait", "row", "stat", "record"} =>
              /\ apply[n] \in [pc : {"wait", "row", "stat", "record"},
                               event : Event, from : Node]
              /\ apply[n].event \in Event
         /\ apply[n].pc = "forward" =>
              /\ apply[n] \in [pc : {"forward"}, event : Event, to : SUBSET Node]
              /\ apply[n].event \in Event /\ apply[n].to \in SUBSET Node
<1>1. apply[n] \in Apply
  BY DEF TypeOK
<1>. QED
  BY <1>1 DEF Apply, NoApply

LEMMA RowShape ==
  ASSUME TypeOK, NEW n \in Node
  PROVE  /\ row[n] \in Row
         /\ row[n].hash \in Hash /\ row[n].oseq \in Nat /\ row[n].lseq \in Nat
         /\ Live(row[n]) => row[n].hash \in Version
BY DEF TypeOK, Row, Live, Hash

\* A step of an application changes the step and no more.
LEMMA StepTypes ==
  ASSUME TypeOK, NEW n \in Node, NEW pc \in {"wait", "row", "stat", "record"},
         apply[n].pc \in {"wait", "row", "stat", "record"}, Step(n, pc)
  PROVE  /\ apply' \in [Node -> Apply]
         /\ apply'[n].pc = pc /\ apply'[n].event = apply[n].event
         /\ \A m \in Node \ {n} : apply'[m] = apply[m]
<1>1. apply[n] \in [pc : {"wait", "row", "stat", "record"}, event : Event, from : Node]
  BY ApplyShape
<1> DEFINE new == [apply[n] EXCEPT !.pc = pc]
<1>2. /\ new \in [pc : {"wait", "row", "stat", "record"}, event : Event, from : Node]
      /\ new.pc = pc /\ new.event = apply[n].event
  BY <1>1
<1>3. apply' = [apply EXCEPT ![n] = new]
  BY DEF Step
<1> HIDE DEF new
<1>4. new \in Apply
  BY <1>2 DEF Apply
<1>. QED
  BY <1>2, <1>3, <1>4 DEF TypeOK

LEMMA SendTypes ==
  ASSUME TypeOK, NEW n \in Node, NEW m \in Node, NEW e \in Event, Send(n, m, e)
  PROVE  /\ queue' \in [Node \X Node -> Seq(Event)]
         /\ \A p, q \in Node : \A i \in DOMAIN queue'[<<p, q>>] :
              \/ i \in DOMAIN queue[<<p, q>>] /\ queue'[<<p, q>>][i] = queue[<<p, q>>][i]
              \/ queue'[<<p, q>>][i] = e
<1> DEFINE l == <<n, m>>
<1>1. queue \in [Node \X Node -> Seq(Event)] /\ l \in Node \X Node
  BY DEF TypeOK
<1>2. queue' = [queue EXCEPT ![l] = Append(queue[l], e)]
  BY DEF Send
<1>3. queue[l] \in Seq(Event)
  BY <1>1
<1>4. /\ Append(queue[l], e) \in Seq(Event)
      /\ \A i \in DOMAIN Append(queue[l], e) :
           \/ i \in DOMAIN queue[l] /\ Append(queue[l], e)[i] = queue[l][i]
           \/ Append(queue[l], e)[i] = e
  BY <1>3
<1> HIDE DEF l
<1>5. queue' \in [Node \X Node -> Seq(Event)]
  BY <1>1, <1>2, <1>4
<1>6. \A k \in Node \X Node :
        queue'[k] = IF k = l THEN Append(queue[l], e) ELSE queue[k]
  BY <1>1, <1>2
<1>7. \A k \in Node \X Node : \A i \in DOMAIN queue'[k] :
        \/ i \in DOMAIN queue[k] /\ queue'[k][i] = queue[k][i]
        \/ queue'[k][i] = e
  BY <1>4, <1>6
<1>. QED
  BY <1>5, <1>7

Within(t, s) == \A i \in DOMAIN t : \E j \in DOMAIN s : t[i] = s[j]

\* What is left of a sequence was in it.
LEMMA TailIsWithin ==
  ASSUME NEW S, NEW s \in Seq(S), s # <<>>
  PROVE  /\ Head(s) \in S /\ 1 \in DOMAIN s /\ Head(s) = s[1]
         /\ Tail(s) \in Seq(S) /\ Within(Tail(s), s)
<1>1. /\ DOMAIN s = 1..Len(s) /\ Len(s) \in Nat
  BY LenProperties
<1>2. Len(s) # 0
  BY EmptySeq
<1>3. Head(s) = s[1]
  OBVIOUS
<1>4. /\ Head(s) \in S /\ Tail(s) \in Seq(S) /\ Len(Tail(s)) = Len(s) - 1
      /\ \A i \in 1..Len(Tail(s)) : Tail(s)[i] = s[i + 1]
  BY HeadTailProperties
<1>5. DOMAIN Tail(s) = 1..Len(Tail(s))
  BY <1>4, LenProperties
<1>6. \A i \in DOMAIN Tail(s) : i + 1 \in DOMAIN s /\ Tail(s)[i] = s[i + 1]
  BY <1>1, <1>2, <1>4, <1>5
<1>. QED
  BY <1>1, <1>2, <1>3, <1>4, <1>6 DEF Within

LEMMA TakeTypes ==
  ASSUME TypeOK, NEW n \in Node, NEW m \in Node, queue[<<m, n>>] # <<>>,
         queue' = [queue EXCEPT ![<<m, n>>] = Tail(queue[<<m, n>>])]
  PROVE  /\ Head(queue[<<m, n>>]) \in Event /\ 1 \in DOMAIN queue[<<m, n>>]
         /\ Head(queue[<<m, n>>]) = queue[<<m, n>>][1]
         /\ queue' \in [Node \X Node -> Seq(Event)]
         /\ \A k \in Node \X Node : Within(queue'[k], queue[k])
<1> DEFINE l == <<m, n>>
           q == queue[l]
<1>1. queue \in [Node \X Node -> Seq(Event)] /\ l \in Node \X Node
  BY DEF TypeOK
<1>2. queue' = [queue EXCEPT ![l] = Tail(q)]
  OBVIOUS
<1>3. q \in Seq(Event) /\ q # <<>>
  BY <1>1
<1> HIDE DEF q
<1>4. /\ Head(q) \in Event /\ 1 \in DOMAIN q /\ Head(q) = q[1]
      /\ Tail(q) \in Seq(Event) /\ Within(Tail(q), q)
  BY <1>3, TailIsWithin
<1>5. Head(queue[<<m, n>>]) \in Event /\ 1 \in DOMAIN queue[<<m, n>>]
      /\ Head(queue[<<m, n>>]) = queue[<<m, n>>][1]
  BY <1>4 DEF q
<1> HIDE DEF l
<1>6. queue' \in [Node \X Node -> Seq(Event)]
  BY <1>1, <1>2, <1>4
<1>7. \A k \in Node \X Node : Within(queue'[k], queue[k])
  <2> TAKE k \in Node \X Node
  <2>1. CASE k = l
    <3>1. queue'[k] = Tail(q) /\ queue[k] = q
      BY <1>1, <1>2, <2>1 DEF q
    <3>. QED
      BY <1>4, <3>1
  <2>2. CASE k # l
    <3>1. queue'[k] = queue[k]
      BY <1>1, <1>2, <2>2
    <3>. QED
      BY <3>1 DEF Within
  <2>. QED
    BY <2>1, <2>2
<1>. QED
  BY <1>5, <1>6, <1>7

\* What _apply_event decides, and on what it relies.
LEMMA DecideDoes ==
  ASSUME TypeOK, NEW n \in Node, Decide(n)
  PROVE  LET e == apply[n].event
         IN \/ Reject(n)
            \/ Acknowledge(n)
            \/ ConflictCopy(n, e.hash)
            \/ Adopt(n, e) /\ disk[n] = e.hash
            \/ /\ PutFile(n, e.hash) /\ e.kind # "FORGET"
               /\ Live(row[n]) => disk[n] = Absent \/ row[n].hash = e.base
            \/ /\ PutFile(n, Absent) /\ e.kind = "FORGET"
               /\ Live(row[n]) /\ row[n].hash = e.base
<1> DEFINE e == apply[n].event
<1>1. e.kind \in {"NEW", "UPDATE", "FORGET"}
  BY ApplyShape DEF Decide, Event
<1>2. CASE Stale(n, e)
  BY <1>2 DEF Decide
<1>3. CASE ~Stale(n, e) /\ e.kind = "FORGET"
  BY <1>3 DEF Decide, ApplyForget, Deletes
<1>4. CASE ~Stale(n, e) /\ e.kind # "FORGET"
  <2>1. ApplyNewOrUpdate(n, e)
    BY <1>4 DEF Decide
  <2>2. CASE e.kind = "NEW" /\ disk[n] # Absent
    BY <2>1, <2>2 DEF ApplyNewOrUpdate, NewOnFile
  <2>3. CASE e.kind = "UPDATE" /\ disk[n] # Absent /\ row[n].hash # Absent
    BY <2>1, <2>3 DEF ApplyNewOrUpdate, UpdateOnFile
  <2>4. CASE /\ ~(e.kind = "NEW" /\ disk[n] # Absent)
             /\ ~(e.kind = "UPDATE" /\ disk[n] # Absent /\ row[n].hash # Absent)
    BY <1>1, <1>4, <2>1, <2>4 DEF ApplyNewOrUpdate, Live
  <2>. QED
    BY <2>2, <2>3, <2>4
<1>. QED
  BY <1>2, <1>3, <1>4

LEMMA InitEarned == Init => EarnedInv
<1> SUFFICES ASSUME Init PROVE EarnedInv
  OBVIOUS
<1>1. TypeOK
  BY DEF Init, TypeOK, Hash, Row, Scan, Apply, NoScan, NoApply
<1>2. \A n \in Node : NodeInv(n)
  BY DEF Init, NodeInv, ScanIdle, ApplyIdle, NoScan, NoApply, RowIsTrue, Live,
     BasesAreSettled, ScanIsDue, FileIsPut
<1>3. QueueInv
  BY DEF Init, QueueInv
<1>. QED
  BY <1>1, <1>2, <1>3 DEF EarnedInv

-----------------------------------------------------------------------------
(* Types are kept, action by action.                                       *)

LEMMA PeopleTypes ==
  ASSUME TypeOK, NEW n \in Node, Edit(n) \/ Remove(n)
  PROVE  TypeOK'
<1>1. Seen(n) \subseteq Version
  BY DEF TypeOK, Seen, Hash
<1>2. CASE Edit(n)
  <2>1. edits + 1 \in Version /\ edits + 1 \in Nat /\ edits + 1 =< MaxEdits
    BY <1>2 DEF Edit, TypeOK, Version
  <2>2. disk' \in [Node -> Hash] /\ disk'[n] # Absent
    BY <1>2, <2>1 DEF Edit, TypeOK, Hash
  <2>3. settled' \subseteq Version
    BY <1>1, <1>2 DEF Edit, TypeOK
  <2>4. /\ cached' \in [Node -> BOOLEAN] /\ ~cached'[n]
        /\ \A m \in Node \ {n} : cached'[m] = cached[m] /\ disk'[m] = disk[m]
    BY <1>2 DEF Edit, TypeOK
  <2>. QED
    BY <1>2, <2>1, <2>2, <2>3, <2>4 DEF Edit, TypeOK, scanVars, applyVars
<1>3. CASE Remove(n)
  <2>1. dropped' \in [Node -> SUBSET Version]
    BY <1>1, <1>3 DEF Remove, TypeOK
  <2>. QED
    BY <1>1, <1>3, <2>1 DEF Remove, TypeOK, Hash, scanVars, applyVars
<1>. QED
  BY <1>2, <1>3

LEMMA ScanReadTypes ==
  ASSUME TypeOK, NEW n \in Node, ScanRead(n)
  PROVE  TypeOK'
<1>1. PICK there \in BOOLEAN, bytes \in Hash :
        scan' = [scan EXCEPT ![n] = [pc |-> "read", seen |-> there, bytes |-> bytes]]
  <2>1. disk[n] \in Hash /\ Absent \in Hash
    BY DEF TypeOK, Hash
  <2>. QED
    BY <2>1 DEF ScanRead
<1>2. scan' \in [Node -> Scan]
  <2>1. [pc |-> "read", seen |-> there, bytes |-> bytes] \in Scan
    BY DEF Scan
  <2>. QED
    BY <1>1, <2>1 DEF TypeOK
<1>. QED
  BY <1>2 DEF ScanRead, TypeOK, applyVars, boundVars, userVars

\* What a scan queues is a well-formed event.
LEMMA ManifestTypes ==
  ASSUME TypeOK, NEW n \in Node, NEW kind \in {"NEW", "UPDATE", "FORGET"},
         NEW hash \in Version, NEW base \in Hash
  PROVE  /\ Manifest(n, kind, hash, base) \in Event
         /\ [pc |-> "tell", to |-> PeersOf[n],
             event |-> Manifest(n, kind, hash, base)] \in Scan
<1>1. row[n].lseq + 1 \in Nat
  BY RowShape
<1>2. Manifest(n, kind, hash, base) \in Event
  BY <1>1 DEF Manifest, Event
<1>. QED
  BY <1>2 DEF Scan

LEMMA ScanRecordTypes ==
  ASSUME TypeOK, NEW n \in Node, ScanRecord(n)
  PROVE  TypeOK'
<1> USE DEF applyVars, boundVars, userVars
<1>1. CASE RecordChange(n)
  <2> DEFINE read == scan[n].bytes
             kind == IF Live(row[n]) THEN "UPDATE" ELSE "NEW"
             base == IF kind = "NEW" THEN Absent ELSE row[n].hash
  <2>1. read \in Version /\ base \in Hash /\ kind \in {"NEW", "UPDATE", "FORGET"}
    BY <1>1, ScanShape, RowShape DEF ScanRecord, RecordChange, Hash
  <2>2. scan' \in [Node -> Scan]
    <3>1. [pc |-> "tell", to |-> PeersOf[n],
           event |-> Manifest(n, kind, read, base)] \in Scan
      BY <2>1, ManifestTypes
    <3>. QED
      BY <1>1, <3>1 DEF RecordChange, TypeOK
  <2>3. row' \in [Node -> Row]
    <3>1. row[n].lseq + 1 \in Nat /\ read \in Hash
      BY <2>1, RowShape DEF Hash
    <3>. QED
      BY <1>1, <3>1 DEF RecordChange, TypeOK, Row
  <2>4. scanned' \subseteq Version
    BY <1>1, <2>1 DEF RecordChange, TypeOK
  <2>. QED
    BY <1>1, <2>2, <2>3, <2>4 DEF ScanRecord, RecordChange, TypeOK
<1>2. CASE RecordRemoval(n)
  <2>1. row[n].hash \in Version /\ row[n].hash \in Hash
    BY <1>2, RowShape DEF RecordRemoval
  <2>2. scan' \in [Node -> Scan]
    <3>1. [pc |-> "tell", to |-> PeersOf[n],
           event |-> Manifest(n, "FORGET", row[n].hash, row[n].hash)] \in Scan
      BY <2>1, ManifestTypes
    <3>. QED
      BY <1>2, <3>1 DEF RecordRemoval, TypeOK
  <2>3. row' \in [Node -> Row]
    <3>1. row[n] \in Row /\ row[n].lseq + 1 \in Nat
      BY RowShape
    <3> DEFINE new == [row[n] EXCEPT !.oseq = row[n].lseq + 1,
                                     !.lseq = row[n].lseq + 1, !.deleted = TRUE]
    <3>2. new \in Row
      BY <3>1 DEF Row
    <3>3. row' = [row EXCEPT ![n] = new]
      BY <1>2 DEF RecordRemoval
    <3>. HIDE DEF new
    <3>. QED
      BY <3>2, <3>3 DEF TypeOK
  <2>. QED
    BY <1>2, <2>2, <2>3 DEF ScanRecord, RecordRemoval, TypeOK
<1>3. CASE NothingToRecord(n)
  BY <1>3 DEF ScanRecord, NothingToRecord, TypeOK, Scan
<1>. QED
  BY <1>1, <1>2, <1>3 DEF ScanRecord

\* A scan or an application that goes on to its remaining peers, or ends.
LEMMA TellTypes ==
  ASSUME TypeOK, NEW n \in Node, NEW m \in Node, ScanTell(n, m)
  PROVE  TypeOK'
<1> DEFINE next == IF scan[n].to = {m} THEN NoScan
                   ELSE Served(scan[n], m)
           e == [scan[n].event EXCEPT !.first = m]
<1>1. scan[n] \in [pc : {"tell"}, event : Event, to : SUBSET Node]
  BY ScanShape DEF ScanTell
<1>2. next \in Scan /\ e \in Event
  BY <1>1 DEF Scan, Event, Served
<1>3. Send(n, m, e)
  BY DEF ScanTell
<1>4. scan' = [scan EXCEPT ![n] = next]
  BY DEF ScanTell
<1> HIDE DEF next, e
<1>5. scan' \in [Node -> Scan] /\ queue' \in [Node \X Node -> Seq(Event)]
  BY <1>2, <1>3, <1>4, SendTypes DEF TypeOK
<1>. QED
  BY <1>5 DEF ScanTell, TypeOK, applyVars, boundVars, userVars

LEMMA ForwardTypes ==
  ASSUME TypeOK, NEW n \in Node, NEW m \in Node, Forward(n, m)
  PROVE  TypeOK'
<1> DEFINE next == IF apply[n].to = {m} THEN NoApply
                   ELSE Served(apply[n], m)
<1>1. /\ apply[n] \in [pc : {"forward"}, event : Event, to : SUBSET Node]
      /\ apply[n].event \in Event
  BY ApplyShape DEF Forward
<1>2. next \in Apply
  BY <1>1 DEF Apply, Served
<1>3. Send(n, m, apply[n].event)
  BY DEF Forward
<1>4. apply' = [apply EXCEPT ![n] = next]
  BY DEF Forward
<1> HIDE DEF next
<1>5. apply' \in [Node -> Apply] /\ queue' \in [Node \X Node -> Seq(Event)]
  BY <1>1, <1>2, <1>3, <1>4, SendTypes DEF TypeOK
<1>. QED
  BY <1>5 DEF Forward, TypeOK, scanVars, boundVars, userVars

LEMMA ReceiveTypes ==
  ASSUME TypeOK, NEW n \in Node, NEW m \in Node, Receive(n, m) \/ Lose(m, n)
  PROVE  TypeOK'
<1> DEFINE e == Head(queue[<<m, n>>])
<1>1. e \in Event /\ queue' \in [Node \X Node -> Seq(Event)]
  BY TakeTypes DEF Receive, Lose
<1>2. CASE Receive(n, m)
  <2>1. \/ apply' = apply
        \/ apply' = [apply EXCEPT ![n] = [pc |-> "wait", event |-> e, from |-> m]]
    BY <1>2 DEF Receive
  <2> HIDE DEF e
  <2>2. apply' \in [Node -> Apply]
    <3>1. [pc |-> "wait", event |-> e, from |-> m] \in Apply
      BY <1>1 DEF Apply
    <3>. QED
      BY <2>1, <3>1 DEF TypeOK
  <2>. QED
    BY <1>1, <1>2, <2>2 DEF Receive, TypeOK, scanVars, boundVars, userVars
<1>3. CASE Lose(m, n)
  <2>1. losses' \in Nat
    BY <1>3 DEF Lose, TypeOK
  <2>. QED
    BY <1>1, <1>3, <2>1 DEF Lose, TypeOK, scanVars, applyVars, userVars
<1>. QED
  BY <1>2, <1>3

LEMMA UpsertedTypes ==
  ASSUME TypeOK, NEW n \in Node, NEW e \in Event
  PROVE  Upserted(n, e) \in Row
<1>1. /\ e.hash \in Hash /\ e.origin \in Node /\ e.seq \in Nat
      /\ row[n].lseq \in Nat
  BY RowShape DEF Event, Hash
<1>. QED
  BY <1>1 DEF Upserted, Row

LEMMA DecideTypes ==
  ASSUME TypeOK, NEW n \in Node, Decide(n)
  PROVE  TypeOK'
<1> DEFINE e == apply[n].event
<1> USE DEF scanVars, boundVars, userVars
<1>1. apply[n].pc = "wait" /\ UNCHANGED <<scanVars, applied, queue, boundVars, userVars, torn>>
  BY DEF Decide
<1>2. e \in Event /\ e.hash \in Version /\ e.hash \in Hash /\ Absent \in Hash
  BY <1>1, ApplyShape DEF Event, Hash
<1> HIDE DEF e
<1>3. CASE Reject(n)
  BY <1>1, <1>3 DEF Reject, TypeOK, Apply
<1>4. CASE Acknowledge(n)
  <2>1. apply' \in [Node -> Apply]
    BY <1>1, <1>4, StepTypes DEF Acknowledge
  <2>. QED
    BY <1>1, <1>4, <2>1 DEF Acknowledge, TypeOK
<1>5. CASE ConflictCopy(n, e.hash)
  <2>1. apply' \in [Node -> Apply]
    BY <1>1, <1>5, StepTypes DEF ConflictCopy
  <2>2. latest' \in [Node -> Hash]
    BY <1>2, <1>5 DEF ConflictCopy, TypeOK
  <2>3. copies' \in [Node -> SUBSET Version]
    BY <1>5 DEF ConflictCopy, TypeOK, Hash
  <2>. QED
    BY <1>1, <1>5, <2>1, <2>2, <2>3 DEF ConflictCopy, TypeOK
<1>6. CASE Adopt(n, e)
  <2>1. apply' \in [Node -> Apply]
    BY <1>1, <1>6, StepTypes DEF Adopt
  <2>2. row' \in [Node -> Row]
    BY <1>2, <1>6, UpsertedTypes DEF Adopt, TypeOK
  <2>. QED
    BY <1>1, <1>6, <2>1, <2>2 DEF Adopt, TypeOK
<1>7. ASSUME NEW h \in Hash, PutFile(n, h) PROVE TypeOK'
  <2>1. apply' \in [Node -> Apply]
    BY <1>1, <1>7, StepTypes DEF PutFile
  <2>2. /\ disk' \in [Node -> Hash] /\ cached' \in [Node -> BOOLEAN] /\ ~cached'[n]
        /\ \A m \in Node \ {n} : cached'[m] = cached[m] /\ disk'[m] = disk[m]
    BY <1>7 DEF PutFile, TypeOK
  <2>. QED
    BY <1>1, <1>7, <2>1, <2>2 DEF PutFile, TypeOK
<1>. QED
  BY <1>2, <1>3, <1>4, <1>5, <1>6, <1>7, DecideDoes DEF e

LEMMA ApplyRestTypes ==
  ASSUME TypeOK, NEW n \in Node, ApplyRow(n) \/ ApplyStat(n) \/ ApplyRecord(n)
  PROVE  TypeOK'
<1> DEFINE e == apply[n].event
<1> USE DEF scanVars, boundVars, userVars
<1>1. apply[n].pc \in {"row", "stat", "record"}
  BY DEF ApplyRow, ApplyStat, ApplyRecord
<1>2. e \in Event
  BY <1>1, ApplyShape
<1>3. CASE ApplyRow(n)
  <2>1. apply' \in [Node -> Apply]
    BY <1>1, <1>3, StepTypes DEF ApplyRow
  <2>2. row' \in [Node -> Row]
    <3>1. CASE row' = [row EXCEPT ![n].deleted = TRUE]
      <4>1. [row[n] EXCEPT !.deleted = TRUE] \in Row
        BY RowShape DEF Row
      <4>. QED
        BY <3>1, <4>1 DEF TypeOK
    <3>2. CASE row' = [row EXCEPT ![n] = Upserted(n, e)]
      BY <1>2, <3>2, UpsertedTypes DEF TypeOK
    <3>. QED
      BY <1>3, <3>1, <3>2 DEF ApplyRow
  <2>. QED
    BY <1>3, <2>1, <2>2 DEF ApplyRow, TypeOK
<1>4. CASE ApplyStat(n)
  <2>1. apply' \in [Node -> Apply]
    BY <1>1, <1>4, StepTypes DEF ApplyStat
  <2>. QED
    BY <1>4, <2>1 DEF ApplyStat, TypeOK
<1>5. CASE ApplyRecord(n)
  <2>1. [pc |-> "forward", event |-> e, to |-> Others(n, apply[n].from)] \in Apply
    BY <1>2 DEF Apply, Others
  <2>2. apply' \in [Node -> Apply]
    BY <1>5, <2>1 DEF ApplyRecord, TypeOK, Apply
  <2>. QED
    BY <1>2, <1>5, <2>2 DEF ApplyRecord, TypeOK
<1>. QED
  BY <1>3, <1>4, <1>5

\* A failure ends what a node is doing, or no more than the unlink.
Cut(n) == Crash(n) \/ ApplyRaises(n) \/ ScanRaises(n)

LEMMA CutDoes ==
  ASSUME TypeOK, NEW n \in Node, Cut(n)
  PROVE  /\ UNCHANGED <<disk, row, queue, edits, userVars, scanned>>
         /\ scan'[n] = scan[n] \/ scan'[n].pc = "idle"
         /\ \/ apply'[n] = apply[n]
            \/ apply'[n].pc = "idle" /\ (Parted(n) => torn' # {})
         /\ \A m \in Node \ {n} : scan'[m] = scan[m] /\ apply'[m] = apply[m]
         /\ torn \subseteq torn'
<1>1. CASE Crash(n)
  BY <1>1 DEF Crash, TypeOK, NoScan, NoApply, userVars
<1>2. CASE ApplyRaises(n)
  BY <1>2 DEF ApplyRaises, TypeOK, NoApply, scanVars, userVars
<1>3. CASE ScanRaises(n)
  BY <1>3 DEF ScanRaises, TypeOK, NoScan, applyVars, userVars, Parted, ApplyIdle
<1>. QED
  BY <1>1, <1>2, <1>3 DEF Cut

LEMMA CutTypes ==
  ASSUME TypeOK, NEW n \in Node, Cut(n)
  PROVE  TypeOK'
<1> USE DEF scanVars, applyVars, userVars, Fail
<1>1. CASE Crash(n)
  BY <1>1 DEF Crash, TypeOK, Scan, Apply
<1>2. CASE ApplyRaises(n)
  BY <1>2 DEF ApplyRaises, TypeOK, Apply
<1>3. CASE ScanRaises(n)
  BY <1>3 DEF ScanRaises, TypeOK, Scan
<1>. QED
  BY <1>1, <1>2, <1>3 DEF Cut

LEMMA UnlinkFailsTypes ==
  ASSUME TypeOK, NEW n \in Node, UnlinkFails(n)
  PROVE  TypeOK'
<1>1. apply[n].pc = "wait" /\ Step(n, "row")
  BY DEF UnlinkFails
<1>2. apply' \in [Node -> Apply]
  BY <1>1, StepTypes
<1>3. /\ cached' \in [Node -> BOOLEAN] /\ ~cached'[n]
      /\ \A m \in Node \ {n} : cached'[m] = cached[m]
  BY DEF UnlinkFails, TypeOK
<1>4. failures' \in Nat /\ torn' \subseteq Node
  BY DEF UnlinkFails, TypeOK, Fail
<1>. QED
  BY <1>2, <1>3, <1>4 DEF UnlinkFails, TypeOK, scanVars, userVars

LEMMA TypeStep == TypeOK /\ [Next]_vars => TypeOK'
<1> SUFFICES ASSUME TypeOK, [Next]_vars PROVE TypeOK'
  OBVIOUS
<1>1. CASE UNCHANGED vars
  BY <1>1 DEF TypeOK, vars, scanVars, applyVars, boundVars, userVars
<1>. QED
  BY <1>1, PeopleTypes, ScanReadTypes, ScanRecordTypes, TellTypes, ForwardTypes,
     ReceiveTypes, DecideTypes, ApplyRestTypes, CutTypes, UnlinkFailsTypes
     DEF Next, ScanStep, ApplyStep, Cut

-----------------------------------------------------------------------------
(* The invariant, action by action.  An action of one node leaves the file, *)
(* row, scan and application of the others alone, and settles more, never   *)
(* less.                                                                    *)

LEMMA OneNodeMoves ==
  ASSUME EarnedInv, NEW n \in Node, TypeOK', NodeInv(n)', QueueInv',
         settled \subseteq settled',
         \A m \in Node \ {n} :
           /\ disk'[m] = disk[m] /\ row'[m] = row[m]
           /\ scan'[m] = scan[m] /\ apply'[m] = apply[m]
  PROVE  EarnedInv'
<1>1. ASSUME NEW m \in Node \ {n} PROVE NodeInv(m)'
  <2>1. NodeInv(m)
    BY DEF EarnedInv
  <2>2. settled \subseteq settled' /\ disk'[m] = disk[m] /\ row'[m] = row[m]
        /\ scan'[m] = scan[m] /\ apply'[m] = apply[m]
    OBVIOUS
  <2>. QED
    BY <2>1, <2>2 DEF NodeInv, ScanIdle, ApplyIdle, RowIsTrue, BasesAreSettled,
       BaseIsSettled, ScanIsDue, FileIsPut
<1>. QED
  BY <1>1 DEF EarnedInv

\* Events that stay in the queues stay settled.
LEMMA QueueStays ==
  ASSUME QueueInv, settled \subseteq settled', UNCHANGED queue
  PROVE  QueueInv'
<1>1. ASSUME NEW m \in Node, NEW n \in Node, NEW i \in DOMAIN queue'[<<m, n>>]
      PROVE  \/ queue'[<<m, n>>][i].base \in settled'
             \/ /\ queue'[<<m, n>>][i].base = Absent
                /\ queue'[<<m, n>>][i].kind # "FORGET"
  <2>1. BaseIsSettled(queue[<<m, n>>][i]) /\ queue' = queue
    BY DEF QueueInv
  <2>. QED
    BY <2>1 DEF BaseIsSettled
<1>. QED
  BY <1>1, Zenon DEF QueueInv, BaseIsSettled

LEMMA PeopleEarn ==
  ASSUME EarnedInv, TypeOK', NEW n \in Node, Edit(n) \/ Remove(n)
  PROVE  EarnedInv'
<1>1. NodeInv(n) /\ TypeOK /\ QueueInv
  BY DEF EarnedInv
<1>2. /\ UNCHANGED <<row, scan, apply, queue>>
      /\ settled' = settled \union Seen(n)
      /\ \A m \in Node \ {n} : disk'[m] = disk[m]
  BY <1>1 DEF Edit, Remove, TypeOK, scanVars, applyVars
<1>3. disk[n] # Absent => disk[n] \in settled'
  BY <1>2 DEF Seen
<1>4. apply[n].pc = "row" => apply[n].event.hash # Absent
  BY <1>1, ApplyShape DEF Event, Version
<1>5. NodeInv(n)'
  BY <1>1, <1>2, <1>3, <1>4 DEF NodeInv, ScanIdle, ApplyIdle, RowIsTrue, Live,
     BasesAreSettled, BaseIsSettled, ScanIsDue, FileIsPut
<1>. QED
  BY <1>1, <1>2, <1>5, OneNodeMoves, QueueStays

LEMMA ScanReadEarns ==
  ASSUME EarnedInv, TypeOK', ~Concurrent, NEW n \in Node, ScanRead(n)
  PROVE  EarnedInv'
<1>1. NodeInv(n) /\ TypeOK /\ QueueInv
  BY DEF EarnedInv
<1>2. /\ UNCHANGED <<disk, row, apply, queue, settled>>
      /\ ApplyIdle(n)
      /\ \A m \in Node \ {n} : scan'[m] = scan[m]
      /\ scan'[n].pc = "read"
      /\ scan'[n].bytes # Absent =>
           scan'[n].bytes = disk[n] /\ ~(Live(row[n]) /\ row[n].hash = disk[n])
  BY <1>1 DEF ScanRead, TypeOK, applyVars, userVars
<1>3. NodeInv(n)'
  BY <1>1, <1>2 DEF NodeInv, ScanIdle, ApplyIdle, RowIsTrue, BasesAreSettled,
     BaseIsSettled, ScanIsDue, FileIsPut
<1>. QED
  BY <1>1, <1>2, <1>3, OneNodeMoves, QueueStays

LEMMA ScanRecordEarns ==
  ASSUME EarnedInv, TypeOK', NEW n \in Node, ScanRecord(n)
  PROVE  EarnedInv'
<1>1. NodeInv(n) /\ TypeOK /\ QueueInv
  BY DEF EarnedInv
<1>2. /\ UNCHANGED <<disk, apply, queue, settled>>
      /\ scan[n].pc = "read" /\ ApplyIdle(n)
      /\ \A m \in Node \ {n} : scan'[m] = scan[m] /\ row'[m] = row[m]
  BY <1>1 DEF ScanRecord, RecordChange, RecordRemoval, NothingToRecord, TypeOK,
     applyVars, userVars, NodeInv, ScanIdle
<1>3. CASE RecordChange(n)
  <2>1. /\ scan[n].bytes # Absent
        /\ row'[n].hash = scan[n].bytes
        /\ scan'[n].pc = "tell"
        /\ scan'[n].event.base = IF Live(row[n]) THEN row[n].hash ELSE Absent
        /\ scan'[n].event.kind # "FORGET"
    BY <1>1, <1>3 DEF RecordChange, Manifest, TypeOK
  <2>2. NodeInv(n)'
    BY <1>1, <1>2, <2>1 DEF NodeInv, ScanIdle, ApplyIdle, RowIsTrue,
       BasesAreSettled, BaseIsSettled, ScanIsDue, FileIsPut
  <2>. QED
    BY <1>1, <1>2, <2>2, OneNodeMoves, QueueStays
<1>4. CASE RecordRemoval(n)
  <2>1. Live(row[n]) /\ row[n].hash # Absent /\ disk[n] = Absent
    BY <1>4 DEF RecordRemoval, Live
  <2>2. /\ row'[n].deleted
        /\ scan'[n].pc = "tell" /\ scan'[n].event.base = row[n].hash
    BY <1>1, <1>4, RowShape DEF RecordRemoval, Manifest, TypeOK, Row
  <2>3. NodeInv(n)'
    BY <1>1, <1>2, <2>1, <2>2 DEF NodeInv, ScanIdle, ApplyIdle, RowIsTrue, Live,
       BasesAreSettled, BaseIsSettled, ScanIsDue, FileIsPut
  <2>. QED
    BY <1>1, <1>2, <2>3, OneNodeMoves, QueueStays
<1>5. CASE NothingToRecord(n)
  <2>1. scan'[n].pc = "idle" /\ row' = row
    BY <1>1, <1>5 DEF NothingToRecord, NoScan, TypeOK
  <2>2. NodeInv(n)'
    BY <1>1, <1>2, <2>1 DEF NodeInv, ScanIdle, ApplyIdle, RowIsTrue,
       BasesAreSettled, ScanIsDue, FileIsPut
  <2>. QED
    BY <1>1, <1>2, <2>2, OneNodeMoves, QueueStays
<1>. QED
  BY <1>3, <1>4, <1>5 DEF ScanRecord

\* An event joins a queue.
LEMMA SendEarns ==
  ASSUME QueueInv, TypeOK, NEW n \in Node, NEW m \in Node, NEW e \in Event,
         Send(n, m, e), BaseIsSettled(e), UNCHANGED settled
  PROVE  QueueInv'
<1>1. \A p, q \in Node : \A i \in DOMAIN queue'[<<p, q>>] :
        \/ i \in DOMAIN queue[<<p, q>>] /\ queue'[<<p, q>>][i] = queue[<<p, q>>][i]
        \/ queue'[<<p, q>>][i] = e
  BY SendTypes
<1> SUFFICES ASSUME NEW p \in Node, NEW q \in Node,
                    NEW i \in DOMAIN queue'[<<p, q>>]
             PROVE  BaseIsSettled(queue'[<<p, q>>][i])
  BY DEF QueueInv, BaseIsSettled
<1>2. CASE queue'[<<p, q>>][i] = e
  BY <1>2 DEF BaseIsSettled
<1>3. CASE i \in DOMAIN queue[<<p, q>>] /\ queue'[<<p, q>>][i] = queue[<<p, q>>][i]
  BY <1>3 DEF QueueInv, BaseIsSettled
<1>. QED
  BY <1>1, <1>2, <1>3

\* Events leave a queue.
LEMMA TakeEarns ==
  ASSUME QueueInv, UNCHANGED settled,
         \A k \in Node \X Node : Within(queue'[k], queue[k])
  PROVE  QueueInv'
<1> SUFFICES ASSUME NEW m \in Node, NEW n \in Node,
                    NEW i \in DOMAIN queue'[<<m, n>>]
             PROVE  BaseIsSettled(queue'[<<m, n>>][i])
  BY DEF QueueInv, BaseIsSettled
<1>1. PICK j \in DOMAIN queue[<<m, n>>] : queue'[<<m, n>>][i] = queue[<<m, n>>][j]
  BY DEF Within
<1>. QED
  BY <1>1 DEF QueueInv, BaseIsSettled

LEMMA TellEarns ==
  ASSUME EarnedInv, TypeOK', NEW n \in Node, NEW m \in Node,
         ScanTell(n, m) \/ Forward(n, m)
  PROVE  EarnedInv'
<1>1. NodeInv(n) /\ TypeOK /\ QueueInv
  BY DEF EarnedInv
<1>2. CASE ScanTell(n, m)
  <2> DEFINE e == [scan[n].event EXCEPT !.first = m]
  <2>1. /\ scan[n] \in [pc : {"tell"}, event : Event, to : SUBSET Node]
        /\ UNCHANGED <<disk, row, apply, settled>>
    BY <1>1, <1>2, ScanShape DEF ScanTell, applyVars, userVars
  <2>2. e \in Event /\ BaseIsSettled(e)
    BY <1>1, <2>1 DEF NodeInv, BasesAreSettled, BaseIsSettled, Event
  <2>3. QueueInv'
    BY <1>1, <1>2, <2>1, <2>2, SendEarns DEF ScanTell
  <2>4. /\ \A k \in Node \ {n} : scan'[k] = scan[k]
        /\ \/ scan'[n].pc = "idle"
           \/ scan'[n].pc = "tell" /\ scan'[n].event = scan[n].event
    BY <1>1, <1>2, <2>1 DEF ScanTell, TypeOK, NoScan, Served
  <2>5. NodeInv(n)'
    BY <1>1, <2>1, <2>4 DEF NodeInv, ScanIdle, ApplyIdle, RowIsTrue,
       BasesAreSettled, BaseIsSettled, ScanIsDue, FileIsPut
  <2>. QED
    BY <1>1, <2>1, <2>3, <2>4, <2>5, OneNodeMoves
<1>3. CASE Forward(n, m)
  <2>1. /\ apply[n] \in [pc : {"forward"}, event : Event, to : SUBSET Node]
        /\ apply[n].event \in Event /\ BaseIsSettled(apply[n].event)
        /\ UNCHANGED <<disk, row, scan, settled>>
    BY <1>1, <1>3, ApplyShape DEF Forward, NodeInv, BasesAreSettled, ApplyIdle,
       scanVars, userVars
  <2>2. QueueInv'
    BY <1>1, <1>3, <2>1, SendEarns DEF Forward
  <2>3. /\ \A k \in Node \ {n} : apply'[k] = apply[k]
        /\ \/ apply'[n].pc = "idle"
           \/ apply'[n].pc = "forward" /\ apply'[n].event = apply[n].event
    BY <1>1, <1>3, <2>1 DEF Forward, TypeOK, NoApply, Served
  <2>4. NodeInv(n)'
    BY <1>1, <2>1, <2>3 DEF NodeInv, ScanIdle, ApplyIdle, RowIsTrue,
       BasesAreSettled, BaseIsSettled, ScanIsDue, FileIsPut
  <2>. QED
    BY <1>1, <2>1, <2>2, <2>3, <2>4, OneNodeMoves
<1>. QED
  BY <1>2, <1>3

LEMMA ReceiveEarns ==
  ASSUME EarnedInv, TypeOK', ~Concurrent, NEW n \in Node, NEW m \in Node,
         Receive(n, m) \/ Lose(m, n)
  PROVE  EarnedInv'
<1> DEFINE e == Head(queue[<<m, n>>])
<1>1. NodeInv(n) /\ TypeOK /\ QueueInv
  BY DEF EarnedInv
<1>2. /\ e = queue[<<m, n>>][1] /\ 1 \in DOMAIN queue[<<m, n>>]
      /\ \A k \in Node \X Node : Within(queue'[k], queue[k])
  BY <1>1, TakeTypes DEF Receive, Lose
<1>3. BaseIsSettled(e)
  BY <1>1, <1>2 DEF QueueInv
<1>4. UNCHANGED <<disk, row, scan, settled>>
  BY DEF Receive, Lose, scanVars, userVars
<1>5. QueueInv'
  BY <1>1, <1>2, <1>4, TakeEarns
<1>6. /\ \A k \in Node \ {n} : apply'[k] = apply[k]
      /\ \/ apply'[n] = apply[n]
         \/ /\ ScanIdle(n)
            /\ apply'[n].pc = "wait" /\ apply'[n].event = e
  <2>1. CASE Lose(m, n)
    <3>1. apply' = apply
      BY <2>1 DEF Lose, applyVars
    <3>. QED
      BY <3>1
  <2>2. CASE Receive(n, m)
    <3>1. /\ \/ apply' = apply
             \/ apply' = [apply EXCEPT ![n] = [pc |-> "wait", event |-> e, from |-> m]]
          /\ Concurrent \/ ScanIdle(n)
      BY <2>2 DEF Receive
    <3>2. CASE apply' = apply
      BY <3>2
    <3>3. CASE apply' = [apply EXCEPT ![n] = [pc |-> "wait", event |-> e, from |-> m]]
      <4>1. DOMAIN apply = Node
        BY <1>1 DEF TypeOK
      <4>2. /\ apply'[n] = [pc |-> "wait", event |-> e, from |-> m]
            /\ \A k \in Node \ {n} : apply'[k] = apply[k]
        BY <3>3, <4>1
      <4>. QED
        BY <3>1, <4>2
    <3>. QED
      BY <3>1, <3>2, <3>3
  <2>. QED
    BY <2>1, <2>2
<1> HIDE DEF e
<1>7. NodeInv(n)'
  BY <1>1, <1>3, <1>4, <1>6 DEF NodeInv, ScanIdle, ApplyIdle, RowIsTrue,
     BasesAreSettled, BaseIsSettled, ScanIsDue, FileIsPut
<1>. QED
  BY <1>1, <1>4, <1>5, <1>6, <1>7, OneNodeMoves

LEMMA DecideEarns ==
  ASSUME EarnedInv, TypeOK', NEW n \in Node, Decide(n)
  PROVE  EarnedInv'
<1> DEFINE e == apply[n].event
<1>1. NodeInv(n) /\ TypeOK /\ QueueInv
  BY DEF EarnedInv
<1>2. /\ UNCHANGED <<scan, queue, settled>>
      /\ apply[n].pc = "wait" /\ ScanIdle(n)
      /\ e \in Event /\ e.hash # Absent /\ BaseIsSettled(e)
  BY <1>1, ApplyShape DEF Decide, NodeInv, ApplyIdle, ScanIdle, BasesAreSettled,
     scanVars, userVars, Event, Version
<1>3. CASE Reject(n)
  <2>1. /\ UNCHANGED <<disk, row>> /\ apply'[n].pc = "idle"
        /\ \A m \in Node \ {n} : apply'[m] = apply[m]
    BY <1>1, <1>3 DEF Reject, TypeOK, NoApply
  <2>2. NodeInv(n)'
    BY <1>1, <1>2, <2>1 DEF NodeInv, ScanIdle, ApplyIdle, RowIsTrue,
       BasesAreSettled, ScanIsDue, FileIsPut
  <2>. QED
    BY <1>1, <1>2, <2>1, <2>2, OneNodeMoves, QueueStays
<1>4. ASSUME NEW pc \in {"row", "record"}, Step(n, pc),
             \A m \in Node \ {n} : disk'[m] = disk[m] /\ row'[m] = row[m],
             Live(row'[n]) => row'[n].hash = disk'[n] \/ row'[n].hash \in settled,
             pc = "row" /\ e.kind # "FORGET" => e.hash = disk'[n]
      PROVE  EarnedInv'
  <2>1. /\ apply'[n].pc = pc /\ apply'[n].event = e
        /\ \A m \in Node \ {n} : apply'[m] = apply[m]
    BY <1>1, <1>2, <1>4, StepTypes
  <2>2. NodeInv(n)'
    BY <1>1, <1>2, <1>4, <2>1 DEF NodeInv, ScanIdle, ApplyIdle, RowIsTrue,
       BasesAreSettled, BaseIsSettled, ScanIsDue, FileIsPut
  <2>. QED
    BY <1>1, <1>2, <1>4, <2>1, <2>2, OneNodeMoves, QueueStays
<1>5. CASE Acknowledge(n) \/ ConflictCopy(n, e.hash)
  <2>1. Step(n, "record") /\ UNCHANGED <<disk, row>>
    BY <1>5 DEF Acknowledge, ConflictCopy
  <2>. QED
    BY <1>1, <1>4, <2>1 DEF NodeInv, RowIsTrue
<1>6. CASE Adopt(n, e) /\ disk[n] = e.hash
  <2>1. /\ Step(n, "record") /\ UNCHANGED disk
        /\ row'[n].hash = e.hash
        /\ \A m \in Node \ {n} : row'[m] = row[m]
    BY <1>1, <1>6 DEF Adopt, Upserted, TypeOK
  <2>. QED
    BY <1>4, <1>6, <2>1
<1>7. CASE /\ PutFile(n, e.hash) /\ e.kind # "FORGET"
           /\ Live(row[n]) => disk[n] = Absent \/ row[n].hash = e.base
  <2>1. /\ Step(n, "row") /\ UNCHANGED row
        /\ disk'[n] = e.hash
        /\ \A m \in Node \ {n} : disk'[m] = disk[m]
    BY <1>1, <1>7 DEF PutFile, TypeOK
  <2>2. Live(row[n]) => row[n].hash \in settled
    BY <1>1, <1>2, <1>7 DEF NodeInv, RowIsTrue, BaseIsSettled, Live
  <2>. QED
    BY <1>4, <2>1, <2>2
<1>8. CASE /\ PutFile(n, Absent) /\ e.kind = "FORGET"
           /\ Live(row[n]) /\ row[n].hash = e.base
  <2>1. /\ Step(n, "row") /\ UNCHANGED row
        /\ \A m \in Node \ {n} : disk'[m] = disk[m]
    BY <1>1, <1>8 DEF PutFile, TypeOK
  <2>2. row[n].hash \in settled
    BY <1>2, <1>8 DEF BaseIsSettled, Live
  <2>. QED
    BY <1>4, <1>8, <2>1, <2>2
<1>. QED
  BY <1>1, <1>3, <1>5, <1>6, <1>7, <1>8, DecideDoes

LEMMA ApplyRestEarns ==
  ASSUME EarnedInv, TypeOK', NEW n \in Node,
         ApplyRow(n) \/ ApplyStat(n) \/ ApplyRecord(n)
  PROVE  EarnedInv'
<1> DEFINE e == apply[n].event
<1>1. NodeInv(n) /\ TypeOK /\ QueueInv
  BY DEF EarnedInv
<1>2. /\ apply[n].pc \in {"row", "stat", "record"}
      /\ UNCHANGED <<disk, scan, queue, settled>>
      /\ ScanIdle(n) /\ BaseIsSettled(e)
  BY <1>1 DEF ApplyRow, ApplyStat, ApplyRecord, scanVars, userVars, NodeInv,
     ApplyIdle, BasesAreSettled
<1>3. /\ \A m \in Node \ {n} : row'[m] = row[m] /\ apply'[m] = apply[m]
      /\ \/ row'[n] = row[n]
         \/ e.kind = "FORGET" /\ row'[n].deleted
         \/ /\ apply[n].pc = "row" /\ e.kind # "FORGET"
            /\ row'[n].hash = e.hash
  <2>1. /\ \A m \in Node \ {n} : row'[m] = row[m]
        /\ \/ row'[n] = row[n]
           \/ e.kind = "FORGET" /\ row'[n].deleted
           \/ /\ apply[n].pc = "row" /\ e.kind # "FORGET"
              /\ row'[n].hash = e.hash
    <3>1. CASE ApplyRow(n) /\ e.kind = "FORGET"
      <4> DEFINE new == [row[n] EXCEPT !.deleted = TRUE]
      <4>1. row[n] \in Row
        BY <1>1, RowShape
      <4>2. new.deleted
        BY <4>1 DEF Row
      <4>3. row' = [row EXCEPT ![n] = new]
        BY <3>1 DEF ApplyRow
      <4> HIDE DEF new
      <4>. QED
        BY <1>1, <3>1, <4>2, <4>3 DEF TypeOK
    <3>2. CASE ApplyRow(n) /\ e.kind # "FORGET"
      <4>1. row' = [row EXCEPT ![n] = Upserted(n, e)] /\ apply[n].pc = "row"
        BY <3>2 DEF ApplyRow
      <4>. QED
        BY <1>1, <3>2, <4>1 DEF TypeOK, Upserted
    <3>3. CASE ApplyStat(n) \/ ApplyRecord(n)
      BY <3>3 DEF ApplyStat, ApplyRecord
    <3>. QED
      BY <3>1, <3>2, <3>3
  <2>2. \A m \in Node \ {n} : apply'[m] = apply[m]
    BY <1>1 DEF ApplyRow, ApplyStat, ApplyRecord, Step, TypeOK
  <2>. QED
    BY <2>1, <2>2
<1>4. \/ apply'[n].pc = "idle"
      \/ /\ apply'[n].pc \in {"stat", "record", "forward"}
         /\ apply'[n].event = e
  <2>1. CASE ApplyRow(n) \/ ApplyStat(n)
    <3>1. Step(n, "record") \/ Step(n, "stat")
      BY <2>1 DEF ApplyRow, ApplyStat
    <3>. QED
      BY <1>1, <1>2, <3>1, StepTypes
  <2>2. CASE ApplyRecord(n)
    BY <1>1, <2>2 DEF ApplyRecord, TypeOK, NoApply
  <2>. QED
    BY <2>1, <2>2
<1> HIDE DEF e
<1>5. RowIsTrue(n)'
  BY <1>1, <1>2, <1>3 DEF NodeInv, RowIsTrue, FileIsPut, Live, e
<1>6. NodeInv(n)'
  BY <1>1, <1>2, <1>4, <1>5 DEF NodeInv, ScanIdle, ApplyIdle,
     BasesAreSettled, BaseIsSettled, ScanIsDue, FileIsPut
<1>. QED
  BY <1>1, <1>2, <1>3, <1>6, OneNodeMoves, QueueStays

LEMMA CutEarns ==
  ASSUME EarnedInv, TypeOK', NEW n \in Node, Cut(n)
  PROVE  EarnedInv'
<1>1. NodeInv(n) /\ TypeOK /\ QueueInv
  BY DEF EarnedInv
<1>2. /\ UNCHANGED <<disk, row, queue, settled>>
      /\ scan'[n] = scan[n] \/ scan'[n].pc = "idle"
      /\ apply'[n] = apply[n] \/ apply'[n].pc = "idle"
      /\ \A m \in Node \ {n} : scan'[m] = scan[m] /\ apply'[m] = apply[m]
  BY <1>1, CutDoes DEF userVars
<1>3. NodeInv(n)'
  BY <1>1, <1>2 DEF NodeInv, ScanIdle, ApplyIdle, RowIsTrue, Live, BasesAreSettled,
     BaseIsSettled, ScanIsDue, FileIsPut
<1>. QED
  BY <1>1, <1>2, <1>3, OneNodeMoves, QueueStays

LEMMA UnlinkFailsEarns ==
  ASSUME EarnedInv, TypeOK', NEW n \in Node, UnlinkFails(n)
  PROVE  EarnedInv'
<1>1. NodeInv(n) /\ TypeOK /\ QueueInv
  BY DEF EarnedInv
<1>2. /\ apply[n].pc = "wait" /\ Step(n, "row") /\ apply[n].event.kind = "FORGET"
      /\ UNCHANGED <<disk, row, scan, queue, settled>>
  BY DEF UnlinkFails, scanVars, userVars
<1>3. /\ apply'[n].pc = "row" /\ apply'[n].event = apply[n].event
      /\ \A m \in Node \ {n} : apply'[m] = apply[m]
  BY <1>1, <1>2, StepTypes
<1>4. NodeInv(n)'
  BY <1>1, <1>2, <1>3 DEF NodeInv, ScanIdle, ApplyIdle, RowIsTrue, Live,
     BasesAreSettled, BaseIsSettled, ScanIsDue, FileIsPut
<1>. QED
  BY <1>1, <1>2, <1>3, <1>4, OneNodeMoves, QueueStays

LEMMA EarnedStep ==
  ASSUME ~Concurrent
  PROVE  EarnedInv /\ [Next]_vars => EarnedInv'
<1> SUFFICES ASSUME EarnedInv, [Next]_vars PROVE EarnedInv'
  OBVIOUS
<1>1. TypeOK'
  BY TypeStep DEF EarnedInv
<1>2. CASE UNCHANGED vars
  BY <1>1, <1>2 DEF vars, scanVars, applyVars, userVars, EarnedInv, NodeInv,
     ScanIdle, ApplyIdle, RowIsTrue, BasesAreSettled, BaseIsSettled, ScanIsDue,
     FileIsPut, QueueInv
<1>. QED
  BY <1>1, <1>2, PeopleEarn, ScanReadEarns, ScanRecordEarns, TellEarns,
     ReceiveEarns, DecideEarns, ApplyRestEarns, CutEarns, UnlinkFailsEarns
     DEF Next, ScanStep, ApplyStep, Cut

-----------------------------------------------------------------------------

\* The files, rows, caches, queues and the steps of scans and applications keep
\* their types, triggered scans included.
THEOREM VaultTypes == Spec => []TypeOK
<1>1. Init => TypeOK
  BY InitEarned DEF EarnedInv
<1>. QED
  BY <1>1, TypeStep, PTL DEF Spec

\* The inductive invariant holds: rows are true or settled, bases are settled.
THEOREM EarnedInvariant ==
  ASSUME ~Concurrent
  PROVE  Spec => []EarnedInv
<1>1. EarnedInv /\ [Next]_vars => EarnedInv'
  BY EarnedStep
<1>. QED
  BY <1>1, InitEarned, PTL DEF Spec

\* In any topology, through lost events, conflicts and failures: a node that
\* asks its peers to delete a version has had it replaced or removed by a
\* person, on it or on another node.  A triggered scan must not run beside the
\* poller, or the scan records bytes that are no longer there.
THEOREM OnlyEarnedForgets ==
  ASSUME ~Concurrent
  PROVE  Spec => []ForgetsAreEarned
<1>1. EarnedInv => ForgetsAreEarned
  <2> SUFFICES ASSUME EarnedInv PROVE ForgetsAreEarned
    OBVIOUS
  <2>1. \A m, n \in Node : \A i \in DOMAIN queue[<<m, n>>] :
          BaseIsSettled(queue[<<m, n>>][i])
    BY DEF EarnedInv, QueueInv
  <2>2. \A n \in Node : scan[n].pc = "tell" => BaseIsSettled(scan[n].event)
    BY DEF EarnedInv, NodeInv, BasesAreSettled
  <2>. QED
    BY <2>1, <2>2 DEF BaseIsSettled, ForgetsAreEarned
<1>. QED
  BY <1>1, EarnedInvariant, PTL

-----------------------------------------------------------------------------
(* What a scan has recorded is kept.  A version stays where it was recorded,  *)
(* in the file and in its live row, until a person settles it: an update or a *)
(* deletion that overwrites it has it for its base.                          *)

Home(n, v) == disk[n] = v /\ Live(row[n]) /\ row[n].hash = v

\* Between the file and its row, the row is out of date and settled.
PutIsDue(n) ==
  apply[n].pc = "row" /\ Live(row[n]) => row[n].hash \in settled

KeptInv ==
  /\ \A v \in scanned : v \in settled \/ \E n \in Node : Home(n, v)
  /\ \A n \in Node : PutIsDue(n)

\* One node moves: what is at home there stays or is settled.
LEMMA HomesStay ==
  ASSUME KeptInv, NEW n \in Node, settled \subseteq settled',
         \A m \in Node \ {n} :
           disk'[m] = disk[m] /\ row'[m] = row[m] /\ apply'[m] = apply[m],
         \A v : Home(n, v) => v \in settled' \/ Home(n, v)',
         \A v \in scanned' : v \in scanned \/ v \in settled' \/ Home(n, v)',
         PutIsDue(n)'
  PROVE  KeptInv'
<1>1. ASSUME NEW v \in scanned'
      PROVE  v \in settled' \/ \E m \in Node : Home(m, v)'
  <2>1. CASE v \in scanned
    <3>1. v \in settled \/ \E m \in Node : Home(m, v)
      BY <2>1 DEF KeptInv
    <3>2. ASSUME NEW m \in Node \ {n}, Home(m, v)
          PROVE  Home(m, v)'
      BY <3>2 DEF Home, Live
    <3>. QED
      BY <3>1, <3>2
  <2>. QED
    BY <1>1, <2>1
<1>2. ASSUME NEW m \in Node
      PROVE  PutIsDue(m)'
  <2>1. CASE m # n
    <3>1. PutIsDue(m)
      BY DEF KeptInv
    <3>2. disk'[m] = disk[m] /\ row'[m] = row[m] /\ apply'[m] = apply[m]
      BY <2>1
    <3>. QED
      BY <3>1, <3>2 DEF PutIsDue, Live
  <2>. QED
    BY <2>1
<1>. QED
  BY <1>1, <1>2 DEF KeptInv

LEMMA PeopleKeep ==
  ASSUME EarnedInv, KeptInv, NEW n \in Node, Edit(n) \/ Remove(n)
  PROVE  KeptInv'
<1>1. PutIsDue(n) /\ TypeOK
  BY DEF KeptInv, EarnedInv
<1>2. /\ \A m \in Node \ {n} : disk'[m] = disk[m]
      /\ UNCHANGED <<row, apply, scanned>> /\ settled' = settled \union Seen(n)
  BY <1>1 DEF Edit, Remove, TypeOK, scanVars, applyVars
<1>3. \A v : Home(n, v) => v \in settled'
  BY <1>2 DEF Home, Live, Seen
<1>4. PutIsDue(n)'
  BY <1>1, <1>2 DEF PutIsDue, Live
<1>. QED
  BY <1>2, <1>3, <1>4, HomesStay

\* Steps that write neither a file nor a row.
LEMMA OthersKeep ==
  ASSUME KeptInv, NEW n \in Node, UNCHANGED <<disk, row, scanned, settled>>,
         \A m \in Node \ {n} : apply'[m] = apply[m],
         apply'[n].pc # "row" \/ apply'[n] = apply[n]
  PROVE  KeptInv'
<1>1. \A v : Home(n, v) => Home(n, v)'
  BY DEF Home, Live
<1>2. PutIsDue(n)'
  BY DEF KeptInv, PutIsDue, Live
<1>. QED
  BY <1>1, <1>2, HomesStay

LEMMA ScanRecordKeeps ==
  ASSUME EarnedInv, KeptInv, NEW n \in Node, ScanRecord(n)
  PROVE  KeptInv'
<1>1. NodeInv(n) /\ TypeOK /\ PutIsDue(n)
  BY DEF EarnedInv, KeptInv
<1>2. /\ UNCHANGED <<disk, apply, settled>>
      /\ scan[n].pc = "read" /\ apply[n].pc = "idle"
      /\ \A m \in Node \ {n} : row'[m] = row[m]
  BY <1>1 DEF ScanRecord, RecordChange, RecordRemoval, NothingToRecord, TypeOK,
     applyVars, userVars, NodeInv, ScanIdle, ApplyIdle
<1>3. PutIsDue(n)'
  BY <1>2 DEF PutIsDue
<1>4. CASE RecordChange(n)
  <2>1. /\ scan[n].bytes # Absent /\ scanned' = scanned \union {scan[n].bytes}
        /\ row'[n].hash = scan[n].bytes /\ ~row'[n].deleted
    BY <1>1, <1>4 DEF RecordChange, TypeOK
  <2>2. scan[n].bytes = disk[n] \/ scan[n].bytes \in settled
    BY <1>1, <1>2, <2>1 DEF NodeInv, ScanIsDue
  <2>3. Live(row[n]) => row[n].hash \in settled
    BY <1>1, <1>2, <2>1 DEF NodeInv, ScanIsDue
  <2>4. \A v : Home(n, v) => v \in settled'
    BY <1>2, <2>3 DEF Home
  <2>5. \A v \in scanned' : v \in scanned \/ v \in settled' \/ Home(n, v)'
    BY <1>2, <2>1, <2>2 DEF Home, Live
  <2>. QED
    BY <1>2, <1>3, <2>4, <2>5, HomesStay
<1>5. CASE RecordRemoval(n)
  <2>1. disk[n] = Absent /\ scanned' = scanned
    BY <1>5 DEF RecordRemoval
  <2>2. \A v : ~Home(n, v)
    BY <2>1 DEF Home, Live
  <2>. QED
    BY <1>2, <1>3, <2>1, <2>2, HomesStay
<1>6. CASE NothingToRecord(n)
  BY <1>2, <1>6, OthersKeep DEF NothingToRecord
<1>. QED
  BY <1>4, <1>5, <1>6 DEF ScanRecord

LEMMA DecideKeeps ==
  ASSUME EarnedInv, KeptInv, NEW n \in Node, Decide(n)
  PROVE  KeptInv'
<1> DEFINE e == apply[n].event
<1>1. NodeInv(n) /\ TypeOK
  BY DEF EarnedInv
<1>2. /\ UNCHANGED <<scanned, settled>> /\ apply[n].pc = "wait"
      /\ BaseIsSettled(e) /\ e.hash # Absent
  BY <1>1, ApplyShape DEF Decide, NodeInv, ApplyIdle, BasesAreSettled,
     scanVars, userVars, Event, Version
<1> HIDE DEF e
<1>3. CASE Reject(n)
  <2>1. /\ UNCHANGED <<disk, row>> /\ apply'[n].pc = "idle"
        /\ \A m \in Node \ {n} : apply'[m] = apply[m]
    BY <1>1, <1>3 DEF Reject, TypeOK, NoApply
  <2>. QED
    BY <1>2, <2>1, OthersKeep
<1>4. ASSUME NEW pc \in {"row", "record"}, Step(n, pc)
      PROVE  apply'[n].pc = pc /\ \A m \in Node \ {n} : apply'[m] = apply[m]
  BY <1>1, <1>2, <1>4, StepTypes
<1>5. CASE Acknowledge(n) \/ ConflictCopy(n, e.hash)
  <2>1. Step(n, "record") /\ UNCHANGED <<disk, row>>
    BY <1>5 DEF Acknowledge, ConflictCopy
  <2>2. apply'[n].pc = "record" /\ \A m \in Node \ {n} : apply'[m] = apply[m]
    BY <1>4, <2>1
  <2>. QED
    BY <1>2, <2>1, <2>2, OthersKeep
<1>6. CASE Adopt(n, e) /\ disk[n] = e.hash
  <2>1. /\ Step(n, "record") /\ UNCHANGED disk
        /\ row'[n].hash = e.hash /\ ~row'[n].deleted
        /\ \A m \in Node \ {n} : row'[m] = row[m]
    BY <1>1, <1>6 DEF Adopt, Upserted, TypeOK
  <2>2. apply'[n].pc = "record" /\ \A m \in Node \ {n} : apply'[m] = apply[m]
    BY <1>4, <2>1
  <2>3. \A v : Home(n, v) => Home(n, v)'
    BY <1>2, <1>6, <2>1 DEF Home, Live
  <2>. QED
    BY <1>2, <2>1, <2>2, <2>3, HomesStay DEF PutIsDue
<1>7. ASSUME NEW h, PutFile(n, h), Live(row[n]) => row[n].hash \in settled
      PROVE  KeptInv'
  <2>1. /\ Step(n, "row") /\ UNCHANGED row
        /\ \A m \in Node \ {n} : disk'[m] = disk[m]
    BY <1>1, <1>7 DEF PutFile, TypeOK
  <2>2. apply'[n].pc = "row" /\ \A m \in Node \ {n} : apply'[m] = apply[m]
    BY <1>4, <2>1
  <2>3. \A v : Home(n, v) => v \in settled'
    BY <1>2, <1>7 DEF Home
  <2>4. PutIsDue(n)'
    BY <1>2, <1>7, <2>1 DEF PutIsDue, Live
  <2>. QED
    BY <1>2, <2>1, <2>2, <2>3, <2>4, HomesStay
<1>8. CASE /\ PutFile(n, e.hash) /\ e.kind # "FORGET"
           /\ Live(row[n]) => disk[n] = Absent \/ row[n].hash = e.base
  <2>1. Live(row[n]) => row[n].hash \in settled
    BY <1>1, <1>2, <1>8 DEF NodeInv, RowIsTrue, BaseIsSettled, Live
  <2>. QED
    BY <1>7, <1>8, <2>1
<1>9. CASE /\ PutFile(n, Absent) /\ e.kind = "FORGET"
           /\ Live(row[n]) /\ row[n].hash = e.base
  <2>1. row[n].hash \in settled
    BY <1>2, <1>9 DEF BaseIsSettled, Live
  <2>. QED
    BY <1>7, <1>9, <2>1
<1>. QED
  BY <1>1, <1>3, <1>5, <1>6, <1>8, <1>9, DecideDoes DEF e

LEMMA ApplyRestKeeps ==
  ASSUME EarnedInv, KeptInv, NEW n \in Node,
         ApplyRow(n) \/ ApplyStat(n) \/ ApplyRecord(n)
  PROVE  KeptInv'
<1>1. TypeOK /\ PutIsDue(n)
  BY DEF EarnedInv, KeptInv
<1>2. /\ UNCHANGED <<disk, scanned, settled>>
      /\ \A m \in Node \ {n} : row'[m] = row[m] /\ apply'[m] = apply[m]
  BY <1>1 DEF ApplyRow, ApplyStat, ApplyRecord, Step, TypeOK, scanVars, userVars
<1>3. apply'[n].pc # "row"
  <2>1. CASE ApplyRow(n) \/ ApplyStat(n)
    <3>1. Step(n, "record") \/ Step(n, "stat")
      BY <2>1 DEF ApplyRow, ApplyStat
    <3>2. apply[n].pc \in {"wait", "row", "stat", "record"}
      BY <2>1 DEF ApplyRow, ApplyStat
    <3>. QED
      BY <1>1, <3>1, <3>2, StepTypes
  <2>2. CASE ApplyRecord(n)
    BY <1>1, <2>2 DEF ApplyRecord, TypeOK, NoApply
  <2>. QED
    BY <2>1, <2>2
<1>4. CASE ApplyRow(n)
  <2>1. Live(row[n]) => row[n].hash \in settled
    BY <1>1, <1>4 DEF PutIsDue, ApplyRow
  <2>2. \A v : Home(n, v) => v \in settled'
    BY <1>2, <2>1 DEF Home
  <2>. QED
    BY <1>2, <1>3, <2>2, HomesStay DEF PutIsDue
<1>5. CASE ApplyStat(n) \/ ApplyRecord(n)
  <2>1. UNCHANGED row
    BY <1>5 DEF ApplyStat, ApplyRecord
  <2>. QED
    BY <1>2, <1>3, <2>1, OthersKeep
<1>. QED
  BY <1>4, <1>5

LEMMA UnlinkFailsKeeps ==
  ASSUME EarnedInv, KeptInv, NEW n \in Node, UnlinkFails(n)
  PROVE  KeptInv'
<1>1. NodeInv(n) /\ TypeOK
  BY DEF EarnedInv
<1>2. /\ apply[n].pc = "wait" /\ Step(n, "row")
      /\ apply[n].event.kind = "FORGET" /\ row[n].hash = apply[n].event.base
      /\ UNCHANGED <<disk, row, scanned, settled>>
  BY DEF UnlinkFails, Deletes, scanVars, userVars
<1>3. apply'[n].pc = "row" /\ \A m \in Node \ {n} : apply'[m] = apply[m]
  BY <1>1, <1>2, StepTypes
<1>4. row[n].hash \in settled
  BY <1>1, <1>2 DEF NodeInv, ApplyIdle, BasesAreSettled, BaseIsSettled
<1>5. \A v : Home(n, v) => v \in settled'
  BY <1>2, <1>4 DEF Home
<1>6. PutIsDue(n)'
  BY <1>2, <1>4 DEF PutIsDue
<1>. QED
  BY <1>2, <1>3, <1>5, <1>6, HomesStay

LEMMA KeptStep ==
  ASSUME EarnedInv, KeptInv, [Next]_vars
  PROVE  KeptInv'
<1>1. TypeOK
  BY DEF EarnedInv
<1>2. ASSUME NEW n \in Node, NEW m \in Node, ScanRead(n) \/ ScanTell(n, m)
      PROVE  KeptInv'
  <2>1. UNCHANGED <<disk, row, apply, scanned, settled>>
    BY <1>2 DEF ScanRead, ScanTell, applyVars, userVars
  <2>. QED
    BY <2>1, OthersKeep
<1>3. ASSUME NEW n \in Node, NEW m \in Node, Receive(n, m) \/ Lose(m, n)
      PROVE  KeptInv'
  <2>1. /\ UNCHANGED <<disk, row, scanned, settled>>
        /\ \A k \in Node \ {n} : apply'[k] = apply[k]
        /\ apply'[n].pc # "row" \/ apply'[n] = apply[n]
    BY <1>1, <1>3 DEF Receive, Lose, TypeOK, scanVars, applyVars, userVars
  <2>. QED
    BY <2>1, OthersKeep
<1>4. ASSUME NEW n \in Node, NEW m \in Node, Forward(n, m)
      PROVE  KeptInv'
  <2>1. apply[n] \in [pc : {"forward"}, event : Event, to : SUBSET Node]
    BY <1>1, <1>4, ApplyShape DEF Forward
  <2>2. /\ UNCHANGED <<disk, row, scanned, settled>>
        /\ \A k \in Node \ {n} : apply'[k] = apply[k]
        /\ apply'[n].pc # "row"
    BY <1>1, <1>4, <2>1 DEF Forward, TypeOK, NoApply, Served, scanVars, userVars
  <2>. QED
    BY <2>2, OthersKeep
<1>5. ASSUME NEW n \in Node, Cut(n)
      PROVE  KeptInv'
  <2>1. /\ UNCHANGED <<disk, row, scanned, settled>>
        /\ \A k \in Node \ {n} : apply'[k] = apply[k]
        /\ apply'[n] = apply[n] \/ apply'[n].pc # "row"
    BY <1>1, <1>5, CutDoes DEF userVars
  <2>. QED
    BY <2>1, OthersKeep
<1>6. CASE UNCHANGED vars
  BY <1>6 DEF vars, scanVars, applyVars, userVars, KeptInv, Home, PutIsDue, Live
<1>. QED
  BY <1>2, <1>3, <1>4, <1>5, <1>6, PeopleKeep, ScanRecordKeeps, DecideKeeps,
     ApplyRestKeeps, UnlinkFailsKeeps DEF Next, ScanStep, ApplyStep, Cut

\* No version that a scan has recorded is lost, in any topology, through lost
\* events, conflicts and failures: it stays in a file until a person replaces or
\* removes it, on that node or on another.
THEOREM NothingScannedIsLost ==
  ASSUME ~Concurrent
  PROVE  Spec => []ScannedIsKept
<1>1. Init => KeptInv
  BY DEF Init, KeptInv, PutIsDue, NoApply
<1>2. EarnedInv /\ KeptInv /\ [Next]_vars => KeptInv'
  BY KeptStep
<1>3. KeptInv => ScannedIsKept
  BY DEF KeptInv, ScannedIsKept, Home
<1>. QED
  BY <1>1, <1>2, <1>3, EarnedInvariant, PTL DEF Spec

-----------------------------------------------------------------------------
(***************************************************************************)
(* What was removed does not come back, when the graph of the peers is a   *)
(* tree: seen from any node h, each edge leads towards h or away from it   *)
(* (Spread).  A version is announced by the node it was written on, once,  *)
(* and travels away from there: Story follows it.  G is the set of nodes   *)
(* that have announced or received it.  Each edge carries it at most once, *)
(* from a node in G to one that is not (EdgeStory), and a node in G never  *)
(* receives it again nor takes it for something new, because its row has   *)
(* what its file has (NodeStory).  So a node that has removed it, and must *)
(* have had it before, is in G, or is the author and receives nothing.     *)
(***************************************************************************)
Spread(up) ==
  \A h \in Node :
    /\ up[h][h] = NoNode
    /\ \A n \in Node : \A m \in PeersOf[n] : m = up[h][n] \/ n = up[h][m]

PeersAreATree ==
  \E up \in [Node -> [Node -> Node \union {NoNode}]] : Spread(up)

ApplyCarries(n, v) == ~ApplyIdle(n) /\ Carried(apply[n].event, v)
TellCarries(n, v) == scan[n].pc = "tell" /\ Carried(scan[n].event, v)

OnWay(q, n, v) == {i \in DOMAIN queue[<<q, n>>] : Carried(queue[<<q, n>>][i], v)}

\* Those to whom an application has still to forward its event.
Untold(q) ==
  IF apply[q].pc = "forward" THEN apply[q].to ELSE Others(q, apply[q].from)

WillSend(q, n, v) ==
  \/ TellCarries(q, v) /\ n \in scan[q].to
  \/ ApplyCarries(q, v) /\ n \in Untold(q)

OnceOnWay(q, n, v) == \A i, j \in OnWay(q, n, v) : i = j

EdgeStory(up, h, G, v, q, n) ==
  /\ OnWay(q, n, v) # {} \/ WillSend(q, n, v) => q \in G /\ n \notin G /\ up[h][n] = q
  /\ OnceOnWay(q, n, v)
  /\ OnWay(q, n, v) = {} \/ ~WillSend(q, n, v)

NodeStory(up, h, G, v, n) ==
  /\ n \in G /\ n # h => up[h][n] \in G
  /\ n \notin G => ~ApplyCarries(n, v) /\ ~TellCarries(n, v)
  /\ n \notin G /\ n # h => disk[n] # v /\ v \notin dropped[n]
  /\ ApplyCarries(n, v) => n # h
  /\ TellCarries(n, v) => n = h
  /\ scan[n].pc = "read" /\ scan[n].bytes = v => n = h /\ n \notin G
  /\ n \in G /\ disk[n] = v =>
       /\ \/ Live(row[n]) /\ row[n].hash = v
          \/ apply[n].pc = "row" /\ ApplyCarries(n, v)
       /\ scan[n].pc = "read" => scan[n].bytes = Absent
       /\ apply[n].pc = "row" => ApplyCarries(n, v)
  /\ apply[n].pc = "wait" /\ ApplyCarries(n, v) => disk[n] # v /\ v \notin dropped[n]

Story(up, h, G, v) ==
  /\ h \notin Node => G = {}
  /\ \A n \in Node : NodeStory(up, h, G, v, n)
  /\ \A q, n \in Node : EdgeStory(up, h, G, v, q, n)

\* A version that is still to be written has no author and is nowhere.
ReturnInv(up) ==
  torn = {} =>
    \A v \in Version : \E h \in Node \union {NoNode}, G \in SUBSET Node :
      /\ Story(up, h, G, v)
      /\ v > edits => h = NoNode

\* The story of v goes on, with G or with one node more.
Continues(up, h, v) == \E G2 \in SUBSET Node : Story(up, h, G2, v)'

\* One node moves.
LEMMA StoryFrame ==
  ASSUME NEW up, NEW h, NEW v, NEW n \in Node, NEW G \in SUBSET Node,
         NEW G2 \in SUBSET Node, G \subseteq G2, G2 \subseteq G \union {n},
         Story(up, h, G, v), h \notin Node => G2 = {},
         \A k \in Node \ {n} :
           /\ disk'[k] = disk[k] /\ row'[k] = row[k] /\ scan'[k] = scan[k]
           /\ apply'[k] = apply[k] /\ dropped'[k] = dropped[k],
         \A q, k \in Node \ {n} : queue'[<<q, k>>] = queue[<<q, k>>],
         NodeStory(up, h, G2, v, n)',
         \A k \in Node : EdgeStory(up, h, G2, v, n, k)',
         \A k \in Node \ {n} : EdgeStory(up, h, G2, v, k, n)'
  PROVE  Story(up, h, G2, v)'
<1>1. ASSUME NEW k \in Node \ {n} PROVE NodeStory(up, h, G2, v, k)'
  <2>1. NodeStory(up, h, G, v, k) /\ (k \in G <=> k \in G2)
    BY DEF Story
  <2>2. /\ disk'[k] = disk[k] /\ row'[k] = row[k] /\ scan'[k] = scan[k]
        /\ apply'[k] = apply[k] /\ dropped'[k] = dropped[k]
    OBVIOUS
  <2>3. /\ ApplyCarries(k, v)' <=> ApplyCarries(k, v)
        /\ TellCarries(k, v)' <=> TellCarries(k, v)
    BY <2>2 DEF ApplyCarries, TellCarries, ApplyIdle, Carried
  <2>. QED
    BY <2>1, <2>2, <2>3 DEF NodeStory, Live
<1>2. ASSUME NEW q \in Node \ {n}, NEW k \in Node \ {n}
      PROVE  EdgeStory(up, h, G2, v, q, k)'
  <2>1. EdgeStory(up, h, G, v, q, k) /\ (q \in G <=> q \in G2) /\ (k \in G <=> k \in G2)
    BY DEF Story
  <2>2. scan'[q] = scan[q] /\ apply'[q] = apply[q] /\ queue'[<<q, k>>] = queue[<<q, k>>]
    OBVIOUS
  <2>3. WillSend(q, k, v)' <=> WillSend(q, k, v)
    BY <2>2 DEF WillSend, ApplyCarries, TellCarries, ApplyIdle, Carried, Untold, Others
  <2>4. OnWay(q, k, v)' = OnWay(q, k, v)
    BY <2>2 DEF OnWay, Carried
  <2>. QED
    BY <2>1, <2>3, <2>4 DEF EdgeStory, OnceOnWay
<1>. QED
  BY <1>1, <1>2 DEF Story

\* ... and sends nothing, nor will it send more.
LEMMA QuietStory ==
  ASSUME NEW up, NEW h, NEW v, NEW n \in Node, NEW G \in SUBSET Node,
         Story(up, h, G, v), UNCHANGED queue,
         \A k \in Node \ {n} :
           /\ disk'[k] = disk[k] /\ row'[k] = row[k] /\ scan'[k] = scan[k]
           /\ apply'[k] = apply[k] /\ dropped'[k] = dropped[k],
         \A k \in Node : WillSend(n, k, v)' => WillSend(n, k, v),
         NodeStory(up, h, G, v, n)'
  PROVE  Continues(up, h, v)
<1>1. \A q, k \in Node : OnWay(q, k, v)' = OnWay(q, k, v)
  BY DEF OnWay, Carried
<1>2. \A k \in Node : EdgeStory(up, h, G, v, n, k)'
  BY <1>1 DEF Story, EdgeStory, OnceOnWay
<1>3. ASSUME NEW k \in Node \ {n} PROVE EdgeStory(up, h, G, v, k, n)'
  <2>1. scan'[k] = scan[k] /\ apply'[k] = apply[k]
    OBVIOUS
  <2>2. WillSend(k, n, v)' <=> WillSend(k, n, v)
    BY <2>1 DEF WillSend, ApplyCarries, TellCarries, ApplyIdle, Carried, Untold, Others
  <2>. QED
    BY <1>1, <2>2 DEF Story, EdgeStory, OnceOnWay
<1>4. Story(up, h, G, v)'
  BY <1>2, <1>3, StoryFrame DEF Story
<1>. QED
  BY <1>4 DEF Continues

LEMMA PeopleTell ==
  ASSUME TypeOK, NEW up, NEW h, NEW v \in Version, NEW n \in Node,
         NEW G \in SUBSET Node, Story(up, h, G, v),
         (Edit(n) /\ v # edits + 1) \/ Remove(n)
  PROVE  Continues(up, h, v)
<1>1. NodeStory(up, h, G, v, n) /\ v # Absent
  BY DEF Story, Version
<1>2. /\ UNCHANGED <<row, scan, apply, queue>>
      /\ disk'[n] # v
      /\ \A k \in Node \ {n} : disk'[k] = disk[k] /\ dropped'[k] = dropped[k]
      /\ dropped'[n] \subseteq dropped[n] \union {disk[n]}
  BY <1>1 DEF Edit, Remove, TypeOK, Seen, scanVars, applyVars
<1>3. /\ ApplyCarries(n, v)' <=> ApplyCarries(n, v)
      /\ TellCarries(n, v)' <=> TellCarries(n, v)
      /\ \A k \in Node : WillSend(n, k, v)' => WillSend(n, k, v)
  BY <1>2 DEF WillSend, ApplyCarries, TellCarries, ApplyIdle, Carried, Untold, Others
<1>4. NodeStory(up, h, G, v, n)'
  BY <1>1, <1>2, <1>3 DEF NodeStory
<1>. QED
  BY <1>2, <1>3, <1>4, QuietStory

\* The version a person writes gets its author.
LEMMA AuthorTells ==
  ASSUME TypeOK, NEW up, NEW v \in Version, NEW n \in Node, Edit(n),
         Story(up, NoNode, {}, v)
  PROVE  Story(up, n, {}, v)'
<1>1. /\ UNCHANGED <<row, scan, apply, queue, dropped>>
      /\ \A k \in Node \ {n} : disk'[k] = disk[k]
  BY DEF Edit, TypeOK, scanVars, applyVars
<1>2. ASSUME NEW k \in Node
      PROVE  /\ ~ApplyCarries(k, v) /\ ~TellCarries(k, v)
             /\ disk[k] # v /\ v \notin dropped[k]
             /\ ~(scan[k].pc = "read" /\ scan[k].bytes = v)
  <2>1. NodeStory(up, NoNode, {}, v, k) /\ k # NoNode
    BY DEF Story
  <2>. QED
    BY <2>1 DEF NodeStory
<1>3. \A k \in Node : ~ApplyCarries(k, v)' /\ ~TellCarries(k, v)'
  BY <1>1, <1>2 DEF ApplyCarries, TellCarries, ApplyIdle, Carried
<1>4. \A k \in Node : NodeStory(up, n, {}, v, k)'
  BY <1>1, <1>2, <1>3 DEF NodeStory
<1>5. ASSUME NEW q \in Node, NEW k \in Node PROVE EdgeStory(up, n, {}, v, q, k)'
  <2>1. OnWay(q, k, v) = {}
    BY DEF Story, EdgeStory, OnceOnWay
  <2>2. OnWay(q, k, v)' = {}
    BY <1>1, <2>1 DEF OnWay, Carried
  <2>3. ~WillSend(q, k, v)'
    BY <1>3 DEF WillSend
  <2>. QED
    BY <2>2, <2>3 DEF EdgeStory, OnceOnWay
<1>. QED
  BY <1>4, <1>5 DEF Story

LEMMA ScanReadTells ==
  ASSUME EarnedInv, ~Concurrent, NEW up, NEW h, NEW v \in Version, NEW n \in Node,
         NEW G \in SUBSET Node, Story(up, h, G, v), ScanRead(n)
  PROVE  Continues(up, h, v)
<1>1. NodeStory(up, h, G, v, n) /\ v # Absent /\ TypeOK
  BY DEF Story, Version, EarnedInv
<1>2. /\ UNCHANGED <<disk, row, apply, queue, dropped>> /\ apply[n].pc = "idle"
      /\ \A k \in Node \ {n} : scan'[k] = scan[k]
      /\ scan'[n].pc = "read" /\ scan[n].pc = "idle"
      /\ scan'[n].bytes \in {disk[n], Absent}
      /\ Live(row[n]) /\ row[n].hash = disk[n] => scan'[n].bytes = Absent
  BY <1>1 DEF ScanRead, TypeOK, ScanIdle, ApplyIdle, applyVars, userVars
<1>3. /\ ApplyCarries(n, v)' <=> ApplyCarries(n, v)
      /\ ~TellCarries(n, v)'
  BY <1>2 DEF ApplyCarries, TellCarries, ApplyIdle, Carried
<1>4. \A k \in Node : WillSend(n, k, v)' => WillSend(n, k, v)
  BY <1>2, <1>3 DEF WillSend, Untold, Others
<1>5. NodeStory(up, h, G, v, n)'
  BY <1>1, <1>2, <1>3 DEF NodeStory, Live
<1>. QED
  BY <1>2, <1>4, <1>5, QuietStory

\* The author announces the version, for the first time.
LEMMA AuthorAnnounces ==
  ASSUME EarnedInv, ~Concurrent, NEW up, Spread(up), NEW h \in Node \union {NoNode},
         NEW v \in Version, NEW n \in Node, NEW G \in SUBSET Node,
         Story(up, h, G, v), ScanRecord(n), RecordChange(n), scan[n].bytes = v
  PROVE  Continues(up, h, v)
<1> DEFINE G2 == G \union {n}
<1>1. NodeStory(up, h, G, v, n) /\ v # Absent /\ TypeOK
  BY DEF Story, Version, EarnedInv
<1>2. n = h /\ n \notin G /\ h # NoNode
  BY <1>1 DEF NodeStory, ScanRecord
<1>3. /\ UNCHANGED <<disk, apply, queue, dropped>> /\ apply[n].pc = "idle"
      /\ \A k \in Node \ {n} : scan'[k] = scan[k] /\ row'[k] = row[k]
      /\ row'[n].hash = v /\ ~row'[n].deleted
      /\ scan'[n].pc = "tell" /\ scan'[n].to = PeersOf[n]
  BY <1>1 DEF ScanRecord, RecordChange, EarnedInv, NodeInv, TypeOK, ScanIdle, ApplyIdle,
     applyVars, userVars
<1>4. ~ApplyCarries(n, v)'
  BY <1>3 DEF ApplyCarries, ApplyIdle
<1>5. NodeStory(up, h, G2, v, n)'
  BY <1>1, <1>2, <1>3, <1>4 DEF NodeStory, Live
<1>6. ASSUME NEW k \in Node
      PROVE  OnWay(k, n, v)' = {} /\ OnWay(n, k, v)' = {}
  <2>1. OnWay(k, n, v) = {} /\ OnWay(n, k, v) = {}
    BY <1>2 DEF Story, EdgeStory, Spread
  <2>. QED
    BY <1>3, <2>1 DEF OnWay, Carried
<1>7. ASSUME NEW k \in Node
      PROVE  EdgeStory(up, h, G2, v, n, k)'
  <2>1. ASSUME WillSend(n, k, v)'
        PROVE  k \notin G2 /\ up[h][k] = n
    <3>1. k \in PeersOf[n]
      BY <1>3, <1>4, <2>1 DEF WillSend
    <3>2. up[h][k] = n /\ k # n
      BY <1>2, <3>1, VaultAssumption DEF Spread
    <3>3. k \notin G
      BY <1>2, <3>2 DEF Story, NodeStory
    <3>. QED
      BY <3>2, <3>3
  <2>. QED
    BY <1>6, <2>1 DEF EdgeStory, OnceOnWay
<1>8. ASSUME NEW k \in Node \ {n}
      PROVE  EdgeStory(up, h, G2, v, k, n)'
  <2>1. ~WillSend(k, n, v)
    BY <1>2 DEF Story, EdgeStory, Spread
  <2>2. scan'[k] = scan[k] /\ apply'[k] = apply[k]
    BY <1>3
  <2>3. ~WillSend(k, n, v)'
    BY <2>1, <2>2 DEF WillSend, ApplyCarries, TellCarries, ApplyIdle, Carried, Untold, Others
  <2>. QED
    BY <1>6, <2>3 DEF EdgeStory, OnceOnWay
<1>9. Story(up, h, G2, v)'
  BY <1>2, <1>3, <1>5, <1>7, <1>8, StoryFrame
<1>. QED
  BY <1>9 DEF Continues

LEMMA ScanRecordTells ==
  ASSUME EarnedInv, ~Concurrent, NEW up, Spread(up), NEW h \in Node \union {NoNode},
         NEW v \in Version, NEW n \in Node, NEW G \in SUBSET Node,
         Story(up, h, G, v), ScanRecord(n)
  PROVE  Continues(up, h, v)
<1>1. NodeStory(up, h, G, v, n) /\ v # Absent /\ TypeOK
  BY DEF Story, Version, EarnedInv
<1>2. /\ UNCHANGED <<disk, apply, queue, dropped>>
      /\ scan[n].pc = "read" /\ apply[n].pc = "idle"
      /\ \A k \in Node \ {n} : scan'[k] = scan[k] /\ row'[k] = row[k]
  BY <1>1 DEF ScanRecord, RecordChange, RecordRemoval, NothingToRecord, EarnedInv,
     NodeInv, TypeOK, ScanIdle, ApplyIdle, applyVars, userVars
<1>3. ASSUME ~TellCarries(n, v)', NodeStory(up, h, G, v, n)'
      PROVE  Continues(up, h, v)
  <2>1. \A k \in Node : WillSend(n, k, v)' => WillSend(n, k, v)
    BY <1>2, <1>3 DEF WillSend, ApplyCarries, ApplyIdle
  <2>. QED
    BY <1>2, <1>3, <2>1, QuietStory
<1>4. ~ApplyCarries(n, v) /\ ~ApplyCarries(n, v)'
  BY <1>2 DEF ApplyCarries, ApplyIdle
<1>5. CASE RecordChange(n) /\ scan[n].bytes = v
  BY <1>5, AuthorAnnounces
<1>6. CASE RecordChange(n) /\ scan[n].bytes # v
  <2>1. /\ scan[n].bytes # Absent
        /\ scan'[n].pc = "tell" /\ scan'[n].event.hash = scan[n].bytes
    BY <1>1, <1>6 DEF RecordChange, TypeOK, Manifest
  <2>2. ~TellCarries(n, v)'
    BY <1>6, <2>1 DEF TellCarries, Carried
  <2>3. NodeStory(up, h, G, v, n)'
    BY <1>1, <1>2, <1>4, <2>1, <2>2 DEF NodeStory
  <2>. QED
    BY <1>3, <2>2, <2>3
<1>7. CASE RecordRemoval(n)
  <2>1. /\ scan'[n].pc = "tell" /\ scan'[n].event.kind = "FORGET" /\ disk[n] = Absent
    BY <1>1, <1>7 DEF RecordRemoval, TypeOK, Manifest
  <2>2. ~TellCarries(n, v)'
    BY <2>1 DEF TellCarries, Carried
  <2>3. NodeStory(up, h, G, v, n)'
    BY <1>1, <1>2, <1>4, <2>1, <2>2 DEF NodeStory
  <2>. QED
    BY <1>3, <2>2, <2>3
<1>8. CASE NothingToRecord(n)
  <2>1. scan'[n].pc = "idle" /\ row' = row
    BY <1>1, <1>8 DEF NothingToRecord, TypeOK, NoScan
  <2>2. ~TellCarries(n, v)'
    BY <2>1 DEF TellCarries
  <2>3. NodeStory(up, h, G, v, n)'
    BY <1>1, <1>2, <1>4, <2>1, <2>2 DEF NodeStory, Live
  <2>. QED
    BY <1>3, <2>2, <2>3
<1>. QED
  BY <1>5, <1>6, <1>7, <1>8 DEF ScanRecord

\* A step of an application, in which the event stays the same.
LEMMA StepTells ==
  ASSUME TypeOK, NEW v, NEW n \in Node, NEW pc \in {"row", "stat", "record"},
         apply[n].pc \in {"wait", "row", "stat", "record"}, Step(n, pc),
         UNCHANGED scan
  PROVE  /\ apply'[n].pc = pc
         /\ \A k \in Node \ {n} : apply'[k] = apply[k]
         /\ ApplyCarries(n, v)' <=> ApplyCarries(n, v)
         /\ TellCarries(n, v)' <=> TellCarries(n, v)
         /\ \A k \in Node : WillSend(n, k, v)' => WillSend(n, k, v)
<1>1. apply[n] \in [pc : {"wait", "row", "stat", "record"}, event : Event, from : Node]
  BY ApplyShape
<1> DEFINE new == [apply[n] EXCEPT !.pc = pc]
<1>2. new.pc = pc /\ new.event = apply[n].event /\ new.from = apply[n].from
  BY <1>1
<1>3. apply' = [apply EXCEPT ![n] = new]
  BY DEF Step
<1> HIDE DEF new
<1>4. /\ apply'[n].pc = pc /\ apply'[n].event = apply[n].event
      /\ apply'[n].from = apply[n].from
      /\ \A k \in Node \ {n} : apply'[k] = apply[k]
  BY <1>2, <1>3 DEF TypeOK
<1>5. ApplyCarries(n, v)' <=> ApplyCarries(n, v)
  BY <1>4 DEF ApplyCarries, ApplyIdle, Carried
<1>6. TellCarries(n, v)' <=> TellCarries(n, v)
  BY DEF TellCarries, Carried
<1>7. Untold(n)' = Untold(n)
  BY <1>4 DEF Untold, Others
<1>8. \A k \in Node : WillSend(n, k, v)' => WillSend(n, k, v)
  BY <1>5, <1>6, <1>7 DEF WillSend
<1>. QED
  BY <1>4, <1>5, <1>6, <1>8

LEMMA DecideTells ==
  ASSUME EarnedInv, NEW up, NEW h, NEW v \in Version, NEW n \in Node,
         NEW G \in SUBSET Node, Story(up, h, G, v), Decide(n)
  PROVE  Continues(up, h, v)
<1> DEFINE e == apply[n].event
<1>1. NodeStory(up, h, G, v, n) /\ v # Absent /\ TypeOK
  BY DEF Story, Version, EarnedInv
<1>2. /\ UNCHANGED <<scan, queue, dropped>> /\ apply[n].pc = "wait"
      /\ scan[n].pc = "idle"
  BY DEF Decide, EarnedInv, NodeInv, ScanIdle, ApplyIdle, scanVars, userVars
<1>3. ApplyCarries(n, v) <=> e.kind # "FORGET" /\ e.hash = v
  BY <1>2 DEF ApplyCarries, ApplyIdle, Carried
<1> HIDE DEF e
<1>4. CASE Reject(n)
  <2>1. /\ UNCHANGED <<disk, row>> /\ apply'[n].pc = "idle"
        /\ \A k \in Node \ {n} : apply'[k] = apply[k]
    BY <1>1, <1>4 DEF Reject, TypeOK, NoApply
  <2>2. ~ApplyCarries(n, v)' /\ (TellCarries(n, v)' <=> TellCarries(n, v))
    BY <1>2, <2>1 DEF ApplyCarries, ApplyIdle, TellCarries, Carried
  <2>3. \A k \in Node : WillSend(n, k, v)' => WillSend(n, k, v)
    BY <1>2, <2>2 DEF WillSend
  <2>4. NodeStory(up, h, G, v, n)'
    BY <1>1, <1>2, <2>1, <2>2 DEF NodeStory, Live
  <2>. QED
    BY <1>2, <2>1, <2>3, <2>4, QuietStory
<1>5. CASE Acknowledge(n) \/ ConflictCopy(n, e.hash)
  <2>1. Step(n, "record") /\ UNCHANGED <<disk, row>>
    BY <1>5 DEF Acknowledge, ConflictCopy
  <2>2. /\ apply'[n].pc = "record"
        /\ \A k \in Node \ {n} : apply'[k] = apply[k]
        /\ ApplyCarries(n, v)' <=> ApplyCarries(n, v)
        /\ TellCarries(n, v)' <=> TellCarries(n, v)
        /\ \A k \in Node : WillSend(n, k, v)' => WillSend(n, k, v)
    BY <1>1, <1>2, <2>1, StepTells
  <2>3. NodeStory(up, h, G, v, n)'
    BY <1>1, <1>2, <2>1, <2>2 DEF NodeStory, Live
  <2>. QED
    BY <1>2, <2>1, <2>2, <2>3, QuietStory
<1>6. CASE Adopt(n, e) /\ disk[n] = e.hash
  <2>1. /\ Step(n, "record") /\ UNCHANGED disk
        /\ row'[n].hash = e.hash /\ ~row'[n].deleted
        /\ \A k \in Node \ {n} : row'[k] = row[k]
    BY <1>1, <1>6 DEF Adopt, Upserted, TypeOK
  <2>2. /\ apply'[n].pc = "record"
        /\ \A k \in Node \ {n} : apply'[k] = apply[k]
        /\ ApplyCarries(n, v)' <=> ApplyCarries(n, v)
        /\ TellCarries(n, v)' <=> TellCarries(n, v)
        /\ \A k \in Node : WillSend(n, k, v)' => WillSend(n, k, v)
    BY <1>1, <1>2, <2>1, StepTells
  <2>3. NodeStory(up, h, G, v, n)'
    BY <1>1, <1>2, <1>6, <2>1, <2>2 DEF NodeStory, Live
  <2>. QED
    BY <1>2, <2>1, <2>2, <2>3, QuietStory
<1>7. ASSUME NEW x, PutFile(n, x), x = v => ApplyCarries(n, v)
      PROVE  Continues(up, h, v)
  <2>1. /\ Step(n, "row") /\ UNCHANGED row
        /\ disk'[n] = x /\ \A k \in Node \ {n} : disk'[k] = disk[k]
    BY <1>1, <1>7 DEF PutFile, TypeOK
  <2>2. /\ apply'[n].pc = "row"
        /\ \A k \in Node \ {n} : apply'[k] = apply[k]
        /\ ApplyCarries(n, v)' <=> ApplyCarries(n, v)
        /\ TellCarries(n, v)' <=> TellCarries(n, v)
        /\ \A k \in Node : WillSend(n, k, v)' => WillSend(n, k, v)
    BY <1>1, <1>2, <2>1, StepTells
  <2>3. NodeStory(up, h, G, v, n)'
    BY <1>1, <1>2, <1>7, <2>1, <2>2 DEF NodeStory
  <2>. QED
    BY <1>2, <2>1, <2>2, <2>3, QuietStory
<1>8. CASE PutFile(n, e.hash) /\ e.kind # "FORGET"
  BY <1>3, <1>7, <1>8
<1>9. CASE PutFile(n, Absent)
  BY <1>1, <1>7, <1>9
<1>. QED
  BY <1>1, <1>4, <1>5, <1>6, <1>8, <1>9, DecideDoes DEF e

LEMMA ApplyRestTells ==
  ASSUME EarnedInv, NEW up, NEW h, NEW v \in Version, NEW n \in Node,
         NEW G \in SUBSET Node, Story(up, h, G, v),
         ApplyRow(n) \/ ApplyStat(n) \/ ApplyRecord(n)
  PROVE  Continues(up, h, v)
<1>1. NodeStory(up, h, G, v, n) /\ v # Absent /\ TypeOK
  BY DEF Story, Version, EarnedInv
<1>2. /\ UNCHANGED <<disk, scan, queue, dropped>>
      /\ apply[n].pc \in {"row", "stat", "record"}
  BY DEF ApplyRow, ApplyStat, ApplyRecord, scanVars, userVars
<1>3. CASE ApplyRow(n)
  <2> DEFINE e == apply[n].event
  <2>1. /\ Step(n, "record") \/ Step(n, "stat")
        /\ apply[n].pc = "row"
        /\ \A k \in Node \ {n} : row'[k] = row[k]
        /\ e.kind # "FORGET" => row'[n].hash = e.hash /\ ~row'[n].deleted
    BY <1>1, <1>3 DEF ApplyRow, Upserted, TypeOK
  <2>2. ApplyCarries(n, v) <=> e.kind # "FORGET" /\ e.hash = v
    BY <2>1 DEF ApplyCarries, ApplyIdle, Carried
  <2> HIDE DEF e
  <2>3. /\ apply'[n].pc \in {"record", "stat"}
        /\ \A k \in Node \ {n} : apply'[k] = apply[k]
        /\ ApplyCarries(n, v)' <=> ApplyCarries(n, v)
        /\ TellCarries(n, v)' <=> TellCarries(n, v)
        /\ \A k \in Node : WillSend(n, k, v)' => WillSend(n, k, v)
    BY <1>1, <1>2, <2>1, StepTells
  <2>4. NodeStory(up, h, G, v, n)'
    BY <1>1, <1>2, <2>1, <2>2, <2>3 DEF NodeStory, Live
  <2>. QED
    BY <1>2, <2>1, <2>3, <2>4, QuietStory
<1>4. CASE ApplyStat(n)
  <2>1. Step(n, "record") /\ UNCHANGED row /\ apply[n].pc = "stat"
    BY <1>4 DEF ApplyStat
  <2>2. /\ apply'[n].pc = "record"
        /\ \A k \in Node \ {n} : apply'[k] = apply[k]
        /\ ApplyCarries(n, v)' <=> ApplyCarries(n, v)
        /\ TellCarries(n, v)' <=> TellCarries(n, v)
        /\ \A k \in Node : WillSend(n, k, v)' => WillSend(n, k, v)
    BY <1>1, <1>2, <2>1, StepTells
  <2>3. NodeStory(up, h, G, v, n)'
    BY <1>1, <1>2, <2>1, <2>2 DEF NodeStory, Live
  <2>. QED
    BY <1>2, <2>1, <2>2, <2>3, QuietStory
<1>5. CASE ApplyRecord(n)
  <2>1. /\ UNCHANGED row /\ apply[n].pc = "record"
        /\ \A k \in Node \ {n} : apply'[k] = apply[k]
        /\ \/ apply'[n].pc = "idle"
           \/ /\ apply'[n].pc = "forward" /\ apply'[n].event = apply[n].event
              /\ apply'[n].to = Others(n, apply[n].from)
    BY <1>1, <1>5 DEF ApplyRecord, TypeOK, NoApply
  <2>2. /\ ApplyCarries(n, v)' => ApplyCarries(n, v)
        /\ TellCarries(n, v)' <=> TellCarries(n, v)
    BY <1>2, <2>1 DEF ApplyCarries, TellCarries, ApplyIdle, Carried
  <2>3. ApplyCarries(n, v)' => Untold(n)' = Untold(n)
    BY <2>1 DEF ApplyCarries, ApplyIdle, Untold
  <2>4. \A k \in Node : WillSend(n, k, v)' => WillSend(n, k, v)
    BY <1>2, <2>2, <2>3 DEF WillSend
  <2>5. NodeStory(up, h, G, v, n)'
    BY <1>1, <1>2, <2>1, <2>2 DEF NodeStory, Live
  <2>. QED
    BY <1>2, <2>1, <2>4, <2>5, QuietStory
<1>. QED
  BY <1>3, <1>4, <1>5

-----------------------------------------------------------------------------
(* The version on its way.                                                 *)

LEMMA SendOnWay ==
  ASSUME TypeOK, NEW v \in Version, NEW n \in Node, NEW m \in Node, NEW e \in Event, Send(n, m, e)
  PROVE  /\ \A q, k \in Node : <<q, k>> # <<n, m>> =>
              queue'[<<q, k>>] = queue[<<q, k>>]
         /\ ~Carried(e, v) => OnWay(n, m, v)' = OnWay(n, m, v)
         /\ OnWay(n, m, v) = {} => OnceOnWay(n, m, v)'
<1> DEFINE s == queue[<<n, m>>]
<1>1. s \in Seq(Event) /\ queue' = [queue EXCEPT ![<<n, m>>] = Append(s, e)]
  BY DEF TypeOK, Send
<1>2. /\ \A q, k \in Node : <<q, k>> # <<n, m>> => queue'[<<q, k>>] = queue[<<q, k>>]
      /\ queue'[<<n, m>>] = Append(s, e)
  BY <1>1 DEF TypeOK
<1>3. OnWay(n, m, v) = {i \in DOMAIN s : Carried(s[i], v)}
  BY DEF OnWay
<1>4. OnWay(n, m, v)' = {i \in DOMAIN Append(s, e) : Carried(Append(s, e)[i], v)}
  BY <1>2 DEF OnWay, Carried
<1> HIDE DEF s
<1>5. /\ DOMAIN s = 1..Len(s) /\ Len(s) \in Nat
      /\ DOMAIN Append(s, e) = 1..(Len(s) + 1)
      /\ \A i \in 1..Len(s) : Append(s, e)[i] = s[i]
      /\ Append(s, e)[Len(s) + 1] = e
  BY <1>1
<1>6. \A i \in OnWay(n, m, v)' : i \in OnWay(n, m, v) \/ (i = Len(s) + 1 /\ Carried(e, v))
  BY <1>3, <1>4, <1>5
<1>7. OnWay(n, m, v) \subseteq OnWay(n, m, v)'
  BY <1>3, <1>4, <1>5
<1>. QED
  BY <1>2, <1>6, <1>7 DEF OnceOnWay

\* What the head of the queue from m to n leaves behind.
Taken(m, n, v) ==
  /\ \A q, k \in Node : <<q, k>> # <<m, n>> => queue'[<<q, k>>] = queue[<<q, k>>]
  /\ OnWay(m, n, v) = {} => OnWay(m, n, v)' = {}
  /\ OnceOnWay(m, n, v)'
  /\ Carried(Head(queue[<<m, n>>]), v) => OnWay(m, n, v) # {} /\ OnWay(m, n, v)' = {}

LEMMA TakeOnWay ==
  ASSUME TypeOK, NEW v \in Version, NEW n \in Node, NEW m \in Node, queue[<<m, n>>] # <<>>,
         queue' = [queue EXCEPT ![<<m, n>>] = Tail(queue[<<m, n>>])],
         OnceOnWay(m, n, v)
  PROVE  Taken(m, n, v)
<1> DEFINE s == queue[<<m, n>>]
<1>1. s \in Seq(Event) /\ s # <<>>
  BY DEF TypeOK
<1>2. /\ \A q, k \in Node : <<q, k>> # <<m, n>> => queue'[<<q, k>>] = queue[<<q, k>>]
      /\ queue'[<<m, n>>] = Tail(s)
  BY DEF TypeOK
<1>3. OnWay(m, n, v) = {i \in DOMAIN s : Carried(s[i], v)}
  BY DEF OnWay
<1>4. OnWay(m, n, v)' = {i \in DOMAIN Tail(s) : Carried(Tail(s)[i], v)}
  BY <1>2 DEF OnWay, Carried
<1>5. Head(queue[<<m, n>>]) = Head(s)
  OBVIOUS
<1> HIDE DEF s
<1>6. /\ DOMAIN s = 1..Len(s) /\ Len(s) \in Nat /\ Len(s) # 0
      /\ Head(s) = s[1] /\ 1 \in DOMAIN s
      /\ Tail(s) \in Seq(Event) /\ Len(Tail(s)) = Len(s) - 1
      /\ \A i \in 1..Len(Tail(s)) : Tail(s)[i] = s[i + 1]
  BY <1>1, LenProperties, EmptySeq, HeadTailProperties, TailIsWithin
<1>7. DOMAIN Tail(s) = 1..Len(Tail(s))
  BY <1>6, LenProperties
<1>8. \A i \in OnWay(m, n, v)' : i \in Nat \ {0} /\ i + 1 \in OnWay(m, n, v)
  BY <1>3, <1>4, <1>6, <1>7
<1>9. Carried(Head(s), v) => 1 \in OnWay(m, n, v)
  BY <1>3, <1>6
<1>10. OnWay(m, n, v) = {} => OnWay(m, n, v)' = {}
  BY <1>8
<1>11. \A i, j \in OnWay(m, n, v)' : i = j
  <2> TAKE i, j \in OnWay(m, n, v)'
  <2>1. i \in Nat /\ j \in Nat /\ i + 1 = j + 1
    BY <1>8 DEF OnceOnWay
  <2>. QED
    BY <2>1
<1>12. Carried(Head(s), v) => OnWay(m, n, v)' = {}
  <2> SUFFICES ASSUME Carried(Head(s), v), NEW i \in OnWay(m, n, v)' PROVE FALSE
    OBVIOUS
  <2>1. i \in Nat \ {0} /\ i + 1 = 1
    BY <1>8, <1>9 DEF OnceOnWay
  <2>. QED
    BY <2>1
<1>. QED
  BY <1>2, <1>5, <1>9, <1>10, <1>11, <1>12 DEF OnceOnWay, Taken

\* The event goes to a peer, who is then no longer to be served.
LEMMA SendTells ==
  ASSUME TypeOK, NEW up, NEW h, NEW v \in Version, NEW n \in Node, NEW m \in Node,
         NEW G \in SUBSET Node, NEW e \in Event, Story(up, h, G, v), Send(n, m, e),
         UNCHANGED <<disk, row, dropped>>,
         \A k \in Node \ {n} : scan'[k] = scan[k] /\ apply'[k] = apply[k],
         \A k \in Node : WillSend(n, k, v)' => WillSend(n, k, v),
         Carried(e, v) => WillSend(n, m, v) /\ ~WillSend(n, m, v)',
         NodeStory(up, h, G, v, n)'
  PROVE  Continues(up, h, v)
<1>1. /\ \A q, k \in Node : <<q, k>> # <<n, m>> => queue'[<<q, k>>] = queue[<<q, k>>]
      /\ ~Carried(e, v) => OnWay(n, m, v)' = OnWay(n, m, v)
      /\ OnWay(n, m, v) = {} => OnceOnWay(n, m, v)'
  BY SendOnWay
<1>2. \A q, k \in Node : <<q, k>> # <<n, m>> => OnWay(q, k, v)' = OnWay(q, k, v)
  BY <1>1 DEF OnWay, Carried
<1>3. \A q, k \in Node : EdgeStory(up, h, G, v, q, k)
  BY DEF Story
<1>4. EdgeStory(up, h, G, v, n, m)'
  <2>1. CASE Carried(e, v)
    <3>1. OnWay(n, m, v) = {} /\ WillSend(n, m, v) /\ ~WillSend(n, m, v)'
      BY <1>3, <2>1 DEF EdgeStory, OnceOnWay
    <3>. QED
      BY <1>1, <1>3, <3>1 DEF EdgeStory, OnceOnWay
  <2>2. CASE ~Carried(e, v)
    <3>1. OnWay(n, m, v)' = OnWay(n, m, v)
      BY <1>1, <2>2
    <3>. QED
      BY <1>3, <3>1 DEF EdgeStory, OnceOnWay
  <2>. QED
    BY <2>1, <2>2
<1>5. ASSUME NEW k \in Node \ {m} PROVE EdgeStory(up, h, G, v, n, k)'
  <2>1. OnWay(n, k, v)' = OnWay(n, k, v)
    BY <1>2
  <2>. QED
    BY <1>3, <2>1 DEF EdgeStory, OnceOnWay
<1>6. ASSUME NEW k \in Node \ {n} PROVE EdgeStory(up, h, G, v, k, n)'
  <2>1. scan'[k] = scan[k] /\ apply'[k] = apply[k] /\ OnWay(k, n, v)' = OnWay(k, n, v)
    BY <1>2
  <2>2. WillSend(k, n, v)' <=> WillSend(k, n, v)
    BY <2>1 DEF WillSend, ApplyCarries, TellCarries, ApplyIdle, Carried, Untold, Others
  <2>. QED
    BY <1>3, <2>1, <2>2 DEF EdgeStory, OnceOnWay
<1>7. ASSUME NEW q \in Node \ {n}, NEW k \in Node \ {n}
      PROVE  queue'[<<q, k>>] = queue[<<q, k>>]
  <2>1. <<q, k>> # <<n, m>>
    OBVIOUS
  <2>. QED
    BY <1>1, <2>1
<1>8. Story(up, h, G, v)'
  <2>1. h \notin Node => G = {}
    BY DEF Story
  <2>. QED
    BY <2>1, <1>4, <1>5, <1>6, <1>7, StoryFrame
<1>. QED
  BY <1>8 DEF Continues

LEMMA ScanTellTells ==
  ASSUME EarnedInv, NEW up, NEW h, NEW v \in Version, NEW n \in Node, NEW m \in Node,
         NEW G \in SUBSET Node, Story(up, h, G, v), ScanTell(n, m)
  PROVE  Continues(up, h, v)
<1> DEFINE e == [scan[n].event EXCEPT !.first = m]
           next == IF scan[n].to = {m} THEN NoScan ELSE Served(scan[n], m)
<1>1. NodeStory(up, h, G, v, n) /\ TypeOK
  BY DEF Story, EarnedInv
<1>2. /\ scan[n] \in [pc : {"tell"}, event : Event, to : SUBSET Node]
      /\ m \in scan[n].to
  BY <1>1, ScanShape DEF ScanTell
<1>3. e \in Event /\ (Carried(e, v) <=> Carried(scan[n].event, v))
  BY <1>2 DEF Event, Carried
<1>4. \/ next.pc = "idle"
      \/ next.pc = "tell" /\ next.event = scan[n].event /\ next.to = scan[n].to \ {m}
  BY <1>2 DEF NoScan, Served
<1>5. /\ UNCHANGED <<disk, row, apply, dropped>> /\ Send(n, m, e)
      /\ scan' = [scan EXCEPT ![n] = next]
  BY DEF ScanTell, applyVars, userVars
<1> HIDE DEF next, e
<1>6. /\ \A k \in Node \ {n} : scan'[k] = scan[k]
      /\ \/ scan'[n].pc = "idle"
         \/ /\ scan'[n].pc = "tell" /\ scan'[n].event = scan[n].event
            /\ scan'[n].to = scan[n].to \ {m}
  BY <1>1, <1>4, <1>5 DEF TypeOK
<1>7. /\ TellCarries(n, v)' => TellCarries(n, v)
      /\ TellCarries(n, v) <=> Carried(e, v)
      /\ ApplyCarries(n, v)' <=> ApplyCarries(n, v)
  BY <1>2, <1>3, <1>5, <1>6 DEF TellCarries, ApplyCarries, ApplyIdle, Carried
<1>8. /\ TellCarries(n, v) => ~ApplyCarries(n, v)
      /\ TellCarries(n, v)' => scan'[n].to = scan[n].to \ {m}
  BY <1>1, <1>6 DEF NodeStory, TellCarries
<1>9. /\ \A k \in Node : WillSend(n, k, v)' => WillSend(n, k, v)
      /\ Carried(e, v) => WillSend(n, m, v) /\ ~WillSend(n, m, v)'
  BY <1>2, <1>5, <1>7, <1>8 DEF WillSend, Untold, Others
<1>10. NodeStory(up, h, G, v, n)'
  BY <1>1, <1>5, <1>6, <1>7 DEF NodeStory, Live
<1>. QED
  BY <1>1, <1>3, <1>5, <1>6, <1>9, <1>10, SendTells

LEMMA ForwardTells ==
  ASSUME EarnedInv, NEW up, NEW h, NEW v \in Version, NEW n \in Node, NEW m \in Node,
         NEW G \in SUBSET Node, Story(up, h, G, v), Forward(n, m)
  PROVE  Continues(up, h, v)
<1> DEFINE e == apply[n].event
           next == IF apply[n].to = {m} THEN NoApply ELSE Served(apply[n], m)
<1>1. NodeStory(up, h, G, v, n) /\ TypeOK
  BY DEF Story, EarnedInv
<1>2. /\ apply[n] \in [pc : {"forward"}, event : Event, to : SUBSET Node]
      /\ m \in apply[n].to /\ e \in Event
  BY <1>1, ApplyShape DEF Forward
<1>3. \/ next.pc = "idle"
      \/ next.pc = "forward" /\ next.event = e /\ next.to = apply[n].to \ {m}
  BY <1>2 DEF NoApply, Served
<1>4. /\ UNCHANGED <<disk, row, scan, dropped>> /\ Send(n, m, e)
      /\ apply' = [apply EXCEPT ![n] = next]
  BY DEF Forward, scanVars, userVars
<1>5. ApplyCarries(n, v) <=> Carried(e, v)
  BY <1>2 DEF ApplyCarries, ApplyIdle
<1>6. e = apply[n].event
  OBVIOUS
<1> HIDE DEF next, e
<1>7. /\ \A k \in Node \ {n} : apply'[k] = apply[k]
      /\ \/ apply'[n].pc = "idle"
         \/ /\ apply'[n].pc = "forward" /\ apply'[n].event = e
            /\ apply'[n].to = apply[n].to \ {m}
  BY <1>1, <1>3, <1>4 DEF TypeOK
<1>8. /\ ApplyCarries(n, v)' => ApplyCarries(n, v)
      /\ TellCarries(n, v)' <=> TellCarries(n, v)
  BY <1>4, <1>5, <1>7 DEF TellCarries, ApplyCarries, ApplyIdle, Carried
<1>9. /\ ApplyCarries(n, v) => ~TellCarries(n, v)
      /\ ApplyCarries(n, v)' => Untold(n)' = Untold(n) \ {m}
      /\ Untold(n) = apply[n].to
  BY <1>1, <1>2, <1>7 DEF NodeStory, ApplyCarries, ApplyIdle, Untold
<1>10. /\ \A k \in Node : WillSend(n, k, v)' => WillSend(n, k, v)
       /\ Carried(e, v) => WillSend(n, m, v) /\ ~WillSend(n, m, v)'
  BY <1>2, <1>4, <1>5, <1>8, <1>9 DEF WillSend
<1>11. NodeStory(up, h, G, v, n)'
  BY <1>1, <1>2, <1>4, <1>7, <1>8 DEF NodeStory, Live
<1>. QED
  BY <1>1, <1>2, <1>4, <1>7, <1>10, <1>11, SendTells

\* The version reaches a node it had not reached.
LEMMA ReceiveReaches ==
  ASSUME TypeOK, NEW up, Spread(up), NEW h \in Node \union {NoNode},
         NEW v \in Version, NEW n \in Node, NEW m \in Node, NEW G \in SUBSET Node,
         Story(up, h, G, v), queue[<<m, n>>] # <<>>,
         queue' = [queue EXCEPT ![<<m, n>>] = Tail(queue[<<m, n>>])],
         UNCHANGED <<disk, row, scan, dropped>>,
         Carried(Head(queue[<<m, n>>]), v),
         apply[n].pc = "idle", scan[n].pc = "idle",
         apply'[n].pc = "wait", apply'[n].from = m,
         \A k \in Node \ {n} : apply'[k] = apply[k]
  PROVE  Continues(up, h, v)
<1>1. NodeStory(up, h, G, v, n) /\ v # Absent
  BY VaultAssumption DEF Story, Version
<1>2. OnceOnWay(m, n, v)
  BY DEF Story, EdgeStory, OnceOnWay
<1>3. \A q, k \in Node : EdgeStory(up, h, G, v, q, k)
  BY DEF Story
<1>4. Taken(m, n, v)
  BY <1>2, TakeOnWay
<1>5. /\ \A q, k \in Node : <<q, k>> # <<m, n>> => queue'[<<q, k>>] = queue[<<q, k>>]
      /\ OnWay(m, n, v) # {} /\ OnWay(m, n, v)' = {}
  BY <1>4 DEF Taken
<1> DEFINE G2 == G \union {n}
<1>6. \A q, k \in Node : <<q, k>> # <<m, n>> => OnWay(q, k, v)' = OnWay(q, k, v)
  BY <1>5 DEF OnWay, Carried
<1>7. /\ m \in G /\ n \notin G /\ up[h][n] = m /\ ~WillSend(m, n, v)
  BY <1>3, <1>5 DEF EdgeStory, OnceOnWay
<1>8. m # n /\ (h \in Node => n # h)
  BY <1>7, VaultAssumption DEF Spread, Story
<1>9. n # h
  BY <1>8
<1>10. ~TellCarries(n, v)' /\ ~TellCarries(n, v)
  BY DEF TellCarries
<1>11. NodeStory(up, h, G2, v, n)'
  BY <1>1, <1>7, <1>9, <1>10 DEF NodeStory
<1>12. ASSUME NEW k \in Node \ {n} PROVE EdgeStory(up, h, G2, v, k, n)'
  <2>1. scan'[k] = scan[k] /\ apply'[k] = apply[k]
    OBVIOUS
  <2>2. WillSend(k, n, v)' <=> WillSend(k, n, v)
    BY <2>1 DEF WillSend, ApplyCarries, TellCarries, ApplyIdle, Carried, Untold, Others
  <2>3. ~WillSend(k, n, v) /\ OnWay(k, n, v)' = {}
    <3>1. CASE k = m
      BY <1>5, <1>7, <3>1
    <3>2. CASE k # m
      BY <1>3, <1>6, <1>7, <3>2 DEF EdgeStory, OnceOnWay
    <3>. QED
      BY <3>1, <3>2
  <2>. QED
    BY <2>2, <2>3 DEF EdgeStory, OnceOnWay
<1>13. ASSUME NEW k \in Node PROVE EdgeStory(up, h, G2, v, n, k)'
  <2>1. OnWay(n, k, v)' = {}
    BY <1>3, <1>6, <1>7, <1>8 DEF EdgeStory, OnceOnWay
  <2>2. ASSUME WillSend(n, k, v)'
        PROVE  k \notin G2 /\ up[h][k] = n
    <3>1. k \in PeersOf[n] \ {m}
      BY <1>10, <2>2 DEF WillSend, Untold, Others
    <3>2. h \in Node
      BY <1>7 DEF Story
    <3>3. up[h][k] = n /\ k # n
      BY <1>7, <3>1, <3>2, VaultAssumption DEF Spread
    <3>4. k # h
      BY <3>2, <3>3, VaultAssumption DEF Spread
    <3>5. k \notin G
      BY <1>7, <3>3, <3>4 DEF Story, NodeStory
    <3>. QED
      BY <3>3, <3>5
  <2>. QED
    BY <2>1, <2>2 DEF EdgeStory, OnceOnWay
<1>14. h \in Node
  BY <1>7 DEF Story
<1>15. ASSUME NEW q \in Node \ {n}, NEW k \in Node \ {n}
       PROVE  queue'[<<q, k>>] = queue[<<q, k>>]
  <2>1. <<q, k>> # <<m, n>>
    OBVIOUS
  <2>. QED
    BY <1>5, <2>1
<1>16. Story(up, h, G2, v)'
  BY <1>8, <1>11, <1>12, <1>13, <1>14, <1>15, StoryFrame
<1>. QED
  BY <1>16 DEF Continues


\* An event is taken that the version has no part in, or is lost.
LEMMA TakeTells ==
  ASSUME TypeOK, NEW up, NEW h, NEW v \in Version, NEW n \in Node, NEW m \in Node,
         NEW G \in SUBSET Node, Story(up, h, G, v), queue[<<m, n>>] # <<>>,
         queue' = [queue EXCEPT ![<<m, n>>] = Tail(queue[<<m, n>>])],
         UNCHANGED <<disk, row, scan, dropped>>,
         \A k \in Node \ {n} : apply'[k] = apply[k],
         ApplyCarries(n, v)' => ApplyCarries(n, v),
         apply'[n] = apply[n] \/ (apply'[n].pc = "wait" /\ apply[n].pc = "idle")
  PROVE  Continues(up, h, v)
<1>1. \A q, k \in Node : EdgeStory(up, h, G, v, q, k)
  BY DEF Story
<1>2. OnceOnWay(m, n, v)
  BY <1>1 DEF EdgeStory, OnceOnWay
<1>3. Taken(m, n, v)
  BY <1>2, TakeOnWay
<1>4. \A q, k \in Node : <<q, k>> # <<m, n>> => OnWay(q, k, v)' = OnWay(q, k, v)
  BY <1>3 DEF OnWay, Carried, Taken
<1>5. TellCarries(n, v)' <=> TellCarries(n, v)
  BY DEF TellCarries, Carried
<1>6. ApplyCarries(n, v)' => apply'[n] = apply[n]
  BY DEF ApplyCarries, ApplyIdle
<1>7. ASSUME NEW k \in Node, WillSend(n, k, v)' PROVE WillSend(n, k, v)
  <2>1. CASE TellCarries(n, v)' /\ k \in scan'[n].to
    BY <1>5, <2>1 DEF WillSend
  <2>2. CASE ApplyCarries(n, v)' /\ k \in Untold(n)'
    BY <1>6, <2>2 DEF WillSend, Untold, Others
  <2>. QED
    BY <1>7, <2>1, <2>2 DEF WillSend
<1>8. NodeStory(up, h, G, v, n)
  BY DEF Story
<1>9. NodeStory(up, h, G, v, n)'
  BY <1>5, <1>6, <1>8 DEF NodeStory, ApplyCarries, ApplyIdle, Live
<1>10. ASSUME NEW q \in Node, NEW k \in Node,
              WillSend(q, k, v)' => WillSend(q, k, v)
       PROVE  EdgeStory(up, h, G, v, q, k)'
  <2>1. CASE <<q, k>> = <<m, n>>
    <3>1. q = m /\ k = n
      BY <2>1
    <3>. QED
      BY <1>1, <1>3, <1>10, <3>1 DEF EdgeStory, Taken
  <2>2. CASE <<q, k>> # <<m, n>>
    <3>1. OnWay(q, k, v)' = OnWay(q, k, v)
      BY <1>4, <2>2
    <3>. QED
      BY <1>1, <1>10, <3>1 DEF EdgeStory, OnceOnWay
  <2>. QED
    BY <2>1, <2>2
<1>11. ASSUME NEW q \in Node \ {n}, NEW k \in Node
       PROVE  WillSend(q, k, v)' => WillSend(q, k, v)
  <2>1. scan'[q] = scan[q] /\ apply'[q] = apply[q]
    OBVIOUS
  <2>. QED
    BY <2>1 DEF WillSend, ApplyCarries, TellCarries, ApplyIdle, Carried, Untold, Others
<1>12. \A k \in Node : EdgeStory(up, h, G, v, n, k)'
  BY <1>7, <1>10
<1>13. \A k \in Node \ {n} : EdgeStory(up, h, G, v, k, n)'
  BY <1>10, <1>11
<1>14. ASSUME NEW q \in Node \ {n}, NEW k \in Node \ {n}
       PROVE  queue'[<<q, k>>] = queue[<<q, k>>]
  <2>1. <<q, k>> # <<m, n>>
    OBVIOUS
  <2>. QED
    BY <1>3, <2>1 DEF Taken
<1>15. h \notin Node => G = {}
  BY DEF Story
<1>16. Story(up, h, G, v)'
  BY <1>9, <1>12, <1>13, <1>14, <1>15, StoryFrame
<1>. QED
  BY <1>16 DEF Continues

LEMMA ReceiveTells ==
  ASSUME EarnedInv, ~Concurrent, NEW up, Spread(up), NEW h \in Node \union {NoNode},
         NEW v \in Version, NEW n \in Node, NEW m \in Node, NEW G \in SUBSET Node,
         Story(up, h, G, v), Receive(n, m)
  PROVE  Continues(up, h, v)
<1> DEFINE e == Head(queue[<<m, n>>])
<1>1. TypeOK
  BY DEF EarnedInv
<1>2. /\ UNCHANGED <<disk, row, scan, dropped>> /\ apply[n].pc = "idle"
      /\ queue[<<m, n>>] # <<>>
      /\ queue' = [queue EXCEPT ![<<m, n>>] = Tail(queue[<<m, n>>])]
  BY DEF Receive, ApplyIdle, scanVars, userVars
<1>5. scan[n].pc = "idle"
  BY DEF Receive, ScanIdle
<1>3. CASE e \in applied[n]
  <2>1. apply' = apply
    BY <1>3 DEF Receive
  <2>2. ApplyCarries(n, v)' => ApplyCarries(n, v)
    BY <2>1 DEF ApplyCarries, ApplyIdle, Carried
  <2>. QED
    BY <1>1, <1>2, <2>1, <2>2, TakeTells
<1>4. CASE e \notin applied[n]
  <2>1. apply' = [apply EXCEPT ![n] = [pc |-> "wait", event |-> e, from |-> m]]
    BY <1>4 DEF Receive
  <2>2. /\ apply'[n].pc = "wait" /\ apply'[n].event = e /\ apply'[n].from = m
        /\ \A k \in Node \ {n} : apply'[k] = apply[k]
    BY <1>1, <2>1 DEF TypeOK
  <2>3. CASE Carried(e, v)
    BY <1>1, <1>2, <1>5, <2>2, <2>3, ReceiveReaches
  <2>4. CASE ~Carried(e, v)
    <3>1. ~ApplyCarries(n, v)'
      BY <2>2, <2>4 DEF ApplyCarries, Carried
    <3>. QED
      BY <1>1, <1>2, <2>2, <3>1, TakeTells
  <2>. QED
    BY <2>3, <2>4
<1>. QED
  BY <1>3, <1>4

LEMMA LoseTells ==
  ASSUME EarnedInv, NEW up, NEW h, NEW v \in Version, NEW n \in Node, NEW m \in Node,
         NEW G \in SUBSET Node, Story(up, h, G, v), Lose(m, n)
  PROVE  Continues(up, h, v)
<1>1. /\ TypeOK /\ UNCHANGED <<disk, row, scan, dropped, apply>>
      /\ queue[<<m, n>>] # <<>>
      /\ queue' = [queue EXCEPT ![<<m, n>>] = Tail(queue[<<m, n>>])]
  BY DEF EarnedInv, Lose, scanVars, applyVars, userVars
<1>2. ApplyCarries(n, v)' => ApplyCarries(n, v)
  BY <1>1 DEF ApplyCarries, ApplyIdle, Carried
<1>. QED
  BY <1>1, <1>2, TakeTells

-----------------------------------------------------------------------------

\* A failure that parts no file from its row ends a story, or leaves it.
LEMMA CutTells ==
  ASSUME TypeOK, NEW up, NEW h, NEW v, NEW n \in Node, NEW G \in SUBSET Node,
         Story(up, h, G, v), Cut(n), torn' = {}
  PROVE  Continues(up, h, v)
<1>1. NodeStory(up, h, G, v, n)
  BY DEF Story
<1>2. /\ UNCHANGED <<disk, row, queue, dropped>>
      /\ scan'[n] = scan[n] \/ scan'[n].pc = "idle"
      /\ \/ apply'[n] = apply[n]
         \/ apply'[n].pc = "idle" /\ ~(apply[n].pc = "row" /\ ApplyCarries(n, v))
      /\ \A m \in Node \ {n} : scan'[m] = scan[m] /\ apply'[m] = apply[m]
  BY CutDoes DEF userVars, Parted, ApplyCarries, Carried
<1>3. /\ ApplyCarries(n, v)' => ApplyCarries(n, v) /\ apply'[n] = apply[n]
      /\ TellCarries(n, v)' => TellCarries(n, v) /\ scan'[n] = scan[n]
      /\ apply'[n] = apply[n] => (ApplyCarries(n, v) => ApplyCarries(n, v)')
  BY <1>2 DEF ApplyCarries, TellCarries, ApplyIdle, Carried
<1>4. \A k \in Node : WillSend(n, k, v)' => WillSend(n, k, v)
  BY <1>3 DEF WillSend, Untold, Others
<1>5. NodeStory(up, h, G, v, n)'
  BY <1>1, <1>2, <1>3 DEF NodeStory, Live
<1>. QED
  BY <1>2, <1>4, <1>5, QuietStory

\* Until a file and its row are parted, every step continues every story; the
\* version a person writes gets its author.
LEMMA StoryStep ==
  ASSUME EarnedInv, ~Concurrent, NEW up, Spread(up), NEW h \in Node \union {NoNode},
         NEW v \in Version, NEW G \in SUBSET Node, Story(up, h, G, v),
         v > edits => h = NoNode, NEW n \in Node,
         \/ Edit(n) \/ Remove(n)
         \/ ScanStep(n)
         \/ \E m \in Node : Receive(n, m) \/ Lose(m, n)
         \/ ApplyStep(n)
         \/ Cut(n) /\ torn' = {}
  PROVE  \E h2 \in Node \union {NoNode}, G2 \in SUBSET Node :
           Story(up, h2, G2, v)' /\ (v > edits' => h2 = NoNode)
<1>1. TypeOK /\ edits \in Nat /\ v \in Nat
  BY DEF EarnedInv, TypeOK, Version
<1>2. edits' = edits \/ (Edit(n) /\ edits' = edits + 1)
  BY <1>1, CutDoes DEF Edit, Remove, ScanStep, ScanRead, ScanRecord, ScanTell, Receive,
     Lose, ApplyStep, Decide, ApplyRow, ApplyStat, ApplyRecord, Forward, boundVars
<1>3. CASE Edit(n) /\ v = edits + 1
  <2>1. h = NoNode /\ G = {}
    BY <1>1, <1>3, VaultAssumption DEF Story
  <2>2. Story(up, n, {}, v)'
    BY <1>1, <1>3, <2>1, AuthorTells
  <2>3. ~(v > edits')
    BY <1>1, <1>3 DEF Edit
  <2>. QED
    BY <2>2, <2>3
<1>4. ASSUME Continues(up, h, v)
      PROVE  \E h2 \in Node \union {NoNode}, G2 \in SUBSET Node :
               Story(up, h2, G2, v)' /\ (v > edits' => h2 = NoNode)
  <2>1. v > edits' => h = NoNode
    BY <1>1, <1>2
  <2>. QED
    BY <1>4, <2>1 DEF Continues
<1>5. CASE (Edit(n) /\ v # edits + 1) \/ Remove(n)
  BY <1>1, <1>4, <1>5, PeopleTell
<1>6. CASE ScanStep(n)
  BY <1>4, <1>6, ScanReadTells, ScanRecordTells, ScanTellTells DEF ScanStep
<1>7. CASE \E m \in Node : Receive(n, m)
  BY <1>4, <1>7, ReceiveTells
<1>8. CASE \E m \in Node : Lose(m, n)
  BY <1>4, <1>8, LoseTells
<1>9. CASE ApplyStep(n)
  BY <1>4, <1>9, DecideTells, ApplyRestTells, ForwardTells DEF ApplyStep
<1>10. CASE Cut(n) /\ torn' = {}
  BY <1>1, <1>4, <1>10, CutTells
<1>. QED
  BY <1>3, <1>5, <1>6, <1>7, <1>8, <1>9, <1>10

LEMMA StoryStays ==
  ASSUME NEW up, NEW h, NEW v, NEW G, Story(up, h, G, v), UNCHANGED vars
  PROVE  Story(up, h, G, v)'
<1>1. UNCHANGED <<disk, row, scan, apply, queue, dropped>>
  BY DEF vars, scanVars, applyVars, userVars
<1>2. /\ \A n \in Node : ApplyCarries(n, v)' <=> ApplyCarries(n, v)
      /\ \A n \in Node : TellCarries(n, v)' <=> TellCarries(n, v)
      /\ \A q, n \in Node : WillSend(q, n, v)' <=> WillSend(q, n, v)
      /\ \A q, n \in Node : OnWay(q, n, v)' = OnWay(q, n, v)
  BY <1>1 DEF WillSend, ApplyCarries, TellCarries, ApplyIdle, Carried, Untold, Others,
     OnWay
<1>3. \A n \in Node : NodeStory(up, h, G, v, n)'
  BY <1>1, <1>2 DEF Story, NodeStory, Live
<1>4. \A q, n \in Node : EdgeStory(up, h, G, v, q, n)'
  BY <1>2 DEF Story, EdgeStory, OnceOnWay
<1>. QED
  BY <1>3, <1>4 DEF Story

LEMMA NothingIsTorn ==
  ASSUME NEW n \in Node,
         \/ Edit(n) \/ Remove(n)
         \/ ScanStep(n)
         \/ \E m \in Node : Receive(n, m) \/ Lose(m, n)
         \/ ApplyStep(n)
  PROVE  torn' = torn
<1>1. CASE Edit(n) \/ Remove(n)
  BY <1>1 DEF Edit, Remove
<1>2. CASE ScanStep(n)
  BY <1>2 DEF ScanStep, ScanRead, ScanRecord, ScanTell
<1>3. CASE \E m \in Node : Receive(n, m) \/ Lose(m, n)
  BY <1>3 DEF Receive, Lose
<1>4. CASE ApplyStep(n)
  BY <1>4 DEF ApplyStep, Decide, ApplyRow, ApplyStat, ApplyRecord, Forward
<1>. QED
  BY <1>1, <1>2, <1>3, <1>4

LEMMA ReturnStep ==
  ASSUME EarnedInv, ~Concurrent, NEW up, Spread(up), ReturnInv(up), [Next]_vars
  PROVE  ReturnInv(up)'
<1> SUFFICES ASSUME torn' = {}, NEW v \in Version
             PROVE  \E h2 \in Node \union {NoNode}, G2 \in SUBSET Node :
                      Story(up, h2, G2, v)' /\ (v > edits' => h2 = NoNode)
  BY DEF ReturnInv
<1>1. TypeOK
  BY DEF EarnedInv
<1>2. \A n \in Node : ~UnlinkFails(n)
  BY DEF UnlinkFails
<1>3. CASE UNCHANGED vars
  <2>1. torn = {} /\ edits' = edits
    BY <1>3 DEF vars, boundVars
  <2>2. PICK h \in Node \union {NoNode}, G \in SUBSET Node :
          Story(up, h, G, v) /\ (v > edits => h = NoNode)
    BY <2>1 DEF ReturnInv
  <2>3. Story(up, h, G, v)'
    BY <1>3, <2>2, StoryStays
  <2>. QED
    BY <2>1, <2>2, <2>3
<1>4. CASE Next
  <2>1. PICK n \in Node :
          \/ Edit(n) \/ Remove(n)
          \/ ScanStep(n)
          \/ \E m \in Node : Receive(n, m) \/ Lose(m, n)
          \/ ApplyStep(n)
          \/ Cut(n) /\ torn' = {}
    BY <1>2, <1>4 DEF Next, Cut
  <2>2. torn = {}
    BY <1>1, <2>1, NothingIsTorn, CutDoes
  <2>3. PICK h \in Node \union {NoNode}, G \in SUBSET Node :
          Story(up, h, G, v) /\ (v > edits => h = NoNode)
    BY <2>2 DEF ReturnInv
  <2>. QED
    BY <2>1, <2>3, StoryStep
<1>. QED
  BY <1>3, <1>4

LEMMA InitReturn ==
  ASSUME NEW up, Init PROVE ReturnInv(up)
<1> SUFFICES ASSUME NEW v \in Version PROVE Story(up, NoNode, {}, v)
  BY DEF ReturnInv
<1>1. v # Absent /\ NoNode \notin Node
  BY VaultAssumption DEF Version
<1>2. \A n \in Node : ~ApplyCarries(n, v) /\ ~TellCarries(n, v)
  BY DEF Init, ApplyCarries, TellCarries, ApplyIdle, NoApply, NoScan
<1>3. \A n \in Node : NodeStory(up, NoNode, {}, v, n)
  BY <1>1, <1>2 DEF Init, NodeStory, NoScan
<1>4. \A q, n \in Node : OnWay(q, n, v) = {} /\ ~WillSend(q, n, v)
  BY <1>2 DEF Init, OnWay, WillSend
<1>5. \A q, n \in Node : EdgeStory(up, NoNode, {}, v, q, n)
  BY <1>4 DEF EdgeStory, OnceOnWay
<1>. QED
  BY <1>1, <1>3, <1>5 DEF Story

\* No step puts back what was removed.
LEMMA NothingReturns ==
  ASSUME EarnedInv, NEW up, ReturnInv(up), [Next]_vars, torn = {},
         NEW n \in Node, disk[n] = Absent
  PROVE  disk'[n] \notin dropped[n]
<1>1. TypeOK /\ dropped[n] \subseteq Version /\ edits \in Nat
  BY DEF EarnedInv, TypeOK
<1>2. Absent \notin dropped[n]
  BY <1>1, VaultAssumption DEF Version
<1>3. ASSUME NEW v \in Version
      PROVE  /\ v > edits => v \notin dropped[n]
             /\ apply[n].pc = "wait" /\ Carried(apply[n].event, v) => v \notin dropped[n]
  <2>1. PICK h \in Node \union {NoNode}, G \in SUBSET Node :
          Story(up, h, G, v) /\ (v > edits => h = NoNode)
    BY DEF ReturnInv
  <2>2. NodeStory(up, h, G, v, n) /\ (h = NoNode => G = {})
    BY <2>1, VaultAssumption DEF Story
  <2>. QED
    BY <2>1, <2>2, VaultAssumption DEF NodeStory, ApplyCarries, ApplyIdle
<1>4. ASSUME NEW k \in Node, Edit(k) PROVE disk'[n] \notin dropped[n]
  <2>1. edits + 1 \in Version /\ edits + 1 > edits
    BY <1>1, <1>4, VaultAssumption DEF Edit, Version
  <2>2. disk'[n] = disk[n] \/ disk'[n] = edits + 1
    BY <1>1, <1>4 DEF Edit, TypeOK
  <2>. QED
    BY <1>2, <1>3, <2>1, <2>2
<1>5. ASSUME NEW k \in Node, Decide(k) PROVE disk'[n] \notin dropped[n]
  <2> DEFINE e == apply[k].event
  <2>1. apply[k].pc = "wait" /\ e.hash \in Version
    BY <1>1, <1>5, ApplyShape DEF Decide, Event
  <2>2. \/ disk'[n] = disk[n] \/ disk'[n] = Absent
        \/ k = n /\ disk'[n] = e.hash /\ e.kind # "FORGET"
    BY <1>1, <1>5, DecideDoes DEF Reject, Acknowledge, ConflictCopy, Adopt, PutFile, TypeOK
  <2>. QED
    BY <1>2, <1>3, <2>1, <2>2 DEF Carried
<1>6. ASSUME NEW k \in Node, Remove(k) PROVE disk'[n] \notin dropped[n]
  <2>1. disk'[n] = disk[n] \/ disk'[n] = Absent
    BY <1>1, <1>6 DEF Remove, TypeOK
  <2>. QED
    BY <1>2, <2>1
<1>7. ASSUME UNCHANGED disk PROVE disk'[n] \notin dropped[n]
  BY <1>2, <1>7
<1>8. ASSUME NEW k \in Node, ScanStep(k) PROVE UNCHANGED disk
  BY <1>8 DEF ScanStep, ScanRead, ScanRecord, ScanTell
<1>9. ASSUME NEW k \in Node, NEW m \in Node, Receive(k, m) \/ Lose(m, k)
      PROVE  UNCHANGED disk
  BY <1>9 DEF Receive, Lose
<1>10. ASSUME NEW k \in Node, ApplyStep(k), ~Decide(k) PROVE UNCHANGED disk
  BY <1>10 DEF ApplyStep, ApplyRow, ApplyStat, ApplyRecord, Forward
<1>11. ASSUME NEW k \in Node, Cut(k) \/ UnlinkFails(k) PROVE UNCHANGED disk
  BY <1>1, <1>11, CutDoes DEF UnlinkFails
<1>12. CASE UNCHANGED vars
  BY <1>7, <1>12 DEF vars
<1>13. CASE Next
  BY <1>4, <1>5, <1>6, <1>7, <1>8, <1>9, <1>10, <1>11, <1>13 DEF Next, Cut
<1>. QED
  BY <1>12, <1>13

\* Where the peers form a tree (the code forwards an event to every peer but
\* the one it came from, and keeps the events it has applied), a version that
\* the people of a node removed does not come back to it, by an update, an
\* event that took a longer way or a scan of a peer, over lost events, restarts
\* and exceptions, until one of them parts a file from its row or an unlink fails.
THEOREM NothingRemovedReturns ==
  ASSUME ~Concurrent, PeersAreATree
  PROVE  Spec => RemovedStaysRemoved
<1>1. PICK up \in [Node -> [Node -> Node \union {NoNode}]] : Spread(up)
  BY DEF PeersAreATree
<1>2. Init => ReturnInv(up)
  BY InitReturn
<1>3. EarnedInv /\ ReturnInv(up) /\ [Next]_vars => ReturnInv(up)'
  BY <1>1, ReturnStep
<1>4. EarnedInv /\ ReturnInv(up) /\ [Next]_vars =>
        [torn = {} =>
           \A n \in Node : disk[n] = Absent => disk'[n] \notin dropped[n]]_vars
  BY NothingReturns
<1>. QED
  BY <1>2, <1>3, <1>4, EarnedInvariant, PTL DEF Spec, RemovedStaysRemoved

=============================================================================
