------------------------- MODULE CommonsIntakeProofs -------------------------
(***************************************************************************)
(* The commons intake ingests a share in one place at a time, a bounded    *)
(* number of times, and says ingested only of what it has written or what  *)
(* was aborted unseen: proofs about CommonsIntake, for any number of       *)
(* shares, candidates and processes.                                       *)
(***************************************************************************)
EXTENDS CommonsIntake, TLAPS

USE IntakeAssumption

(***************************************************************************)
(* What protects a share is the advisory lock alone: a worker has a share  *)
(* only while it holds the lock (LockIsHeld), whatever the reaper makes of *)
(* the row meanwhile.  A failed share was claimed again less often than it *)
(* has failed (ClaimsFollowFailures), so that the limit on its failures is *)
(* one on its claims.  And a worker that is about to write a final status  *)
(* has seen its transaction end (DoneIsWritten).                           *)
(***************************************************************************)
LockIsHeld == \A w \in Worker : at[w] # "out" => lock = w

ClaimsFollowFailures ==
  \A s \in Share :
    again[s] + (IF status[s] = "failed" THEN 1 ELSE 0) <= retries[s]

DoneIsWritten ==
  \A w \in Worker :
    /\ at[w] = "review" => written[share[w]] /\ found[share[w]] # {}
    /\ at[w] = "stored" => written[share[w]] \/ share[w] \in aborted

IntakeInv ==
  /\ TypeOK
  /\ LockIsHeld
  /\ ClaimsFollowFailures
  /\ RetriesAreBounded
  /\ DoneIsWritten
  /\ IngestedIsWritten

LEMMA InitIntake == Init => IntakeInv
<1> SUFFICES ASSUME Init PROVE IntakeInv
  OBVIOUS
<1>1. TypeOK
  BY DEF Init, TypeOK, Status
<1>2. LockIsHeld /\ DoneIsWritten /\ IngestedIsWritten
  BY DEF Init, LockIsHeld, DoneIsWritten, IngestedIsWritten
<1>3. ClaimsFollowFailures /\ RetriesAreBounded
  BY DEF Init, ClaimsFollowFailures, RetriesAreBounded
<1>. QED
  BY <1>1, <1>2, <1>3 DEF IntakeInv

-----------------------------------------------------------------------------
(* Types, action by action.                                                *)

\* A worker has a share exactly while it works on one.
LEMMA WorkerTypes ==
  ASSUME TypeOK, NEW w \in Worker
  PROVE  /\ at[w] \in {"ingest", "stored", "review", "failed"} => share[w] \in Share
         /\ at[w] \in {"out", "ready"} => share[w] = NoShare
BY DEF TypeOK

\* The shares of S fail: _mark_failed of one, the reaper of several.
LEMMA FailTypes ==
  ASSUME TypeOK, NEW S \in SUBSET Share, Fail(S)
  PROVE  /\ status' \in [Share -> Status] /\ retries' \in [Share -> Nat]
         /\ due' \in [Share -> BOOLEAN]
         /\ retracted' \in [Share -> BOOLEAN] /\ late' \in [Share -> BOOLEAN]
<1>1. status' \in [Share -> Status] /\ retries' \in [Share -> Nat]
  BY DEF TypeOK, Fail, Status
<1>2. retracted' \in [Share -> BOOLEAN] /\ late' \in [Share -> BOOLEAN]
  BY DEF TypeOK, Fail
<1>3. due' \in [Share -> BOOLEAN]
  <2>1. \A s \in Share : (IF s \in S THEN FALSE ELSE due[s]) \in BOOLEAN
    BY Zenon DEF TypeOK
  <2>. QED
    BY <2>1, Zenon DEF Fail
<1>. QED
  BY <1>1, <1>2, <1>3

LEMMA TypeStep == TypeOK /\ [Next]_vars => TypeOK'
<1> SUFFICES ASSUME TypeOK, [Next]_vars PROVE TypeOK'
  OBVIOUS
<1> USE DEF Set, shareVars, mergeVars, workerVars, boundVars
<1>1. ASSUME NEW s \in Share,
             Persist(s) \/ Retract(s) \/ Decide(s) \/ LeaseEnds(s) \/ BackoffEnds(s)
      PROVE  TypeOK'
  <2>1. CASE Persist(s)
    BY <2>1 DEF TypeOK, Status, Persist
  <2>2. CASE Retract(s)
    BY <2>2 DEF TypeOK, Retract
  <2>3. CASE Decide(s)
    BY <2>3 DEF TypeOK, Status, Decide
  <2>4. CASE LeaseEnds(s)
    BY <2>4 DEF TypeOK, LeaseEnds
  <2>5. CASE BackoffEnds(s)
    BY <2>5 DEF TypeOK, BackoffEnds
  <2>. QED
    BY <1>1, <2>1, <2>2, <2>3, <2>4, <2>5
<1>2. ASSUME NEW s \in Share, Resolve(s) PROVE TypeOK'
  <2>1. PICK c \in SUBSET open[s] : open' = [open EXCEPT ![s] = @ \ c]
    BY <1>2 DEF Resolve
  <2>2. status' \in [Share -> Status]
    BY <1>2 DEF Resolve, TypeOK, Status
  <2>. QED
    BY <1>2, <2>1, <2>2 DEF TypeOK, Resolve
<1>3. ASSUME NEW w \in Worker, TakeLock(w) \/ Rest(w) \/ Raise(w) \/ Stop(w)
      PROVE  TypeOK'
  BY <1>3 DEF TypeOK, TakeLock, Rest, Raise, Stop, Release
<1>4. ASSUME NEW w \in Worker, NEW s \in Share, Claim(w, s) PROVE TypeOK'
  BY <1>4 DEF TypeOK, Status, Claim
<1>5. ASSUME NEW w \in Worker, Store(w) PROVE TypeOK'
  <2>1. share[w] \in Share
    BY <1>5, WorkerTypes DEF Store
  <2>2. PICK c \in SUBSET Candidate :
          /\ Written(w, c)
          /\ at' = [at EXCEPT ![w] = IF c = {} THEN "stored" ELSE "review"]
    BY <1>5 DEF Store
  <2>3. found' \in [Share -> SUBSET Candidate] /\ open' \in [Share -> SUBSET Candidate]
    BY <2>1, <2>2 DEF TypeOK, Written
  <2>4. \A s \in Share : open'[s] \subseteq found'[s]
    BY <2>1, <2>2 DEF TypeOK, Written
  <2>5. written' \in [Share -> BOOLEAN]
    BY <2>1, <2>2 DEF TypeOK, Written
  <2>6. /\ at' \in [Worker -> {"out", "ready", "ingest", "stored", "review", "failed"}]
        /\ share' = share
        /\ \A v \in Worker : share[v] = NoShare <=> at'[v] \in {"out", "ready"}
    BY <1>5, <2>2 DEF TypeOK, Store
  <2>. QED
    BY <1>5, <2>3, <2>4, <2>5, <2>6 DEF TypeOK, Store
<1>6. ASSUME NEW w \in Worker, Abort(w) PROVE TypeOK'
  <2>1. share[w] \in Share
    BY <1>6, WorkerTypes DEF Abort
  <2>. QED
    BY <1>6, <2>1 DEF TypeOK, Abort
<1>7. ASSUME NEW w \in Worker, MarkStored(w) PROVE TypeOK'
  <2>1. share[w] \in Share
    BY <1>7, WorkerTypes DEF MarkStored
  <2>. QED
    BY <1>7, <2>1 DEF TypeOK, Status, MarkStored, Proceed
<1>8. ASSUME NEW w \in Worker, MarkFailed(w) PROVE TypeOK'
  <2>1. share[w] \in Share
    BY <1>8, WorkerTypes DEF MarkFailed
  <2>2. Fail({share[w]})
    BY <1>8 DEF MarkFailed
  <2>3. /\ at' \in [Worker -> {"out", "ready", "ingest", "stored", "review", "failed"}]
        /\ share' \in [Worker -> Share \union {NoShare}]
        /\ \A v \in Worker : share'[v] = NoShare <=> at'[v] \in {"out", "ready"}
    BY <1>8 DEF TypeOK, MarkFailed, Proceed
  <2>. QED
    BY <1>8, <2>1, <2>2, <2>3, FailTypes DEF TypeOK, MarkFailed, Proceed
<1>9. CASE Reap
  <2>1. Overdue \subseteq Share /\ Fail(Overdue)
    BY <1>9 DEF Reap, Overdue
  <2>. QED
    BY <1>9, <2>1, FailTypes DEF TypeOK, Reap
<1>10. CASE UNCHANGED vars
  BY <1>10 DEF TypeOK, vars
<1>. QED
  BY <1>1, <1>2, <1>3, <1>4, <1>5, <1>6, <1>7, <1>8, <1>9, <1>10 DEF Next, Work

-----------------------------------------------------------------------------
(* The lock.                                                               *)

LEMMA LockStep == TypeOK /\ LockIsHeld /\ [Next]_vars => LockIsHeld'
<1> SUFFICES ASSUME TypeOK, LockIsHeld, [Next]_vars PROVE LockIsHeld'
  OBVIOUS
<1>1. CASE UNCHANGED <<lock, at>>
  BY <1>1 DEF LockIsHeld
<1>2. ASSUME NEW w \in Worker, TakeLock(w) PROVE LockIsHeld'
  BY <1>2 DEF TypeOK, LockIsHeld, TakeLock
<1>3. ASSUME NEW w \in Worker,
             Rest(w) \/ Stop(w)
      PROVE  LockIsHeld'
  BY <1>3 DEF TypeOK, LockIsHeld, Rest, Stop, Release
<1>4. ASSUME NEW w \in Worker,
             \/ \E s \in Share : Claim(w, s)
             \/ Store(w) \/ Abort(w) \/ Raise(w) \/ MarkStored(w) \/ MarkFailed(w)
      PROVE  LockIsHeld'
  <2>1. at[w] # "out" /\ lock' = lock
    BY <1>4 DEF Claim, Store, Abort, Raise, MarkStored, MarkFailed, Proceed, workerVars
  <2>2. \A v \in Worker \ {w} : at'[v] = at[v]
    BY <1>4 DEF TypeOK, Claim, Store, Abort, Raise, MarkStored, MarkFailed, Proceed
  <2>. QED
    BY <2>1, <2>2 DEF LockIsHeld
<1>. QED
  BY <1>1, <1>2, <1>3, <1>4 DEF Next, Work, Persist, Retract, Decide, Resolve,
     LeaseEnds, BackoffEnds, Reap, workerVars, vars

-----------------------------------------------------------------------------
(* Retries.                                                                *)

RetriesInv == ClaimsFollowFailures /\ RetriesAreBounded

\* Failing makes room for one more claim.
LEMMA FailRetries ==
  ASSUME TypeOK, RetriesInv, NEW S \in SUBSET Share, Fail(S), again' = again
  PROVE  RetriesInv'
<1>1. \A s \in Share : /\ again[s] \in Nat /\ retries[s] \in Nat
                       /\ retries'[s] = IF s \in S THEN retries[s] + 1 ELSE retries[s]
                       /\ status'[s] = IF s \in S THEN "failed" ELSE status[s]
  BY DEF TypeOK, Fail
<1>. QED
  BY <1>1 DEF RetriesInv, ClaimsFollowFailures, RetriesAreBounded

\* No row but one changes its status, and none is made a failed one.
LEMMA QuietRetries ==
  ASSUME TypeOK, RetriesInv, UNCHANGED <<retries, again>>,
         \A s \in Share : status'[s] # "failed" \/ status'[s] = status[s]
  PROVE  RetriesInv'
<1>1. \A s \in Share : again[s] \in Nat /\ retries[s] \in Nat
  BY DEF TypeOK
<1>. QED
  BY <1>1 DEF RetriesInv, ClaimsFollowFailures, RetriesAreBounded

LEMMA RetriesStep == TypeOK /\ RetriesInv /\ [Next]_vars => RetriesInv'
<1> SUFFICES ASSUME TypeOK, RetriesInv, [Next]_vars PROVE RetriesInv'
  OBVIOUS
<1> USE DEF shareVars, workerVars
<1>1. CASE UNCHANGED <<status, retries, again>>
  BY <1>1, QuietRetries
<1>2. ASSUME NEW s \in Share, Persist(s) \/ Decide(s) \/ Resolve(s)
      PROVE  RetriesInv'
  <2>1. \A u \in Share : status'[u] # "failed" \/ status'[u] = status[u]
    BY <1>2 DEF TypeOK, Persist, Decide, Resolve, Set
  <2>. QED
    BY <1>2, <2>1, QuietRetries DEF Persist, Decide, Resolve
<1>3. ASSUME NEW w \in Worker, NEW s \in Share, Claim(w, s) PROVE RetriesInv'
  <2>1. /\ status' = [status EXCEPT ![s] = "ingesting"]
        /\ again' = [again EXCEPT ![s] = IF status[s] = "failed" THEN @ + 1 ELSE @]
        /\ retries' = retries
        /\ status[s] = "failed" => retries[s] < MaxRetries + 1
    BY <1>3 DEF Claim, Set, Claimable
  <2>2. \A u \in Share : again[u] \in Nat /\ retries[u] \in Nat
    BY DEF TypeOK
  <2>3. \A u \in Share \ {s} : again'[u] = again[u] /\ status'[u] = status[u]
    BY <2>1 DEF TypeOK
  <2>4. /\ status'[s] = "ingesting"
        /\ again'[s] = IF status[s] = "failed" THEN again[s] + 1 ELSE again[s]
    BY <2>1 DEF TypeOK
  <2>. QED
    BY <2>1, <2>2, <2>3, <2>4 DEF RetriesInv, ClaimsFollowFailures, RetriesAreBounded
<1>4. ASSUME NEW w \in Worker, MarkStored(w) PROVE RetriesInv'
  <2>1. \A u \in Share : status'[u] # "failed" \/ status'[u] = status[u]
    BY <1>4 DEF TypeOK, MarkStored, Set
  <2>. QED
    BY <1>4, <2>1, QuietRetries DEF MarkStored, Proceed
<1>5. ASSUME NEW w \in Worker, MarkFailed(w) PROVE RetriesInv'
  <2>1. share[w] \in Share
    BY <1>5, WorkerTypes DEF MarkFailed
  <2>. QED
    BY <1>5, <2>1, FailRetries DEF MarkFailed, Proceed
<1>6. CASE Reap
  BY <1>6, FailRetries DEF Reap, Overdue
<1>. QED
  BY <1>1, <1>2, <1>3, <1>4, <1>5, <1>6 DEF Next, Work, Retract, TakeLock, Rest,
     Store, Abort, Raise, Stop, LeaseEnds, BackoffEnds, vars

-----------------------------------------------------------------------------
(* What says ingested is written.                                          *)

WrittenInv == DoneIsWritten /\ IngestedIsWritten

Says(s) ==
  /\ status[s] = "needs_merge_review" => written[s] /\ found[s] # {}
  /\ status[s] = "ingested" => written[s] \/ s \in aborted

Does(w) ==
  /\ at[w] = "review" => written[share[w]] /\ found[share[w]] # {}
  /\ at[w] = "stored" => written[share[w]] \/ share[w] \in aborted

\* What has been written, found or aborted remains so.
LEMMA MoreIsWritten ==
  ASSUME WrittenInv,
         \A s \in Share : /\ written[s] => written'[s]
                          /\ found[s] \subseteq found'[s]
                          /\ s \in aborted => s \in aborted',
         \A w \in Worker : \/ at'[w] \notin {"stored", "review"}
                           \/ /\ at'[w] = at[w] /\ share'[w] = share[w]
                              /\ share[w] \in Share
                           \/ Does(w)',
         \A s \in Share : \/ status'[s] \notin {"ingested", "needs_merge_review"}
                          \/ status'[s] = status[s] \/ Says(s)'
  PROVE  WrittenInv'
<1>1. \A w \in Worker : Does(w)'
  BY DEF WrittenInv, DoneIsWritten, Does
<1>2. \A s \in Share : Says(s)'
  BY DEF WrittenInv, IngestedIsWritten, Says
<1>. QED
  BY <1>1, <1>2 DEF WrittenInv, DoneIsWritten, IngestedIsWritten, Does, Says

LEMMA WrittenStep == TypeOK /\ WrittenInv /\ [Next]_vars => WrittenInv'
<1> SUFFICES ASSUME TypeOK, WrittenInv, [Next]_vars PROVE WrittenInv'
  OBVIOUS
<1> USE DEF Set, mergeVars, workerVars
<1>1. \A w \in Worker : at[w] \in {"stored", "review"} => share[w] \in Share
  BY WorkerTypes
<1>2. ASSUME NEW s \in Share,
             Persist(s) \/ Retract(s) \/ Decide(s) \/ LeaseEnds(s) \/ BackoffEnds(s)
      PROVE  WrittenInv'
  <2>1. /\ UNCHANGED <<written, found, aborted, at, share>>
        /\ \A u \in Share : \/ status'[u] \notin {"ingested", "needs_merge_review"}
                            \/ status'[u] = status[u]
    BY <1>2 DEF TypeOK, Persist, Retract, Decide, LeaseEnds, BackoffEnds
  <2>. QED
    BY <1>1, <2>1, MoreIsWritten
<1>3. ASSUME NEW s \in Share, Resolve(s) PROVE WrittenInv'
  <2>1. /\ UNCHANGED <<written, found, aborted, at, share>>
        /\ \A u \in Share : \/ status'[u] = status[u]
                            \/ status[u] = "needs_merge_review" /\ status'[u] = "ingested"
    BY <1>3 DEF TypeOK, Resolve
  <2>2. \A u \in Share : status'[u] = status[u] \/ Says(u)'
    BY <2>1 DEF WrittenInv, IngestedIsWritten, Says
  <2>. QED
    BY <1>1, <2>1, <2>2, MoreIsWritten
<1>4. ASSUME NEW w \in Worker,
             \/ TakeLock(w) \/ Rest(w) \/ Raise(w) \/ Stop(w) \/ MarkFailed(w)
             \/ \E s \in Share : Claim(w, s)
      PROVE  WrittenInv'
  <2>1. /\ UNCHANGED <<written, found, aborted>>
        /\ \A v \in Worker : \/ at'[v] \notin {"stored", "review"}
                             \/ at'[v] = at[v] /\ share'[v] = share[v]
        /\ \A u \in Share : \/ status'[u] \notin {"ingested", "needs_merge_review"}
                            \/ status'[u] = status[u]
    <3>1. CASE TakeLock(w) \/ Rest(w) \/ Raise(w) \/ Stop(w)
      BY <3>1 DEF TypeOK, TakeLock, Rest, Raise, Stop
    <3>2. CASE MarkFailed(w)
      BY <3>2 DEF TypeOK, MarkFailed, Proceed, Fail
    <3>3. ASSUME NEW s \in Share, Claim(w, s)
          PROVE  /\ UNCHANGED <<written, found, aborted>>
                 /\ \A v \in Worker : \/ at'[v] \notin {"stored", "review"}
                                      \/ at'[v] = at[v] /\ share'[v] = share[v]
                 /\ \A u \in Share : \/ status'[u] = "ingesting"
                                     \/ status'[u] = status[u]
      BY <3>3 DEF TypeOK, Claim
    <3>. QED
      BY <1>4, <3>1, <3>2, <3>3
  <2>. QED
    BY <1>1, <2>1, MoreIsWritten
<1>5. ASSUME NEW w \in Worker, Store(w) PROVE WrittenInv'
  <2>1. share[w] \in Share
    BY <1>5, WorkerTypes DEF Store
  <2>2. PICK c \in SUBSET Candidate :
          /\ Written(w, c)
          /\ at' = [at EXCEPT ![w] = IF c = {} THEN "stored" ELSE "review"]
    BY <1>5 DEF Store
  <2>3. UNCHANGED <<status, aborted, share>>
    BY <1>5 DEF Store
  <2>4. /\ written'[share[w]] /\ c \subseteq found'[share[w]]
        /\ \A s \in Share : (written[s] => written'[s]) /\ found[s] \subseteq found'[s]
    BY <2>1, <2>2 DEF TypeOK, Written
  <2>5. /\ at'[w] = IF c = {} THEN "stored" ELSE "review"
        /\ \A v \in Worker \ {w} : at'[v] = at[v]
    BY <2>2 DEF TypeOK
  <2>6. Does(w)'
    BY <2>3, <2>4, <2>5 DEF Does
  <2>. QED
    BY <1>1, <2>3, <2>4, <2>5, <2>6, MoreIsWritten
<1>6. ASSUME NEW w \in Worker, Abort(w) PROVE WrittenInv'
  <2>1. share[w] \in Share
    BY <1>6, WorkerTypes DEF Abort
  <2>2. /\ UNCHANGED <<status, written, found, share>> /\ aborted \subseteq aborted'
        /\ \A v \in Worker \ {w} : at'[v] = at[v]
        /\ at'[w] = "failed" \/ (at'[w] = "stored" /\ share[w] \in aborted')
    BY <1>6 DEF TypeOK, Abort
  <2>3. at'[w] \notin {"stored", "review"} \/ Does(w)'
    BY <2>2 DEF Does
  <2>. QED
    BY <1>1, <2>2, <2>3, MoreIsWritten
<1>7. ASSUME NEW w \in Worker, MarkStored(w) PROVE WrittenInv'
  <2>1. PICK s \in Share : s = share[w]
    BY <1>1, <1>7 DEF MarkStored
  <2>2. /\ UNCHANGED <<written, found, aborted>>
        /\ \A v \in Worker : \/ at'[v] \notin {"stored", "review"}
                             \/ at'[v] = at[v] /\ share'[v] = share[v]
        /\ \A u \in Share \ {s} : status'[u] = status[u]
        /\ \/ at[w] = "stored" /\ status'[s] = "ingested"
           \/ at[w] = "review" /\ status'[s] = "needs_merge_review"
    BY <1>7, <2>1 DEF TypeOK, MarkStored, Proceed
  <2>3. Says(s)'
    BY <2>1, <2>2 DEF WrittenInv, DoneIsWritten, Says
  <2>4. \A u \in Share : status'[u] = status[u] \/ Says(u)'
    BY <2>2, <2>3
  <2>. QED
    BY <1>1, <2>2, <2>4, MoreIsWritten
<1>8. CASE Reap
  <2>1. /\ UNCHANGED <<written, found, aborted, at, share>>
        /\ \A u \in Share : status'[u] = "failed" \/ status'[u] = status[u]
    BY <1>8 DEF TypeOK, Reap, Fail
  <2>. QED
    BY <1>1, <2>1, MoreIsWritten
<1>9. CASE UNCHANGED vars
  BY <1>1, <1>9, MoreIsWritten DEF vars
<1>. QED
  BY <1>2, <1>3, <1>4, <1>5, <1>6, <1>7, <1>8, <1>9 DEF Next, Work

-----------------------------------------------------------------------------

\* The inductive invariant holds: who works on a share has the lock, and claims
\* again only what has failed again.
THEOREM IntakeInvariant == Spec => []IntakeInv
<1>1. IntakeInv /\ [Next]_vars => IntakeInv'
  BY TypeStep, LockStep, RetriesStep, WrittenStep DEF IntakeInv, RetriesInv, WrittenInv
<1>. QED
  BY <1>1, InitIntake, PTL DEF Spec

\* The rows, the lock and the workers keep their types.
THEOREM IntakeTypes == Spec => []TypeOK
<1>1. IntakeInv => TypeOK
  BY DEF IntakeInv
<1>. QED
  BY <1>1, IntakeInvariant, PTL

\* No share is ingested by two workers at once, although the reaper makes a
\* share claimable that a slow worker still ingests.
THEOREM IngestsOneAtATime == Spec => []NoDoubleIngest
<1>1. IntakeInv => NoDoubleIngest
  <2> SUFFICES ASSUME IntakeInv, NEW v \in Worker, NEW w \in Worker,
                      v # w, share[v] = share[w]
               PROVE  share[v] = NoShare
    BY DEF NoDoubleIngest
  <2>1. at[v] = "out" \/ at[w] = "out"
    BY DEF IntakeInv, LockIsHeld
  <2>. QED
    BY <2>1, WorkerTypes DEF IntakeInv
<1>. QED
  BY <1>1, IntakeInvariant, PTL

\* A failed share is claimed again MAX_RETRIES times at most, however it
\* failed.
THEOREM RetriesEnd == Spec => []RetriesAreBounded
<1>1. IntakeInv => RetriesAreBounded
  BY DEF IntakeInv
<1>. QED
  BY <1>1, IntakeInvariant, PTL

\* A share in review has its candidates and has been written, and one that is
\* ingested has been written too unless a transaction of its own was aborted
\* unseen, whatever workers and reaper made of it meanwhile.
THEOREM SaysWhatIsWritten == Spec => []IngestedIsWritten
<1>1. IntakeInv => IngestedIsWritten
  BY DEF IntakeInv
<1>. QED
  BY <1>1, IntakeInvariant, PTL

=============================================================================
