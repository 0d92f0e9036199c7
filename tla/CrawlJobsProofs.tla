--------------------------- MODULE CrawlJobsProofs ---------------------------
(***************************************************************************)
(* The cap of a user and the safety of a result: proofs about CrawlJobs,   *)
(* for any number of users, pages, service processes and jobs, any cap and *)
(* any number of faults.                                                   *)
(***************************************************************************)
EXTENDS CrawlJobs, FiniteSetTheorems, TLAPS

USE CrawlAssumption

(***************************************************************************)
(* A worker writes the terminal status by id alone.  That never touches a  *)
(* result, because no two workers hold a job (WorkersDiffer) and until its *)
(* worker has written, a held job is running, or was interrupted by a      *)
(* sweep or cancelled (JobIsTheirs): none of these can be committed.       *)
(***************************************************************************)
WorkersDiffer ==
  \A v, w \in Proc : v # w /\ job[v] = job[w] => job[v] = NoJob

Unwritten == {"running", "interrupted", "cancelled"}

JobIsTheirs ==
  \A w \in Proc : job[w] # NoJob =>
    status[job[w]] \in IF up[w] = "unlocking" THEN Status \ {"none", "queued"}
                                              ELSE Unwritten

MarkHasOutcome == \A w \in Proc : up[w] = "marking" => outcome[w] \in Ended

WorkerInv == WorkersDiffer /\ JobIsTheirs /\ MarkHasOutcome

(***************************************************************************)
(* The cap needs the meaning of a count: while the transaction that took   *)
(* it is open no other request of that user counts or inserts, and every   *)
(* other step can only take jobs out of flight, so the count stays an      *)
(* upper bound until the INSERT.                                           *)
(***************************************************************************)
AskersDiffer ==
  \A r, s \in Request : r # s /\ asking[r] # Nobody => asking[r] # asking[s]

IdleHasNoCount == \A r \in Request : asking[r] = Nobody => counted[r] = -1

Load == [u \in User |-> Cardinality(InFlightOf(u))]

CountSuffices ==
  \A r \in Request : asking[r] # Nobody /\ counted[r] # -1
                       => Load[asking[r]] =< counted[r]

CapInv == AskersDiffer /\ IdleHasNoCount /\ CountSuffices /\ UserCap

CrawlInv == TypeOK /\ WorkerInv /\ CapInv

-----------------------------------------------------------------------------
(* Sets of jobs.                                                           *)

LEMMA JobsFinite ==
  /\ \A u : IsFiniteSet(InFlightOf(u)) /\ Cardinality(InFlightOf(u)) \in Nat
  /\ Load \in [User -> Nat] /\ Load' \in [User -> Nat]
<1>1. \A S \in SUBSET Job : IsFiniteSet(S) /\ Cardinality(S) \in Nat
  <2>1. IsFiniteSet(Job)
    BY FS_Interval DEF Job
  <2>. QED
    BY <2>1, FS_Subset, FS_CardinalityType
<1>2. \A u : InFlightOf(u) \in SUBSET Job /\ InFlightOf(u)' \in SUBSET Job
  BY DEF InFlightOf
<1>. QED
  BY <1>1, <1>2 DEF Load

-----------------------------------------------------------------------------
(* Types.                                                                  *)

LEMMA InitCrawl == Init => CrawlInv
<1> SUFFICES ASSUME Init PROVE CrawlInv
  OBVIOUS
<1>1. TypeOK
  BY DEF Init, TypeOK, Status, Ended, NoJob, Job
<1>2. WorkerInv
  BY DEF Init, WorkerInv, WorkersDiffer, JobIsTheirs, MarkHasOutcome
<1>3. \A u : InFlightOf(u) = {}
  BY DEF Init, InFlightOf, InFlight
<1>4. CapInv
  <2>1. \A r \in Request : asking[r] = Nobody /\ counted[r] = -1
    BY DEF Init
  <2>2. \A u : Cardinality(InFlightOf(u)) = 0
    BY <1>3, FS_EmptySet
  <2>. QED
    BY <2>1, <2>2 DEF CapInv, AskersDiffer, IdleHasNoCount, CountSuffices, UserCap
<1>. QED
  BY <1>1, <1>2, <1>4 DEF CrawlInv

LEMMA TypeStep == TypeOK /\ [Next]_vars => TypeOK'
<1> SUFFICES ASSUME TypeOK, [Next]_vars PROVE TypeOK'
  OBVIOUS
<1> USE DEF TypeOK, Status, InFlight, Ended, Crawling, rowVars, procVars,
            askVars
<1>0. NoJob \notin Job /\ NoJob \in Int
  BY DEF NoJob, Job
<1>1. ASSUME NEW r \in Request, NEW u \in User, NEW url \in Url, Ask(r, u, url)
      PROVE  TypeOK'
  BY <1>1 DEF Ask
<1>2. ASSUME NEW r \in Request, Count(r) PROVE TypeOK'
  <2>1. Cardinality(InFlightOf(asking[r])) \in Nat
    BY JobsFinite
  <2>. QED
    BY <1>2, <2>1 DEF Count
<1>3. ASSUME NEW r \in Request, Decline(r) PROVE TypeOK'
  BY <1>3 DEF Decline, EndAsk
<1>4. ASSUME NEW r \in Request, Enqueue(r) PROVE TypeOK'
  BY <1>4 DEF Enqueue, EndAsk
<1>5. ASSUME NEW j \in Job, Commit(j) \/ Cancel(j) \/ Age(j) PROVE TypeOK'
  <2>1. CASE Commit(j)
    BY <2>1 DEF Commit
  <2>2. CASE Cancel(j)
    BY <2>2 DEF Cancel
  <2>3. CASE Age(j)
    BY <2>3 DEF Age
  <2>. QED
    BY <1>5, <2>1, <2>2, <2>3
<1>6. ASSUME NEW w \in Proc, Work(w) PROVE TypeOK'
  <2>1. CASE Start(w) \/ Swept(w) \/ \E j \in Job : SweepC(w, j)
    BY <2>1 DEF Start, Swept, SweepC
  <2>2. CASE Claim(w)
    BY <1>0, <2>2 DEF Claim, Claimable
  <2>3. CASE TakeLock(w) \/ Refused(w)
    BY <2>3 DEF TakeLock, Refused
  <2>4. CASE Check(w)
    <3>1. \/ \E s \in Ended : End(w, s) /\ UNCHANGED beating
          \/ /\ up' = [up EXCEPT ![w] = "page"] /\ UNCHANGED outcome
             /\ beating' = [beating EXCEPT ![job[w]] = TRUE]
      <4>1. "failed" \in Ended /\ "cancelled" \in Ended /\ "done" \in Ended
        OBVIOUS
      <4> HIDE DEF Ended
      <4>. QED
        BY <4>1, <2>4 DEF Check
    <3>2. /\ up[w] = "head"
          /\ UNCHANGED <<status, owner, page, lock, job, orphans, askVars, faults>>
      BY <2>4 DEF Check
    <3>3. ASSUME NEW s \in Ended, End(w, s), UNCHANGED beating PROVE TypeOK'
      BY <3>2, <3>3 DEF End
    <3>4. CASE /\ up' = [up EXCEPT ![w] = "page"] /\ UNCHANGED outcome
               /\ beating' = [beating EXCEPT ![job[w]] = TRUE]
      BY <3>2, <3>4
    <3>. QED
      BY <3>1, <3>3, <3>4
  <2>5. CASE Visit(w)
    BY <2>5 DEF Visit, End
  <2>6. CASE Mark(w)
    BY <2>6 DEF Mark
  <2>7. CASE Unlock(w)
    BY <2>7 DEF Unlock
  <2>. QED
    BY <1>6, <2>1, <2>2, <2>3, <2>4, <2>5, <2>6, <2>7 DEF Work
<1>7. ASSUME NEW w \in Proc, SweepB(w) \/ Drop(w) \/ Crash(w) PROVE TypeOK'
  BY <1>7 DEF SweepB, Drop, Crash, Stale
<1>8. CASE UNCHANGED vars
  BY <1>8 DEF vars
<1>. QED
  BY <1>1, <1>2, <1>3, <1>4, <1>5, <1>6, <1>7, <1>8 DEF Next

-----------------------------------------------------------------------------
(* Workers and the rows of their jobs.                                     *)

\* A step that moves no worker and keeps the rows of held jobs held.
LEMMA RowStep ==
  ASSUME TypeOK, WorkerInv, UNCHANGED procVars,
         \A j \in Job :
           /\ status[j] \in Unwritten => status'[j] \in Unwritten
           /\ status[j] \in Status \ {"none", "queued"}
                => status'[j] \in Status \ {"none", "queued"}
  PROVE  WorkerInv'
<1>1. /\ up' = up /\ job' = job /\ outcome' = outcome
      /\ \A w \in Proc : job[w] # NoJob => job[w] \in Job
  BY DEF procVars, TypeOK
<1>. QED
  BY <1>1 DEF WorkerInv, WorkersDiffer, JobIsTheirs, MarkHasOutcome

LEMMA WorkerStep == TypeOK /\ WorkerInv /\ [Next]_vars => WorkerInv'
<1> SUFFICES ASSUME TypeOK, WorkerInv, [Next]_vars PROVE WorkerInv'
  OBVIOUS
<1> USE DEF rowVars, procVars, askVars
<1>0. NoJob \notin Job /\ \A w \in Proc : job[w] # NoJob => job[w] \in Job
  BY DEF NoJob, Job, TypeOK
<1>1. CASE UNCHANGED <<status, procVars>>
  BY <1>1, RowStep
<1>2. ASSUME NEW r \in Request, Enqueue(r) PROVE WorkerInv'
  <2>1. PICK j \in Job : status[j] = "none" /\ status' = [status EXCEPT ![j] = "queued"]
    BY <1>2 DEF Enqueue
  <2>. QED
    BY <1>2, <2>1, RowStep DEF Enqueue, Unwritten, TypeOK
<1>3. ASSUME NEW j \in Job, Commit(j) PROVE WorkerInv'
  <2>1. PICK s \in {"committed", "partially_committed"} :
          status' = [status EXCEPT ![j] = s]
    BY <1>3 DEF Commit
  <2>. QED
    BY <1>3, <2>1, RowStep DEF Commit, Unwritten, TypeOK, Status
<1>4. ASSUME NEW j \in Job, Cancel(j) PROVE WorkerInv'
  BY <1>4, RowStep DEF Cancel, Unwritten, TypeOK, Status, Ended
<1>5. ASSUME NEW w \in Proc, SweepB(w) PROVE WorkerInv'
  BY <1>5, RowStep DEF SweepB, Stale, Unwritten, TypeOK, Status, Ended
<1>6. ASSUME NEW w \in Proc, NEW j \in Job, SweepC(w, j) PROVE WorkerInv'
  BY <1>6, <1>0 DEF SweepC, WorkerInv, WorkersDiffer, JobIsTheirs,
     MarkHasOutcome, Unwritten, TypeOK, Status, Ended
<1>7. ASSUME NEW w \in Proc, Start(w) \/ Swept(w) \/ TakeLock(w) PROVE WorkerInv'
  BY <1>7, <1>0 DEF Start, Swept, TakeLock, WorkerInv, WorkersDiffer,
     JobIsTheirs, MarkHasOutcome, TypeOK
<1>8. ASSUME NEW w \in Proc, Claim(w) PROVE WorkerInv'
  <2>1. PICK j \in Job : /\ status[j] = "queued"
                         /\ status' = [status EXCEPT ![j] = "running"]
                         /\ job' = [job EXCEPT ![w] = j]
    BY <1>8 DEF Claim, Claimable
  <2>2. \A v \in Proc : job[v] # j
    BY <2>1, <1>0 DEF WorkerInv, JobIsTheirs, Unwritten
  <2>3. up' = [up EXCEPT ![w] = "claimed"] /\ outcome' = outcome
    BY <1>8 DEF Claim
  <2>. QED
    BY <2>1, <2>2, <2>3, <1>0 DEF WorkerInv, WorkersDiffer, JobIsTheirs,
       MarkHasOutcome, Unwritten, TypeOK
<1>9. ASSUME NEW w \in Proc, Refused(w) \/ Unlock(w) \/ Crash(w) PROVE WorkerInv'
  <2>1. /\ status' = status /\ job' = [job EXCEPT ![w] = NoJob]
        /\ up' = [up EXCEPT ![w] = "idle"] \/ up' = [up EXCEPT ![w] = "down"]
        /\ outcome' = outcome \/ outcome' = [outcome EXCEPT ![w] = "none"]
    BY <1>9 DEF Refused, Unlock, Crash
  <2>. QED
    BY <2>1, <1>0 DEF WorkerInv, WorkersDiffer, JobIsTheirs, MarkHasOutcome, TypeOK
<1>10. ASSUME NEW w \in Proc, Check(w) \/ Visit(w) PROVE WorkerInv'
  <2>1. /\ status' = status /\ job' = job /\ up[w] \in Crawling
        /\ \/ \E s \in Ended : End(w, s)
           \/ /\ outcome' = outcome
              /\ up' = [up EXCEPT ![w] = "page"] \/ up' = [up EXCEPT ![w] = "head"]
    BY <1>10 DEF Check, Visit, Crawling, Ended
  <2>. QED
    BY <2>1 DEF End, Crawling, WorkerInv, WorkersDiffer, JobIsTheirs,
       MarkHasOutcome, TypeOK
<1>11. ASSUME NEW w \in Proc, Mark(w) PROVE WorkerInv'
  <2>1. /\ up[w] = "marking" /\ up' = [up EXCEPT ![w] = "unlocking"]
        /\ outcome' = [outcome EXCEPT ![w] = "none"] /\ job' = job
        /\ \/ status' = [status EXCEPT ![job[w]] = outcome[w]]
           \/ status' = status
    BY <1>11 DEF Mark
  <2>2. outcome[w] \in Ended /\ job[w] \in Job
    BY <2>1, <1>0 DEF WorkerInv, MarkHasOutcome, TypeOK
  <2>. QED
    BY <2>1, <2>2, <1>0 DEF WorkerInv, WorkersDiffer, JobIsTheirs,
       MarkHasOutcome, Unwritten, Ended, Status, InFlight, TypeOK
<1>. QED
  <2>1. ASSUME NEW r \in Request,
               \/ \E u \in User, url \in Url : Ask(r, u, url)
               \/ Count(r) \/ Decline(r)
        PROVE  UNCHANGED <<status, procVars>>
    BY <2>1 DEF Ask, Count, Decline
  <2>. QED
    BY <2>1, <1>1, <1>2, <1>3, <1>4, <1>5, <1>6, <1>7, <1>8, <1>9, <1>10, <1>11
    DEF Next, Work, vars, Age, Drop

-----------------------------------------------------------------------------
(* The cap.                                                                *)

\* Every step but an INSERT only takes jobs out of flight.
LEMMA LoadShrinks ==
  ASSUME TypeOK, WorkerInv, [Next]_vars, \A r \in Request : ~Enqueue(r)
  PROVE  \A u \in User : Load'[u] =< Load[u]
<1> USE DEF rowVars
<1>1. ASSUME NEW j \in Job
      PROVE  /\ owner' = owner
             /\ status'[j] \in InFlight => status[j] \in InFlight
  <2>1. CASE UNCHANGED <<status, owner>>
    BY <2>1
  <2>2. ASSUME NEW i \in Job, Commit(i) \/ Cancel(i) \/ Age(i)
        PROVE  owner' = owner /\ (status'[j] \in InFlight => status[j] \in InFlight)
    BY <2>2 DEF Commit, Cancel, Age, InFlight, TypeOK
  <2>3. ASSUME NEW w \in Proc, Claim(w) \/ SweepB(w) \/ \E i \in Job : SweepC(w, i)
        PROVE  owner' = owner /\ (status'[j] \in InFlight => status[j] \in InFlight)
    BY <2>3 DEF Claim, Claimable, SweepB, SweepC, InFlight, TypeOK
  <2>4. ASSUME NEW w \in Proc, Mark(w)
        PROVE  owner' = owner /\ (status'[j] \in InFlight => status[j] \in InFlight)
    BY <2>4 DEF Mark, InFlight, Ended, TypeOK, WorkerInv, MarkHasOutcome
  <2>5. ASSUME NEW w \in Proc, Start(w) \/ Swept(w) \/ TakeLock(w) \/ Refused(w)
                               \/ Check(w) \/ Visit(w) \/ Unlock(w)
                               \/ Drop(w) \/ Crash(w)
        PROVE  UNCHANGED <<status, owner>>
    BY <2>5 DEF Start, Swept, TakeLock, Refused, Check, Visit, Unlock, Drop, Crash
  <2>6. ASSUME NEW r \in Request,
               \/ \E u \in User, url \in Url : Ask(r, u, url)
               \/ Count(r) \/ Decline(r)
        PROVE  UNCHANGED <<status, owner>>
    BY <2>6 DEF Ask, Count, Decline
  <2>. QED
    BY <2>1, <2>2, <2>3, <2>4, <2>5, <2>6 DEF Next, Work, vars
<1>2. ASSUME NEW u \in User PROVE InFlightOf(u)' \subseteq InFlightOf(u)
  BY <1>1 DEF InFlightOf
<1>3. ASSUME NEW u \in User
      PROVE  Cardinality(InFlightOf(u)') =< Cardinality(InFlightOf(u))
  BY <1>2, JobsFinite, FS_Subset
<1>. QED
  BY <1>3 DEF Load

\* An INSERT adds one job to the load of the user who asked.
LEMMA InsertAddsOne ==
  ASSUME TypeOK, NEW r \in Request, Enqueue(r)
  PROVE  /\ asking[r] \in User
         /\ Load'[asking[r]] =< Load[asking[r]] + 1
         /\ \A u \in User : u # asking[r] => Load'[u] = Load[u]
<1>1. PICK j \in Job : /\ status[j] = "none"
                       /\ status' = [status EXCEPT ![j] = "queued"]
                       /\ owner' = [owner EXCEPT ![j] = asking[r]]
  BY DEF Enqueue
<1>2. asking[r] \in User
  BY DEF Enqueue, TypeOK
<1>3. ASSUME NEW u \in User
      PROVE  InFlightOf(u)' = IF u = asking[r] THEN InFlightOf(u) \union {j}
                                               ELSE InFlightOf(u)
  BY <1>1 DEF InFlightOf, InFlight, TypeOK
<1>4. ASSUME NEW u \in User
      PROVE  Cardinality(InFlightOf(u) \union {j}) =< Cardinality(InFlightOf(u)) + 1
  <2>1. IsFiniteSet(InFlightOf(u)) /\ Cardinality(InFlightOf(u)) \in Nat
    BY JobsFinite
  <2>2. \/ Cardinality(InFlightOf(u) \union {j}) = Cardinality(InFlightOf(u))
        \/ Cardinality(InFlightOf(u) \union {j}) = Cardinality(InFlightOf(u)) + 1
    BY <2>1, FS_AddElement
  <2>. QED
    BY <2>1, <2>2
<1>. QED
  BY <1>2, <1>3, <1>4 DEF Load

LEMMA CapStep == TypeOK /\ WorkerInv /\ CapInv /\ [Next]_vars => CapInv'
<1> SUFFICES ASSUME TypeOK, WorkerInv, CapInv, [Next]_vars PROVE CapInv'
  OBVIOUS
<1> DEFINE Kept == \A u \in User : Load[u] =< Cap
<1> USE DEF askVars
<1>0. /\ Load \in [User -> Nat] /\ Load' \in [User -> Nat]
      /\ Cap \in Nat /\ Nobody \notin User
      /\ TypeOK'
  BY JobsFinite, TypeStep
<1>k. Kept /\ (Kept' => UserCap')
  BY DEF CapInv, UserCap, Load
<1> HIDE DEF Kept
<1>1. ASSUME NEW r \in Request, Enqueue(r) PROVE CapInv'
  <2>1. Load[asking[r]] + 1 =< Cap
    <3>1. /\ counted[r] \in 0 .. Cap - 1 /\ Load[asking[r]] =< counted[r]
          /\ Load[asking[r]] \in Nat
      <4>1. asking[r] \in User /\ counted[r] \in 0 .. Cap - 1
        BY <1>1, InsertAddsOne DEF Enqueue
      <4>2. asking[r] # Nobody /\ counted[r] # -1
        BY <4>1, <1>0
      <4>. QED
        BY <4>1, <4>2, <1>0 DEF CapInv, CountSuffices
    <3>. QED
      BY <3>1, <1>0
  <2>2. /\ asking' = [asking EXCEPT ![r] = Nobody]
        /\ counted' = [counted EXCEPT ![r] = -1]
    BY <1>1 DEF Enqueue, EndAsk
  <2>3. \A s \in Request : s # r /\ asking[s] # Nobody
                             => asking[s] \in User /\ asking[s] # asking[r]
    BY <1>1 DEF CapInv, AskersDiffer, TypeOK
  <2>4. /\ asking[r] \in User
        /\ Load'[asking[r]] =< Load[asking[r]] + 1
        /\ \A u \in User : u # asking[r] => Load'[u] = Load[u]
    BY <1>1, InsertAddsOne
  <2>5. UserCap'
    <3>1. ASSUME NEW u \in User PROVE Load'[u] =< Cap
      BY <2>1, <2>4, <1>0, <1>k DEF Kept
    <3>. QED
      BY <3>1, <1>k DEF Kept
  <2>6. (AskersDiffer /\ IdleHasNoCount)'
    BY <2>2 DEF CapInv, AskersDiffer, IdleHasNoCount, TypeOK
  <2>7. CountSuffices'
    BY <2>2, <2>3, <2>4 DEF CapInv, CountSuffices, TypeOK
  <2>. QED
    BY <2>5, <2>6, <2>7 DEF CapInv
<1>2. CASE \A r \in Request : ~Enqueue(r)
  <2>0. \A u \in User : Load'[u] =< Load[u]
    BY <1>2, LoadShrinks
  <2>1. UserCap'
    <3>1. ASSUME NEW u \in User PROVE Load'[u] =< Cap
      BY <2>0, <1>0, <1>k DEF Kept
    <3>. QED
      BY <3>1, <1>k DEF Kept
  <2>2. CASE UNCHANGED askVars
    BY <2>0, <2>1, <2>2, <1>0
    DEF CapInv, AskersDiffer, IdleHasNoCount, CountSuffices, TypeOK
  <2>3. ASSUME NEW r \in Request, NEW u \in User, NEW url \in Url, Ask(r, u, url)
        PROVE  CapInv'
    BY <2>0, <2>1, <2>3, <1>0
    DEF Ask, CapInv, AskersDiffer, IdleHasNoCount, CountSuffices, TypeOK
  <2>4. ASSUME NEW r \in Request, Count(r) PROVE CapInv'
    <3>1. /\ asking' = asking /\ asking[r] \in User
          /\ counted' = [counted EXCEPT ![r] = Load[asking[r]]]
      BY <2>4 DEF Count, Load, TypeOK
    <3>. QED
      BY <2>0, <2>1, <3>1, <1>0
      DEF CapInv, AskersDiffer, IdleHasNoCount, CountSuffices, TypeOK
  <2>5. ASSUME NEW r \in Request, Decline(r) PROVE CapInv'
    BY <2>0, <2>1, <2>5, <1>0
    DEF Decline, EndAsk, CapInv, AskersDiffer, IdleHasNoCount, CountSuffices, TypeOK
  <2>6. ASSUME NEW j \in Job, Commit(j) \/ Cancel(j) \/ Age(j)
        PROVE  UNCHANGED askVars
    BY <2>6 DEF Commit, Cancel, Age
  <2>7. ASSUME NEW w \in Proc, Work(w) \/ SweepB(w) \/ Drop(w) \/ Crash(w)
        PROVE  UNCHANGED askVars
    BY <2>7 DEF Work, Start, Swept, Claim, TakeLock, Refused, Check, Visit,
       Mark, Unlock, SweepC, SweepB, Drop, Crash
  <2>. QED
    BY <1>2, <2>2, <2>3, <2>4, <2>5, <2>6, <2>7 DEF Next, vars
<1>. QED
  BY <1>1, <1>2

-----------------------------------------------------------------------------
(* Theorems.                                                               *)

\* The inductive invariant holds: one worker holds a job, one request counts a
\* user's jobs, and rows of held jobs cannot be committed.
THEOREM CrawlInvariant == Spec => []CrawlInv
<1>1. CrawlInv /\ [Next]_vars => CrawlInv'
  BY TypeStep, WorkerStep, CapStep DEF CrawlInv
<1>. QED
  BY <1>1, InitCrawl, PTL DEF Spec

\* Every column and every worker's state keeps its type; a worker has a job
\* exactly in the steps that work on one.
THEOREM CrawlTypes == Spec => []TypeOK
<1>1. CrawlInv => TypeOK
  BY DEF CrawlInv
<1>. QED
  BY <1>1, CrawlInvariant, PTL

\* PER_USER_CONCURRENT_CAP holds for every cap: the advisory lock makes a
\* count stay an upper bound until the INSERT that relies on it.
THEOREM CapIsKept == Spec => []UserCap
<1>1. CrawlInv => UserCap
  BY DEF CrawlInv, CapInv
<1>. QED
  BY <1>1, CrawlInvariant, PTL

-----------------------------------------------------------------------------

LEMMA ResultStep ==
  ASSUME CrawlInv, [Next]_vars, NEW j \in Job, status[j] \in Result
  PROVE  /\ status'[j] \in Result
         /\ status[j] = "committed" => status'[j] = "committed"
<1> DEFINE Stays == /\ status'[j] \in Result
                    /\ status[j] = "committed" => status'[j] = "committed"
<1> SUFFICES Stays
  OBVIOUS
<1> USE DEF CrawlInv, Result
<1> HIDE DEF Stays
<1>1. status' = status => Stays
  BY DEF Stays
<1>2. ASSUME NEW r \in Request,
             \/ \E u \in User, url \in Url : Ask(r, u, url)
             \/ Count(r) \/ Decline(r)
      PROVE  status' = status
  BY <1>2 DEF rowVars, Ask, Count, Decline
<1>3. ASSUME NEW r \in Request, Enqueue(r) PROVE Stays
  BY <1>3 DEF Stays, Enqueue, TypeOK
<1>4. ASSUME NEW i \in Job, Commit(i) \/ Cancel(i) \/ Age(i) PROVE Stays
  BY <1>4 DEF Stays, rowVars, Commit, Cancel, Age, InFlight, TypeOK
<1>5. ASSUME NEW w \in Proc, Mark(w) PROVE Stays
  <2>1. job[w] # j
    BY <1>5 DEF Mark, WorkerInv, JobIsTheirs, Unwritten, TypeOK, NoJob, Job
  <2>. QED
    BY <1>5, <2>1 DEF Stays, Mark, TypeOK
<1>6. ASSUME NEW w \in Proc,
             Claim(w) \/ SweepB(w) \/ \E i \in Job : SweepC(w, i)
      PROVE  Stays
  BY <1>6 DEF Stays, Claim, Claimable, SweepB, Stale, SweepC, TypeOK
<1>7. ASSUME NEW w \in Proc, Start(w) \/ Swept(w) \/ TakeLock(w) \/ Refused(w)
                             \/ Check(w) \/ Visit(w) \/ Unlock(w)
                             \/ Drop(w) \/ Crash(w)
      PROVE  status' = status
  BY <1>7 DEF rowVars, Start, Swept, TakeLock, Refused, Check, Visit, Unlock,
     Drop, Crash
<1>8. ASSUME NEW w \in Proc, Work(w) \/ SweepB(w) \/ Drop(w) \/ Crash(w)
      PROVE  Stays
  BY <1>1, <1>5, <1>6, <1>7, <1>8 DEF Work
<1>9. CASE UNCHANGED vars
  BY <1>1, <1>9 DEF vars, rowVars
<1>. QED
  BY <1>1, <1>2, <1>3, <1>4, <1>8, <1>9 DEF Next

\* A proposal that a user may commit, or has committed, is never overwritten
\* by a worker or a sweep.
THEOREM ResultsAreKept == Spec => ResultsStay
<1>1. CrawlInv /\ [Next]_vars
        => [\A j \in Job : /\ status[j] \in Result => status'[j] \in Result
                           /\ status[j] = "committed" => status'[j] = "committed"]_vars
  BY ResultStep DEF Result
<1>. QED
  BY <1>1, CrawlInvariant, PTL DEF Spec, ResultsStay

=============================================================================
