------------------------------ MODULE CrawlJobs ------------------------------
(***************************************************************************)
(* The agentic crawl jobs: rows of web_crawl_jobs, queued by a request,    *)
(* driven by the CrawlWorker of each service process, swept when a worker  *)
(* is gone, committed by the user who submitted them.                      *)
(*                                                                         *)
(* A statement is a step.  A session-level advisory lock on a job is held  *)
(* by the worker that crawls it and dies with its connection.              *)
(***************************************************************************)
EXTENDS Integers, FiniteSets

CONSTANTS
  User, Url,
  Proc,        \* service processes, one CrawlWorker each
  MaxJobs,     \* bound: rows ever inserted; ids and created_at in order
  Cap,         \* PER_USER_CONCURRENT_CAP
  Nobody,
  MaxFaults    \* bound: processes stopped or killed, connections refused or
               \* lost, cancellations by an operator, together

Job == 1 .. MaxJobs
NoJob == 0

ASSUME CrawlAssumption ==
  /\ {MaxJobs, Cap, MaxFaults} \subseteq Nat
  /\ Nobody \notin User \union Proc

VARIABLES
  status,   \* web_crawl_jobs.status, "none" before the INSERT
  owner,    \* submitted_by
  page,     \* start_url
  beating,  \* heartbeat_at is within the timeout
  lock,     \* who holds the advisory lock of a job
  up,       \* the step of each process's worker, "down" when it is not there
  job,      \* the job it has claimed
  outcome,  \* the status it is about to write
  orphans,  \* the running rows its Sweep C has still to test
  asking,   \* the user whose enqueue transaction runs ...
  asked,    \* ... the page it asks for, and ...
  counted,  \* ... the in-flight rows it has counted, -1 before
  faults

rowVars == <<status, owner, page, beating>>
procVars == <<up, job, outcome, orphans>>
askVars == <<asking, asked, counted>>
vars == <<rowVars, lock, procVars, askVars, faults>>

Request == 1 .. 2   \* bound: enqueue requests that overlap

InFlight == {"queued", "running"}
Ended == {"done", "failed", "interrupted", "cancelled"}
Status == {"none"} \union InFlight \union Ended
          \union {"partially_committed", "committed"}

Crawling == {"head", "page"}

TypeOK ==
  /\ status \in [Job -> Status]
  /\ owner \in [Job -> User \union {Nobody}]
  /\ page \in [Job -> Url \union {Nobody}]
  /\ beating \in [Job -> BOOLEAN]
  /\ lock \in [Job -> Proc \union {Nobody}]
  /\ up \in [Proc -> {"down", "sweep", "idle", "claimed", "marking", "unlocking"}
                     \union Crawling]
  /\ job \in [Proc -> Job \union {NoJob}]
  /\ \A w \in Proc : (job[w] = NoJob) = (up[w] \in {"down", "sweep", "idle"})
  /\ outcome \in [Proc -> Ended \union {"none"}]
  /\ orphans \in [Proc -> SUBSET Job]
  /\ asking \in [Request -> User \union {Nobody}]
  /\ asked \in [Request -> Url \union {Nobody}]
  /\ counted \in [Request -> Nat \union {-1}]
  /\ faults \in Nat

Init ==
  /\ status = [j \in Job |-> "none"]
  /\ owner = [j \in Job |-> Nobody] /\ page = [j \in Job |-> Nobody]
  /\ beating = [j \in Job |-> FALSE]
  /\ lock = [j \in Job |-> Nobody]
  /\ up = [w \in Proc |-> "down"]
  /\ job = [w \in Proc |-> NoJob]
  /\ outcome = [w \in Proc |-> "none"]
  /\ orphans = [w \in Proc |-> {}]
  /\ asking = [r \in Request |-> Nobody] /\ asked = [r \in Request |-> Nobody]
  /\ counted = [r \in Request |-> -1]
  /\ faults = 0

-----------------------------------------------------------------------------
(* POST /web/crawl-agentic: one transaction per request.                   *)

\* Fault: the transaction does not take pg_advisory_xact_lock.
AskUnlocked(r, u, url) ==
  /\ asking[r] = Nobody
  /\ asking' = [asking EXCEPT ![r] = u] /\ asked' = [asked EXCEPT ![r] = url]
  /\ UNCHANGED <<rowVars, lock, procVars, counted, faults>>

\* pg_advisory_xact_lock on the user: another request of theirs waits.
Ask(r, u, url) ==
  /\ asking[r] = Nobody
  /\ \A other \in Request : asking[other] # u
  /\ asking' = [asking EXCEPT ![r] = u] /\ asked' = [asked EXCEPT ![r] = url]
  /\ UNCHANGED <<rowVars, lock, procVars, counted, faults>>

InFlightOf(u) == {j \in Job : status[j] \in InFlight /\ owner[j] = u}

Duplicate(r) == \E j \in InFlightOf(asking[r]) : page[j] = asked[r]

\* The SELECT of the in-flight rows, after the one for a duplicate.
Count(r) ==
  /\ asking[r] # Nobody /\ counted[r] = -1
  /\ ~Duplicate(r)
  /\ counted' = [counted EXCEPT ![r] = Cardinality(InFlightOf(asking[r]))]
  /\ UNCHANGED <<rowVars, lock, procVars, asking, asked, faults>>

EndAsk(r) ==
  /\ asking' = [asking EXCEPT ![r] = Nobody]
  /\ asked' = [asked EXCEPT ![r] = Nobody]
  /\ counted' = [counted EXCEPT ![r] = -1]

\* Answered with the in-flight job, refused for a cap (the daily one counts
\* rows of any status), or failed.
Decline(r) ==
  /\ asking[r] # Nobody
  /\ EndAsk(r)
  /\ UNCHANGED <<rowVars, lock, procVars, faults>>

\* The INSERT, unless the unique index on (user, page) refuses it.
Enqueue(r) ==
  /\ asking[r] # Nobody /\ counted[r] \in 0 .. Cap - 1
  /\ ~Duplicate(r)
  /\ \E j \in Job :
       /\ status[j] = "none" /\ \A i \in 1 .. j - 1 : status[i] # "none"
       /\ status' = [status EXCEPT ![j] = "queued"]
       /\ owner' = [owner EXCEPT ![j] = asking[r]]
       /\ page' = [page EXCEPT ![j] = asked[r]]
  /\ EndAsk(r)
  /\ UNCHANGED <<beating, lock, procVars, faults>>

\* POST /web/crawl-jobs/{id}/commit, one transaction holding the row: all of
\* the proposal, or a part of it when an entity failed.
Commit(j) ==
  /\ status[j] \in {"done", "partially_committed"}
  /\ \E s \in {"committed", "partially_committed"} :
       status' = [status EXCEPT ![j] = s]
  /\ UNCHANGED <<owner, page, beating, lock, procVars, askVars, faults>>

\* An operator sets status='cancelled' on a job that has not ended.
Cancel(j) ==
  /\ status[j] \in InFlight /\ faults < MaxFaults
  /\ faults' = faults + 1
  /\ status' = [status EXCEPT ![j] = "cancelled"]
  /\ UNCHANGED <<owner, page, beating, lock, procVars, askVars>>

-----------------------------------------------------------------------------
(* CrawlWorker.                                                            *)

\* start: Sweep C reads the running rows.
Start(w) ==
  /\ up[w] = "down"
  /\ up' = [up EXCEPT ![w] = "sweep"]
  /\ orphans' = [orphans EXCEPT ![w] = {j \in Job : status[j] = "running"}]
  /\ UNCHANGED <<rowVars, lock, job, outcome, askVars, faults>>

\* A row whose lock can be taken is marked; the lock is given back at once.
SweepC(w, j) ==
  /\ up[w] = "sweep" /\ j \in orphans[w]
  /\ orphans' = [orphans EXCEPT ![w] = @ \ {j}]
  /\ status' = [status EXCEPT ![j] =
                  IF lock[j] = Nobody /\ @ = "running" THEN "interrupted" ELSE @]
  /\ UNCHANGED <<owner, page, beating, lock, up, job, outcome, askVars,
                 faults>>

Swept(w) ==
  /\ up[w] = "sweep" /\ orphans[w] = {}
  /\ up' = [up EXCEPT ![w] = "idle"]
  /\ UNCHANGED <<rowVars, lock, job, outcome, orphans, askVars, faults>>

\* Faults: Sweep B reads a heartbeat that the claim never set; it looks at
\* the heartbeat only.
NeverStale(j) == FALSE
OldBeat(j) == status[j] # "none" /\ ~beating[j]

Stale(j) == status[j] = "running" /\ ~beating[j]

\* Sweep B, from any process that runs.
SweepB(w) ==
  /\ up[w] \notin {"down", "sweep"}
  /\ \E j \in Job : Stale(j)
  /\ status' = [j \in Job |-> IF Stale(j) THEN "interrupted" ELSE status[j]]
  /\ UNCHANGED <<owner, page, beating, lock, procVars, askVars, faults>>

\* Ten minutes without a heartbeat.  A crawl that runs is cut after at most
\* SYSTEM_MAX_SECONDS + _HANG_GUARD_BUFFER_S = 390 s, so its row never ages
\* as long as somebody works on it.
Age(j) ==
  /\ beating[j]
  /\ \A w \in Proc : job[w] # j
  /\ beating' = [beating EXCEPT ![j] = FALSE]
  /\ UNCHANGED <<status, owner, page, lock, procVars, askVars, faults>>

Claimable == {"queued"}

\* _claim_one: the oldest queued row, skipping what another claim has locked.
Claim(w) ==
  /\ up[w] = "idle"
  /\ \E j \in Job :
       /\ status[j] \in Claimable
       /\ \A i \in 1 .. j - 1 : status[i] \notin Claimable
       /\ status' = [status EXCEPT ![j] = "running"]
       /\ beating' = [beating EXCEPT ![j] = TRUE]
       /\ job' = [job EXCEPT ![w] = j]
  /\ up' = [up EXCEPT ![w] = "claimed"]
  /\ UNCHANGED <<owner, page, lock, outcome, orphans, askVars, faults>>

\* The dedicated connection is open and pg_advisory_lock has returned.
TakeLock(w) ==
  /\ up[w] = "claimed" /\ lock[job[w]] = Nobody
  /\ lock' = [lock EXCEPT ![job[w]] = w]
  /\ up' = [up EXCEPT ![w] = "head"]
  /\ UNCHANGED <<rowVars, job, outcome, orphans, askVars, faults>>

\* Fault: the worker goes on with a job it has no connection for.
KeepJob(w) ==
  /\ up[w] = "claimed" /\ faults < MaxFaults
  /\ faults' = faults + 1
  /\ up' = [up EXCEPT ![w] = "idle"]
  /\ UNCHANGED <<rowVars, lock, job, outcome, orphans, askVars>>

\* The connection is refused: the job stays running and nobody works on it.
Refused(w) ==
  /\ up[w] = "claimed" /\ faults < MaxFaults
  /\ faults' = faults + 1
  /\ up' = [up EXCEPT ![w] = "idle"]
  /\ job' = [job EXCEPT ![w] = NoJob]
  /\ UNCHANGED <<rowVars, lock, outcome, orphans, askVars>>

End(w, s) == up' = [up EXCEPT ![w] = "marking"] /\ outcome' = [outcome EXCEPT ![w] = s]

\* The connection is lost in the middle of a crawl, and the lock with it.
Drop(w) ==
  /\ up[w] \in Crawling \union {"marking"} /\ lock[job[w]] = w
  /\ faults < MaxFaults
  /\ faults' = faults + 1
  /\ lock' = [lock EXCEPT ![job[w]] = Nobody]
  /\ UNCHANGED <<rowVars, procVars, askVars>>

\* _cancel_check, at the head of the page loop: a lost connection, an
\* operator's cancellation, a spent budget, or the next page after a
\* heartbeat.
Check(w) ==
  /\ up[w] = "head"
  /\ \/ lock[job[w]] # w /\ End(w, "failed") /\ UNCHANGED beating
     \/ /\ lock[job[w]] = w /\ status[job[w]] = "cancelled"
        /\ End(w, "cancelled") /\ UNCHANGED beating
     \/ /\ lock[job[w]] = w /\ status[job[w]] # "cancelled"
        /\ \/ End(w, "done") /\ UNCHANGED beating
           \/ /\ up' = [up EXCEPT ![w] = "page"] /\ UNCHANGED outcome
              /\ beating' = [beating EXCEPT ![job[w]] = TRUE]
  /\ UNCHANGED <<status, owner, page, lock, job, orphans, askVars, faults>>

\* A page is fetched and analysed; the crawl may end with it or fail.
Visit(w) ==
  /\ up[w] = "page"
  /\ \/ up' = [up EXCEPT ![w] = "head"] /\ UNCHANGED outcome
     \/ End(w, "done")
     \/ End(w, "failed")
  /\ UNCHANGED <<rowVars, lock, job, orphans, askVars, faults>>

\* The terminal UPDATE looks at the id only; an exception leaves the row.
Mark(w) ==
  /\ up[w] = "marking"
  /\ \/ status' = [status EXCEPT ![job[w]] = outcome[w]] /\ UNCHANGED faults
     \/ faults < MaxFaults /\ faults' = faults + 1 /\ UNCHANGED status
  /\ up' = [up EXCEPT ![w] = "unlocking"]
  /\ outcome' = [outcome EXCEPT ![w] = "none"]
  /\ UNCHANGED <<owner, page, beating, lock, job, orphans, askVars>>

Unlock(w) ==
  /\ up[w] = "unlocking"
  /\ lock' = [lock EXCEPT ![job[w]] = IF @ = w THEN Nobody ELSE @]
  /\ up' = [up EXCEPT ![w] = "idle"]
  /\ job' = [job EXCEPT ![w] = NoJob]
  /\ UNCHANGED <<rowVars, outcome, orphans, askVars, faults>>

\* The process is killed, or stop() cancels the task: no row is written and
\* the connection is closed.
Crash(w) ==
  /\ up[w] # "down" /\ faults < MaxFaults
  /\ faults' = faults + 1
  /\ up' = [up EXCEPT ![w] = "down"]
  /\ job' = [job EXCEPT ![w] = NoJob]
  /\ outcome' = [outcome EXCEPT ![w] = "none"]
  /\ orphans' = [orphans EXCEPT ![w] = {}]
  /\ lock' = [j \in Job |-> IF lock[j] = w THEN Nobody ELSE lock[j]]
  /\ UNCHANGED <<rowVars, askVars>>

-----------------------------------------------------------------------------

Work(w) ==
  \/ Start(w) \/ Swept(w) \/ Claim(w) \/ TakeLock(w) \/ Refused(w)
  \/ Check(w) \/ Visit(w) \/ Mark(w) \/ Unlock(w)
  \/ \E j \in Job : SweepC(w, j)

Next ==
  \/ \E r \in Request :
       \/ \E u \in User, url \in Url : Ask(r, u, url)
       \/ Count(r) \/ Decline(r) \/ Enqueue(r)
  \/ \E j \in Job : Commit(j) \/ Cancel(j) \/ Age(j)
  \/ \E w \in Proc : Work(w) \/ SweepB(w) \/ Drop(w) \/ Crash(w)

Spec == Init /\ [][Next]_vars

\* A budget ends every crawl: the loop is at its head finitely often.
FairSpec ==
  /\ Spec
  /\ \A w \in Proc : WF_vars(Work(w)) /\ WF_vars(SweepB(w))
                     /\ SF_vars(Check(w) /\ up'[w] = "marking")
  /\ \A j \in Job : WF_vars(Age(j))

-----------------------------------------------------------------------------
(* Properties.                                                             *)

\* No user has more than PER_USER_CONCURRENT_CAP jobs in flight, however
\* their requests overlap each other, the workers and the sweeps.
UserCap == \A u \in User : Cardinality(InFlightOf(u)) =< Cap

Result == {"done", "partially_committed", "committed"}

\* A result that a user may be committing is never taken away from them, and
\* what they committed stays committed: no worker that comes late, was swept
\* while alive, or was told to cancel, writes the row again.
ResultsStay ==
  [][\A j \in Job : /\ status[j] \in Result => status'[j] \in Result
                    /\ status[j] = "committed" => status'[j] = "committed"]_vars

\* A job does not stay in flight for ever, whatever its worker met: sweeps
\* free the page and the user's slot.
JobsEnd == \A j \in Job : status[j] = "queued" ~> status[j] \notin InFlight

\* "Acquired -> prior holder is dead": Sweep C interrupts no job that a live
\* worker has claimed.
SweepsTheDead ==
  [][\A j \in Job : status[j] = "running" /\ status'[j] = "interrupted"
       => \A w \in Proc : job[w] # j]_vars

\* A job an operator cancelled does not come out as done.
CancelledStays == [][\A j \in Job : status[j] = "cancelled"
                                      => status'[j] = "cancelled"]_vars

===============================================================================
