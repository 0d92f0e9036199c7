---------------------------- MODULE CommonsIntake ----------------------------
(***************************************************************************)
(* The commons intake: shares that peers addressed to the commons, decided *)
(* on by an administrator, ingested by the CommonsIngestWorker of one of   *)
(* the service processes, with the merges nobody could decide              *)
(* automatically put to the administrator.                                 *)
(*                                                                         *)
(* The relationships, the provenance and the candidates of a share are     *)
(* written in one transaction; its status is written by statements of      *)
(* their own.  An entity that is new gets a URI and no row of the registry *)
(* (resolve_entity makes the URI, its other callers insert the row).       *)
(***************************************************************************)
EXTENDS Integers, FiniteSets

CONSTANTS
  Share,
  Candidate,     \* ambiguous matches that a share can give rise to
  Worker,        \* service processes
  MaxRetries,    \* MAX_RETRIES
  Nobody, NoShare,
  MaxDecisions,  \* bound: decisions of the administrator
  MaxFailures    \* bound: processes stopped, statements that raise

ASSUME IntakeAssumption ==
  /\ {MaxRetries, MaxDecisions, MaxFailures} \subseteq Nat
  /\ Nobody \notin Worker /\ NoShare \notin Share

VARIABLES
  status,     \* intake_status, "none" before the share arrives
  retracted,  \* status = 'retracted'
  retries,    \* retry_count
  due,        \* next_retry_at has passed
  late,       \* ingest_started_at is longer ago than the lease
  written,    \* a transaction of its ingestion has been committed
  found,      \* koi_commons_merge_candidates of the share ...
  open,       \* ... and those with no resolution
  lock,       \* who holds the advisory lock
  at,         \* the step of each worker; the lock is held at all but "out"
  share,      \* what it has claimed
  again,      \* history: how often a failed share was claimed
  aborted,    \* history: shares of which a transaction was aborted unseen
  decisions, failures

shareVars == <<retracted, retries, due, late>>
mergeVars == <<written, found, open, aborted>>
workerVars == <<lock, at, share, again>>
boundVars == <<decisions, failures>>
vars == <<status, shareVars, mergeVars, workerVars, boundVars>>

Status == {"none", "staged", "approved", "ingesting", "needs_merge_review",
           "ingested", "failed", "rejected"}

TypeOK ==
  /\ status \in [Share -> Status]
  /\ retracted \in [Share -> BOOLEAN]
  /\ retries \in [Share -> Nat]
  /\ due \in [Share -> BOOLEAN]
  /\ late \in [Share -> BOOLEAN]
  /\ written \in [Share -> BOOLEAN]
  /\ found \in [Share -> SUBSET Candidate]
  /\ open \in [Share -> SUBSET Candidate]
  /\ \A s \in Share : open[s] \subseteq found[s]
  /\ lock \in Worker \union {Nobody}
  /\ at \in [Worker -> {"out", "ready", "ingest", "stored", "review", "failed"}]
  /\ share \in [Worker -> Share \union {NoShare}]
  /\ \A w \in Worker : share[w] = NoShare <=> at[w] \in {"out", "ready"}
  /\ again \in [Share -> Nat]
  /\ aborted \subseteq Share
  /\ {decisions, failures} \subseteq Nat

Init ==
  /\ status = [s \in Share |-> "none"]
  /\ retracted = [s \in Share |-> FALSE]
  /\ retries = [s \in Share |-> 0]
  /\ due = [s \in Share |-> FALSE] /\ late = [s \in Share |-> FALSE]
  /\ written = [s \in Share |-> FALSE]
  /\ found = [s \in Share |-> {}] /\ open = [s \in Share |-> {}]
  /\ lock = Nobody
  /\ at = [w \in Worker |-> "out"]
  /\ share = [w \in Worker |-> NoShare]
  /\ again = [s \in Share |-> 0]
  /\ aborted = {}
  /\ decisions = 0 /\ failures = 0

Set(s, new) == status' = [status EXCEPT ![s] = new]

-----------------------------------------------------------------------------
(* The poller and the administrator.                                       *)

\* A commons share is persisted once, staged or, with automatic approval,
\* approved.
Persist(s) ==
  /\ status[s] = "none"
  /\ \E new \in {"staged", "approved"} : Set(s, new)
  /\ UNCHANGED <<shareVars, mergeVars, workerVars, boundVars>>

\* A FORGET of the document.
Retract(s) ==
  /\ status[s] # "none" /\ ~retracted[s]
  /\ retracted' = [retracted EXCEPT ![s] = TRUE]
  /\ UNCHANGED <<status, retries, due, late, mergeVars, workerVars, boundVars>>

\* A decision asks whether the share is retracted, not where it stands.
Decide(s) ==
  /\ status[s] # "none" /\ ~retracted[s]
  /\ decisions < MaxDecisions /\ decisions' = decisions + 1
  /\ \E new \in {"approved", "rejected"} : Set(s, new)
  /\ UNCHANGED <<shareVars, mergeVars, workerVars, failures>>

\* Some candidates are resolved, in one transaction; when none is left open a
\* share in review is ingested.
Resolve(s) ==
  /\ \E c \in SUBSET open[s] :
       open' = [open EXCEPT ![s] = @ \ c]
  /\ IF open'[s] = {} /\ status[s] = "needs_merge_review"
     THEN Set(s, "ingested") ELSE UNCHANGED status
  /\ UNCHANGED <<shareVars, written, found, aborted, workerVars, boundVars>>

-----------------------------------------------------------------------------
(* CommonsIngestWorker.                                                    *)

\* Fault: every process ingests.
NoSingleton(w) ==
  /\ at[w] = "out"
  /\ lock' = w
  /\ at' = [at EXCEPT ![w] = "ready"]
  /\ UNCHANGED <<status, shareVars, mergeVars, share, again, boundVars>>

TakeLock(w) ==
  /\ at[w] = "out" /\ lock = Nobody
  /\ lock' = w
  /\ at' = [at EXCEPT ![w] = "ready"]
  /\ UNCHANGED <<status, shareVars, mergeVars, share, again, boundVars>>

\* Fault: retry_count is not looked at.
AlwaysClaimable(s) ==
  \/ status[s] = "approved"
  \/ status[s] = "failed" /\ due[s]

Claimable(s) ==
  \/ status[s] = "approved"
  \/ status[s] = "failed" /\ retries[s] < MaxRetries + 1 /\ due[s]

Claim(w, s) ==
  /\ at[w] = "ready" /\ Claimable(s)
  /\ Set(s, "ingesting")
  /\ late' = [late EXCEPT ![s] = FALSE]
  /\ again' = [again EXCEPT ![s] = IF status[s] = "failed" THEN @ + 1 ELSE @]
  /\ at' = [at EXCEPT ![w] = "ingest"] /\ share' = [share EXCEPT ![w] = s]
  /\ UNCHANGED <<retracted, retries, due, mergeVars, lock, boundVars>>

Release(w) == lock' = IF lock = w THEN Nobody ELSE lock

\* Nothing to claim: the lock is released until the next round.
Rest(w) ==
  /\ at[w] = "ready" /\ \A s \in Share : ~Claimable(s)
  /\ Release(w) /\ at' = [at EXCEPT ![w] = "out"]
  /\ UNCHANGED <<status, shareVars, mergeVars, share, again, boundVars>>

Written(w, c) ==
  /\ written' = [written EXCEPT ![share[w]] = TRUE]
  /\ found' = [found EXCEPT ![share[w]] = @ \union c]
  /\ open' = [open EXCEPT ![share[w]] = @ \union (c \ found[share[w]])]

\* Fault: the status is due whether the transaction was committed or raised.
StoreOrNot(w) ==
  /\ at[w] = "ingest"
  /\ \E c \in SUBSET Candidate :
       /\ Written(w, c) \/ UNCHANGED <<written, found, open>>
       /\ at' = [at EXCEPT ![w] = IF c = {} THEN "stored" ELSE "review"]
  /\ UNCHANGED <<status, shareVars, aborted, lock, share, again, boundVars>>

\* The transaction: the share's relationships and their provenance, and the
\* ambiguous matches as candidates; one that is already there keeps its
\* resolution.  A share with nothing to write has nothing missing.
Store(w) ==
  /\ at[w] = "ingest"
  /\ \E c \in SUBSET Candidate :
       /\ Written(w, c)
       /\ at' = [at EXCEPT ![w] = IF c = {} THEN "stored" ELSE "review"]
  /\ UNCHANGED <<status, shareVars, aborted, lock, share, again, boundVars>>

\* A statement failed and its exception was swallowed: a relationship of an
\* entity that has no row in the registry, or assertion_history where there is
\* no such table.  The statements after it fail too.  The insert of a candidate
\* then raises; without one the server turns the COMMIT into a rollback and
\* nobody is told.
Abort(w) ==
  /\ at[w] = "ingest"
  /\ \/ /\ at' = [at EXCEPT ![w] = "stored"]
        /\ aborted' = aborted \union {share[w]}
     \/ at' = [at EXCEPT ![w] = "failed"] /\ UNCHANGED aborted
  /\ UNCHANGED <<status, shareVars, written, found, open, lock, share, again,
                 boundVars>>

\* Fault: a failure puts the worker back to its claims, the share in hand.
RaiseEarly(w) ==
  /\ at[w] \in {"ingest", "stored", "review"} /\ failures < MaxFailures
  /\ failures' = failures + 1
  /\ at' = [at EXCEPT ![w] = "ready"]
  /\ UNCHANGED <<status, shareVars, mergeVars, lock, share, again, decisions>>

\* The transaction, or the status update after it, raised.
Raise(w) ==
  /\ at[w] \in {"ingest", "stored", "review"} /\ failures < MaxFailures
  /\ failures' = failures + 1
  /\ at' = [at EXCEPT ![w] = "failed"]
  /\ UNCHANGED <<status, shareVars, mergeVars, lock, share, again, decisions>>

\* Back to the next claim.
Proceed(w) ==
  /\ at' = [at EXCEPT ![w] = "ready"] /\ share' = [share EXCEPT ![w] = NoShare]
  /\ UNCHANGED <<lock, again>>

\* _mark_ingested, _mark_needs_merge_review: by id, whatever the status is.
MarkStored(w) ==
  /\ at[w] \in {"stored", "review"}
  /\ Set(share[w], IF at[w] = "stored" THEN "ingested" ELSE "needs_merge_review")
  /\ Proceed(w)
  /\ UNCHANGED <<shareVars, mergeVars, boundVars>>

Fail(S) ==
  /\ status' = [s \in Share |-> IF s \in S THEN "failed" ELSE status[s]]
  /\ retries' = [s \in Share |-> IF s \in S THEN retries[s] + 1 ELSE retries[s]]
  /\ due' = [s \in Share |-> IF s \in S THEN FALSE ELSE due[s]]
  /\ UNCHANGED <<retracted, late>>

\* _mark_failed.
MarkFailed(w) ==
  /\ at[w] = "failed"
  /\ Fail({share[w]}) /\ Proceed(w)
  /\ UNCHANGED <<mergeVars, boundVars>>

\* The process stops or is killed.  The worker goes on, here or elsewhere.
Stop(w) ==
  /\ at[w] # "out" /\ failures < MaxFailures
  /\ failures' = failures + 1
  /\ Release(w)
  /\ at' = [at EXCEPT ![w] = "out"] /\ share' = [share EXCEPT ![w] = NoShare]
  /\ UNCHANGED <<status, shareVars, mergeVars, again, decisions>>

-----------------------------------------------------------------------------
(* Time.                                                                   *)

\* An ingestion takes longer than the lease, or has been abandoned.
LeaseEnds(s) ==
  /\ status[s] = "ingesting" /\ ~late[s]
  /\ late' = [late EXCEPT ![s] = TRUE]
  /\ UNCHANGED <<status, retracted, retries, due, mergeVars, workerVars,
                 boundVars>>

\* Fault: the reaper finds nothing.
NeverOverdue == {}

Overdue == {s \in Share : status[s] = "ingesting" /\ late[s]}

\* _stale_lease_reaper, of any process.
Reap ==
  /\ Overdue # {}
  /\ Fail(Overdue)
  /\ UNCHANGED <<mergeVars, workerVars, boundVars>>

BackoffEnds(s) ==
  /\ status[s] = "failed" /\ ~due[s]
  /\ due' = [due EXCEPT ![s] = TRUE]
  /\ UNCHANGED <<status, retracted, retries, late, mergeVars, workerVars,
                 boundVars>>

-----------------------------------------------------------------------------

Work(w) ==
  \/ TakeLock(w) \/ Rest(w) \/ \E s \in Share : Claim(w, s)
  \/ Store(w) \/ Abort(w) \/ MarkStored(w) \/ MarkFailed(w)

Next ==
  \/ \E s \in Share :
       \/ Persist(s) \/ Retract(s) \/ Decide(s) \/ Resolve(s)
       \/ LeaseEnds(s) \/ BackoffEnds(s)
  \/ \E w \in Worker : Work(w) \/ Raise(w) \/ Stop(w)
  \/ Reap

Spec == Init /\ [][Next]_vars

\* The workers and the reapers run on; a process that is stopped is started
\* again, and time passes.
FairSpec ==
  /\ Spec
  /\ \A w \in Worker : WF_vars(Work(w))
  /\ WF_vars(Reap)
  /\ \A s \in Share : WF_vars(LeaseEnds(s)) /\ WF_vars(BackoffEnds(s))

-----------------------------------------------------------------------------
(* Properties.                                                             *)

\* No share is ingested by two workers at once, although the reaper gives a
\* slow ingestion up while its worker goes on with it.
NoDoubleIngest ==
  \A v, w \in Worker : v # w /\ share[v] = share[w] => share[v] = NoShare

\* "retry, up to 3x": a failed share is claimed again MAX_RETRIES times at
\* most, whether workers fail, vanish or are given up by the reaper.
RetriesAreBounded == \A s \in Share : again[s] =< MaxRetries

\* A share in review has been written and has candidates; one that is ingested
\* has been written, whatever was raised, stopped or given up by the reaper,
\* unless a transaction of its own was aborted unseen.
IngestedIsWritten ==
  \A s \in Share :
    /\ status[s] = "needs_merge_review" => written[s] /\ found[s] # {}
    /\ status[s] = "ingested" => written[s] \/ s \in aborted

\* An approved share is settled: ingested, in review, rejected after all, or
\* given up after its retries.
Settled(s) ==
  \/ status[s] \in {"ingested", "needs_merge_review", "rejected"}
  \/ status[s] = "failed" /\ retries[s] > MaxRetries
SettledInTheEnd == \A s \in Share : status[s] = "approved" ~> Settled(s)

\* "rejected = terminal": only a decision takes a share out of it.
RejectedIsTerminal ==
  [][\A s \in Share : status[s] = "rejected" /\ decisions' = decisions
                        => status'[s] = "rejected"]_vars

\* "When all candidates are resolved, the share transitions to 'ingested'."
ReviewHasWork ==
  \A s \in Share : status[s] = "needs_merge_review" => open[s] # {}

===============================================================================
