# Verification of the KOI processor

TLA+ modules for the parts of the KOI processor in which processes, peers and
background workers share state: the event queue between nodes, the two ways
its events travel, the vault synchronisation built on it, two kinds of
background job driven from a database table, the claims that are anchored on an
external ledger, and the merging of entities and its undoing. Safety and
liveness are checked by TLC on small instances; the delivery protocol, the vault
scan and synchronisation, the crawl jobs, the commons intake, the anchoring of
claims and the merging of entities are also proved for any number of peers,
files, processes, calls, transactions and merges: every safety property that a
passing run checks is stated by a theorem.

`tlc -workers 2 -config X.cfg M` runs a model, `tlapm M.tla` checks a module of
proofs. Paths below are relative to `src/api/` unless they say otherwise.

## 1. The system

A node is one FastAPI process (`personal_ingest_api.py`) over one PostgreSQL
database, with asyncio background tasks. Between two `await`s a coroutine is
atomic; between two statements anything else may run, in this process or in
another one on the same database. Nodes talk HTTP, with signed envelopes.

| component | state | operations | talks to | models |
|---|---|---|---|---|
| event queue (`event_queue.py`) | table `koi_net_events`: event, target, `delivered_to`, `confirmed_by`, `expires_at` | `add`, `poll`, `confirm`, `peek_undelivered`, `mark_delivered`, `cleanup` | router, poller, vault sync | `EventQueue` |
| router (`koi_net_router.py`) | `koi_net_nodes`, `koi_net_edges`, `koi_shared_documents` | handshake, approve, reject, revoke, poll, confirm, broadcast, commons decide / resolve-merges, manifests, bundles | peers' pollers, queue, intake worker | `PollDelivery`, `WebhookPush`, `CommonsIntake` |
| poller (`koi_poller.py`) | cursor and back-off per peer, in memory | poll a peer, process a batch in order, confirm it; push to WEBHOOK subscribers | peers' routers, domain handlers, vault sync | `PollDelivery`, `WebhookPush` |
| vault sync (`vault_sync.py`) | the files, `vault_sync_state`, `vault_sync_applied_events`, an in-memory stat cache, `_write_lock` | two-phase scan, `apply_event`, reconcile (detect, repair), forwarding | queue, poller, people's editors | `VaultScan`, `VaultSync` |
| crawl jobs (`crawl_worker.py`, `routers/web_router.py`) | `web_crawl_jobs`, a session advisory lock per job | enqueue, commit, claim, page loop with heartbeat, terminal update, sweeps B and C | users' requests, several service processes | `CrawlJobs` |
| commons intake (`commons_ingest_worker.py`) | `koi_shared_documents.intake_status`, retry counters, lease, merge candidates, a singleton advisory lock | claim, ingest, terminal updates, reaper; decide and resolve on the router's side | operators, entity tables | `CommonsIntake` |
| domain replication (`domain_event_handlers.py`) | mirrored domain rows, `federation_applied_events` | one handler per event type, deferral on a missing foreign key | poller, entity registry | `EntityMerge` (document links, facts); the others planned |
| claims and anchoring (`routers/claims_router.py`, `ledger_anchor.py`) | `claims`, `claim_attestations` with a verdict, a transaction hash and a timestamp | create, attest, verify (the ladder), prepare, anchor, reconcile, for claims and attestations | ledger CLI, reviewers | `ClaimContract`, `ClaimLedger` |
| commitments, intents, tasks | rows with a status | transition tables | router | planned |
| entity merge and reversal (`routers/admin_router.py`, `merge_reversal.py`, migrations 101, 118, 132) | `entity_registry.merged_into`, aliases, `entity_merge_log`, every table that names an entity | merge, retype, unmerge; a trigger redirects links, and only links, to the live entity | administrators, ingestion, domain replication | `EntityMerge` |
| deep-extract leases, discourse jobs, TerminusDB outbox | lease and outbox rows | acquire, renew, drain | scripts, TerminusDB | planned |
| ingestion and knowledge routers; sensors, parsing; retrieval, embeddings; envelopes, E2EE | — | one request, one statement or pure data | — | not modelled (section 8) |

### How they interact

`vault_sync` and the routers `add` events to the local queue. A peer with an
approved POLL edge asks `/koi-net/events/poll`; the answer is processed event by
event by its poller, which applies vault events, domain events or shared
documents, and then confirms those that raised no exception. A peer with a
WEBHOOK edge is sent a batch, which its `broadcast` endpoint adds to its *own*
queue. Shared documents land in `koi_shared_documents`, where an operator
decides and the intake worker ingests. A claim climbs a ladder as its reviewers
attest to it; once verified it is anchored by a command-line client of the Regen
ledger, which is asked for the transaction for half a minute and may be asked
again later (reconcile). An administrator merges entities that are one, or gives
an entity another type, which changes its URI; documents of this node and links
replicated from peers go on naming the old one, and so do facts.

### What is hard here, and what must hold

`PROJECT.json` lists the hazards with their lines. In groups:

* **Two statements where one is meant.** `poll` selects and then marks; the
  crawl worker claims and then locks; intake commits merge candidates and then
  the status that makes them reviewable; a vault scan writes a row and then
  queues its event; a merge is checked, and then its transaction begins.
* **State read before an await and used after it.** The caches and absences of
  the vault scan, the row an incoming update is compared with, an edge's types
  at poll time, terminal updates that look at an id only: those of the workers,
  and what an anchoring call records a minute after it read the claim.
* **Answers that are lost, late or doubled.** A request that outlives its
  client, an event marked delivered whose reply never came, a push that was
  received and not acknowledged, an event that comes back to its author over a
  third node, a transaction whose hash nobody has noted.
* **Undoing.** What a merge has rewired, folded, minted or revived is undone from
  what it recorded of it, after other merges and other writers have come.
* **Crashes and exceptions between two steps**, of which the leases, sweeps and reapers are the
  cure, and which they can mistake for slowness.
* **Limits.** The LIMIT of a poll filled by rows its reader may not see; the
  caps of a scan; the per-user cap of the crawl jobs.

| component | what makes it correct |
|---|---|
| delivery by polling | an event is processed at most once per peer, in queue order, within the types its approved edge declared when it asked; a confirmation is true; no visible event starves |
| delivery by push | a row is marked only when the subscriber holds it; the head of a queue is delivered over a network that heals |
| vault scan | a scan forgets only what is absent; what the cache hides is recorded; what is recorded is told; edits reach the peers |
| vault sync | no recorded version is lost; a deletion is asked for only where a person deleted; removed files stay removed while rows follow files; nodes converge |
| crawl jobs | the user's cap; committed is final and results stay; every job ends |
| commons intake | no share is ingested twice at once; retries are bounded; what is called ingested was written; every approved share is settled |
| claims | what is recorded as confirmed is on the ledger; only verified claims and final verdicts on anchored claims are sent there; the ladder is climbed step by step and anchored is for good |
| entity merge | mentions are neither lost nor doubled; no link names a tombstone; tombstones lead to a live entity that is found by their names; undone last first, a merge is undone exactly |

## 2. Modules

| module | models | variables ↔ code |
|---|---|---|
| `EventQueue` | the queue's table and each method as one operator or action; constants and predicates shared by the two delivery modules | `rows`, `expired`, `queuedAt`, `deliveredTo`, `confirmedBy` ↔ the rows and their columns |
| `DeliveryContract` | abstract: what a reader may rely on, *at most once* | — |
| `PollDelivery` | a node's router and queue, and the pollers of its peers | handler per `Slot` ↔ a poll request under way between its SELECT and its UPDATE; the batch ↔ `_poll_peer`'s loop |
| `WebhookPush` | the publisher's push loop and the subscriber's `broadcast` | requests under way, strays ↔ those that outlive a client timeout |
| `VaultScan` | one node, several files: walk, caps, stat cache, deletion guards, reconcile repair | `disk`, `row`, `cached`, the pass's own variables |
| `VaultSync` | one file, several nodes: edits, removals, apply, conflict copies, forwarding | `disk`, `row`, `cached`, `scan`, `apply`, `queue`, `applied` |
| `CrawlJobs` | enqueue, commit, worker, sweeps, several processes | `status`, `owner`, `page`, `beating` ↔ columns; `lock` ↔ the advisory lock |
| `CommonsIntake` | operator endpoints, worker, reaper | `intake_status` and its companions ↔ columns |
| `ClaimContract` | abstract: the ladder of a claim, what the ledger has, what is recorded as confirmed | — |
| `ClaimLedger` | one claim, its attestations, the ledger and the calls that go there | `level`, `verdict`, `tx`, `stamped` ↔ columns; `call` ↔ a request between its statements; `chain` ↔ the ledger |
| `EntityMerge` | the registry under merge, retype, unmerge, with ingestion and replicated links beside them | `merged` ↔ `merged_into`; `links`, `facts` ↔ rows in the order of their ids; `log` ↔ `entity_merge_log` |
| `PollDeliveryProofs`, `WebhookPushProofs`, `VaultScanProofs`, `VaultSyncProofs`, `CrawlJobsProofs`, `CommonsIntakeProofs`, `ClaimLedgerProofs`, `EntityMergeProofs` | the theorems | — |
| `MC…` | model values, small instances and symmetry sets for TLC | — |

Composition: `PollDelivery` and `WebhookPush` extend `EventQueue`. `VaultSync`
relies on what `PollDelivery` proves and shows: its queues are FIFO, hand an
event over at most once, and may lose it (`Lose`) because a failed event is not
delivered again. `VaultScan` and `VaultSync` cut the same code in two: the
first keeps every file of one node and hides the network, the second keeps the
network and has one file, without caps. `ClaimLedger` implements `ClaimContract`,
as `PollDelivery` implements `DeliveryContract`.

Definitions commented "Fault: …" are variants of an operation with a plausible
mistake in it (a dropped guard, a swapped order). No specification uses them:
putting one in the place of its original shows that a property is able to fail.
They stand beside what they vary.

### Correspondence, module by module

**PollDelivery.** `Handshake`, `ReviewEdge`, `EditTypes` and `RevokeEdge` are the life
of the edge over which a peer polls this node, `edge` its status and `ridTypes` its
types. Every handshake writes the types again, whatever the status: what this
node's own profile provides (`Provided`, `koi_net_router.py:855`,
`node_identity.py:222`), not what the peer says, which goes to the edge of the
opposite direction. Operators narrow and revoke edges by hand, as the runbooks
tell them to. `declared` records what an approved edge declared when a request was
read. `Publish`, `Age`, `CleanUp` are `add`, the passing of `expires_at` and the
retention job. A poll is three steps: `PollArrive` reads the edge, `PollSelect`
is the SELECT with LIMIT, `PollMark` the UPDATE of the rows that survived the
type filter, together with the reply. `live` tells whether somebody still waits
for the reply: a client that timed out (`PollFails`) leaves its handler running.
`Receive`, `Process`, `Confirm`, `ConfirmFails` are `_poll_peer`; `PeerCrash` and
`ServerCrash` restart either side. Type names are model values; a scope is a set
of them.

**WebhookPush.** `Push` peeks and sends, `Answer` is the subscriber's add with a
count of what it queued, `Finish` marks the whole batch if that count is full,
`PushFails` is a timeout or an error; a request still in the network arrives
later (`StrayArrives`).

**VaultScan.** Phase 1 is `StartScan` and one `Visit` per file (stat skip, read,
collect, cap; a file may be overlooked by the walk). `TakeLock` begins phase 2:
`Record` and `Tell` per collected file, `StartDeletions` after the guards,
`Forget` per missing file. `Detect`, `RepairRead`, `RepairWrite`, `RepairTell` are
`reconcile(mode="repair")`, which takes the lock per file. `Restart` empties the
cache; `ScanFails` and `RepairFails` are exceptions.

**VaultSync.** A version is its own hash and always new. `ScanRead` / `ScanRecord`
/ `ScanTell` are the scan for one file; `Receive`, `Decide`, `ApplyRow`,
`ApplyStat`, `ApplyRecord`, `Forward` are `apply_event` cut at its awaits:
disk, row, cache and applied-table are written one after the other, under the
lock, and forwarding is after it. A conflict copy may overwrite the latest one
when both are made within a second. Failures are actions of their own: `Crash`
(restart), `ApplyRaises` (an exception at any await of an application: the poller
logs it, goes on, and the event is not offered again), `ScanRaises`, and
`UnlinkFails` (a deletion whose unlink raises is logged and its row tombstoned all
the same, `vault_sync.py:1812`). `torn` names the nodes at which one of them has parted
the file from its row.

**CrawlJobs.** `Ask`, `Count`, `Decline`, `Enqueue` are the statements of the
enqueue transaction, under the user's transaction lock; `Claim`, `TakeLock`,
`Check`, `Visit`, `Mark`, `Unlock` the worker; `Start`, `SweepC`, `Swept` the
start-up sweep, row by row; `SweepB` the heartbeat sweep; `Refused` and `Drop` a
connection refused or lost; `Crash` a kill or `stop()`, neither of which writes
the row. `Age` is the ten-minute heartbeat timeout: it waits until nobody works
on the job because a crawl is cut after at most 300 s + 90 s
(`SYSTEM_MAX_SECONDS`, `_HANG_GUARD_BUFFER_S`).

**CommonsIntake.** `Persist`, `Retract`, `Decide`, `Resolve` are the router's;
`TakeLock`, `Claim`, `Rest`, `Store`, `MarkStored`, `MarkFailed`, `Raise`, `Stop` the
worker. What `Store` writes are relationships, provenance and merge candidates. An
entity that is new gets a URI and no row: `resolve_entity`
(`personal_ingest_api.py:1945`) only makes the URI, and this worker, unlike its other
callers, inserts nothing, although its comments say `resolve_entity` has
(`commons_ingest_worker.py:184`, `:214`). `Abort` is an exception swallowed inside the
transaction, of which a relationship that names such an entity is one (it breaks
the foreign keys of migration 032): the COMMIT then is a rollback, unless the share
has candidates, whose insert fails it; `LeaseEnds`, `Reap`, `BackoffEnds` are the lease and the retry
schedule.

**ClaimLedger.** `Exempt` tells whether the claim is from before the attestation
policy, which then asks for no approvals (`routers/claims_router.py:505`). `Create`, `Review`, `Verify` and `PrepareAnchor` are requests of
one transaction. A request to anchor is `ReadClaim` (or `ReadReview`, for
`anchor_attestation` and `attest_onchain`, whose guards are the same), `Broadcast`,
`Poll`, and one of `RecordLate`, `RecordClaim`, `RecordReview`, between which the
database is free; a request to reconcile is `ReadTx`, `Query`, and one of `Clear`,
`FinishClaim`, `FinishReview`. `Broadcast` may lose its answer: the ledger then has a
transaction that no row names. `Abandon` ends a call with whatever it knew, and
`Execute` is the ledger. A transaction carries the item and what the item said
when it was read.

**EntityMerge.** `CheckMerge` and `CheckRetype` are what a request reads before its
transaction begins, `Merge` and `Retype` that transaction: `DoMerge` with `Capture`
before it and the log entry after it, and in a retype the three branches (the URI
of the new type is a live entity, is free and is minted, is a tombstone of this
entity and is revived). `Unmerge` is a transaction of its own, `PutBack` what becomes
of the survivor of a retype. `Mention`, `ApplyDoclink`, `AddFact` and `ApplyFact` are
the other writers. `Link` goes through the trigger, which is `LiveOf`. Facts go through
none: this node's writer inserts what it resolved before it waited for an embedding
(`routers/knowledge_router.py:989`, `:1049`, `:1149`), so `AddFact` takes an entity that
may be a tombstone by then, and `ApplyFact` takes whatever a peer names
(`domain_event_handlers.py:780`).

## 3. Runs

Bounds are constants of the modules and named in the `.cfg` files.

| run | asks | instance |
|---|---|---|
| `poll_peers` | true confirmations, confinement and order on a shared queue with failed polls, a crash, handshakes at any time, and an edge that is emptied or revoked | 2 peers, 2 events, LIMIT 1, strict, one edit or revocation, one crash; ≈1.8 M states |
| `poll_overlap` | at most once, order, the contract and no starvation, with requests that overlap | 1 peer, 3 events with an excluded one in the middle, 2 handlers, LIMIT 2; ≈0.7 M |
| `push` | a mark is a receipt; the head of the queue is received | 2 subscribers, 3 events, two for the first subscriber alone and one of these excluded, LIMIT 2, 1 stray request; ≈32 k |
| `scan_turns` | what is recorded is told, scans and a repair taking turns with the lock | 2 files, 2 contents, caps of 1, one failure, repair and hiccup each; ≈4.9 M |
| `scan_live` | what the cache hides is recorded; edits and removals reach the peers | 2 files, 2 contents, caps that suffice, a hiccup, a restart; ≈0.1 M |
| `vault_keep` | no recorded version is lost, forgets are earned, removed stays removed | 2 nodes with people on both, 3 versions, a removal, a loss, 2 failures of any kind; ≈1.2 M |
| `vault_line` | a line of nodes converges | 3 nodes, one author, 3 versions, 2 removals; ≈53 k |
| `crawl` | the user's cap, kept results, every job ends | 2 jobs, 2 processes, 2 requests, cap 1, 2 faults of any kind; ≈0.9 M |
| `intake` | one ingestion at a time, bounded retries, ingested is written, every approved share is settled | 1 share, 2 candidates, 2 workers, 2 decisions, 3 failures, any number of aborted transactions; ≈0.3 M |
| `claims` | confirmations are true, only what is due is sent, the contract | a claim exempt from the policy, which may take every step of one that is not, 2 reviewers, 2 calls at once, 3 transactions; ≈0.7 M |
| `merge` | mentions, links to live entities, tombstones, undoing, finding by name | an entity, the same under another type and a third, 1 document, 2 mentions, 1 event of a peer, 1 fact, 4 merges or retypes, one call at a time; ≈1.8 M |

**Why these bounds.** Each interleaving the properties speak of needs two actors
over one object: two handlers of one peer, two processes and one job, a scan and
a repair over one file, two nodes. The third event, node or version is there
where order or forwarding matters: three events under LIMIT 2 put one of them
behind the limit; a relay passes on what is not its own; three versions are a
common one and one written on each side of it. `MaxRetries = 1`, against 3 in the
code, reaches the limit and only saves repetitions of the same step. Caps of 1
over 2 files bite at each boundary. The ladder asks for two approvals where it asks for any; two calls
are what it takes to overwrite each other, and the third transaction is the one
whose answer was lost. Four merges of three URIs are enough to merge into a
survivor, merge it on, retype it back and revive a tombstone; with three URIs a
chain has two hops, so that `MaxMergeChain = 3` cuts none short, as the ten of the
trigger do not; circles, on which both give up, are beyond the hypothesis of
`ResolvesToLive`. For safety the proofs
(section 5) remove the bounds altogether, and they cover the policy without
strict edges too.

`RecordedIsTold`, `SkippedIsRecorded`, `PeersLearn`, `RemovedStaysRemoved` and
`IngestedIsWritten` name what they hold up to (a failure; a failure or a repair; a
restart; a failure that parts a file from its row, or a deletion whose unlink fails;
a transaction of the share rolled back unseen). `LinksNameLive` and `ResolvesToLive` are
claimed until a revived survivor is put back (`RevivedIsKept`), `UndoIsExact` and
`Findable` as long as merges are undone last first; of the rows only those folded
into another are excepted. The code does not keep them beyond that, as the next
section says.

**Deadlock** checking is off in every configuration: all counters of edits,
crashes and failures are bounded, and a system with nothing left to publish,
crawl or ingest rightly stops. That something must still happen is asked by the
liveness properties instead.

**Symmetry** is used in `scan_turns` (files, contents), `vault_keep` (the two nodes)
and `claims` (reviewers, calls, transactions) only, over sets nothing orders and
no instance tells apart, and never with a liveness property.

### Where the code does not do what it says

The run `poll_redeliver` checks a sentence of the repository and finds a behaviour
of the code against it: a failed event is said to be delivered again
(`koi_poller.py:627`), but it is in `delivered_to`, which is all that `poll` filters
by.

The models show more of the kind. Each row is a counterexample of five to
twenty-five states that TLC finds within seconds when the property is put in the
place of those of the module's run and the constants are changed as named. They
are kept here and not among the runs, so that the runs stay those that guard the
code.

| property, instance | what happens |
|---|---|
| `RetryDelivers` in `push`, `MaxStrays = 0` | an event the subscriber has does not count as queued, so after one lost answer a batch is retried until it expires (`koi_poller.py:373`) |
| `SkippedIsRecorded` in `scan_live`, `MaxFiles = 1`, `Content <- OneContent` | a file at which a cap bites is cached and not collected (`vault_sync.py:1369`) |
| `TombstonesAreTrue` in `scan_live`, `Spec`, `MaxRepairs = 1` | a repair confirms an absence before it waits for the lock; a file that is back by then is tombstoned (`vault_sync.py:1218`, `:1702`) |
| `NarrowingLasts` in `poll_peers` | an operator narrows an approved edge (`docs/operations/vault-sync-re-enable-runbook.md:352`), and the peer's next handshake puts this node's own provided types back on it (`koi_net_router.py:855`) |
| `InScopeIsReceived` in `push`, `Limit = 1` | a push marks nothing the edge excludes, so a row in front that is excluded hides what is behind it for ever; the code says so of itself (`event_queue.py:256`) |
| `WrittenIsKept` in `vault_keep`, no symmetry, `MaxFailures = 0` | an edit no scan has seen is overwritten by an update whose base is the row (`vault_sync.py:1658`) |
| `ScannedIsKept` in `vault_keep`, `Concurrent = TRUE`, `MaxFailures = 0` | a triggered cycle beside the poller records bytes the poller has overwritten meanwhile (`vault_sync.py:974`) |
| `ForgetsAreEarned` in `vault_keep`, `Concurrent = TRUE` | the same records bytes no longer there, and a later scan asks the peers to delete a version no person has settled (`vault_sync.py:974`, `:1517`) |
| `RemovedStaysRemoved` in `vault_line`, `Spec`, `PeersOf <- MeshPeers`, one edit, one removal | a third node returns a node's own event, and it is applied to the file since removed (`vault_sync.py:757`) |
| `NodesConverge` in `vault_keep`, `FairSpec`, no symmetry, `Editor <- JustA`, 2 edits, one failure, no loss | after a crash or an exception between a row and its event, row and file agree and nothing is ever sent (`vault_sync.py:1407`) |
| `RemovedStaysRemoved` in `vault_keep`, without its hypothesis, one failure | an exception between a file and its row, or a deletion whose unlink fails and whose row is tombstoned all the same (`vault_sync.py:1812`): the next scan takes the file for new, or returned (`:1428`), and announces what was removed |
| `SweepsTheDead` in `crawl`, `Spec`, `MaxFaults = 0` | a job is claimed before its lock is taken, and a starting process takes that for a dead worker (`crawl_worker.py:131`) |
| `CancelledStays` in `crawl`, `Spec`, `MaxFaults = 1` | cancellation is looked at before a page, not at the terminal update (`crawl_worker.py:274`) |
| `ReviewHasWork` in `intake` | candidates can be resolved before the share enters review, which it then does for good (`koi_net_router.py:2209`) |
| `IngestedIsWritten` in `intake`, without its hypothesis | an exception swallowed inside a transaction makes its COMMIT a rollback (`commons_ingest_worker.py:252`) |
| `RejectedIsTerminal` in `intake`, `Spec`, no failures, no aborts | "a rejection is terminal" (`koi_net_router.py:2009`): the worker writes its final status by id (`commons_ingest_worker.py:288`) |
| `AnchoredVerdict` in `claims` | "anchored attestations are immutable" (`routers/claims_router.py:2644`): a verdict changed while it is broadcast is recorded as confirmed with the old one's transaction (`:2854`) |
| `RoundTrip` in `merge` | "byte-for-byte back where it started" (`tests/test_merge_reversal.py:3`): links that were folded are not captured, `"deletions": {}`, and an undone merge leaves their mentions with the survivor (`merge_reversal.py:223`) |
| `FactsNameLive` in `merge` | "never hand back a tombstone" (`routers/knowledge_router.py:1341`): the entity of a fact is merged away between its resolution and the insert, and a peer's fact is not resolved at all (`domain_event_handlers.py:780`); 53 such rows are counted there, from before the writer resolved |
| `NoStaleChain` in `merge`, `Slot = {s1, s2}`, `MaxLog = 2` | two overlapping merges of two entities into each other both succeed: a circle of tombstones (`routers/admin_router.py:749`) |
| `NoStaleChain` in `merge`, `Known <- AllKnown` | a revived survivor is made a tombstone again whatever was merged into it since (`merge_reversal.py:404`) |
| `UndoneIsBack` in `merge`, `Known <- AllKnown` | "refuses anything it cannot reverse exactly": merges undone out of order leave rows with an entity they never named (`merge_reversal.py:321`) |
| `StaysFindable` in `merge`, `Known <- AllKnown` | an alias is taken back that a later merge relied on (`merge_reversal.py:335`) |

One thing is seen without a property: an entity that is new in a share of the
commons is in no registry once the share is ingested (section 2). If a
relationship names it the whole transaction is undone and the share is called
ingested all the same, or, if it has candidates, fails until its retries are spent.

Two more of the claims are not wrong by a sentence of the repository, and are
seen in the same model: a call that noted or cleared a transaction writes by id,
so the note of a slow call replaces, and its clearing wipes, the transaction of a
faster one (`routers/claims_router.py:2130`, `:2259`); and `Verify` may declare a claim
anchored on the strength of a pending transaction. `StampedIsOnLedger` shows that
no false confirmation comes of either.

## 4. Fairness

* **Delivery.** Weak fairness of the peer's loop and of the handler of a request:
  both are loops of one process that always comes back (`koi_poller.py`), with
  back-off that is bounded. Nothing is assumed of people, expiry or crashes.
* **Push.** Strong fairness of a push that is answered: the loop tries for ever
  and the network is not cut for ever.
* **Vault.** Weak fairness of the steps of a scan and of an application, strong
  fairness of receiving from each peer: one loop serves them all in turn, and a
  step is enabled again after a scan that came in between. In `VaultScan`, of the
  scan and of a repair that holds the lock.
* **Crawl jobs.** Weak fairness of each process and its sweeps and of the passing
  of the heartbeat timeout; strong fairness of the check that ends a crawl,
  because budgets of pages, tokens and seconds bound the loop.
* **Intake.** Weak fairness of each worker, of the reaper, of the end of a lease
  and of a back-off.

## 5. Proofs

The constants are subject to the named assumptions of the modules
(`EventQueue`, `PollDelivery`, `WebhookPush`, `VaultScan`, `VaultSync`, `CrawlJobs`,
`CommonsIntake`, `ClaimLedger`, `EntityMerge`): peers, events, files, contents, users,
pages, shares, processes, reviewers, calls, transactions, documents, types and
names are any sets, the nodes of a vault any finite set with any graph of peers,
the LIMIT any positive number, the policy either value, the caps and the number of
retries and faults any natural numbers. Some theorems ask for more:

| hypothesis | theorems | why |
|---|---|---|
| `~Concurrent` | `OnlyEarnedForgets`, `NothingScannedIsLost`, `NothingRemovedReturns` | the poll loop applies and scans by turns; only `POST /vault-sync/trigger` scans beside it, and then the first two fail (table of section 3) |
| `PeersAreATree` | `NothingRemovedReturns` | an event is forwarded to all peers but one, so in a mesh it returns (same table); a pair, a line and a star of nodes are trees |
| `CapsSuffice` | `WhatIsSkippedIsRecorded` | a file at which a cap bites is cached and not collected (same table) |
| `OneAtATime` | those of `EntityMergeProofs` about tombstones, names and undoing | merges are the calls of an administrator; two that overlap may close a circle (same table) |
| `[]NoLongChain` | `NoLinkNamesATombstone`, `TombstonesResolve`, `MergedNamesAreFound` | the trigger and the lookups follow ten tombstones and no more (`MaxMergeChain`); nothing stops a longer chain from being made |

**`PollDeliveryProofs`.** `TypesAreKept`: `TypeOK`. `ProcessesAtMostOnce`: `AtMostOnce`.
`ConfirmsAreTrue`: `ConfirmedWasProcessed`. `PeersAreConfined`: `Confinement`.
`ProcessesInOrder`: `InQueueOrder`.
`ImplementsContract`: every step of
`PollDelivery` is a step of `DeliveryContract` or a stutter.

`AtMostOnce` alone is not inductive: nothing in it stops a state in which two
replies with the same event are on their way. The code prevents that with one
poll at a time *per client*, not per server, so the argument is about who still
waits. `DeliveryInv` says it in parts:
`OneLiveReply` (a peer waits for one reply), `LiveIsAwaited` (a reply that will be
read belongs to a peer that waits), `HandlerShape` (what a handler holds in each
of its stages), `BatchIsProcessing`, `QueuedFirst` (only what was added is
delivered), `BatchIsFresh` and `ReplyIsFresh` (what is still to be processed, in
the peer's batch or in a live reply, was not processed before and is marked
delivered), `AttemptedIsSettled` (what was attempted is marked delivered, so no
later SELECT finds it). Each action is one step of the proof, each part of the
invariant one step below it. `Confinement` speaks of an edge that is read when a
request arrives and of events processed much later; `ConfinedInv` follows what was
read into the handler (`HandlersConfined`) and the batch (`BatchConfined`). The edge
itself plays no part: it may be edited, revoked and written over by a handshake
between the request and the reply. What matters is that whoever still has
something of a request to be processed has sent no later one, so `declared` is what
its own request was told. Order takes an invariant of its own,
`OrderInv`: stamps differ (`StampsDiffer`), and what a peer has attempted, what it
holds, what a live reply brings and what it can still see lie one behind the other
(`OrderOf`). A SELECT with a LIMIT keeps that because it takes the oldest rows the
peer can see (`WindowIsHead`), though not all of these survive the filter.

**`WebhookPushProofs`.** `PushTypes`: `TypeOK`. `PushLosesNothing`: `MarkedIsReceived`. The strengthening
is `FullCountIsReceipt`: an answer whose count equals the length of its batch was
given by a subscriber that holds every event of it.

**`VaultScanProofs`.** `ScanTypes`: `TypeOK`. `WhatIsRecordedIsTold`: `RecordedIsTold`,
which excuses the one row whose event is still to be queued. So the step that
queues it must find the row as the event has it (`ScanTellsRow`, `RepairTellsRow`),
whatever was written in between, and it does because scans and repairs write rows
under the same lock (`LockIsExclusive`): the caches, caps and absences of the scan,
which are as stale as may be, play no part. A repair that has waited for the lock
writes what it read before (`RepairReads`, `RepairKnows`), and announces just that.
`WhatIsSkippedIsRecorded`: `SkippedIsRecorded`. Here cache and caps are the argument
(`CacheInv`). A file enters the cache when it is read and its row follows in phase
2, so meanwhile a cached file owes its row what was collected of it
(`CacheIsKnown`); the walk collects no path twice (`VisitedOnce`) and compares with
rows that nobody has changed (`PreloadIsRow`); and the budget is larger than what is
left to record (`BudgetLasts`), a count of finite sets.

**`VaultSyncProofs`.** `VaultTypes`: `TypeOK`. `OnlyEarnedForgets`: `ForgetsAreEarned`,
under `~Concurrent`. A scan asks for the deletion of what the row has and the disk
has not, and a failure can leave the two apart, so a row that differs from its file
must name a version a person has settled (`RowIsTrue`). An update makes its base
the row of the reader, so the base of every event on its way must be settled, and
of a FORGET present (`BaseIsSettled`, in the queues, scans and applications). What a
scan has read it may record later, when a person has written again: then the
version it records is settled already (`ScanIsDue`); the same goes for an
application between the file and the row (`FileIsPut`). A triggered scan breaks
`ScanIsDue`, since the poller, not a person, replaces the bytes that were read;
the table of section 3 has the behaviour. That a node scans *or* applies is the
invariant's first part, and the only place where the hypothesis is used.

`NothingScannedIsLost`: `ScannedIsKept`. A version is kept where it is at home, in a
file *and* in the live row of that file (`Home`), until it is settled: what
overwrites it there has it for its base, and bases are settled. Between a file and
its row the row that is out of date must name something settled (`PutIsDue`).

`NothingRemovedReturns`: `RemovedStaysRemoved`, an action property. It is a theorem
about distance: a version travels away from the node it was written on, and in a
tree there is one way away from any node (`Spread`). `Story` follows a version of
author `h` that a set `G` of nodes has announced or received: each edge carries it at
most once, out of `G` (`EdgeStory`), and a node in `G` neither receives it again nor
takes it for new when it scans, since its row has what its file has (`NodeStory`). A
node that removed it had it before; so it is in `G`, or the author, and to neither
does it come. `ReturnInv` says that every version has such a story while `torn` is
empty: restarts and exceptions anywhere else only cut a story short. Once one of them
has fallen between a file and its row, or an unlink has failed and its row is a
tombstone all the same, the next scan announces the version as its own.

**`CrawlJobsProofs`.** `CrawlTypes`: `TypeOK`. `CapIsKept`: `UserCap`.
`ResultsAreKept`: `ResultsStay`. Two arguments, in `CrawlInv`. A worker writes its
terminal status by the id of the row and nothing else, so what protects a result
is that only one worker holds a job (`WorkersDiffer`) and that the row of a held
job is running, interrupted or cancelled until its worker has written
(`JobIsTheirs`): none of these can be committed, and a sweep that interrupts a live
worker's job does not change that. And the cap is counted by one statement and
relied on by a later one: the user's advisory lock (`AskersDiffer`) leaves one
request of theirs that can insert, and every other step only takes jobs out of
flight (`LoadShrinks`), so the count stays an upper bound (`CountSuffices`).

**`CommonsIntakeProofs`.** `IntakeTypes`: `TypeOK`. `IngestsOneAtATime`: `NoDoubleIngest`.
`RetriesEnd`: `RetriesAreBounded`. `SaysWhatIsWritten`: `IngestedIsWritten`. The row does
not protect a share: the reaper declares a slow ingestion failed, and the share is
claimable while its worker goes on. The advisory lock alone does (`LockIsHeld`). A
failure may be counted twice, by the reaper and by the worker, but never too few
times: claims after a failure and the present failure together do not outnumber
the failures (`ClaimsFollowFailures`), so that the limit on these is one on claims. And
a worker about to write a final status has seen its transaction end (`DoneIsWritten`), or
has put the share among those whose transaction was rolled back unseen.

**`ClaimLedgerProofs`.** `ClaimTypes`: `TypeOK`. `ConfirmationsAreTrue`:
`StampedIsOnLedger`. `OnlyVerifiedIsSent`: `SentIsVerified`. `ContractIsKept`:
`KeepsContract`, the refinement of `ClaimContract`. Calls write rows they have not
looked at for a minute, so the argument is not about rows but about what cannot
be taken back: the level an item needs before it may be sent (`Due`) is never
lost again (`DueStays`), a transaction keeps its item and an executed one stays
executed (`ChainGrows`). `ClaimInv` adds to the properties that a call about to
broadcast has read that level (`SendIsDue`), and that whoever names a transaction,
a call or a row, names it for the item it carries (`CallsCarry`, `RowsCarry`). Were
withdrawal possible from `verified`, or did reconciling compare anything but the
transaction it had read, the step would fail.

**`EntityMergeProofs`.** `TypesAreKept`: `TypeOK`. `NoMentionIsLost`: `MentionsAreKept`.
`NoLinkNamesATombstone`: `LinksNameLive`, of links and not of facts, which no
trigger redirects. `TombstonesResolve`: `ResolvesToLive`.
`UndoingIsExact`: `UndoIsExact`. `MergedNamesAreFound`: `Findable`. Chains of tombstones
and sums over rows ask for induction, which is done by the least counterexample
(`LeastNumber`, from the library's `WFMin`): of the hops after which a walk is wrong,
or the prefixes of the rows of which a fold is, the first one is taken, and the step
before it is right.

* *Types.* A document has at most one row per entity (`OneRow`), which folding and
  the redirecting trigger must both keep; what the log has captured are rows there
  are (`LogType`).
* *Tombstones.* A registry without circles (`Grounded`: every set of entities has one
  that is not a tombstone of that set) in which a tombstone's survivor exists
  (`Kept`), under calls whose entities are still what they were when they were
  checked (`CallsLive`), leads every tombstone to a live entity. A merge keeps this
  since both ends are live when it begins, a revival since what it makes live was a
  tombstone of the other.
* *Mentions.* A total over rows splits (`TotalSplits`), so dropping a row and adding
  its count to one of the same document changes nothing
  (`FoldingKeepsMentions`); an event adds one the first time only (`MentionInv`).
  Nothing is assumed of overlapping calls.
* *Undoing.* A row is where the merges in force that moved it have put it
  (`Traced`, `PlacedIn`), the latest of them last; undone last first, an undoing takes
  away the last of that list, so what remains places the row (`UndoInv`).
* *Finding.* An undoing removes the aliases its merge added, which may be what
  another merge relies on. Undone last first, the registry and its names go back to
  what they were: `NamesStack` keeps a `Snapshot` for each merge in force, each of them
  sound and made from the one below it.

Out of the prover's reach, and checked by TLC only: liveness under fairness and
`ENABLED`. Recursive operators are in no module: the walk over tombstones and the
fold of rows are a recursive function and a fold of the community modules.

## 6. Only model-checked

All liveness: `NoStarvation`, `HeadIsReceived`, `PeersLearn`, `NodesConverge`, `JobsEnd`,
`SettledInTheEnd`. TLC and the theorems divide the work: TLC finds
out cheaply whether a property holds, shows that the hypotheses of the theorems have
states to speak of (the passing runs satisfy them, but for the caps of `scan_turns`), and
finds what happens beyond them.

## 7. Plan

1. `RemovedStaysRemoved` in a mesh: how often what was removed can return.
2. `DomainReplication`: the remaining handlers, with deferral on foreign keys over
   `DeliveryContract`; replays and reorderings; and with them the peers' writes to
   claims and entities, which `ClaimLedger` and `EntityMerge` leave out.
3. `Leases` and `Outbox`: deep-extract take-over, TerminusDB drain.
4. `Commitments`, intents and tasks: transition tables under concurrent updates.
5. Mirror mode and reconcile in the mesh of `VaultSync`; the deferral of unknown
   nodes in the handshake.

## 8. Not modelled

* Numerics and text: embeddings, ranking, resolver scores, parsing, prompts.
* Cryptography: envelopes and E2EE; a sender is taken to be who it says.
* Request handlers that are one statement or one transaction with no protocol
  between them (most of the ingestion and knowledge routers), and the sensors' I/O.
* Inside the modelled parts: times as numbers (an expiry, lease, back-off or
  heartbeat is an action that may happen when the code's constants allow it);
  cursors and logging; in `VaultSync`, mirror mode, the owner and read-only
  guards, the clean-up of tombstones, folders per peer; in `CrawlJobs`, the daily
  cap as data (`Decline` stands for it) and progress fields; in `CommonsIntake`,
  the loss of a live worker's lock connection; in `ClaimLedger`, evidence links,
  the proof pack, the extraction of claims from documents, and the handlers that
  replicate a peer's claims and attestations or forget them (`_apply_claim`,
  `_apply_attestation`, `_handle_forget` of `domain_event_handlers.py`), which overwrite
  rows by key, the verification level included: its properties are about what
  this node's own requests do; in `EntityMerge`, the same of `_apply_entity`, which
  overwrites aliases, relationships (rewired and deduplicated as links are, but
  behind no trigger: like facts they may name a tombstone), array and JSONB columns,
  the retype in place, the persona guard, and the interleaving of the statements
  of one merge with other transactions, such as a link whose trigger has looked
  at the registry and whose row is written after the merge.
