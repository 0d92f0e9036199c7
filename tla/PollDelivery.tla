----------------------------- MODULE PollDelivery -----------------------------
(***************************************************************************)
(* Delivery over POLL edges: the peers' poll loops (src/api/koi_poller.py) *)
(* against the poll and confirm endpoints of the node that owns the queue  *)
(* (src/api/koi_net_router.py, src/api/event_queue.py).                    *)
(*                                                                         *)
(* The endpoint reads the edge, then selects, then marks, then replies:    *)
(* four statements with no lock and no transaction around them.  A client  *)
(* that times out polls again while the handler of its first request may   *)
(* still be running.                                                       *)
(***************************************************************************)
EXTENDS EventQueue

CONSTANTS
  Slot,         \* concurrent request handlers the server runs for one peer
  Provided,     \* what this node's profile provides: the types of a new edge
  Edited,       \* the lists an operator writes into an edge's rid_types
  Strict,       \* policy require_approved_edge_for_poll
  VaultEvents,  \* the events whose RID is a vault file
  MaxEdits,     \* bound: edits and revocations of edges in one behaviour
  MaxCrashes    \* bound: crashes of a peer or of the server in one behaviour

ASSUME PollAssumption ==
  /\ Provided \subseteq RidType \ {NoType}
  /\ Edited \subseteq SUBSET (RidType \ {NoType})
  /\ Strict \in BOOLEAN
  /\ VaultEvents \subseteq Event
  /\ MaxEdits \in Nat
  /\ MaxCrashes \in Nat

VARIABLES
  edge,       \* status of the edge from this node to each peer
  ridTypes,   \* rid_types of that edge
  edits,
  handler,    \* the server's request handlers, per peer and slot
  client,     \* what each peer's poll loop is doing
  batch,      \* events a peer received and has not processed yet
  toConfirm,  \* events of the batch it processed without an exception
  declared,   \* history: what an approved edge declared when it was last read
  attempts,   \* history: how often a peer called _process_event on an event
  done,       \* history: the events a peer processed without an exception
  crashes

edgeVars == <<edge, ridTypes, edits>>
pollVars == <<edgeVars, handler, client, batch, toConfirm, declared, attempts,
              done, crashes>>
vars == <<queueVars, pollVars>>

HandlerState ==
  [stage : {"free", "scoped", "selected", "replied"},
   scope : SUBSET RidType,   \* the rid_types read with the edge
   sel   : SUBSET Event,     \* the rows selected, all of them to be marked
   out   : SUBSET Event,     \* the events of the reply
   live  : BOOLEAN]          \* the client still waits for this reply

FreeHandler ==
  [stage |-> "free", scope |-> {}, sel |-> {}, out |-> {}, live |-> FALSE]

TypeOK ==
  /\ QueueTypeOK
  /\ edge \in [Peer -> {"NONE", "PROPOSED", "APPROVED", "REJECTED", "REVOKED"}]
  /\ ridTypes \in [Peer -> SUBSET RidType]
  /\ handler \in [Peer -> [Slot -> HandlerState]]
  /\ client \in [Peer -> {"idle", "waiting", "processing", "confirming"}]
  /\ batch \in [Peer -> SUBSET Event]
  /\ toConfirm \in [Peer -> SUBSET Event]
  /\ edits \in Nat
  /\ declared \in [Peer -> SUBSET RidType]
  /\ attempts \in [Peer -> [Event -> Nat]]
  /\ done \in [Peer -> SUBSET Event]
  /\ crashes \in Nat

Init ==
  /\ QueueInit
  /\ edge = [p \in Peer |-> "NONE"]
  /\ ridTypes = [p \in Peer |-> {}]
  /\ handler = [p \in Peer |-> [s \in Slot |-> FreeHandler]]
  /\ client = [p \in Peer |-> "idle"]
  /\ batch = [p \in Peer |-> {}]
  /\ toConfirm = [p \in Peer |-> {}]
  /\ edits = 0
  /\ declared = [p \in Peer |-> {}]
  /\ attempts = [p \in Peer |-> [e \in Event |-> 0]]
  /\ done = [p \in Peer |-> {}]
  /\ crashes = 0

-----------------------------------------------------------------------------
(* Edges: the row of the edge over which a peer polls this node.            *)

edgeAside == <<queueVars, handler, client, batch, toConfirm, declared, attempts,
               done, crashes>>

\* The upsert of the edge to the peer that shakes hands. Whatever its status,
\* its types are what this node's profile provides, again.
Handshake(p) ==
  /\ edge' = [edge EXCEPT ![p] = IF @ = "NONE" THEN "PROPOSED" ELSE @]
  /\ ridTypes' = [ridTypes EXCEPT ![p] = Provided]
  /\ UNCHANGED <<edits, edgeAside>>

\* Fault: the reply's spelling of the verdict is stored.
StoreReplySpelling(p, verdict) ==
  /\ edge[p] = "PROPOSED"
  /\ edge' = [edge EXCEPT ![p] = IF verdict = "APPROVED" THEN "approved"
                                                        ELSE "rejected"]
  /\ UNCHANGED <<ridTypes, edits, edgeAside>>

ReviewEdge(p, verdict) ==
  /\ edge[p] = "PROPOSED"
  /\ edge' = [edge EXCEPT ![p] = verdict]
  /\ UNCHANGED <<ridTypes, edits, edgeAside>>

\* An operator rewrites rid_types by hand, as the runbooks tell them to.
EditTypes(p, types) ==
  /\ edge[p] # "NONE"
  /\ edits < MaxEdits
  /\ edits' = edits + 1
  /\ ridTypes' = [ridTypes EXCEPT ![p] = types]
  /\ UNCHANGED <<edge, edgeAside>>

\* Removing a peer: no verdict and no handshake brings the edge back.
RevokeEdge(p) ==
  /\ edge[p] # "NONE"
  /\ edits < MaxEdits
  /\ edits' = edits + 1
  /\ edge' = [edge EXCEPT ![p] = "REVOKED"]
  /\ UNCHANGED <<ridTypes, edgeAside>>

-----------------------------------------------------------------------------
(* The queue's own life. *)

Publish(e) == Add(e) /\ UNCHANGED pollVars

Age(e) == Expire(e) /\ UNCHANGED pollVars

CleanUp == (Cleanup \/ PurgeDelivered(VaultEvents)) /\ UNCHANGED pollVars

-----------------------------------------------------------------------------
(* The poll endpoint. *)

Declares(p) == IF edge[p] = "APPROVED" THEN ridTypes[p] ELSE {}

\* Fault: an edge that declares nothing is taken for one without a filter.
EmptyMeansUnfiltered(p, s) ==
  /\ client[p] = "idle"
  /\ handler[p][s] = FreeHandler
  /\ edge[p] = "APPROVED" \/ ~Strict
  /\ client' = [client EXCEPT ![p] = "waiting"]
  /\ handler' = [handler EXCEPT ![p][s] =
       [FreeHandler EXCEPT
          !.stage = "scoped",
          !.scope = IF edge[p] = "APPROVED" /\ ridTypes[p] # {} THEN ridTypes[p]
                    ELSE NoFilter,
          !.live  = TRUE]]
  /\ declared' = [declared EXCEPT ![p] = Declares(p)]
  /\ UNCHANGED <<queueVars, edgeVars, batch, toConfirm, attempts, done, crashes>>

\* The request arrives and the handler reads the edge. In strict mode a peer
\* without an approved edge gets an empty reply and nothing changes.
PollArrive(p, s) ==
  /\ client[p] = "idle"
  /\ handler[p][s] = FreeHandler
  /\ edge[p] = "APPROVED" \/ ~Strict
  /\ client' = [client EXCEPT ![p] = "waiting"]
  /\ handler' = [handler EXCEPT ![p][s] =
       [FreeHandler EXCEPT
          !.stage = "scoped",
          !.scope = IF edge[p] = "APPROVED" THEN ridTypes[p] ELSE NoFilter,
          !.live  = TRUE]]
  /\ declared' = [declared EXCEPT ![p] = Declares(p)]
  /\ UNCHANGED <<queueVars, edgeVars, batch, toConfirm, attempts, done, crashes>>

\* The SELECT and the filter. No row: the handler replies at once.
PollSelect(p, s) ==
  /\ handler[p][s].stage = "scoped"
  /\ LET sel == Window(p)
         out == InScope(sel, handler[p][s].scope)
     IN handler' = [handler EXCEPT ![p][s] =
          IF sel # {}
          THEN [@ EXCEPT !.stage = "selected", !.scope = {}, !.sel = sel,
                         !.out = out]
          ELSE IF @.live THEN [@ EXCEPT !.stage = "replied", !.scope = {}]
          ELSE FreeHandler]
  /\ UNCHANGED <<queueVars, edgeVars, client, batch, toConfirm, declared,
                 attempts, done, crashes>>

\* Fault: the reply leaves without the UPDATE; only a confirm settles a row.
UnmarkedReply(p, s) ==
  /\ handler[p][s].stage = "selected"
  /\ handler' = [handler EXCEPT ![p][s] =
       IF @.live THEN [@ EXCEPT !.stage = "replied", !.sel = {}]
       ELSE FreeHandler]
  /\ UNCHANGED <<queueVars, edgeVars, client, batch, toConfirm, declared,
                 attempts, done, crashes>>

\* Fault: the UPDATE leaves out the rows the edge excludes.
MarkRepliedOnly(p, s) ==
  /\ handler[p][s].stage = "selected"
  /\ MarkDelivered(handler[p][s].out, p)
  /\ handler' = [handler EXCEPT ![p][s] =
       IF @.live THEN [@ EXCEPT !.stage = "replied", !.sel = {}]
       ELSE FreeHandler]
  /\ UNCHANGED <<edgeVars, client, batch, toConfirm, declared, attempts, done,
                 crashes>>

\* The UPDATE marks the rows of the reply and the ones the edge excludes.
\* The reply of a handler nobody waits for goes nowhere.
PollMark(p, s) ==
  /\ handler[p][s].stage = "selected"
  /\ MarkDelivered(handler[p][s].sel, p)
  /\ handler' = [handler EXCEPT ![p][s] =
       IF @.live THEN [@ EXCEPT !.stage = "replied", !.sel = {}]
       ELSE FreeHandler]
  /\ UNCHANGED <<edgeVars, client, batch, toConfirm, declared, attempts, done,
                 crashes>>

-----------------------------------------------------------------------------
(* The peer's poll loop. *)

Receive(p, s) ==
  /\ handler[p][s].live
  /\ handler[p][s].stage = "replied"
  /\ batch' = [batch EXCEPT ![p] = handler[p][s].out]
  /\ client' = [client EXCEPT ![p] =
       IF handler[p][s].out = {} THEN "idle" ELSE "processing"]
  /\ handler' = [handler EXCEPT ![p][s] = FreeHandler]
  /\ UNCHANGED <<queueVars, edgeVars, toConfirm, declared, attempts, done,
                 crashes>>

\* A handler after its client has gone: it runs on, unless it had replied.
Abandoned(h) ==
  IF h.live
  THEN IF h.stage = "replied" THEN FreeHandler ELSE [h EXCEPT !.live = FALSE]
  ELSE h

\* The request times out, its connection breaks, or the reply is lost or
\* fails verification; the loop backs off and polls again.
PollFails(p) ==
  /\ client[p] = "waiting"
  /\ client' = [client EXCEPT ![p] = "idle"]
  /\ handler' = [handler EXCEPT ![p] = [s \in Slot |-> Abandoned(@[s])]]
  /\ UNCHANGED <<queueVars, edgeVars, batch, toConfirm, declared, attempts,
                 done, crashes>>

\* Fault: the event joins the confirm batch before it is processed.
ConfirmAnyway(p, e, ok) ==
  /\ client[p] = "processing"
  /\ e \in batch[p]
  /\ \A f \in batch[p] : queuedAt[e] <= queuedAt[f]
  /\ toConfirm' = [toConfirm EXCEPT ![p] = @ \union {e}]
  /\ client' = [client EXCEPT ![p] =
       IF batch[p] # {e} THEN "processing" ELSE "confirming"]
  /\ batch' = [batch EXCEPT ![p] = @ \ {e}]
  /\ attempts' = [attempts EXCEPT ![p][e] = @ + 1]
  /\ done' = [done EXCEPT ![p] = IF ok THEN @ \union {e} ELSE @]
  /\ UNCHANGED <<queueVars, edgeVars, handler, declared, crashes>>

\* _process_event on the first event left; an exception is logged and skipped.
Process(p, e, ok) ==
  /\ client[p] = "processing"
  /\ e \in batch[p]
  /\ \A f \in batch[p] : queuedAt[e] <= queuedAt[f]
  /\ LET confirmed == IF ok THEN toConfirm[p] \union {e} ELSE toConfirm[p]
     IN /\ toConfirm' = [toConfirm EXCEPT ![p] = confirmed]
        /\ client' = [client EXCEPT ![p] =
             IF batch[p] # {e} THEN "processing"
             ELSE IF confirmed # {} THEN "confirming" ELSE "idle"]
  /\ batch' = [batch EXCEPT ![p] = @ \ {e}]
  /\ attempts' = [attempts EXCEPT ![p][e] = @ + 1]
  /\ done' = [done EXCEPT ![p] = IF ok THEN @ \union {e} ELSE @]
  /\ UNCHANGED <<queueVars, edgeVars, handler, declared, crashes>>

\* The confirm request reaches the server, or fails and is logged.
Confirm(p) ==
  /\ client[p] = "confirming"
  /\ MarkConfirmed(toConfirm[p], p)
  /\ client' = [client EXCEPT ![p] = "idle"]
  /\ toConfirm' = [toConfirm EXCEPT ![p] = {}]
  /\ UNCHANGED <<edgeVars, handler, batch, declared, attempts, done, crashes>>

ConfirmFails(p) ==
  /\ client[p] = "confirming"
  /\ client' = [client EXCEPT ![p] = "idle"]
  /\ toConfirm' = [toConfirm EXCEPT ![p] = {}]
  /\ UNCHANGED <<queueVars, edgeVars, handler, batch, declared, attempts, done,
                 crashes>>

-----------------------------------------------------------------------------
(* Crashes: the tables survive, everything in memory does not. *)

PeerCrash(p) ==
  /\ crashes < MaxCrashes
  /\ client[p] # "idle"
  /\ crashes' = crashes + 1
  /\ client' = [client EXCEPT ![p] = "idle"]
  /\ batch' = [batch EXCEPT ![p] = {}]
  /\ toConfirm' = [toConfirm EXCEPT ![p] = {}]
  /\ handler' = [handler EXCEPT ![p] = [s \in Slot |-> Abandoned(@[s])]]
  /\ UNCHANGED <<queueVars, edgeVars, declared, attempts, done>>

ServerCrash ==
  /\ crashes < MaxCrashes
  /\ \E p \in Peer, s \in Slot : handler[p][s] # FreeHandler
  /\ crashes' = crashes + 1
  /\ handler' = [p \in Peer |-> [s \in Slot |-> FreeHandler]]
  /\ client' = [p \in Peer |-> IF client[p] = "waiting" THEN "idle" ELSE client[p]]
  /\ UNCHANGED <<queueVars, edgeVars, batch, toConfirm, declared, attempts,
                 done>>

-----------------------------------------------------------------------------

PeerNext(p) ==
  \/ Handshake(p)
  \/ \E verdict \in {"APPROVED", "REJECTED"} : ReviewEdge(p, verdict)
  \/ \E types \in Edited : EditTypes(p, types)
  \/ RevokeEdge(p)
  \/ \E s \in Slot : PollArrive(p, s) \/ PollSelect(p, s) \/ PollMark(p, s)
                       \/ Receive(p, s)
  \/ PollFails(p)
  \/ \E e \in Event, ok \in BOOLEAN : Process(p, e, ok)
  \/ Confirm(p) \/ ConfirmFails(p)
  \/ PeerCrash(p)

Next ==
  \/ \E e \in Event : Publish(e) \/ Age(e)
  \/ CleanUp
  \/ \E p \in Peer : PeerNext(p)
  \/ ServerCrash

Spec == Init /\ [][Next]_vars

\* A running server finishes the requests it accepted, and a poll loop polls
\* again after every round. Nothing forces an operator, a clock or a network.
Fairness ==
  \A p \in Peer :
    /\ \A s \in Slot : WF_vars(PollSelect(p, s)) /\ WF_vars(PollMark(p, s))
    /\ WF_vars(\E s \in Slot : PollArrive(p, s))
    /\ WF_vars(\E s \in Slot : Receive(p, s))
    /\ WF_vars(\E e \in Event, ok \in BOOLEAN : Process(p, e, ok))
    /\ WF_vars(Confirm(p) \/ ConfirmFails(p))

FairSpec == Spec /\ Fairness

-----------------------------------------------------------------------------
(* Safety. *)

\* A peer calls _process_event at most once on an event, although it retries
\* polls whose handlers are still between the SELECT and the UPDATE: a reply
\* leaves only after its rows are marked, and nobody reads a stale reply.
AtMostOnce == \A p \in Peer, e \in Event : attempts[p][e] <= 1

\* confirmed_by is the truth about the other node: the peer processed it.
ConfirmedWasProcessed ==
  \A e \in Event : \A p \in confirmedBy[e] : e \in done[p]

\* A peer processes only what was addressed to it and, in strict mode, only
\* what its approved edge declared when the endpoint read the request that
\* fetched it, however the edge is narrowed, widened or revoked meanwhile and
\* whichever older requests are still being served with what they read.
Confinement ==
  [][\A p \in Peer, e \in Event : attempts'[p][e] # attempts[p][e] =>
       /\ TargetOf[e] \in {Broadcast, p}
       /\ Strict => TypeOf[e] \in declared[p]]_vars

\* Not kept: types an operator took off an approved edge stay off until an
\* operator puts them back. A handshake of the peer restores them.
NarrowingLasts ==
  [][\A p \in Peer : edge[p] = "APPROVED" =>
       \/ ridTypes'[p] \subseteq ridTypes[p]
       \/ \E types \in Edited : EditTypes(p, types)]_vars

\* A peer processes events in the order they were queued, across polls,
\* failed polls, filtered events and crashes: an UPDATE never precedes the NEW.
InQueueOrder ==
  [][\A p \in Peer, e \in Event : attempts'[p][e] # attempts[p][e] =>
       \A f \in Event : attempts[p][f] > 0 => queuedAt[f] < queuedAt[e]]_vars

-----------------------------------------------------------------------------
(* The contract this implements. *)

Settled(p, e) ==
  queuedAt[e] # 0 /\ (p \in deliveredTo[e] \/ e \notin rows)

InFlight(p) ==
  batch[p] \union UNION {handler[p][s].out : s \in {t \in Slot : handler[p][t].live}}

StatusOf(p, e) ==
  IF e \in done[p] THEN "handled"
  ELSE IF ~Settled(p, e) THEN "pending"
  ELSE IF e \in InFlight(p) THEN "handed" ELSE "closed"

Contract == INSTANCE DeliveryContract
  WITH status <- [p \in Peer |-> [e \in Event |-> StatusOf(p, e)]]

\* Once a handed event is closed, by a lost reply, an exception or a crash,
\* it is never handed over or handled again.
HandsOverOnce == Contract!Spec

-----------------------------------------------------------------------------
(* Liveness. *)

\* A peer with an approved edge is never starved by a narrow edge: whatever
\* the filter excludes, every row at the head of its queue is settled.
NoStarvation ==
  \A p \in Peer, e \in Event :
    (edge[p] = "APPROVED" /\ e \in Visible(p))
      ~> (e \notin Visible(p) \/ edge[p] = "REVOKED")

\* What the poller's comment says of an event whose processing failed: it is
\* not confirmed and will be delivered again on the next poll, until it expires.
FailedIsRedelivered ==
  \A p \in Peer, e \in Event :
    (attempts[p][e] = 1 /\ e \notin done[p])
      ~> (attempts[p][e] > 1 \/ e \in expired \/ edge[p] = "REVOKED")

=============================================================================
