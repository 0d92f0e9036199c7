------------------------------ MODULE EventQueue ------------------------------
(***************************************************************************)
(* The KOI-net event queue of one node: the table koi_net_events behind    *)
(* class EventQueue (src/api/event_queue.py).                              *)
(*                                                                         *)
(* A row is an event together with the set of peers it was delivered to    *)
(* and the set of peers that confirmed it.  An event's RID type and its    *)
(* target are fixed when it is inserted, so they are constants here.       *)
(* Statements run in autocommit: one statement is one step.                *)
(***************************************************************************)
EXTENDS Naturals, FiniteSets

CONSTANTS
  Peer,        \* nodes that poll this queue, or that it is pushed to
  Event,       \* the events this node may ever queue
  RidType,     \* RID types and domain names an edge can list
  NoType,      \* what extract_rid_type returns for an RID it cannot parse
  TypeOf,      \* the RID type (or domain) of an event
  Broadcast,   \* the target of an event queued with target_node = NULL
  TargetOf,    \* the target of an event: one peer, or Broadcast
  Limit        \* the LIMIT of the SELECTs in poll and peek_undelivered

ASSUME QueueAssumption ==
  /\ NoType \in RidType
  /\ TypeOf \in [Event -> RidType]
  /\ Broadcast \notin Peer
  /\ TargetOf \in [Event -> Peer \union {Broadcast}]
  /\ Limit \in Nat \ {0}

VARIABLES
  rows,         \* events that have a row in the table
  expired,      \* events with expires_at <= NOW()
  queuedAt,     \* queued_at of each event, 0 while it was never added
  lastQueued,   \* the latest queued_at handed out
  deliveredTo,  \* delivered_to of each row
  confirmedBy   \* confirmed_by of each row

queueVars == <<rows, expired, queuedAt, lastQueued, deliveredTo, confirmedBy>>

QueueTypeOK ==
  /\ rows \in SUBSET Event
  /\ expired \in SUBSET Event
  /\ queuedAt \in [Event -> Nat]
  /\ lastQueued \in Nat
  /\ deliveredTo \in [Event -> SUBSET Peer]
  /\ confirmedBy \in [Event -> SUBSET Peer]

QueueInit ==
  /\ rows = {}
  /\ expired = {}
  /\ queuedAt = [e \in Event |-> 0]
  /\ lastQueued = 0
  /\ deliveredTo = [e \in Event |-> {}]
  /\ confirmedBy = [e \in Event |-> {}]

-----------------------------------------------------------------------------
(* The reads: the WHERE clause, the ORDER BY ... LIMIT and the edge filter. *)

\* A rid_types value of None filters nothing, not even an unparseable RID;
\* a declared list never matches NoType, however long it is.
NoFilter == RidType

AnyDelivery(p) == {e \in rows \ expired : TargetOf[e] \in {Broadcast, p}}

Visible(p) ==
  {e \in rows \ expired : /\ p \notin deliveredTo[e]
                          /\ TargetOf[e] \in {Broadcast, p}}

\* Fault: ORDER BY queued_at DESC.
NewestFirst(p) ==
  {e \in Visible(p) :
     Cardinality({f \in Visible(p) : queuedAt[f] > queuedAt[e]}) < Limit}

Window(p) ==
  {e \in Visible(p) :
     Cardinality({f \in Visible(p) : queuedAt[f] < queuedAt[e]}) < Limit}

InScope(S, scope) == {e \in S : TypeOf[e] \in scope}

-----------------------------------------------------------------------------
(* The writes. *)

\* add, without an event_id: the database assigns a fresh one.
Add(e) ==
  /\ queuedAt[e] = 0
  /\ rows' = rows \union {e}
  /\ lastQueued' = lastQueued + 1
  /\ queuedAt' = [queuedAt EXCEPT ![e] = lastQueued + 1]
  /\ UNCHANGED <<expired, deliveredTo, confirmedBy>>

\* UPDATE ... SET delivered_to = array_append(delivered_to, p)
MarkDelivered(S, p) ==
  /\ deliveredTo' = [e \in Event |-> IF e \in S \intersect rows
                                     THEN deliveredTo[e] \union {p}
                                     ELSE deliveredTo[e]]
  /\ UNCHANGED <<rows, expired, queuedAt, lastQueued, confirmedBy>>

\* confirm: UPDATE ... SET confirmed_by = array_append(confirmed_by, p)
MarkConfirmed(S, p) ==
  /\ confirmedBy' = [e \in Event |-> IF e \in S \intersect rows
                                     THEN confirmedBy[e] \union {p}
                                     ELSE confirmedBy[e]]
  /\ UNCHANGED <<rows, expired, queuedAt, lastQueued, deliveredTo>>

\* Time passes the expires_at of one row. Lifetimes differ between events
\* (24 and 72 hours), so rows expire in any order.
Expire(e) ==
  /\ e \in rows \ expired
  /\ expired' = expired \union {e}
  /\ UNCHANGED <<rows, queuedAt, lastQueued, deliveredTo, confirmedBy>>

\* cleanup: DELETE every expired row.
Cleanup ==
  /\ rows \intersect expired # {}
  /\ rows' = rows \ expired
  /\ UNCHANGED <<expired, queuedAt, lastQueued, deliveredTo, confirmedBy>>

\* The vault's own clean-up deletes vault-file rows that reached some peer and
\* are older than the retention of 90 days: by then every lifetime has passed.
PurgeDelivered(vaultEvents) ==
  /\ {e \in rows \intersect expired \intersect vaultEvents : deliveredTo[e] # {}} # {}
  /\ rows' = {e \in rows : e \in expired \intersect vaultEvents => deliveredTo[e] = {}}
  /\ UNCHANGED <<expired, queuedAt, lastQueued, deliveredTo, confirmedBy>>

=============================================================================
