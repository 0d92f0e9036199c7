------------------------------ MODULE WebhookPush ------------------------------
(***************************************************************************)
(* Delivery over WEBHOOK edges: KOIPoller._push_webhook_peers peeks at the *)
(* queue, posts the batch to the subscriber's /events/broadcast and marks  *)
(* it delivered when the subscriber says it queued every event of it.      *)
(*                                                                         *)
(* The subscriber stores each event with EventQueue.add under the event_id *)
(* of the sender, and add returns None for an event it already has.        *)
(***************************************************************************)
EXTENDS EventQueue

CONSTANTS
  Scope,      \* rid_types of the WEBHOOK edge to each peer
  NoPeer,     \* no push is under way
  MaxStrays   \* bound: requests that outlive the client that sent them

ASSUME PushAssumption ==
  /\ IsFiniteSet(Event)
  /\ Scope \in [Peer -> SUBSET (RidType \ {NoType})]
  /\ NoPeer \notin Peer
  /\ MaxStrays \in Nat

VARIABLES
  target,   \* the peer of the push under way, or NoPeer
  batch,    \* the events peeked for it
  stage,    \* "sent" until the subscriber answers, then "answered"
  queued,   \* the count in its answer
  strays,   \* requests the client gave up on that are still to be handled
  inbox     \* the events each subscriber holds in its own koi_net_events

pushVars == <<target, batch, stage, queued, strays, inbox>>
vars == <<queueVars, pushVars>>

TypeOK ==
  /\ QueueTypeOK
  /\ target \in Peer \union {NoPeer}
  /\ batch \in SUBSET Event
  /\ stage \in {"idle", "sent", "answered"}
  /\ queued \in Nat
  /\ strays \in SUBSET (Peer \X SUBSET Event)
  /\ inbox \in [Peer -> SUBSET Event]
  /\ stage = "idle" <=> target = NoPeer

\* Fault: the peer of the last push is kept.
KeepTarget == batch' = {} /\ stage' = "idle" /\ queued' = 0 /\ UNCHANGED target

Idle == target' = NoPeer /\ batch' = {} /\ stage' = "idle" /\ queued' = 0

Init ==
  /\ QueueInit
  /\ target = NoPeer /\ batch = {} /\ stage = "idle" /\ queued = 0
  /\ strays = {}
  /\ inbox = [p \in Peer |-> {}]

-----------------------------------------------------------------------------

Publish(e) == Add(e) /\ UNCHANGED pushVars

Age(e) == Expire(e) /\ UNCHANGED pushVars

\* peek_undelivered: the SELECT and the filter of poll, and no UPDATE.
Peeked(p) == InScope(Window(p), Scope[p])

\* Fault: the batch is marked before it is pushed.
MarkFirst(p) ==
  /\ stage = "idle"
  /\ Peeked(p) # {}
  /\ target' = p /\ batch' = Peeked(p) /\ stage' = "sent" /\ queued' = 0
  /\ MarkDelivered(Peeked(p), p)
  /\ UNCHANGED <<strays, inbox>>

Push(p) ==
  /\ stage = "idle"
  /\ Peeked(p) # {}
  /\ target' = p /\ batch' = Peeked(p) /\ stage' = "sent" /\ queued' = 0
  /\ UNCHANGED <<queueVars, strays, inbox>>

\* events_broadcast: stores the events one by one. Some may raise, and the
\* subscriber may crash on the way; only new rows count.
Broadcasted(p, S) == inbox' = [inbox EXCEPT ![p] = @ \union S]

Answer(S) ==
  /\ stage = "sent"
  /\ S \subseteq batch
  /\ Broadcasted(target, S)
  /\ queued' = Cardinality(S \ inbox[target])
  /\ stage' = "answered"
  /\ UNCHANGED <<queueVars, target, batch, strays>>

\* A request its client gave up on is handled all the same, unheard.
StrayArrives(m, S) ==
  /\ m \in strays
  /\ S \subseteq m[2]
  /\ Broadcasted(m[1], S)
  /\ strays' = strays \ {m}
  /\ UNCHANGED <<queueVars, target, batch, stage, queued>>

\* Fault: any answer with status 200 marks the batch.
MarkAnyway ==
  /\ stage = "answered"
  /\ deliveredTo' = [e \in Event |-> IF e \in (batch \intersect rows) \ expired
                                     THEN deliveredTo[e] \union {target}
                                     ELSE deliveredTo[e]]
  /\ Idle
  /\ UNCHANGED <<rows, expired, queuedAt, lastQueued, confirmedBy, strays, inbox>>

\* All queued: mark_delivered on the whole batch. Else mark none, retry all.
Finish ==
  /\ stage = "answered"
  /\ LET S == IF queued = Cardinality(batch) THEN batch \ expired ELSE {}
     IN MarkDelivered(S, target)
  /\ Idle
  /\ UNCHANGED <<strays, inbox>>

\* Timeout, broken connection, an error status, or an answer that fails
\* verification. A request not answered yet may still be on its way.
PushFails ==
  /\ stage # "idle"
  /\ \/ UNCHANGED strays
     \/ /\ stage = "sent"
        /\ Cardinality(strays) < MaxStrays
        /\ strays' = strays \union {<<target, batch>>}
  /\ Idle
  /\ UNCHANGED <<queueVars, inbox>>

Next ==
  \/ \E e \in Event : Publish(e) \/ Age(e)
  \/ \E p \in Peer : Push(p)
  \/ \E S \in SUBSET batch : Answer(S)
  \/ \E m \in strays : \E S \in SUBSET m[2] : StrayArrives(m, S)
  \/ Finish
  \/ PushFails

Spec == Init /\ [][Next]_vars

\* The loop visits every edge again and again, and a network that is not cut
\* for ever lets a push through and its answer back again and again.
FairSpec ==
  /\ Spec
  /\ \A p \in Peer : SF_vars(Push(p))
  /\ \A p \in Peer : SF_vars(target = p /\ Answer(batch))
  /\ \A p \in Peer : SF_vars(target = p /\ Finish)

-----------------------------------------------------------------------------

\* A row marked delivered is in the subscriber's own queue: a push, unlike a
\* poll, never loses an event to a failed request, a timeout or a crash.
MarkedIsReceived ==
  \A e \in Event : \A p \in deliveredTo[e] : e \in inbox[p]

\* What is at the head of a subscriber's queue reaches it, or expires.
HeadIsReceived ==
  \A p \in Peer, e \in Event :
    (e \in Peeked(p)) ~> (e \in inbox[p] \/ e \in expired)

\* "a narrow edge cannot starve behind a filtered queue head", which poll keeps
\* by marking what it excludes and a push does not.
InScopeIsReceived ==
  \A p \in Peer, e \in Event :
    (e \in InScope(Visible(p), Scope[p])) ~> (e \in inbox[p] \/ e \in expired)

\* "Mark NONE, retry all next cycle": the retry of a batch some of whose
\* events were not queued ends with the batch delivered.
RetryDelivers ==
  \A p \in Peer, e \in Event :
    (e \in Peeked(p)) ~> (p \in deliveredTo[e] \/ e \in expired)

=============================================================================
