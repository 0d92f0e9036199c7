--------------------------- MODULE WebhookPushProofs ---------------------------
(***************************************************************************)
(* A WEBHOOK push never loses an event: proofs about WebhookPush.          *)
(***************************************************************************)
EXTENDS WebhookPush, FiniteSetTheorems, TLAPS

USE QueueAssumption, PushAssumption

(***************************************************************************)
(* MarkedIsReceived needs the meaning of the count: when the subscriber    *)
(* reports as many events as the batch has, it holds all of them, because  *)
(* it counts distinct events of the batch only.                            *)
(***************************************************************************)
FullCountIsReceipt ==
  stage = "answered" /\ queued = Cardinality(batch) => batch \subseteq inbox[target]

PushInv == TypeOK /\ FullCountIsReceipt /\ MarkedIsReceived

\* As many new events as the batch has events: every one of them was new.
LEMMA FullCount ==
  ASSUME NEW B, IsFiniteSet(B), NEW S \in SUBSET B, NEW I,
         Cardinality(S \ I) = Cardinality(B)
  PROVE  B \subseteq S
<1>1. S \ I \subseteq B
  OBVIOUS
<1>2. S \ I = B
  BY <1>1, FS_Subset
<1>. QED
  BY <1>2

LEMMA InitPush == Init => PushInv
BY DEF Init, QueueInit, PushInv, TypeOK, QueueTypeOK, FullCountIsReceipt,
       MarkedIsReceived

\* Every step of the push loop and of the network keeps the invariant.
THEOREM NextPush == PushInv /\ [Next]_vars => PushInv'
<1> SUFFICES ASSUME PushInv, [Next]_vars PROVE PushInv'
  OBVIOUS
<1> USE DEF PushInv, TypeOK, QueueTypeOK
<1>1. ASSUME NEW e \in Event, Publish(e) \/ Age(e) PROVE PushInv'
  BY <1>1 DEF Publish, Add, Age, Expire, pushVars, FullCountIsReceipt,
     MarkedIsReceived
<1>2. ASSUME NEW p \in Peer, Push(p) PROVE PushInv'
  <2>1. Peeked(p) \subseteq Event
    BY DEF Peeked, InScope, Window, Visible
  <2>. QED
    BY <1>2, <2>1 DEF Push, queueVars, FullCountIsReceipt, MarkedIsReceived
<1>3. ASSUME NEW S \in SUBSET batch, Answer(S) PROVE PushInv'
  <2>1. target \in Peer /\ IsFiniteSet(batch) /\ IsFiniteSet(S \ inbox[target])
    BY <1>3, FS_Subset DEF Answer
  <2>2. Cardinality(S \ inbox[target]) \in Nat
    BY <2>1, FS_CardinalityType
  <2>3. /\ inbox' = [inbox EXCEPT ![target] = @ \union S]
        /\ S \subseteq inbox'[target]
    BY <1>3, <2>1 DEF Answer, Broadcasted
  <2>4. TypeOK'
    BY <1>3, <2>1, <2>2, <2>3 DEF Answer, queueVars
  <2>5. FullCountIsReceipt'
    BY <1>3, <2>1, <2>3, FullCount DEF Answer, FullCountIsReceipt
  <2>6. MarkedIsReceived'
    BY <1>3, <2>1, <2>3 DEF Answer, queueVars, MarkedIsReceived
  <2>. QED
    BY <2>4, <2>5, <2>6
<1>4. ASSUME NEW m \in strays, NEW S \in SUBSET m[2], StrayArrives(m, S)
      PROVE  PushInv'
  <2>1. m[1] \in Peer /\ S \subseteq Event
    BY <1>4
  <2>. QED
    BY <1>4, <2>1 DEF StrayArrives, Broadcasted, queueVars, FullCountIsReceipt,
       MarkedIsReceived
<1>5. CASE Finish
  <2> DEFINE S == IF queued = Cardinality(batch) THEN batch \ expired ELSE {}
  <2>1. target \in Peer /\ S \subseteq inbox[target]
    BY <1>5 DEF Finish, FullCountIsReceipt
  <2>2. /\ deliveredTo' = [e \in Event |-> IF e \in S \intersect rows
                                          THEN deliveredTo[e] \union {target}
                                          ELSE deliveredTo[e]]
        /\ UNCHANGED <<rows, expired, queuedAt, lastQueued, confirmedBy, strays, inbox>>
        /\ Idle
    BY <1>5 DEF Finish, MarkDelivered
  <2> HIDE DEF S
  <2>. QED
    BY <2>1, <2>2 DEF Idle, FullCountIsReceipt, MarkedIsReceived
<1>6. CASE PushFails
  <2>1. strays' \in SUBSET (Peer \X SUBSET Event)
    BY <1>6 DEF PushFails
  <2>. QED
    BY <1>6, <2>1 DEF PushFails, Idle, queueVars, FullCountIsReceipt,
       MarkedIsReceived
<1>7. CASE UNCHANGED vars
  BY <1>7 DEF vars, pushVars, queueVars, FullCountIsReceipt, MarkedIsReceived
<1>. QED
  BY <1>1, <1>2, <1>3, <1>4, <1>5, <1>6, <1>7 DEF Next

\* Whatever the number of subscribers and events, and whatever fails: a row
\* marked delivered to a subscriber is in that subscriber's queue.
THEOREM PushLosesNothing == Spec => []MarkedIsReceived
<1>1. PushInv => MarkedIsReceived
  BY DEF PushInv
<1>. QED
  BY <1>1, InitPush, NextPush, PTL DEF Spec

\* The push loop, its batch and the subscribers' queues keep their types.
THEOREM PushTypes == Spec => []TypeOK
<1>1. PushInv => TypeOK
  BY DEF PushInv
<1>. QED
  BY <1>1, InitPush, NextPush, PTL DEF Spec

=============================================================================
