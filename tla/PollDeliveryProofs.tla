-------------------------- MODULE PollDeliveryProofs --------------------------
(***************************************************************************)
(* Proofs about PollDelivery: a peer processes an event at most once, and  *)
(* the protocol implements DeliveryContract, for any number of peers,      *)
(* events and concurrent handlers.                                         *)
(***************************************************************************)
EXTENDS PollDelivery, FiniteSetTheorems, TLAPS

USE QueueAssumption, PollAssumption

(***************************************************************************)
(* The inductive invariant.  AtMostOnce alone is not inductive: it needs   *)
(* that whatever a client may still be given (in its batch or in the reply *)
(* it waits for) was never attempted, hence that only one reply is live,   *)
(* and that whatever was attempted can no longer be selected.              *)
(***************************************************************************)

OneLiveReply ==
  \A p \in Peer, s, t \in Slot :
    handler[p][s].live /\ handler[p][t].live => s = t

LiveIsAwaited ==
  \A p \in Peer, s \in Slot : handler[p][s].live => client[p] = "waiting"

HandlerShape ==
  \A p \in Peer, s \in Slot :
    /\ handler[p][s].stage \in {"free", "scoped"} => handler[p][s].out = {}
    /\ handler[p][s].stage = "selected" => handler[p][s].out \subseteq handler[p][s].sel
    /\ handler[p][s].stage = "free" => ~handler[p][s].live

BatchIsProcessing ==
  \A p \in Peer : batch[p] # {} => client[p] = "processing"

QueuedFirst ==
  \A e \in Event :
    /\ e \in rows => queuedAt[e] # 0
    /\ deliveredTo[e] # {} => queuedAt[e] # 0

BatchIsFresh ==
  \A p \in Peer : \A e \in batch[p] : attempts[p][e] = 0 /\ Settled(p, e)

ReplyIsFresh ==
  \A p \in Peer, s \in Slot : handler[p][s].live =>
    \A e \in handler[p][s].out :
      /\ attempts[p][e] = 0
      /\ queuedAt[e] # 0
      /\ handler[p][s].stage = "replied" => Settled(p, e)

AttemptedIsSettled ==
  \A p \in Peer, e \in Event :
    /\ attempts[p][e] # 0 => Settled(p, e)
    /\ e \in done[p] => attempts[p][e] # 0

DeliveryInv ==
  /\ TypeOK
  /\ OneLiveReply
  /\ LiveIsAwaited
  /\ HandlerShape
  /\ BatchIsProcessing
  /\ QueuedFirst
  /\ BatchIsFresh
  /\ ReplyIsFresh
  /\ AttemptedIsSettled
  /\ AtMostOnce

-----------------------------------------------------------------------------
(* What a SELECT returns. *)

LEMMA WindowIsVisible ==
  ASSUME NEW p \in Peer
  PROVE  /\ Window(p) \subseteq Visible(p)
         /\ \A scope : InScope(Window(p), scope) \subseteq Window(p)
BY DEF Window, InScope

LEMMA InitDelivery == Init => DeliveryInv
BY DEF Init, QueueInit, DeliveryInv, TypeOK, QueueTypeOK, HandlerState,
       FreeHandler, OneLiveReply, LiveIsAwaited, HandlerShape,
       BatchIsProcessing, QueuedFirst, BatchIsFresh, ReplyIsFresh,
       AttemptedIsSettled, AtMostOnce

-----------------------------------------------------------------------------
(* The actions preserve the invariant. *)

LEMMA PeerHandlersChange ==
  ASSUME TypeOK, NEW p \in Peer,
         handler' = [handler EXCEPT ![p] = [s \in Slot |-> Abandoned(handler[p][s])]]
  PROVE  /\ handler' \in [Peer -> [Slot -> HandlerState]]
         /\ \A q \in Peer \ {p}, t \in Slot : handler'[q][t] = handler[q][t]
         /\ \A t \in Slot :
              /\ ~handler'[p][t].live
              /\ \/ handler'[p][t].stage = "free" /\ handler'[p][t].out = {}
                 \/ /\ handler'[p][t].stage = handler[p][t].stage
                    /\ handler'[p][t].scope = handler[p][t].scope
                    /\ handler'[p][t].sel = handler[p][t].sel
                    /\ handler'[p][t].out = handler[p][t].out
<1>1. \A h \in HandlerState :
        /\ Abandoned(h) \in HandlerState
        /\ ~Abandoned(h).live
        /\ \/ Abandoned(h).stage = "free" /\ Abandoned(h).out = {}
           \/ /\ Abandoned(h).stage = h.stage
              /\ Abandoned(h).scope = h.scope
              /\ Abandoned(h).sel = h.sel
              /\ Abandoned(h).out = h.out
  BY DEF Abandoned, HandlerState, FreeHandler
<1>2. \A t \in Slot : handler[p][t] \in HandlerState
  BY DEF TypeOK
<1>3. /\ \A q \in Peer \ {p} : handler'[q] = handler[q]
      /\ \A t \in Slot : handler'[p][t] = Abandoned(handler[p][t])
      /\ DOMAIN handler' = Peer
  BY DEF TypeOK
<1>4. handler' \in [Peer -> [Slot -> HandlerState]]
  <2>1. [s \in Slot |-> Abandoned(handler[p][s])] \in [Slot -> HandlerState]
    BY <1>1, <1>2
  <2>. QED
    BY <2>1 DEF TypeOK
<1>. QED
  BY <1>1, <1>2, <1>3, <1>4

LEMMA PublishKeeps ==
  ASSUME DeliveryInv, NEW e \in Event, Publish(e)
  PROVE  DeliveryInv'
BY DEF DeliveryInv, TypeOK, QueueTypeOK, HandlerState, FreeHandler,
  OneLiveReply, LiveIsAwaited, HandlerShape, BatchIsProcessing, QueuedFirst,
  BatchIsFresh, ReplyIsFresh, AttemptedIsSettled, AtMostOnce, Settled,
  queueVars, edgeVars, Publish, Add, pollVars

LEMMA AgeKeeps ==
  ASSUME DeliveryInv, NEW e \in Event, Age(e)
  PROVE  DeliveryInv'
BY DEF DeliveryInv, TypeOK, QueueTypeOK, HandlerState, FreeHandler,
  OneLiveReply, LiveIsAwaited, HandlerShape, BatchIsProcessing, QueuedFirst,
  BatchIsFresh, ReplyIsFresh, AttemptedIsSettled, AtMostOnce, Settled,
  queueVars, edgeVars, Age, Expire, pollVars

LEMMA CleanUpKeeps ==
  ASSUME DeliveryInv, CleanUp
  PROVE  DeliveryInv'
BY DEF DeliveryInv, TypeOK, QueueTypeOK, HandlerState, FreeHandler,
  OneLiveReply, LiveIsAwaited, HandlerShape, BatchIsProcessing, QueuedFirst,
  BatchIsFresh, ReplyIsFresh, AttemptedIsSettled, AtMostOnce, Settled,
  queueVars, edgeVars, CleanUp, Cleanup, PurgeDelivered, pollVars

\* The steps that change the row of an edge touch nothing else.
EdgeStep(p) ==
  \/ Handshake(p)
  \/ \E v \in {"APPROVED", "REJECTED"} : ReviewEdge(p, v)
  \/ \E types \in Edited : EditTypes(p, types)
  \/ RevokeEdge(p)

LEMMA EdgeStepsAside ==
  ASSUME TypeOK, NEW p \in Peer, EdgeStep(p)
  PROVE  /\ UNCHANGED <<rows, expired, queuedAt, lastQueued, deliveredTo, confirmedBy>>
         /\ UNCHANGED <<handler, client, batch, toConfirm, declared, attempts, done, crashes>>
         /\ edge' \in [Peer -> {"NONE", "PROPOSED", "APPROVED", "REJECTED", "REVOKED"}]
         /\ ridTypes' \in [Peer -> SUBSET RidType]
         /\ edits' \in Nat
<1>1. UNCHANGED edgeAside
  BY DEF EdgeStep, Handshake, ReviewEdge, EditTypes, RevokeEdge
<1>2. CASE Handshake(p)
  BY <1>1, <1>2 DEF Handshake, TypeOK, edgeAside, queueVars
<1>3. CASE \E v \in {"APPROVED", "REJECTED"} : ReviewEdge(p, v)
  BY <1>1, <1>3 DEF ReviewEdge, TypeOK, edgeAside, queueVars
<1>4. CASE \E types \in Edited : EditTypes(p, types)
  BY <1>1, <1>4 DEF EditTypes, TypeOK, edgeAside, queueVars
<1>5. CASE RevokeEdge(p)
  BY <1>1, <1>5 DEF RevokeEdge, TypeOK, edgeAside, queueVars
<1>. QED
  BY <1>2, <1>3, <1>4, <1>5 DEF EdgeStep

LEMMA EdgeStepKeeps ==
  ASSUME DeliveryInv, NEW p \in Peer, EdgeStep(p)
  PROVE  DeliveryInv'
BY EdgeStepsAside
   DEF DeliveryInv, TypeOK, QueueTypeOK, OneLiveReply, LiveIsAwaited,
       HandlerShape, BatchIsProcessing, QueuedFirst, BatchIsFresh, ReplyIsFresh,
       AttemptedIsSettled, AtMostOnce, Settled

LEMMA ArriveKeeps ==
  ASSUME DeliveryInv, NEW p \in Peer, NEW s \in Slot, PollArrive(p, s)
  PROVE  DeliveryInv'
<1> DEFINE h == [FreeHandler EXCEPT !.stage = "scoped",
                   !.scope = IF edge[p] = "APPROVED" THEN ridTypes[p] ELSE NoFilter,
                   !.live = TRUE]
<1>1. /\ h \in HandlerState
      /\ h.stage = "scoped" /\ h.out = {} /\ h.live
  BY DEF DeliveryInv, TypeOK, HandlerState, FreeHandler, NoFilter
<1>2. handler' = [handler EXCEPT ![p][s] = h]
  BY DEF PollArrive
<1> HIDE DEF h
<1>3. /\ handler' \in [Peer -> [Slot -> HandlerState]]
      /\ handler'[p][s] = h
      /\ \A q \in Peer, t \in Slot : q # p \/ t # s => handler'[q][t] = handler[q][t]
  BY <1>1, <1>2 DEF DeliveryInv, TypeOK
<1>4. client[p] = "idle" /\ \A t \in Slot : ~handler[p][t].live
  BY DEF DeliveryInv, LiveIsAwaited, PollArrive
<1>5. TypeOK'
  <2>1. Declares(p) \in SUBSET RidType
    BY DEF DeliveryInv, TypeOK, Declares
  <2>2. declared' \in [Peer -> SUBSET RidType]
    BY <2>1 DEF DeliveryInv, TypeOK, PollArrive
  <2>3. client' \in [Peer -> {"idle", "waiting", "processing", "confirming"}]
    BY DEF DeliveryInv, TypeOK, PollArrive
  <2>. QED
    BY <1>3, <2>2, <2>3
       DEF DeliveryInv, TypeOK, QueueTypeOK, PollArrive, queueVars, edgeVars
<1>L. \A q \in Peer, t \in Slot :
        handler'[q][t].live => (q = p /\ t = s) \/ (q # p /\ handler[q][t].live)
  BY <1>3, <1>4
<1>6. OneLiveReply'
  BY <1>L DEF DeliveryInv, OneLiveReply
<1>7. LiveIsAwaited'
  <2>1. client'[p] = "waiting" /\ \A q \in Peer \ {p} : client'[q] = client[q]
    BY DEF DeliveryInv, TypeOK, PollArrive
  <2>. QED
    BY <1>L, <2>1 DEF DeliveryInv, LiveIsAwaited
<1>8. HandlerShape'
  BY <1>1, <1>3, <1>4 DEF DeliveryInv, HandlerShape
<1>9. BatchIsProcessing'
  BY <1>1, <1>3, <1>4
     DEF DeliveryInv, BatchIsProcessing, TypeOK, QueueTypeOK, PollArrive,
         Settled, queueVars, edgeVars
<1>10. QueuedFirst'
  BY <1>1, <1>3, <1>4
     DEF DeliveryInv, QueuedFirst, TypeOK, QueueTypeOK, PollArrive, Settled,
         queueVars, edgeVars
<1>11. BatchIsFresh'
  BY <1>1, <1>3, <1>4
     DEF DeliveryInv, BatchIsFresh, TypeOK, QueueTypeOK, PollArrive, Settled,
         queueVars, edgeVars
<1>12. ReplyIsFresh'
  <2> SUFFICES ASSUME NEW q \in Peer, NEW t \in Slot, handler'[q][t].live,
                      NEW e \in handler'[q][t].out
               PROVE  /\ attempts'[q][e] = 0
                      /\ queuedAt'[e] # 0
                      /\ handler'[q][t].stage = "replied" => Settled(q, e)'
    BY DEF ReplyIsFresh
  <2>1. CASE q = p /\ t = s
    BY <2>1, <1>1, <1>3, <1>4
       DEF DeliveryInv, ReplyIsFresh, PollArrive, Settled, queueVars, edgeVars
  <2>2. CASE ~(q = p /\ t = s)
    BY <2>2, <1>1, <1>3, <1>4
       DEF DeliveryInv, ReplyIsFresh, PollArrive, Settled, queueVars, edgeVars
  <2>. QED
    BY <2>1, <2>2
<1>13. AttemptedIsSettled'
  BY <1>1, <1>3, <1>4
     DEF DeliveryInv, AttemptedIsSettled, TypeOK, QueueTypeOK, PollArrive,
         Settled, queueVars, edgeVars
<1>14. AtMostOnce'
  BY <1>1, <1>3, <1>4
     DEF DeliveryInv, AtMostOnce, TypeOK, QueueTypeOK, PollArrive, Settled,
         queueVars, edgeVars
<1>. QED
  BY <1>5, <1>6, <1>7, <1>8, <1>9, <1>10, <1>11, <1>12, <1>13, <1>14 DEF DeliveryInv

\* The handler's next state holds only rows that were visible.
LEMMA SelectedHandler ==
  ASSUME DeliveryInv, NEW p \in Peer, NEW s \in Slot, PollSelect(p, s)
  PROVE  /\ handler' \in [Peer -> [Slot -> HandlerState]]
         /\ \A q \in Peer, t \in Slot : q # p \/ t # s => handler'[q][t] = handler[q][t]
         /\ handler'[p][s].live = handler[p][s].live
         /\ handler'[p][s].out \subseteq Visible(p)
         /\ \A e \in Visible(p) : e \in Event /\ queuedAt[e] # 0 /\ ~Settled(p, e)
         /\ \/ handler'[p][s].stage = "selected" /\ handler'[p][s].out \subseteq handler'[p][s].sel
            \/ handler'[p][s].stage = "replied" /\ handler'[p][s].out = {}
            \/ handler'[p][s].stage = "free" /\ handler'[p][s].out = {} /\ ~handler'[p][s].live
<1> DEFINE g   == handler[p][s]
           sel == Window(p)
           out == InScope(sel, g.scope)
           h   == IF sel # {}
                  THEN [g EXCEPT !.stage = "selected", !.scope = {}, !.sel = sel,
                                 !.out = out]
                  ELSE IF g.live THEN [g EXCEPT !.stage = "replied", !.scope = {}]
                  ELSE FreeHandler
<1>1. g \in HandlerState /\ g.stage = "scoped" /\ g.out = {}
  BY DEF DeliveryInv, TypeOK, HandlerShape, PollSelect
<1>2. /\ out \subseteq sel /\ sel \subseteq Visible(p) /\ Visible(p) \subseteq Event
      /\ \A e \in Visible(p) : queuedAt[e] # 0 /\ ~Settled(p, e)
  BY WindowIsVisible
     DEF DeliveryInv, TypeOK, QueueTypeOK, QueuedFirst, Visible, Settled
<1>3. handler' = [handler EXCEPT ![p][s] = h]
  BY DEF PollSelect
<1> HIDE DEF sel, out
<1>4. /\ h \in HandlerState
      /\ h.live = g.live
      /\ h.out \subseteq Visible(p)
      /\ \/ h.stage = "selected" /\ h.out \subseteq h.sel
         \/ h.stage = "replied" /\ h.out = {}
         \/ h.stage = "free" /\ h.out = {} /\ ~h.live
  <2>1. CASE sel # {}
    BY <1>1, <1>2, <2>1 DEF HandlerState
  <2>2. CASE sel = {} /\ g.live
    BY <1>1, <1>2, <2>2 DEF HandlerState
  <2>3. CASE sel = {} /\ ~g.live
    BY <1>1, <1>2, <2>3 DEF HandlerState, FreeHandler
  <2>. QED
    BY <1>1, <2>1, <2>2, <2>3
<1> HIDE DEF h
<1>5. /\ handler' \in [Peer -> [Slot -> HandlerState]]
      /\ handler'[p][s] = h
      /\ \A q \in Peer, t \in Slot : q # p \/ t # s => handler'[q][t] = handler[q][t]
  BY <1>3, <1>4 DEF DeliveryInv, TypeOK
<1>. QED
  BY <1>2, <1>4, <1>5

LEMMA SelectKeeps ==
  ASSUME DeliveryInv, NEW p \in Peer, NEW s \in Slot, PollSelect(p, s)
  PROVE  DeliveryInv'
<1> DEFINE h == handler'[p][s]
<1>1. /\ handler' \in [Peer -> [Slot -> HandlerState]]
      /\ handler'[p][s] = h
      /\ \A q \in Peer, t \in Slot : q # p \/ t # s => handler'[q][t] = handler[q][t]
      /\ h.live = handler[p][s].live
      /\ h.out \subseteq Visible(p)
      /\ \A e \in Visible(p) : e \in Event /\ queuedAt[e] # 0 /\ ~Settled(p, e)
      /\ \/ h.stage = "selected" /\ h.out \subseteq h.sel
         \/ h.stage = "replied" /\ h.out = {}
         \/ h.stage = "free" /\ h.out = {} /\ ~h.live
  BY SelectedHandler
<1> HIDE DEF h
<1>2. \A e \in Visible(p) : attempts[p][e] = 0
  BY <1>1 DEF DeliveryInv, AttemptedIsSettled
<1>3. TypeOK'
  BY <1>1, <1>2 DEF DeliveryInv, TypeOK, QueueTypeOK, PollSelect, Settled, queueVars, edgeVars
<1>U. UNCHANGED <<queueVars, attempts>>
  BY DEF PollSelect
<1>L. \A q \in Peer, t \in Slot : handler'[q][t].live = handler[q][t].live
  BY <1>1
<1>4. OneLiveReply'
  BY <1>L DEF DeliveryInv, OneLiveReply
<1>5. LiveIsAwaited'
  <2>1. client' = client
    BY DEF PollSelect
  <2>. QED
    BY <1>L, <2>1 DEF DeliveryInv, LiveIsAwaited
<1>6. HandlerShape'
  <2> SUFFICES ASSUME NEW q \in Peer, NEW t \in Slot
               PROVE  /\ handler'[q][t].stage \in {"free", "scoped"} => handler'[q][t].out = {}
                      /\ handler'[q][t].stage = "selected"
                           => handler'[q][t].out \subseteq handler'[q][t].sel
                      /\ handler'[q][t].stage = "free" => ~handler'[q][t].live
    BY DEF HandlerShape
  <2>1. CASE q = p /\ t = s
    BY <2>1, <1>1, <1>2
       DEF DeliveryInv, HandlerShape
  <2>2. CASE ~(q = p /\ t = s)
    BY <2>2, <1>1, <1>2
       DEF DeliveryInv, HandlerShape
  <2>. QED
    BY <2>1, <2>2
<1>7. BatchIsProcessing'
  BY <1>1, <1>2
     DEF DeliveryInv, BatchIsProcessing, TypeOK, QueueTypeOK, PollSelect,
         Settled, queueVars, edgeVars
<1>8. QueuedFirst'
  BY <1>1, <1>2
     DEF DeliveryInv, QueuedFirst, TypeOK, QueueTypeOK, PollSelect, Settled,
         queueVars, edgeVars
<1>9. BatchIsFresh'
  BY <1>1, <1>2
     DEF DeliveryInv, BatchIsFresh, TypeOK, QueueTypeOK, PollSelect, Settled,
         queueVars, edgeVars
<1>10. ReplyIsFresh'
  <2> SUFFICES ASSUME NEW q \in Peer, NEW t \in Slot, handler'[q][t].live,
                      NEW e \in handler'[q][t].out
               PROVE  /\ attempts'[q][e] = 0
                      /\ queuedAt'[e] # 0
                      /\ handler'[q][t].stage = "replied" => Settled(q, e)'
    BY DEF ReplyIsFresh
  <2>1. CASE q = p /\ t = s
    BY <2>1, <1>1, <1>2
       DEF DeliveryInv, ReplyIsFresh, PollSelect, Settled, queueVars, edgeVars
  <2>2. CASE ~(q = p /\ t = s)
    <3>1. handler'[q][t] = handler[q][t]
      BY <2>2, <1>1
    <3>2. /\ attempts[q][e] = 0 /\ queuedAt[e] # 0
          /\ handler[q][t].stage = "replied" => Settled(q, e)
      BY <3>1 DEF DeliveryInv, ReplyIsFresh
    <3>. QED
      BY <3>1, <3>2, <1>U DEF Settled, queueVars
  <2>. QED
    BY <2>1, <2>2
<1>11. AttemptedIsSettled'
  BY <1>1, <1>2
     DEF DeliveryInv, AttemptedIsSettled, TypeOK, QueueTypeOK, PollSelect,
         Settled, queueVars, edgeVars
<1>12. AtMostOnce'
  BY <1>1, <1>2
     DEF DeliveryInv, AtMostOnce, TypeOK, QueueTypeOK, PollSelect, Settled,
         queueVars, edgeVars
<1>. QED
  BY <1>3, <1>4, <1>5, <1>6, <1>7, <1>8, <1>9, <1>10, <1>11, <1>12 DEF DeliveryInv

LEMMA MarkKeeps ==
  ASSUME DeliveryInv, NEW p \in Peer, NEW s \in Slot, PollMark(p, s)
  PROVE  DeliveryInv'
<1> DEFINE g == handler[p][s]
           h == IF g.live THEN [g EXCEPT !.stage = "replied", !.sel = {}]
                ELSE FreeHandler
<1>1. /\ g \in HandlerState
      /\ g.out \subseteq g.sel /\ g.sel \subseteq Event
  BY DEF DeliveryInv, TypeOK, HandlerShape, PollMark, HandlerState
<1>2. /\ h \in HandlerState
      /\ g.live => h.live /\ h.stage = "replied" /\ h.out = g.out
      /\ ~g.live => ~h.live /\ h.stage = "free" /\ h.out = {}
  BY <1>1 DEF HandlerState, FreeHandler
<1>3. handler' = [handler EXCEPT ![p][s] = h]
  BY DEF PollMark
<1> HIDE DEF h
<1>4. /\ handler' \in [Peer -> [Slot -> HandlerState]]
      /\ handler'[p][s] = h
      /\ \A q \in Peer, t \in Slot : q # p \/ t # s => handler'[q][t] = handler[q][t]
  BY <1>2, <1>3 DEF DeliveryInv, TypeOK
<1>5. \A q \in Peer, e \in Event :
        /\ Settled(q, e) => Settled(q, e)'
        /\ q = p /\ e \in g.sel /\ queuedAt[e] # 0 => Settled(q, e)'
  BY DEF DeliveryInv, TypeOK, QueueTypeOK, PollMark, MarkDelivered, Settled
<1>6. /\ queuedAt' = queuedAt /\ rows' = rows
      /\ UNCHANGED <<client, batch, attempts, done>>
  BY DEF PollMark, MarkDelivered
<1>7. g.live => \A e \in g.out :
        e \in Event /\ attempts[p][e] = 0 /\ queuedAt[e] # 0 /\ Settled(p, e)'
  BY <1>1, <1>5 DEF DeliveryInv, ReplyIsFresh
<1>8. \A q \in Peer, t \in Slot : handler[q][t].out \subseteq Event /\ batch[q] \subseteq Event
  BY DEF DeliveryInv, TypeOK, HandlerState
<1>9. TypeOK'
  BY <1>1, <1>2, <1>4, <1>5, <1>6, <1>7, <1>8
     DEF DeliveryInv, TypeOK, QueueTypeOK, PollMark, MarkDelivered, edgeVars
<1>10. OneLiveReply'
  BY <1>2, <1>4 DEF DeliveryInv, OneLiveReply
<1>11. LiveIsAwaited'
  BY <1>2, <1>4, <1>6 DEF DeliveryInv, LiveIsAwaited
<1>12. HandlerShape'
  BY <1>2, <1>4 DEF DeliveryInv, HandlerShape
<1>13. BatchIsProcessing'
  BY <1>6 DEF DeliveryInv, BatchIsProcessing
<1>14. QueuedFirst'
  BY <1>1, <1>2, <1>4, <1>5, <1>6, <1>7, <1>8
     DEF DeliveryInv, QueuedFirst, TypeOK, QueueTypeOK, PollMark,
         MarkDelivered
<1>15. BatchIsFresh'
  BY <1>5, <1>6, <1>8 DEF DeliveryInv, BatchIsFresh
<1>16. ReplyIsFresh'
  BY <1>2, <1>4, <1>5, <1>6, <1>7, <1>8 DEF DeliveryInv, ReplyIsFresh
<1>17. AttemptedIsSettled'
  BY <1>5, <1>6 DEF DeliveryInv, AttemptedIsSettled
<1>18. AtMostOnce'
  BY <1>6 DEF DeliveryInv, AtMostOnce
<1>. QED
  BY <1>9, <1>10, <1>11, <1>12, <1>13, <1>14, <1>15, <1>16, <1>17, <1>18
     DEF DeliveryInv

LEMMA ReceiveKeeps ==
  ASSUME DeliveryInv, NEW p \in Peer, NEW s \in Slot, Receive(p, s)
  PROVE  DeliveryInv'
BY DEF DeliveryInv, TypeOK, QueueTypeOK, HandlerState, FreeHandler,
  OneLiveReply, LiveIsAwaited, HandlerShape, BatchIsProcessing, QueuedFirst,
  BatchIsFresh, ReplyIsFresh, AttemptedIsSettled, AtMostOnce, Settled,
  queueVars, edgeVars, Receive

LEMMA PollFailsKeeps ==
  ASSUME DeliveryInv, NEW p \in Peer, PollFails(p)
  PROVE  DeliveryInv'
<1>1. /\ handler' \in [Peer -> [Slot -> HandlerState]]
      /\ \A q \in Peer \ {p}, t \in Slot : handler'[q][t] = handler[q][t]
      /\ \A t \in Slot :
           /\ ~handler'[p][t].live
           /\ \/ handler'[p][t].stage = "free" /\ handler'[p][t].out = {}
              \/ /\ handler'[p][t].stage = handler[p][t].stage
                 /\ handler'[p][t].scope = handler[p][t].scope
                 /\ handler'[p][t].sel = handler[p][t].sel
                 /\ handler'[p][t].out = handler[p][t].out
  <2>1. handler' = [handler EXCEPT ![p] = [s \in Slot |-> Abandoned(handler[p][s])]]
    BY DEF PollFails
  <2>2. TypeOK
    BY DEF DeliveryInv
  <2>. QED
    BY <2>1, <2>2, PeerHandlersChange
<1>2. TypeOK'
  BY <1>1 DEF DeliveryInv, TypeOK, QueueTypeOK, PollFails, Settled, queueVars, edgeVars
<1>3. OneLiveReply'
  BY <1>1 DEF DeliveryInv, OneLiveReply
<1>4. LiveIsAwaited'
  <2>1. \A q \in Peer \ {p} : client'[q] = client[q]
    BY DEF DeliveryInv, TypeOK, PollFails
  <2>. QED
    BY <1>1, <2>1 DEF DeliveryInv, LiveIsAwaited
<1>5. HandlerShape'
  <2> SUFFICES ASSUME NEW q \in Peer, NEW t \in Slot
               PROVE  /\ handler'[q][t].stage \in {"free", "scoped"} => handler'[q][t].out = {}
                      /\ handler'[q][t].stage = "selected"
                           => handler'[q][t].out \subseteq handler'[q][t].sel
                      /\ handler'[q][t].stage = "free" => ~handler'[q][t].live
    BY DEF HandlerShape
  <2>1. CASE q = p /\ t \in Slot
    BY <2>1, <1>1 DEF DeliveryInv, HandlerShape
  <2>2. CASE ~(q = p /\ t \in Slot)
    BY <2>2, <1>1 DEF DeliveryInv, HandlerShape
  <2>. QED
    BY <2>1, <2>2
<1>6. BatchIsProcessing'
  BY <1>1
     DEF DeliveryInv, BatchIsProcessing, TypeOK, QueueTypeOK, PollFails,
         Settled, queueVars, edgeVars
<1>7. QueuedFirst'
  BY <1>1
     DEF DeliveryInv, QueuedFirst, TypeOK, QueueTypeOK, PollFails, Settled,
         queueVars, edgeVars
<1>8. BatchIsFresh'
  BY <1>1
     DEF DeliveryInv, BatchIsFresh, TypeOK, QueueTypeOK, PollFails, Settled,
         queueVars, edgeVars
<1>9. ReplyIsFresh'
  BY <1>1 DEF DeliveryInv, ReplyIsFresh, PollFails, Settled, queueVars, edgeVars
<1>10. AttemptedIsSettled'
  BY <1>1
     DEF DeliveryInv, AttemptedIsSettled, TypeOK, QueueTypeOK, PollFails,
         Settled, queueVars, edgeVars
<1>11. AtMostOnce'
  BY <1>1
     DEF DeliveryInv, AtMostOnce, TypeOK, QueueTypeOK, PollFails, Settled,
         queueVars, edgeVars
<1>. QED
  BY <1>2, <1>3, <1>4, <1>5, <1>6, <1>7, <1>8, <1>9, <1>10, <1>11 DEF DeliveryInv

LEMMA ProcessKeeps ==
  ASSUME DeliveryInv, NEW p \in Peer, NEW e \in Event, NEW ok \in BOOLEAN,
         Process(p, e, ok)
  PROVE  DeliveryInv'
BY DEF DeliveryInv, TypeOK, QueueTypeOK, HandlerState, FreeHandler,
  OneLiveReply, LiveIsAwaited, HandlerShape, BatchIsProcessing, QueuedFirst,
  BatchIsFresh, ReplyIsFresh, AttemptedIsSettled, AtMostOnce, Settled,
  queueVars, edgeVars, Process

LEMMA ConfirmKeeps ==
  ASSUME DeliveryInv, NEW p \in Peer, Confirm(p)
  PROVE  DeliveryInv'
BY DEF DeliveryInv, TypeOK, QueueTypeOK, HandlerState, FreeHandler,
  OneLiveReply, LiveIsAwaited, HandlerShape, BatchIsProcessing, QueuedFirst,
  BatchIsFresh, ReplyIsFresh, AttemptedIsSettled, AtMostOnce, Settled,
  queueVars, edgeVars, Confirm, MarkConfirmed

LEMMA ConfirmFailsKeeps ==
  ASSUME DeliveryInv, NEW p \in Peer, ConfirmFails(p)
  PROVE  DeliveryInv'
BY DEF DeliveryInv, TypeOK, QueueTypeOK, HandlerState, FreeHandler,
  OneLiveReply, LiveIsAwaited, HandlerShape, BatchIsProcessing, QueuedFirst,
  BatchIsFresh, ReplyIsFresh, AttemptedIsSettled, AtMostOnce, Settled,
  queueVars, edgeVars, ConfirmFails

LEMMA PeerCrashKeeps ==
  ASSUME DeliveryInv, NEW p \in Peer, PeerCrash(p)
  PROVE  DeliveryInv'
<1>1. /\ handler' \in [Peer -> [Slot -> HandlerState]]
      /\ \A q \in Peer \ {p}, t \in Slot : handler'[q][t] = handler[q][t]
      /\ \A t \in Slot :
           /\ ~handler'[p][t].live
           /\ \/ handler'[p][t].stage = "free" /\ handler'[p][t].out = {}
              \/ /\ handler'[p][t].stage = handler[p][t].stage
                 /\ handler'[p][t].scope = handler[p][t].scope
                 /\ handler'[p][t].sel = handler[p][t].sel
                 /\ handler'[p][t].out = handler[p][t].out
  <2>1. handler' = [handler EXCEPT ![p] = [s \in Slot |-> Abandoned(handler[p][s])]]
    BY DEF PeerCrash
  <2>2. TypeOK
    BY DEF DeliveryInv
  <2>. QED
    BY <2>1, <2>2, PeerHandlersChange
<1>2. TypeOK'
  BY <1>1 DEF DeliveryInv, TypeOK, QueueTypeOK, PeerCrash, Settled, queueVars, edgeVars
<1>3. OneLiveReply'
  BY <1>1 DEF DeliveryInv, OneLiveReply
<1>4. LiveIsAwaited'
  <2>1. \A q \in Peer \ {p} : client'[q] = client[q]
    BY DEF DeliveryInv, TypeOK, PeerCrash
  <2>. QED
    BY <1>1, <2>1 DEF DeliveryInv, LiveIsAwaited
<1>5. HandlerShape'
  <2> SUFFICES ASSUME NEW q \in Peer, NEW t \in Slot
               PROVE  /\ handler'[q][t].stage \in {"free", "scoped"} => handler'[q][t].out = {}
                      /\ handler'[q][t].stage = "selected"
                           => handler'[q][t].out \subseteq handler'[q][t].sel
                      /\ handler'[q][t].stage = "free" => ~handler'[q][t].live
    BY DEF HandlerShape
  <2>1. CASE q = p /\ t \in Slot
    BY <2>1, <1>1 DEF DeliveryInv, HandlerShape
  <2>2. CASE ~(q = p /\ t \in Slot)
    BY <2>2, <1>1 DEF DeliveryInv, HandlerShape
  <2>. QED
    BY <2>1, <2>2
<1>6. BatchIsProcessing'
  BY <1>1
     DEF DeliveryInv, BatchIsProcessing, TypeOK, QueueTypeOK, PeerCrash,
         Settled, queueVars, edgeVars
<1>7. QueuedFirst'
  BY <1>1
     DEF DeliveryInv, QueuedFirst, TypeOK, QueueTypeOK, PeerCrash, Settled,
         queueVars, edgeVars
<1>8. BatchIsFresh'
  BY <1>1
     DEF DeliveryInv, BatchIsFresh, TypeOK, QueueTypeOK, PeerCrash, Settled,
         queueVars, edgeVars
<1>9. ReplyIsFresh'
  BY <1>1 DEF DeliveryInv, ReplyIsFresh, PeerCrash, Settled, queueVars, edgeVars
<1>10. AttemptedIsSettled'
  BY <1>1
     DEF DeliveryInv, AttemptedIsSettled, TypeOK, QueueTypeOK, PeerCrash,
         Settled, queueVars, edgeVars
<1>11. AtMostOnce'
  BY <1>1
     DEF DeliveryInv, AtMostOnce, TypeOK, QueueTypeOK, PeerCrash, Settled,
         queueVars, edgeVars
<1>. QED
  BY <1>2, <1>3, <1>4, <1>5, <1>6, <1>7, <1>8, <1>9, <1>10, <1>11 DEF DeliveryInv

LEMMA ServerCrashKeeps ==
  ASSUME DeliveryInv, ServerCrash
  PROVE  DeliveryInv'
BY DEF DeliveryInv, TypeOK, QueueTypeOK, HandlerState, FreeHandler,
  OneLiveReply, LiveIsAwaited, HandlerShape, BatchIsProcessing, QueuedFirst,
  BatchIsFresh, ReplyIsFresh, AttemptedIsSettled, AtMostOnce, Settled,
  queueVars, edgeVars, ServerCrash

-----------------------------------------------------------------------------
(* The theorems. *)

\* Every step of the queue, the handlers and the peers keeps the invariant.
THEOREM NextDelivery == DeliveryInv /\ [Next]_vars => DeliveryInv'
<1> SUFFICES ASSUME DeliveryInv, [Next]_vars PROVE DeliveryInv'
  OBVIOUS
<1>1. ASSUME NEW e \in Event, Publish(e) \/ Age(e) PROVE DeliveryInv'
  BY <1>1, PublishKeeps, AgeKeeps
<1>2. CASE CleanUp
  BY <1>2, CleanUpKeeps
<1>3. ASSUME NEW p \in Peer, PeerNext(p) PROVE DeliveryInv'
  BY <1>3, EdgeStepKeeps, ArriveKeeps, SelectKeeps, MarkKeeps,
     ReceiveKeeps, PollFailsKeeps, ProcessKeeps, ConfirmKeeps,
     ConfirmFailsKeeps, PeerCrashKeeps
     DEF PeerNext, EdgeStep
<1>4. CASE ServerCrash
  BY <1>4, ServerCrashKeeps
<1>5. CASE UNCHANGED vars
  BY <1>5 DEF vars, pollVars, queueVars, edgeVars, DeliveryInv, TypeOK, QueueTypeOK,
     OneLiveReply, LiveIsAwaited, HandlerShape, BatchIsProcessing, QueuedFirst,
     BatchIsFresh, ReplyIsFresh, AttemptedIsSettled, AtMostOnce, Settled
<1>. QED
  BY <1>1, <1>2, <1>3, <1>4, <1>5 DEF Next

\* One reply is live per peer, and what it holds was not processed before.
THEOREM DeliveryIsInvariant == Spec => []DeliveryInv
BY InitDelivery, NextDelivery, PTL DEF Spec

\* A peer calls _process_event at most once on an event, whatever the number
\* of peers, events and concurrent handlers.
THEOREM ProcessesAtMostOnce == Spec => []AtMostOnce
<1>1. DeliveryInv => AtMostOnce
  BY DEF DeliveryInv
<1>. QED
  BY <1>1, DeliveryIsInvariant, PTL

\* Every variable keeps its type.
THEOREM TypesAreKept == Spec => []TypeOK
<1>1. DeliveryInv => TypeOK
  BY DEF DeliveryInv
<1>. QED
  BY <1>1, DeliveryIsInvariant, PTL

-----------------------------------------------------------------------------
(* The contract.  A step that never unsettles a row, never brings a settled *)
(* event back into flight, and handles only what is in flight is a step of  *)
(* DeliveryContract.                                                        *)

Advances(p, e) ==
  /\ e \in done[p] => e \in done'[p]
  /\ Settled(p, e) => Settled(p, e)'
  /\ Settled(p, e) /\ e \in InFlight(p)' => e \in InFlight(p)
  /\ e \in done'[p] \ done[p] => Settled(p, e) /\ e \in InFlight(p)

LEMMA AdvancesIsProgress ==
  ASSUME NEW p \in Peer, NEW e \in Event, Advances(p, e)
  PROVE  \/ StatusOf(p, e)' = StatusOf(p, e)
         \/ <<StatusOf(p, e), StatusOf(p, e)'>> \in Contract!Progress
<1>1. CASE e \in done[p]
  BY <1>1 DEF Advances, StatusOf
<1>2. CASE e \notin done[p] /\ e \in done'[p]
  BY <1>2 DEF Advances, StatusOf, Contract!Progress
<1>3. CASE e \notin done[p] /\ e \notin done'[p] /\ Settled(p, e)
  BY <1>3 DEF Advances, StatusOf, Contract!Progress
<1>4. CASE e \notin done[p] /\ e \notin done'[p] /\ ~Settled(p, e)
  BY <1>4 DEF Advances, StatusOf, Contract!Progress
<1>. QED
  BY <1>1, <1>2, <1>3, <1>4

\* Steps that leave the clients and the handlers alone only settle rows.
LEMMA QueueStepAdvances ==
  ASSUME DeliveryInv,
         (\E e \in Event : Publish(e) \/ Age(e)) \/ CleanUp \/ UNCHANGED vars
  PROVE  \A p \in Peer, e \in Event : Advances(p, e)
<1>1. UNCHANGED <<handler, batch, done>>
  BY DEF Publish, Age, CleanUp, pollVars, vars
<1>2. \A p \in Peer, e \in Event : Settled(p, e) => Settled(p, e)'
  BY DEF DeliveryInv, TypeOK, QueueTypeOK, Settled, Publish, Add, Age, Expire,
     CleanUp, Cleanup, PurgeDelivered, pollVars, vars, queueVars, edgeVars
<1>3. \A p \in Peer : InFlight(p)' = InFlight(p)
  BY <1>1 DEF InFlight
<1>. QED
  BY <1>1, <1>2, <1>3 DEF Advances

LEMMA EdgeStepAdvances ==
  ASSUME DeliveryInv, DeliveryInv', NEW p \in Peer, EdgeStep(p)
  PROVE  \A q \in Peer, e \in Event : Advances(q, e)
<1>1. UNCHANGED <<rows, queuedAt, deliveredTo, done, batch, handler>>
  BY EdgeStepsAside DEF DeliveryInv
<1>2. \A q \in Peer, e \in Event : Settled(q, e)' <=> Settled(q, e)
  BY <1>1 DEF Settled
<1>3. \A q \in Peer : InFlight(q)' = InFlight(q)
  BY <1>1 DEF InFlight
<1>. QED
  BY <1>1, <1>2, <1>3 DEF Advances

LEMMA ArriveAdvances ==
  ASSUME DeliveryInv, DeliveryInv', NEW p \in Peer, NEW s \in Slot,
         PollArrive(p, s)
  PROVE  \A q \in Peer, e \in Event : Advances(q, e)
<1>1. UNCHANGED <<queueVars, done>>
  BY DEF PollArrive
<1>2. \A q \in Peer, e \in Event : Settled(q, e)' <=> Settled(q, e)
  BY <1>1 DEF Settled, queueVars, edgeVars
<1>3. \A q \in Peer, e \in Event :
        Settled(q, e) /\ e \in InFlight(q)' => e \in InFlight(q)
  <2> SUFFICES ASSUME NEW q \in Peer, NEW e \in Event, Settled(q, e),
                      e \in InFlight(q)'
               PROVE  e \in InFlight(q)
    OBVIOUS
  <2>. QED
    BY DEF DeliveryInv, TypeOK, HandlerState, FreeHandler, InFlight, PollArrive
<1>. QED
  BY <1>1, <1>2, <1>3 DEF Advances

LEMMA SelectAdvances ==
  ASSUME DeliveryInv, DeliveryInv', NEW p \in Peer, NEW s \in Slot,
         PollSelect(p, s)
  PROVE  \A q \in Peer, e \in Event : Advances(q, e)
<1>1. UNCHANGED <<queueVars, done>>
  BY DEF PollSelect
<1>2. \A q \in Peer, e \in Event : Settled(q, e)' <=> Settled(q, e)
  BY <1>1 DEF Settled, queueVars, edgeVars
<1>3. \A q \in Peer, e \in Event :
        Settled(q, e) /\ e \in InFlight(q)' => e \in InFlight(q)
  <2> SUFFICES ASSUME NEW q \in Peer, NEW e \in Event, Settled(q, e),
                      e \in InFlight(q)'
               PROVE  e \in InFlight(q)
    OBVIOUS
  <2>1. CASE e \in batch'[q]
    <3>1. batch' = batch
      BY DEF PollSelect
    <3>. QED
      BY <2>1, <3>1 DEF InFlight
  <2>2. ASSUME NEW t \in Slot, handler'[q][t].live, e \in handler'[q][t].out
        PROVE  e \in InFlight(q)
    <3>1. ~(q = p /\ t = s)
      <4> SUFFICES ASSUME q = p, t = s PROVE FALSE
        OBVIOUS
      <4>1. e \in Visible(p)
        BY <2>2, SelectedHandler
      <4>. QED
        BY <4>1, SelectedHandler
    <3>2. handler'[q][t] = handler[q][t]
      BY <3>1, SelectedHandler
    <3>. QED
      BY <2>2, <3>2 DEF InFlight
  <2>. QED
    BY <2>1, <2>2 DEF InFlight
<1>. QED
  BY <1>1, <1>2, <1>3 DEF Advances

LEMMA ReceiveAdvances ==
  ASSUME DeliveryInv, DeliveryInv', NEW p \in Peer, NEW s \in Slot,
         Receive(p, s)
  PROVE  \A q \in Peer, e \in Event : Advances(q, e)
<1>1. UNCHANGED <<queueVars, done>>
  BY DEF Receive
<1>2. \A q \in Peer, e \in Event : Settled(q, e)' <=> Settled(q, e)
  BY <1>1 DEF Settled, queueVars, edgeVars
<1>3. \A q \in Peer, e \in Event :
        Settled(q, e) /\ e \in InFlight(q)' => e \in InFlight(q)
  <2> SUFFICES ASSUME NEW q \in Peer, NEW e \in Event, Settled(q, e),
                      e \in InFlight(q)'
               PROVE  e \in InFlight(q)
    OBVIOUS
  <2>. QED
    BY DEF DeliveryInv, TypeOK, HandlerState, FreeHandler, InFlight, Receive
<1>. QED
  BY <1>1, <1>2, <1>3 DEF Advances

LEMMA PollFailsAdvances ==
  ASSUME DeliveryInv, DeliveryInv', NEW p \in Peer,
         PollFails(p)
  PROVE  \A q \in Peer, e \in Event : Advances(q, e)
<1>1. UNCHANGED <<queueVars, done>>
  BY DEF PollFails
<1>2. \A q \in Peer, e \in Event : Settled(q, e)' <=> Settled(q, e)
  BY <1>1 DEF Settled, queueVars, edgeVars
<1>3. \A q \in Peer, e \in Event :
        Settled(q, e) /\ e \in InFlight(q)' => e \in InFlight(q)
  <2> SUFFICES ASSUME NEW q \in Peer, NEW e \in Event, Settled(q, e),
                      e \in InFlight(q)'
               PROVE  e \in InFlight(q)
    OBVIOUS
  <2>1. CASE e \in batch'[q]
    BY <2>1 DEF InFlight, PollFails
  <2>2. ASSUME NEW t \in Slot, handler'[q][t].live, e \in handler'[q][t].out
        PROVE  e \in InFlight(q)
    <3>1. handler'[q][t] = handler[q][t]
      BY <2>2, PeerHandlersChange DEF DeliveryInv, PollFails
    <3>. QED
      BY <2>2, <3>1 DEF InFlight
  <2>. QED
    BY <2>1, <2>2 DEF InFlight
<1>. QED
  BY <1>1, <1>2, <1>3 DEF Advances

LEMMA PeerCrashAdvances ==
  ASSUME DeliveryInv, DeliveryInv', NEW p \in Peer,
         PeerCrash(p)
  PROVE  \A q \in Peer, e \in Event : Advances(q, e)
<1>1. UNCHANGED <<queueVars, done>>
  BY DEF PeerCrash
<1>2. \A q \in Peer, e \in Event : Settled(q, e)' <=> Settled(q, e)
  BY <1>1 DEF Settled, queueVars, edgeVars
<1>3. \A q \in Peer, e \in Event :
        Settled(q, e) /\ e \in InFlight(q)' => e \in InFlight(q)
  <2> SUFFICES ASSUME NEW q \in Peer, NEW e \in Event, Settled(q, e),
                      e \in InFlight(q)'
               PROVE  e \in InFlight(q)
    OBVIOUS
  <2>1. CASE e \in batch'[q]
    BY <2>1 DEF InFlight, PeerCrash
  <2>2. ASSUME NEW t \in Slot, handler'[q][t].live, e \in handler'[q][t].out
        PROVE  e \in InFlight(q)
    <3>1. handler'[q][t] = handler[q][t]
      BY <2>2, PeerHandlersChange DEF DeliveryInv, PeerCrash
    <3>. QED
      BY <2>2, <3>1 DEF InFlight
  <2>. QED
    BY <2>1, <2>2 DEF InFlight
<1>. QED
  BY <1>1, <1>2, <1>3 DEF Advances

LEMMA ServerCrashAdvances ==
  ASSUME DeliveryInv, DeliveryInv', ServerCrash
  PROVE  \A q \in Peer, e \in Event : Advances(q, e)
<1>1. UNCHANGED <<queueVars, done>>
  BY DEF ServerCrash
<1>2. \A q \in Peer, e \in Event : Settled(q, e)' <=> Settled(q, e)
  BY <1>1 DEF Settled, queueVars, edgeVars
<1>3. \A q \in Peer, e \in Event :
        Settled(q, e) /\ e \in InFlight(q)' => e \in InFlight(q)
  <2> SUFFICES ASSUME NEW q \in Peer, NEW e \in Event, Settled(q, e),
                      e \in InFlight(q)'
               PROVE  e \in InFlight(q)
    OBVIOUS
  <2>. QED
    BY DEF DeliveryInv, TypeOK, HandlerState, FreeHandler, InFlight, ServerCrash
<1>. QED
  BY <1>1, <1>2, <1>3 DEF Advances

LEMMA MarkAdvances ==
  ASSUME DeliveryInv, DeliveryInv', NEW p \in Peer, NEW s \in Slot, PollMark(p, s)
  PROVE  \A q \in Peer, e \in Event : Advances(q, e)
<1>1. UNCHANGED <<batch, done>>
  BY DEF PollMark
<1>2. \A q \in Peer, e \in Event : Settled(q, e) => Settled(q, e)'
  BY DEF DeliveryInv, TypeOK, QueueTypeOK, PollMark, MarkDelivered, Settled
<1>3. \A q \in Peer : InFlight(q)' \subseteq InFlight(q)
  BY DEF DeliveryInv, TypeOK, HandlerState, FreeHandler, PollMark, InFlight
<1>. QED
  BY <1>1, <1>2, <1>3 DEF Advances

LEMMA ProcessAdvances ==
  ASSUME DeliveryInv, DeliveryInv', NEW p \in Peer, NEW f \in Event,
         NEW ok \in BOOLEAN, Process(p, f, ok)
  PROVE  \A q \in Peer, e \in Event : Advances(q, e)
<1>1. UNCHANGED <<queueVars, handler>> /\ f \in batch[p] /\ Settled(p, f)
  BY DEF DeliveryInv, BatchIsFresh, Process
<1>2. \A q \in Peer, e \in Event : Settled(q, e)' <=> Settled(q, e)
  BY <1>1 DEF Settled, queueVars, edgeVars
<1>3. /\ \A q \in Peer : batch'[q] \subseteq batch[q] /\ done[q] \subseteq done'[q]
      /\ \A q \in Peer : done'[q] \ done[q] \subseteq IF q = p THEN {f} ELSE {}
  BY DEF DeliveryInv, TypeOK, Process
<1>4. \A q \in Peer : InFlight(q)' \subseteq InFlight(q)
  BY <1>1, <1>3 DEF InFlight
<1>. QED
  BY <1>1, <1>2, <1>3, <1>4 DEF Advances, InFlight

LEMMA ConfirmAdvances ==
  ASSUME DeliveryInv, NEW p \in Peer, Confirm(p) \/ ConfirmFails(p)
  PROVE  \A q \in Peer, e \in Event : Advances(q, e)
<1>1. UNCHANGED <<rows, queuedAt, deliveredTo, handler, batch, done>>
  BY DEF Confirm, ConfirmFails, MarkConfirmed, queueVars, edgeVars
<1>. QED
  BY <1>1 DEF Advances, Settled, InFlight

\* The protocol implements the contract: an event once handed over and closed
\* by a lost reply, an exception or a crash is never handed over again.
THEOREM ImplementsContract == Spec => HandsOverOnce
<1> DEFINE Mapped == [p \in Peer |-> [e \in Event |-> StatusOf(p, e)]]
<1>1. Init => Contract!Init
  BY DEF Init, QueueInit, Contract!Init, StatusOf, Settled
<1>2. DeliveryInv /\ DeliveryInv' /\ [Next]_vars => [Contract!Next]_Mapped
  <2> SUFFICES ASSUME DeliveryInv, DeliveryInv', [Next]_vars
               PROVE  Contract!Next
    OBVIOUS
  <2>1. \A p \in Peer, e \in Event : Advances(p, e)
    <3>1. CASE (\E e \in Event : Publish(e) \/ Age(e)) \/ CleanUp \/ UNCHANGED vars
      BY <3>1, QueueStepAdvances
    <3>2. CASE ServerCrash
      BY <3>2, ServerCrashAdvances
    <3>3. ASSUME NEW p \in Peer, PeerNext(p)
          PROVE  \A q \in Peer, e \in Event : Advances(q, e)
      <4>1. CASE EdgeStep(p)
        BY <4>1, EdgeStepAdvances
      <4>2. ASSUME NEW s \in Slot,
                   PollArrive(p, s) \/ PollSelect(p, s) \/ PollMark(p, s) \/ Receive(p, s)
            PROVE  \A q \in Peer, e \in Event : Advances(q, e)
        BY <4>2, ArriveAdvances, SelectAdvances, MarkAdvances, ReceiveAdvances
      <4>3. CASE PollFails(p) \/ PeerCrash(p)
        BY <4>3, PollFailsAdvances, PeerCrashAdvances
      <4>4. CASE Confirm(p) \/ ConfirmFails(p)
        BY <4>4, ConfirmAdvances
      <4>5. ASSUME NEW e \in Event, NEW ok \in BOOLEAN, Process(p, e, ok)
            PROVE  \A q \in Peer, f \in Event : Advances(q, f)
        BY <4>5, ProcessAdvances
      <4>. QED
        BY <3>3, <4>1, <4>2, <4>3, <4>4, <4>5 DEF PeerNext, EdgeStep
    <3>. QED
      BY <3>1, <3>2, <3>3 DEF Next
  <2>2. \A p \in Peer, e \in Event : StatusOf(p, e)' \in Contract!Status
    BY DEF StatusOf, Contract!Status
  <2>3. Mapped' \in [Peer -> [Event -> Contract!Status]]
    BY <2>2
  <2>4. \A p \in Peer, e \in Event :
          \/ Mapped'[p][e] = Mapped[p][e]
          \/ <<Mapped[p][e], Mapped'[p][e]>> \in Contract!Progress
    BY <2>1, AdvancesIsProgress
  <2>. QED
    BY <2>3, <2>4 DEF Contract!Next
<1>. QED
  BY <1>1, <1>2, DeliveryIsInvariant, PTL DEF Spec, HandsOverOnce, Contract!Spec

\* confirmed_by tells the truth: a confirm carries only processed events.
THEOREM ConfirmsAreTrue == Spec => []ConfirmedWasProcessed
<1> DEFINE ConfirmInv == /\ \A p \in Peer : toConfirm[p] \subseteq done[p]
                         /\ ConfirmedWasProcessed
<1>1. Init => ConfirmInv
  BY DEF Init, QueueInit, ConfirmedWasProcessed
<1>2. TypeOK /\ ConfirmInv /\ [Next]_vars => ConfirmInv'
  <2> SUFFICES ASSUME TypeOK, ConfirmInv, [Next]_vars PROVE ConfirmInv'
    OBVIOUS
  <2>1. CASE UNCHANGED <<confirmedBy, toConfirm, done>>
    BY <2>1 DEF ConfirmedWasProcessed
  <2>2. ASSUME NEW p \in Peer, NEW e \in Event, NEW ok \in BOOLEAN, Process(p, e, ok)
        PROVE  ConfirmInv'
    BY <2>2 DEF TypeOK, QueueTypeOK, Process, queueVars, edgeVars, ConfirmedWasProcessed
  <2>3. ASSUME NEW p \in Peer, Confirm(p) PROVE ConfirmInv'
    BY <2>3 DEF TypeOK, QueueTypeOK, Confirm, MarkConfirmed, ConfirmedWasProcessed
  <2>4. ASSUME NEW p \in Peer, ConfirmFails(p) \/ PeerCrash(p) PROVE ConfirmInv'
    <3>1. /\ UNCHANGED <<confirmedBy, done>>
          /\ toConfirm' = [toConfirm EXCEPT ![p] = {}]
      BY <2>4 DEF ConfirmFails, PeerCrash, queueVars, edgeVars
    <3>. QED
      BY <3>1 DEF TypeOK, ConfirmedWasProcessed
  <2>5. ASSUME NEW p \in Peer, NEW s \in Slot,
               PollArrive(p, s) \/ PollSelect(p, s) \/ PollMark(p, s) \/ Receive(p, s)
        PROVE  ConfirmInv'
    BY <2>1, <2>5 DEF PollArrive, PollSelect, PollMark, MarkDelivered, Receive,
       queueVars, edgeVars
  <2>6. ASSUME NEW p \in Peer, EdgeStep(p) \/ PollFails(p) PROVE ConfirmInv'
    BY <2>1, <2>6, EdgeStepsAside DEF PollFails, queueVars
  <2>7. CASE (\E e \in Event : Publish(e) \/ Age(e)) \/ CleanUp \/ ServerCrash
               \/ UNCHANGED vars
    BY <2>1, <2>7 DEF Publish, Add, Age, Expire, CleanUp, Cleanup, PurgeDelivered,
       ServerCrash, pollVars, queueVars, edgeVars, vars
  <2>. QED
    BY <2>2, <2>3, <2>4, <2>5, <2>6, <2>7 DEF Next, PeerNext, EdgeStep
<1>3. ConfirmInv => ConfirmedWasProcessed
  OBVIOUS
<1>. QED
  BY <1>1, <1>2, <1>3, TypesAreKept, PTL DEF Spec

-----------------------------------------------------------------------------
(* Confinement.  What a live handler read when its request arrived is what  *)
(* the history remembers of the peer's last request, for a peer waits for   *)
(* one reply at a time; the invariant follows it through the handler into   *)
(* the batch.  Replies nobody waits for may hold what was declared before.  *)

Allowed(p, e) ==
  /\ TargetOf[e] \in {Broadcast, p}
  /\ Strict => TypeOf[e] \in declared[p]

HandlersConfined ==
  \A p \in Peer, s \in Slot : handler[p][s].live =>
    /\ handler[p][s].stage = "scoped" /\ Strict =>
         handler[p][s].scope \subseteq declared[p]
    /\ \A e \in handler[p][s].out : Allowed(p, e)

BatchConfined == \A p \in Peer : \A e \in batch[p] : Allowed(p, e)

ConfinedInv == HandlersConfined /\ BatchConfined

LEMMA ScopedReads ==
  ASSUME QueueTypeOK,
         NEW p \in Peer, NEW scope, NEW e \in InScope(Window(p), scope)
  PROVE  e \in Event /\ TargetOf[e] \in {Broadcast, p} /\ TypeOf[e] \in scope
BY DEF QueueTypeOK, InScope, Window, Visible

\* A request is read when its peer waits for nothing and holds nothing, so
\* that only its own handler is bound by what it reads.
LEMMA ArriveConfines ==
  ASSUME DeliveryInv, ConfinedInv, NEW p \in Peer, NEW s \in Slot, PollArrive(p, s)
  PROVE  ConfinedInv'
<1>1. batch[p] = {} /\ \A t \in Slot : ~handler[p][t].live
  BY DEF DeliveryInv, BatchIsProcessing, LiveIsAwaited, PollArrive
<1>2. /\ batch' = batch
      /\ \A q \in Peer, t \in Slot :
           (q # p \/ t # s) => handler'[q][t] = handler[q][t]
      /\ handler'[p][s].out = {}
      /\ \A q \in Peer \ {p} : declared'[q] = declared[q]
      /\ Strict => handler'[p][s].scope = declared'[p]
  BY DEF DeliveryInv, TypeOK, PollArrive, HandlerState, FreeHandler, Declares
<1>. QED
  BY <1>1, <1>2 DEF ConfinedInv, HandlersConfined, BatchConfined, Allowed

LEMMA SelectConfines ==
  ASSUME TypeOK, ConfinedInv, NEW p \in Peer, NEW s \in Slot, PollSelect(p, s)
  PROVE  ConfinedInv'
<1> DEFINE out == InScope(Window(p), handler[p][s].scope)
<1>1. handler[p][s].live => \A e \in out : Allowed(p, e)
  <2>1. handler[p][s].stage = "scoped"
    BY DEF PollSelect
  <2>. QED
    BY <2>1, ScopedReads DEF TypeOK, ConfinedInv, HandlersConfined, Allowed
<1>2. /\ \A q \in Peer, t \in Slot :
           (q # p \/ t # s) => handler'[q][t] = handler[q][t]
      /\ handler'[p][s].stage # "scoped"
      /\ handler'[p][s].live => handler[p][s].live
      /\ handler'[p][s].out \in {out, handler[p][s].out, {}}
  <2>1. handler[p][s] \in HandlerState
    BY DEF TypeOK
  <2>. QED
    BY <2>1 DEF TypeOK, PollSelect, HandlerState, FreeHandler
<1>. HIDE DEF out
<1>3. UNCHANGED <<declared, batch>>
  BY DEF PollSelect
<1>4. handler'[p][s].live => \A e \in handler'[p][s].out : Allowed(p, e)
  BY <1>1, <1>2 DEF ConfinedInv, HandlersConfined
<1>. QED
  BY <1>2, <1>3, <1>4 DEF ConfinedInv, HandlersConfined, BatchConfined, Allowed

LEMMA ConfinedStep == DeliveryInv /\ ConfinedInv /\ [Next]_vars => ConfinedInv'
<1> SUFFICES ASSUME DeliveryInv, TypeOK, ConfinedInv, [Next]_vars PROVE ConfinedInv'
  BY DEF DeliveryInv
<1>1. CASE UNCHANGED <<declared, handler, batch>>
  BY <1>1 DEF ConfinedInv, HandlersConfined, BatchConfined, Allowed
<1>2. ASSUME NEW p \in Peer, EdgeStep(p) \/ Confirm(p) \/ ConfirmFails(p)
      PROVE  ConfinedInv'
  BY <1>1, <1>2, EdgeStepsAside DEF Confirm, ConfirmFails
<1>3. ASSUME NEW p \in Peer, NEW s \in Slot, PollArrive(p, s) \/ PollSelect(p, s)
      PROVE  ConfinedInv'
  BY <1>3, ArriveConfines, SelectConfines
<1>4. ASSUME NEW p \in Peer, NEW s \in Slot, PollMark(p, s) PROVE ConfinedInv'
  <2>1. handler[p][s] \in HandlerState
    BY DEF TypeOK
  <2>2. /\ UNCHANGED <<declared, batch>>
        /\ \A q \in Peer, t \in Slot :
             (q # p \/ t # s) => handler'[q][t] = handler[q][t]
        /\ handler'[p][s].out \in {handler[p][s].out, {}}
        /\ handler'[p][s].live => handler[p][s].live
        /\ handler'[p][s].stage # "scoped"
    BY <1>4, <2>1 DEF TypeOK, PollMark, HandlerState, FreeHandler
  <2>. QED
    BY <2>2 DEF ConfinedInv, HandlersConfined, BatchConfined, Allowed
<1>5. ASSUME NEW p \in Peer, NEW s \in Slot, Receive(p, s) PROVE ConfinedInv'
  <2>1. /\ UNCHANGED declared
        /\ batch' = [batch EXCEPT ![p] = handler[p][s].out]
        /\ handler[p][s].live
        /\ \A q \in Peer, t \in Slot :
             (q # p \/ t # s) => handler'[q][t] = handler[q][t]
        /\ handler'[p][s] = FreeHandler
    BY <1>5 DEF TypeOK, Receive
  <2>2. \A q \in Peer : batch'[q] = batch[q] \/ (q = p /\ batch'[q] = handler[p][s].out)
    BY <2>1 DEF TypeOK
  <2>. QED
    BY <2>1, <2>2 DEF FreeHandler, ConfinedInv, HandlersConfined, BatchConfined, Allowed
<1>6. ASSUME NEW p \in Peer, PollFails(p) \/ PeerCrash(p) PROVE ConfinedInv'
  <2>1. /\ UNCHANGED declared
        /\ \A q \in Peer : batch'[q] \in {batch[q], {}}
        /\ handler' = [handler EXCEPT ![p] = [s \in Slot |-> Abandoned(handler[p][s])]]
    BY <1>6 DEF TypeOK, PollFails, PeerCrash
  <2>2. HandlersConfined'
    BY <2>1, PeerHandlersChange DEF ConfinedInv, HandlersConfined, Allowed
  <2>. QED
    BY <2>1, <2>2 DEF ConfinedInv, BatchConfined, Allowed
<1>7. ASSUME NEW p \in Peer, NEW e \in Event, NEW ok \in BOOLEAN, Process(p, e, ok)
      PROVE  ConfinedInv'
  <2>1. /\ UNCHANGED <<declared, handler>>
        /\ \A q \in Peer : batch'[q] \subseteq batch[q]
    BY <1>7 DEF TypeOK, Process
  <2>. QED
    BY <2>1 DEF ConfinedInv, HandlersConfined, BatchConfined, Allowed
<1>8. CASE ServerCrash
  BY <1>8 DEF ServerCrash, FreeHandler, ConfinedInv, HandlersConfined,
     BatchConfined, Allowed
<1>9. CASE (\E e \in Event : Publish(e) \/ Age(e)) \/ CleanUp \/ UNCHANGED vars
  BY <1>1, <1>9 DEF Publish, Age, CleanUp, pollVars, vars
<1>. QED
  BY <1>2, <1>3, <1>4, <1>5, <1>6, <1>7, <1>8, <1>9 DEF Next, PeerNext, EdgeStep

\* Only _process_event on an event of the batch counts as an attempt.
LEMMA AttemptsAreProcessing ==
  ASSUME DeliveryInv, [Next]_vars,
         NEW p \in Peer, NEW e \in Event, attempts'[p][e] # attempts[p][e]
  PROVE  e \in batch[p]
<1>1. attempts' # attempts
  OBVIOUS
<1>2. ~(UNCHANGED vars) /\ ~CleanUp /\ ~ServerCrash
        /\ \A g \in Event : ~Publish(g) /\ ~Age(g)
  BY <1>1 DEF vars, pollVars, CleanUp, ServerCrash, Publish, Age
<1>3. PICK q \in Peer : PeerNext(q)
  BY <1>2 DEF Next
<1>4. ~EdgeStep(q)
  BY <1>1, EdgeStepsAside DEF DeliveryInv
<1>5. ~PollFails(q) /\ ~Confirm(q) /\ ~ConfirmFails(q) /\ ~PeerCrash(q)
  BY <1>1 DEF PollFails, Confirm, ConfirmFails, PeerCrash
<1>6. ASSUME NEW s \in Slot
      PROVE  ~PollArrive(q, s) /\ ~PollSelect(q, s) /\ ~PollMark(q, s) /\ ~Receive(q, s)
  BY <1>1 DEF PollArrive, PollSelect, PollMark, Receive
<1>7. PICK g \in Event, ok \in BOOLEAN : Process(q, g, ok)
  BY <1>3, <1>4, <1>5, <1>6 DEF PeerNext, EdgeStep
<1>. QED
  BY <1>7 DEF DeliveryInv, TypeOK, Process

\* A peer processes only what was addressed to it and, under the strict
\* policy, only what its approved edge declared when its last request was
\* read, whatever the interleaving of handshakes, reviews, edits, revocations,
\* polls, retries and crashes.
THEOREM PeersAreConfined == Spec => Confinement
<1>1. Init => ConfinedInv
  BY DEF Init, QueueInit, FreeHandler, ConfinedInv, HandlersConfined, BatchConfined
<1>2. DeliveryInv /\ ConfinedInv /\ [Next]_vars =>
        [\A p \in Peer, e \in Event : attempts'[p][e] # attempts[p][e] =>
           /\ TargetOf[e] \in {Broadcast, p}
           /\ Strict => TypeOf[e] \in declared[p]]_vars
  BY AttemptsAreProcessing DEF ConfinedInv, BatchConfined, Allowed
<1>. QED
  BY <1>1, <1>2, ConfinedStep, DeliveryIsInvariant, PTL DEF Spec, Confinement

-----------------------------------------------------------------------------
(* Order.  Stamps differ, and a SELECT takes the head of what its reader    *)
(* can see; so what a peer has attempted, what it holds, what a live reply  *)
(* brings and what it will see later lie one behind the other.              *)

StampsDiffer ==
  /\ IsFiniteSet(rows)
  /\ \A e \in Event : queuedAt[e] =< lastQueued
  /\ \A e, f \in Event : queuedAt[e] = queuedAt[f] /\ queuedAt[e] # 0 => e = f

Ahead(S, T) == \A e \in S, f \in T : queuedAt[e] < queuedAt[f]

Attempted(p) == {e \in Event : attempts[p][e] # 0}

\* What a handler has selected and not yet marked is still visible.
Unmarked(h) == IF h.stage = "selected" THEN h.sel ELSE {}

OrderOf(p) ==
  /\ Ahead(Attempted(p), batch[p] \union Visible(p))
  /\ Ahead(batch[p], Visible(p))
  /\ \A s \in Slot : handler[p][s].live =>
       /\ Ahead(Attempted(p), handler[p][s].out)
       /\ Ahead(handler[p][s].out, Visible(p) \ Unmarked(handler[p][s]))

OrderInv == StampsDiffer /\ \A p \in Peer : OrderOf(p)

LEMMA WindowIsHead ==
  ASSUME DeliveryInv, StampsDiffer, NEW p \in Peer
  PROVE  Ahead(Window(p), Visible(p) \ Window(p))
<1> SUFFICES ASSUME NEW e \in Window(p), NEW g \in Visible(p) \ Window(p)
             PROVE  queuedAt[e] < queuedAt[g]
  BY DEF Ahead
<1> DEFINE Before(x) == {f \in Visible(p) : queuedAt[f] < queuedAt[x]}
<1>1. /\ e \in Event /\ g \in Event /\ e # g
      /\ \A f \in Visible(p) : queuedAt[f] \in Nat
      /\ queuedAt[e] \in Nat /\ queuedAt[g] \in Nat
      /\ queuedAt[e] # 0
  <2>1. rows \subseteq Event /\ queuedAt \in [Event -> Nat]
    BY DEF DeliveryInv, TypeOK, QueueTypeOK
  <2>2. Window(p) \subseteq Visible(p) /\ Visible(p) \subseteq rows
    BY DEF Window, Visible
  <2>3. \A f \in rows : queuedAt[f] # 0
    BY <2>1 DEF DeliveryInv, QueuedFirst
  <2>. QED
    BY <2>1, <2>2, <2>3
<1>2. SUFFICES ASSUME queuedAt[g] =< queuedAt[e] PROVE FALSE
  BY <1>1
<1>3. queuedAt[g] < queuedAt[e]
  BY <1>1, <1>2 DEF StampsDiffer
<1>4. IsFiniteSet(Visible(p))
  BY FS_Subset DEF StampsDiffer, Visible
<1>5. Before(g) \subseteq Before(e) /\ Before(e) \subseteq Visible(p)
  BY <1>1, <1>3
<1>6. /\ Cardinality(Before(g)) =< Cardinality(Before(e))
      /\ Cardinality(Before(g)) \in Nat /\ Cardinality(Before(e)) \in Nat
  <2> HIDE DEF Before
  <2>1. IsFiniteSet(Before(e)) /\ IsFiniteSet(Before(g))
    BY <1>4, <1>5, FS_Subset
  <2>. QED
    BY <1>5, <2>1, FS_Subset, FS_CardinalityType
<1>7. Cardinality(Before(e)) < Limit /\ ~(Cardinality(Before(g)) < Limit)
  BY DEF Window
<1>. QED
  BY <1>6, <1>7

\* A step that attempts nothing, shows nothing new and brings no new reply.
LEMMA OrderStays ==
  ASSUME NEW p \in Peer, OrderOf(p), UNCHANGED <<queuedAt, attempts>>,
         batch'[p] \subseteq batch[p], Visible(p)' \subseteq Visible(p),
         \A s \in Slot : handler'[p][s].live =>
           \/ handler'[p][s].out = {}
           \/ handler[p][s].live /\ handler'[p][s] = handler[p][s]
  PROVE  OrderOf(p)'
BY DEF OrderOf, Ahead, Attempted, Unmarked

LEMMA StampsStay ==
  ASSUME StampsDiffer, UNCHANGED <<queuedAt, lastQueued>>, rows' \subseteq rows
  PROVE  StampsDiffer'
BY FS_Subset DEF StampsDiffer

LEMMA PublishOrders ==
  ASSUME DeliveryInv, OrderInv, NEW e \in Event, Publish(e)
  PROVE  OrderInv'
<1>1. /\ queuedAt \in [Event -> Nat] /\ lastQueued \in Nat
      /\ queuedAt[e] = 0 /\ rows' = rows \union {e}
      /\ lastQueued' = lastQueued + 1
      /\ queuedAt' = [queuedAt EXCEPT ![e] = lastQueued + 1]
      /\ UNCHANGED <<expired, deliveredTo, pollVars>>
  BY DEF DeliveryInv, TypeOK, QueueTypeOK, Publish, Add
<1>2. /\ queuedAt'[e] = lastQueued + 1
      /\ \A f \in Event \ {e} : queuedAt'[f] = queuedAt[f]
      /\ \A f \in Event \ {e} : queuedAt'[f] \in Nat /\ queuedAt'[f] =< lastQueued
  BY <1>1 DEF OrderInv, StampsDiffer
<1>3. StampsDiffer'
  <2>1. IsFiniteSet(rows')
    BY <1>1, FS_AddElement DEF OrderInv, StampsDiffer
  <2>. QED
    BY <1>1, <1>2, <2>1 DEF OrderInv, StampsDiffer
<1>4. ASSUME NEW p \in Peer PROVE OrderOf(p)'
  <2>1. Visible(p)' \subseteq Visible(p) \union {e}
    BY <1>1 DEF Visible
  <2>2. \A f \in Attempted(p) \union batch[p] : f \in Event \ {e}
    BY <1>1 DEF Attempted, DeliveryInv, AttemptedIsSettled, BatchIsFresh, Settled,
       TypeOK
  <2>3. \A s \in Slot : handler[p][s].live =>
          \A f \in handler[p][s].out : f \in Event \ {e}
    BY <1>1 DEF DeliveryInv, ReplyIsFresh, TypeOK, HandlerState
  <2>4. UNCHANGED <<handler, batch, attempts>> /\ Attempted(p)' = Attempted(p)
    BY <1>1 DEF pollVars, Attempted
  <2>5. OrderOf(p) /\ Visible(p) \subseteq Event
    BY DEF OrderInv, DeliveryInv, TypeOK, QueueTypeOK, Visible
  <2>. QED
    BY <1>1, <1>2, <2>1, <2>2, <2>3, <2>4, <2>5 DEF OrderOf, Ahead
<1>. QED
  BY <1>3, <1>4 DEF OrderInv

LEMMA QueueOrders ==
  ASSUME DeliveryInv, OrderInv, (\E e \in Event : Age(e)) \/ CleanUp
  PROVE  OrderInv'
<1>1. /\ UNCHANGED <<queuedAt, lastQueued, deliveredTo, pollVars>>
      /\ rows' \subseteq rows /\ expired \subseteq expired'
  BY DEF Age, Expire, CleanUp, Cleanup, PurgeDelivered
<1>2. \A p \in Peer : Visible(p)' \subseteq Visible(p)
  BY <1>1 DEF Visible
<1>. QED
  BY <1>1, <1>2, StampsStay, OrderStays DEF OrderInv, pollVars

\* The steps of an edge and a confirm touch nothing that is ordered.
LEMMA AsideOrders ==
  ASSUME DeliveryInv, OrderInv,
         UNCHANGED <<queuedAt, lastQueued, rows, expired, deliveredTo, handler,
                     batch, attempts>>
  PROVE  OrderInv'
<1>1. \A p \in Peer : Visible(p)' = Visible(p)
  BY DEF Visible
<1>. QED
  BY <1>1, StampsStay, OrderStays DEF OrderInv

\* Replies that nobody will read any more, and requests that have none yet.
LEMMA HandlersOrder ==
  ASSUME DeliveryInv, OrderInv, UNCHANGED <<queueVars, attempts>>,
         \A p \in Peer : batch'[p] \subseteq batch[p],
         \A p \in Peer, s \in Slot : handler'[p][s].live =>
           handler'[p][s].out = {} \/ handler'[p][s] = handler[p][s]
  PROVE  OrderInv'
<1>1. \A p \in Peer : Visible(p)' = Visible(p)
  BY DEF Visible, queueVars, edgeVars
<1>2. \A p \in Peer : OrderOf(p)'
  BY <1>1, OrderStays DEF OrderInv, queueVars, edgeVars
<1>. QED
  BY <1>2, StampsStay DEF OrderInv, queueVars, edgeVars

LEMMA SelectOrders ==
  ASSUME DeliveryInv, OrderInv, NEW p \in Peer, NEW s \in Slot, PollSelect(p, s)
  PROVE  OrderInv'
<1> DEFINE sel == Window(p)
           out == InScope(sel, handler[p][s].scope)
<1>1. /\ UNCHANGED <<queueVars, batch, attempts>>
      /\ handler[p][s] \in HandlerState /\ handler[p][s].stage = "scoped"
      /\ handler[p][s].out = {}
      /\ \A q \in Peer, t \in Slot :
           (q # p \/ t # s) => handler'[q][t] = handler[q][t]
      /\ out \subseteq sel /\ sel \subseteq Visible(p)
      /\ Ahead(sel, Visible(p) \ sel)
  BY WindowIsHead, WindowIsVisible
     DEF DeliveryInv, TypeOK, HandlerShape, PollSelect, OrderInv
<1>2. handler'[p][s].live =>
        \/ handler'[p][s].out = {}
        \/ handler'[p][s].stage = "selected" /\ handler'[p][s].sel = sel
             /\ handler'[p][s].out = out
  BY <1>1 DEF PollSelect, FreeHandler, HandlerState, DeliveryInv, TypeOK
<1> HIDE DEF sel, out
<1>3. Visible(p)' = Visible(p) /\ Attempted(p)' = Attempted(p)
  BY <1>1 DEF Visible, Attempted, queueVars, edgeVars
<1>4. OrderOf(p)'
  BY <1>1, <1>2, <1>3 DEF OrderOf, OrderInv, Ahead, Unmarked, queueVars, edgeVars
<1>5. \A q \in Peer \ {p} : OrderOf(q)'
  <2>1. \A q \in Peer : Visible(q)' = Visible(q)
    BY <1>1 DEF Visible, queueVars, edgeVars
  <2>. QED
    BY <1>1, <2>1, OrderStays DEF OrderInv, queueVars, edgeVars
<1>. QED
  BY <1>1, <1>4, <1>5, StampsStay DEF OrderInv, queueVars, edgeVars

LEMMA MarkOrders ==
  ASSUME DeliveryInv, OrderInv, NEW p \in Peer, NEW s \in Slot, PollMark(p, s)
  PROVE  OrderInv'
<1>1. /\ UNCHANGED <<rows, expired, queuedAt, lastQueued, batch, attempts>>
      /\ \A q \in Peer : Visible(q)' \subseteq Visible(q)
      /\ Visible(p)' \subseteq Visible(p) \ handler[p][s].sel
  BY DEF DeliveryInv, TypeOK, QueueTypeOK, PollMark, MarkDelivered, Visible
<1>2. /\ \A q \in Peer, t \in Slot :
           (q # p \/ t # s) => handler'[q][t] = handler[q][t]
      /\ handler[p][s].stage = "selected"
      /\ handler'[p][s].live => /\ handler[p][s].live
                                /\ handler'[p][s].out = handler[p][s].out
  <2>1. handler[p][s] \in HandlerState
    BY DEF DeliveryInv, TypeOK
  <2>. QED
    BY <2>1 DEF PollMark, FreeHandler, HandlerState, DeliveryInv, TypeOK
<1>3. OrderOf(p)'
  BY <1>1, <1>2 DEF OrderInv, OrderOf, Ahead, Attempted, Unmarked
<1>4. \A q \in Peer \ {p} : OrderOf(q)'
  BY <1>1, <1>2, OrderStays DEF OrderInv
<1>. QED
  BY <1>1, <1>3, <1>4, StampsStay DEF OrderInv

LEMMA ReceiveOrders ==
  ASSUME DeliveryInv, OrderInv, NEW p \in Peer, NEW s \in Slot, Receive(p, s)
  PROVE  OrderInv'
<1>1. /\ UNCHANGED <<queueVars, attempts>>
      /\ handler[p][s].live /\ handler[p][s].stage = "replied"
      /\ batch'[p] = handler[p][s].out
      /\ ~handler'[p][s].live
      /\ \A q \in Peer \ {p} : batch'[q] = batch[q]
      /\ \A q \in Peer, t \in Slot :
           (q # p \/ t # s) => handler'[q][t] = handler[q][t]
  BY DEF DeliveryInv, TypeOK, Receive, FreeHandler
<1>2. \A q \in Peer : Visible(q)' = Visible(q) /\ Attempted(q)' = Attempted(q)
  BY <1>1 DEF Visible, Attempted, queueVars, edgeVars
<1>3. OrderOf(p)'
  BY <1>1, <1>2 DEF OrderInv, OrderOf, Ahead, Unmarked, queueVars, edgeVars
<1>4. \A q \in Peer \ {p} : OrderOf(q)'
  BY <1>1, <1>2, OrderStays DEF OrderInv, queueVars, edgeVars
<1>. QED
  BY <1>1, <1>3, <1>4, StampsStay DEF OrderInv, queueVars, edgeVars

\* The first event of a batch joins what was attempted.
LEMMA ProcessOrders ==
  ASSUME DeliveryInv, OrderInv, NEW p \in Peer, NEW e \in Event, NEW ok \in BOOLEAN,
         Process(p, e, ok)
  PROVE  OrderInv'
<1>1. /\ UNCHANGED <<queueVars, handler>>
      /\ client[p] = "processing" /\ e \in batch[p] /\ batch[p] \subseteq Event
      /\ \A f \in batch[p] : queuedAt[e] =< queuedAt[f]
      /\ batch'[p] = batch[p] \ {e}
      /\ \A q \in Peer \ {p} : batch'[q] = batch[q]
      /\ \A q \in Peer, f \in Event :
           attempts'[q][f] = attempts[q][f] \/ (q = p /\ f = e)
  BY DEF DeliveryInv, TypeOK, Process
<1>2. /\ Visible(p)' = Visible(p)
      /\ Attempted(p)' \subseteq Attempted(p) \union {e}
      /\ \A q \in Peer \ {p} : Visible(q)' = Visible(q) /\ Attempted(q)' = Attempted(q)
  BY <1>1 DEF Visible, Attempted, queueVars, edgeVars
<1>3. \A s \in Slot : ~handler[p][s].live
  BY <1>1 DEF DeliveryInv, LiveIsAwaited
<1>4. \A f \in batch[p] \ {e} : queuedAt[e] < queuedAt[f]
  <2>1. queuedAt[e] # 0 /\ queuedAt \in [Event -> Nat]
    BY <1>1 DEF DeliveryInv, BatchIsFresh, Settled, TypeOK, QueueTypeOK
  <2>2. \A f \in batch[p] \ {e} : queuedAt[f] # queuedAt[e]
    BY <1>1, <2>1 DEF OrderInv, StampsDiffer
  <2>3. \A f \in batch[p] : queuedAt[e] =< queuedAt[f] /\ queuedAt[f] \in Nat
    BY <1>1, <2>1
  <2>. QED
    BY <2>1, <2>2, <2>3, <1>1
<1>5. OrderOf(p)'
  BY <1>1, <1>2, <1>3, <1>4 DEF OrderInv, OrderOf, Ahead, queueVars, edgeVars
<1>6. \A q \in Peer \ {p} : OrderOf(q)'
  BY <1>1, <1>2 DEF OrderInv, OrderOf, Ahead, Unmarked, queueVars, edgeVars
<1>. QED
  BY <1>1, <1>5, <1>6, StampsStay DEF OrderInv, queueVars, edgeVars

LEMMA OrderStep == DeliveryInv /\ OrderInv /\ [Next]_vars => OrderInv'
<1> SUFFICES ASSUME DeliveryInv, OrderInv, [Next]_vars PROVE OrderInv'
  OBVIOUS
<1>1. CASE (\E e \in Event : Publish(e) \/ Age(e)) \/ CleanUp
  BY <1>1, PublishOrders, QueueOrders
<1>2. ASSUME NEW p \in Peer,
             EdgeStep(p) \/ Confirm(p) \/ ConfirmFails(p)
      PROVE  OrderInv'
  BY <1>2, AsideOrders, EdgeStepsAside
     DEF DeliveryInv, Confirm, ConfirmFails, MarkConfirmed, queueVars
<1>3. ASSUME NEW p \in Peer, NEW s \in Slot, PollArrive(p, s) PROVE OrderInv'
  <2>1. /\ UNCHANGED <<queueVars, attempts, batch>>
        /\ handler'[p][s].out = {}
        /\ \A q \in Peer, t \in Slot :
             (q # p \/ t # s) => handler'[q][t] = handler[q][t]
    BY <1>3 DEF DeliveryInv, TypeOK, PollArrive, FreeHandler, HandlerState
  <2>. QED
    BY <2>1, HandlersOrder
<1>4. ASSUME NEW p \in Peer, PollFails(p) \/ PeerCrash(p) PROVE OrderInv'
  <2>1. /\ UNCHANGED <<queueVars, attempts>>
        /\ \A q \in Peer : batch'[q] \subseteq batch[q]
        /\ handler' = [handler EXCEPT ![p] = [s \in Slot |-> Abandoned(handler[p][s])]]
    BY <1>4 DEF DeliveryInv, TypeOK, PollFails, PeerCrash
  <2>2. \A q \in Peer, s \in Slot :
          handler'[q][s].live => handler'[q][s] = handler[q][s]
    BY <2>1, PeerHandlersChange DEF DeliveryInv
  <2>. QED
    BY <2>1, <2>2, HandlersOrder
<1>5. CASE ServerCrash
  BY <1>5, HandlersOrder DEF ServerCrash, FreeHandler
<1>6. CASE UNCHANGED vars
  BY <1>6, AsideOrders DEF vars, queueVars, edgeVars, pollVars
<1>. QED
  BY <1>1, <1>2, <1>3, <1>4, <1>5, <1>6, SelectOrders, MarkOrders, ReceiveOrders,
     ProcessOrders
     DEF Next, PeerNext, EdgeStep

\* A peer processes events in the order of their stamps, whatever polls time
\* out, overlap or fail, whatever the edge filters, and over crashes.
THEOREM ProcessesInOrder == Spec => InQueueOrder
<1>1. Init => OrderInv
  BY FS_EmptySet DEF Init, QueueInit, OrderInv, StampsDiffer, OrderOf, Ahead,
     Attempted, Visible, FreeHandler
<1>2. DeliveryInv /\ OrderInv /\ [Next]_vars =>
        [\A p \in Peer, e \in Event : attempts'[p][e] # attempts[p][e] =>
           \A f \in Event : attempts[p][f] > 0 => queuedAt[f] < queuedAt[e]]_vars
  <2> SUFFICES ASSUME DeliveryInv, OrderInv, [Next]_vars,
                      NEW p \in Peer, NEW e \in Event, attempts'[p][e] # attempts[p][e],
                      NEW f \in Event, attempts[p][f] > 0
               PROVE  queuedAt[f] < queuedAt[e]
    OBVIOUS
  <2>1. e \in batch[p]
    BY AttemptsAreProcessing
  <2>2. f \in Attempted(p)
    BY DEF Attempted, DeliveryInv, TypeOK
  <2>. QED
    BY <2>1, <2>2 DEF OrderInv, OrderOf, Ahead
<1>. QED
  BY <1>1, <1>2, OrderStep, DeliveryIsInvariant, PTL DEF Spec, InQueueOrder

=============================================================================
