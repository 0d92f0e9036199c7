-------------------------- MODULE ClaimLedgerProofs --------------------------
(***************************************************************************)
(* The contract of an anchored claim: proofs about ClaimLedger, for any    *)
(* number of reviewers, calls in flight and transactions.                  *)
(***************************************************************************)
EXTENDS ClaimLedger, TLAPS

USE ClaimAssumption

(***************************************************************************)
(* What may be on the ledger is bounded by three facts.  The level an item *)
(* needs (Due) is never lost again.  A call that is about to broadcast has *)
(* read that level (SendIsDue).  From the broadcast on, a transaction      *)
(* keeps its item, and whoever names it, a call or a row, names it for     *)
(* that item (CallsCarry, RowsCarry); a call that goes on to record a      *)
(* confirmation has seen it executed.                                      *)
(***************************************************************************)
Due(i) ==
  level \in IF i = Claim THEN {"verified", "ledger_anchored"}
                         ELSE {"ledger_anchored"}

SendIsDue ==
  \A s \in Slot : call[s].step = "send" =>
    Due(call[s].item) /\ (call[s].item # Claim => call[s].says \in Final)

CallsCarry ==
  \A s \in Slot : call[s].step \notin {"idle", "send"} =>
    /\ Carries(call[s].tx, call[s].item)
    /\ call[s].step \in {"confirmed", "finish"} => chain[call[s].tx] = "done"

RowsCarry == \A i \in Item : tx[i] # NoTx => Carries(tx[i], i)

ClaimInv ==
  /\ TypeOK
  /\ SendIsDue
  /\ CallsCarry
  /\ RowsCarry
  /\ SentIsVerified
  /\ StampedIsOnLedger

\* The broadcast items are due: SentIsVerified in terms of Due.
LEMMA CarriedIsDue ==
  ASSUME TypeOK, SentIsVerified, NEW i \in Item, NEW t \in Tx, Carries(t, i)
  PROVE  Due(i)
BY DEF SentIsVerified, Due, Item

-----------------------------------------------------------------------------

LEMMA InitClaim == Init => ClaimInv
<1> SUFFICES ASSUME Init PROVE ClaimInv
  OBVIOUS
<1>1. TypeOK
  BY DEF Init, TypeOK, Level, Verdict, Final, Content, Step, Idle, Item
<1>2. SendIsDue /\ CallsCarry
  BY DEF Init, SendIsDue, CallsCarry, Idle
<1>3. RowsCarry /\ SentIsVerified /\ StampedIsOnLedger
  BY DEF Init, RowsCarry, SentIsVerified, StampedIsOnLedger, Carries
<1>. QED
  BY <1>1, <1>2, <1>3 DEF ClaimInv

\* A call that ends, or one that is given a well-formed record.
LEMMA CallTypes ==
  ASSUME TypeOK, NEW s \in Slot,
         NEW c \in [step : Step, item : Item, says : Content, tx : Tx \union {NoTx}],
         c.step \in {"idle", "send"} <=> c.tx = NoTx,
         call' = [call EXCEPT ![s] = c]
  PROVE  /\ call' \in [Slot -> [step : Step, item : Item, says : Content,
                                tx : Tx \union {NoTx}]]
         /\ \A u \in Slot : call'[u].step \in {"idle", "send"} <=> call'[u].tx = NoTx
BY DEF TypeOK

LEMMA IdleType ==
  /\ Idle \in [step : Step, item : Item, says : Content, tx : Tx \union {NoTx}]
  /\ Idle.step \in {"idle", "send"} <=> Idle.tx = NoTx
BY DEF Idle, Step, Item, Content

LEMMA TypeStep == ClaimInv /\ [Next]_vars => TypeOK'
<1> SUFFICES ASSUME ClaimInv, [Next]_vars PROVE TypeOK'
  OBVIOUS
<1> USE DEF ClaimInv, TypeOK, Content, Verdict, Item, rowVars
<1>1. CASE Create \/ PrepareAnchor
  BY <1>1 DEF Create, PrepareAnchor, Level
<1>2. ASSUME NEW l \in Level, Verify(l) PROVE TypeOK'
  BY <1>2 DEF Verify
<1>3. ASSUME NEW r \in Reviewer, NEW v \in Verdict, Review(r, v) PROVE TypeOK'
  BY <1>3 DEF Review
<1>4. ASSUME NEW s \in Slot, ReadClaim(s) \/ \E r \in Reviewer : ReadReview(s, r)
      PROVE  TypeOK'
  <2>1. PICK i \in Item, c \in Content : Begin(s, i, c)
    <3>1. CASE ReadClaim(s)
      BY <3>1 DEF ReadClaim
    <3>2. ASSUME NEW r \in Reviewer, ReadReview(s, r)
          PROVE  \E i \in Item, c \in Content : Begin(s, i, c)
      BY <3>2 DEF ReadReview
    <3>. QED
      BY <1>4, <3>1, <3>2
  <2>3. /\ hashed' \in BOOLEAN
        /\ UNCHANGED <<level, verdict, tx, says, stamped, chain, about>>
    BY <1>4 DEF ReadClaim, ReadReview
  <2>2. [step |-> "send", item |-> i, says |-> c, tx |-> NoTx]
          \in [step : Step, item : Item, says : Content, tx : Tx \union {NoTx}]
    BY DEF Step
  <2>. QED
    BY <2>1, <2>2, <2>3, CallTypes DEF Begin
<1>5. ASSUME NEW s \in Slot, NEW t \in Tx, Broadcast(s, t) PROVE TypeOK'
  <2>1. PICK c \in [step : Step, item : Item, says : Content, tx : Tx \union {NoTx}] :
          /\ call' = [call EXCEPT ![s] = c]
          /\ c.step \in {"idle", "send"} <=> c.tx = NoTx
    <3>1. CASE call' = [call EXCEPT ![s] = Idle]
      BY <3>1, IdleType
    <3>2. CASE call' = [call EXCEPT ![s] = [step |-> "poll", item |-> call[s].item,
                                            says |-> call[s].says, tx |-> t]]
      <4>1. [step |-> "poll", item |-> call[s].item, says |-> call[s].says, tx |-> t]
              \in [step : Step, item : Item, says : Content, tx : Tx \union {NoTx}]
        BY DEF Step
      <4>. QED
        BY <3>2, <4>1
    <3>. QED
      BY <1>5, <3>1, <3>2 DEF Broadcast
  <2>2. /\ chain' = [chain EXCEPT ![t] = "pending"]
        /\ about' = [about EXCEPT ![t] = [item |-> call[s].item,
                                          says |-> call[s].says]]
        /\ UNCHANGED rowVars
    BY <1>5 DEF Broadcast
  <2>. QED
    BY <2>1, <2>2, CallTypes
<1>6. ASSUME NEW s \in Slot, Poll(s) \/ Query(s) PROVE TypeOK'
  <2>1. PICK x \in {"confirmed", "late", "clear", "finish"} :
          call' = [call EXCEPT ![s].step = x]
    BY <1>6 DEF Poll, Query
  <2>2. call[s].step \notin {"idle", "send"} /\ UNCHANGED <<rowVars, chain, about>>
    BY <1>6 DEF Poll, Query
  <2> DEFINE c == [call[s] EXCEPT !.step = x]
  <2>3. /\ c \in [step : Step, item : Item, says : Content, tx : Tx \union {NoTx}]
        /\ c.step \notin {"idle", "send"} /\ c.tx # NoTx
    BY <2>1, <2>2 DEF Step
  <2>4. call' = [call EXCEPT ![s] = c]
    BY <2>1
  <2>5. /\ call' \in [Slot -> [step : Step, item : Item, says : Content,
                               tx : Tx \union {NoTx}]]
        /\ \A u \in Slot : call'[u].step \in {"idle", "send"} <=> call'[u].tx = NoTx
    BY <2>3, <2>4, CallTypes
  <2>. QED
    BY <2>2, <2>5
<1>7. ASSUME NEW s \in Slot, RecordLate(s) \/ RecordClaim(s) \/ RecordReview(s)
      PROVE  TypeOK'
  <2>1. call' = [call EXCEPT ![s] = Idle]
    BY <1>7 DEF RecordLate, RecordClaim, RecordReview, Point
  <2>2. /\ tx' \in [Item -> Tx \union {NoTx}] /\ says' \in [Item -> Content]
    BY <1>7 DEF RecordLate, RecordClaim, RecordReview, Point
  <2>3. level' \in Level /\ hashed' \in BOOLEAN /\ stamped' \in [Item -> BOOLEAN]
    BY <1>7 DEF RecordLate, RecordClaim, RecordReview, Level
  <2>4. verdict' = verdict /\ chain' = chain /\ about' = about
    BY <1>7 DEF RecordLate, RecordClaim, RecordReview
  <2>. QED
    BY <2>1, <2>2, <2>3, <2>4, IdleType, CallTypes
<1>8. ASSUME NEW s \in Slot, \E i \in Item : ReadTx(s, i) PROVE TypeOK'
  BY <1>8 DEF ReadTx, Step
<1>9. ASSUME NEW s \in Slot,
             Clear(s) \/ FinishClaim(s) \/ FinishReview(s) \/ Abandon(s)
      PROVE  TypeOK'
  <2>1. call' = [call EXCEPT ![s] = Idle]
    BY <1>9 DEF Clear, FinishClaim, FinishReview, Abandon
  <2>2. tx' \in [Item -> Tx \union {NoTx}] /\ says' \in [Item -> Content]
    <3>1. CASE Clear(s)
      BY <3>1 DEF Clear
    <3>2. CASE FinishClaim(s) \/ FinishReview(s) \/ Abandon(s)
      BY <3>2 DEF FinishClaim, FinishReview, Abandon
    <3>. QED
      BY <1>9, <3>1, <3>2
  <2>4. level' \in Level
    BY <1>9 DEF Clear, FinishClaim, FinishReview, Abandon, Level
  <2>5. stamped' \in [Item -> BOOLEAN]
    BY <1>9 DEF Clear, FinishClaim, FinishReview, Abandon
  <2>3. hashed' = hashed /\ verdict' = verdict /\ chain' = chain /\ about' = about
    BY <1>9 DEF Clear, FinishClaim, FinishReview, Abandon
  <2>. QED
    BY <2>1, <2>2, <2>3, <2>4, <2>5, IdleType, CallTypes
<1>10. ASSUME NEW t \in Tx, Execute(t) PROVE TypeOK'
  BY <1>10 DEF Execute
<1>11. CASE UNCHANGED vars
  BY <1>11 DEF vars
<1>. QED
  BY <1>1, <1>2, <1>3, <1>4, <1>5, <1>6, <1>7, <1>8, <1>9, <1>10, <1>11
  DEF Next

\* The ledger forgets nothing: a transaction that was sent keeps its item and
\* content, an executed one stays executed.
LEMMA ChainGrows ==
  ASSUME TypeOK, [Next]_vars, NEW t \in Tx
  PROVE  /\ chain[t] # "unsent" => chain'[t] # "unsent" /\ about'[t] = about[t]
         /\ chain[t] = "done" => chain'[t] = "done"
<1> USE DEF TypeOK
<1>1. ASSUME NEW s \in Slot, NEW u \in Tx, Broadcast(s, u)
      PROVE  /\ chain[t] # "unsent" => chain'[t] # "unsent" /\ about'[t] = about[t]
             /\ chain[t] = "done" => chain'[t] = "done"
  BY <1>1 DEF Broadcast
<1>2. ASSUME NEW u \in Tx, Execute(u)
      PROVE  /\ chain[t] # "unsent" => chain'[t] # "unsent" /\ about'[t] = about[t]
             /\ chain[t] = "done" => chain'[t] = "done"
  BY <1>2 DEF Execute
<1>3. ASSUME ~\E s \in Slot, u \in Tx : Broadcast(s, u), ~\E u \in Tx : Execute(u)
      PROVE  chain' = chain /\ about' = about
  BY <1>3 DEF Next, vars, rowVars, Create, PrepareAnchor, Verify, Review,
     ReadClaim, ReadReview, Poll, RecordLate, RecordClaim, RecordReview,
     ReadTx, Query, Clear, FinishClaim, FinishReview, Abandon
<1>. QED
  BY <1>1, <1>2, <1>3

\* The level an item needs is never lost: the ladder leads from "verified" to
\* "ledger_anchored" only, and that is where the calls write it.
LEMMA DueStays ==
  ASSUME ClaimInv, [Next]_vars, NEW i \in Item, Due(i)
  PROVE  Due(i)'
<1> USE DEF Due
<1>1. ASSUME NEW l \in Level, Verify(l) PROVE Due(i)'
  BY <1>1 DEF Verify, Allowed
<1>2. ASSUME NEW s \in Slot, RecordClaim(s) \/ FinishClaim(s) PROVE Due(i)'
  BY <1>2 DEF RecordClaim, FinishClaim
<1>3. ASSUME ~Create, ~\E l \in Level : Verify(l),
             ~\E s \in Slot : RecordClaim(s) \/ FinishClaim(s)
      PROVE  level' = level
  BY <1>3 DEF Next, vars, rowVars, PrepareAnchor, Review, ReadClaim,
     ReadReview, Broadcast, Poll, RecordLate, RecordReview, ReadTx, Query,
     Clear, FinishReview, Abandon, Execute
<1>4. ~Create
  BY DEF Create
<1>. QED
  BY <1>1, <1>2, <1>3, <1>4

-----------------------------------------------------------------------------

Moves(s) ==
  \/ ReadClaim(s) \/ \E r \in Reviewer : ReadReview(s, r)
  \/ \E t \in Tx : Broadcast(s, t)
  \/ Poll(s) \/ Query(s)
  \/ \E i \in Item : ReadTx(s, i)

Ends(s) ==
  \/ RecordLate(s) \/ RecordClaim(s) \/ RecordReview(s)
  \/ Clear(s) \/ FinishClaim(s) \/ FinishReview(s) \/ Abandon(s)

\* A step leaves the calls of the other slots alone.
LEMMA OneCallMoves ==
  ASSUME TypeOK, [Next]_vars, NEW s \in Slot
  PROVE  call'[s] = call[s] \/ Moves(s) \/ call'[s] = Idle
<1> USE DEF TypeOK
<1>1. ASSUME NEW u \in Slot, u # s, Moves(u) PROVE call'[s] = call[s]
  BY <1>1 DEF Moves, ReadClaim, ReadReview, Begin, Broadcast, Poll, ReadTx, Query
<1>2. ASSUME NEW u \in Slot, Ends(u)
      PROVE  call'[s] = call[s] \/ call'[s] = Idle
  BY <1>2 DEF Ends, RecordLate, RecordClaim, RecordReview, Point, Clear,
     FinishClaim, FinishReview, Abandon
<1>3. \/ \E u \in Slot : Moves(u) \/ Ends(u)
      \/ call' = call
  BY DEF Next, Moves, Ends, Create, PrepareAnchor, Verify, Review, Execute, vars
<1>. QED
  BY <1>1, <1>2, <1>3

LEMMA SendStep == ClaimInv /\ [Next]_vars => SendIsDue'
<1> SUFFICES ASSUME ClaimInv, [Next]_vars, NEW s \in Slot, call'[s].step = "send"
             PROVE  /\ Due(call[s].item)'
                    /\ call'[s].item # Claim => call'[s].says \in Final
  BY DEF SendIsDue, Due
<1>1. CASE call'[s] = call[s]
  <2>1. Due(call[s].item)
    BY <1>1 DEF ClaimInv, SendIsDue
  <2>2. call[s].item \in Item
    BY DEF ClaimInv, TypeOK
  <2>. QED
    BY <1>1, <2>1, <2>2, DueStays DEF ClaimInv, SendIsDue, Due
<1>2. CASE Moves(s)
  <2>1. ReadClaim(s) \/ \E r \in Reviewer : ReadReview(s, r)
    BY <1>2 DEF Moves, Broadcast, Poll, ReadTx, Query, Idle, ClaimInv, TypeOK
  <2>2. CASE ReadClaim(s)
    BY <2>2 DEF ReadClaim, Begin, Due, ClaimInv, TypeOK
  <2>3. CASE \E r \in Reviewer : ReadReview(s, r)
    BY <2>3 DEF ReadReview, Begin, Due, ClaimInv, TypeOK, rowVars
  <2>. QED
    BY <2>1, <2>2, <2>3
<1>3. call'[s] # Idle
  BY DEF Idle
<1>. QED
  BY <1>1, <1>2, <1>3, OneCallMoves DEF ClaimInv

LEMMA CallStep == ClaimInv /\ [Next]_vars => CallsCarry'
<1> SUFFICES ASSUME ClaimInv, [Next]_vars, NEW s \in Slot,
                    call'[s].step \notin {"idle", "send"}
             PROVE  /\ Carries(call[s].tx, call[s].item)'
                    /\ call'[s].step \in {"confirmed", "finish"}
                         => chain'[call'[s].tx] = "done"
  BY DEF CallsCarry, Carries
<1> DEFINE Carried == /\ Carries(call[s].tx, call[s].item)'
                      /\ call'[s].step \in {"confirmed", "finish"}
                           => chain'[call'[s].tx] = "done"
<1> USE DEF Carries
<1>0. TypeOK /\ call[s].tx \in Tx \union {NoTx} /\ call[s].item \in Item
  BY DEF ClaimInv, TypeOK
<1>1. CASE call'[s] = call[s]
  <2>1. call[s].tx \in Tx
    BY <1>0, <1>1 DEF TypeOK
  <2>. QED
    BY <1>0, <1>1, <2>1, ChainGrows DEF ClaimInv, CallsCarry
<1>2. ASSUME NEW t \in Tx, Broadcast(s, t) PROVE Carried
  BY <1>0, <1>2 DEF Broadcast, TypeOK, Idle
<1>3. ASSUME Poll(s) \/ Query(s) PROVE Carried
  <2>1. /\ call[s].step \in {"poll", "ask"}
        /\ chain' = chain /\ about' = about
        /\ call'[s].tx = call[s].tx /\ call'[s].item = call[s].item
        /\ call'[s].step \in {"confirmed", "finish"} => chain[call[s].tx] = "done"
    BY <1>0, <1>3 DEF Poll, Query, TypeOK
  <2>. QED
    BY <2>1 DEF ClaimInv, CallsCarry
<1>4. ASSUME NEW i \in Item, ReadTx(s, i) PROVE Carried
  <2>1. /\ chain' = chain /\ about' = about /\ tx[i] # NoTx
        /\ call'[s].tx = tx[i] /\ call'[s].item = i /\ call'[s].step = "ask"
    BY <1>0, <1>4 DEF ReadTx, TypeOK
  <2>. QED
    BY <2>1 DEF ClaimInv, RowsCarry
<1>5. ~ReadClaim(s) /\ ~\E r \in Reviewer : ReadReview(s, r)
  BY <1>0 DEF ReadClaim, ReadReview, Begin, TypeOK
<1>6. call'[s] # Idle
  BY DEF Idle
<1>7. CASE Moves(s)
  BY <1>2, <1>3, <1>4, <1>5, <1>7 DEF Moves
<1>. QED
  BY <1>0, <1>1, <1>6, <1>7, OneCallMoves

LEMMA RowStep == ClaimInv /\ [Next]_vars => RowsCarry'
<1> SUFFICES ASSUME ClaimInv, [Next]_vars, NEW i \in Item, tx'[i] # NoTx
             PROVE  Carries(tx[i], i)'
  BY DEF RowsCarry, Carries
<1> USE DEF Carries
<1>0. TypeOK /\ tx[i] \in Tx \union {NoTx}
  BY DEF ClaimInv, TypeOK
<1>1. CASE tx'[i] = tx[i]
  BY <1>0, <1>1, ChainGrows DEF ClaimInv, RowsCarry
<1>2. ASSUME NEW s \in Slot, tx'[i] # tx[i],
             RecordLate(s) \/ RecordClaim(s) \/ RecordReview(s)
      PROVE  Carries(tx[i], i)'
  <2>1. /\ call[s].step \notin {"idle", "send"} /\ call[s].item = i
        /\ tx'[i] = call[s].tx /\ chain' = chain /\ about' = about
    BY <1>0, <1>2 DEF RecordLate, RecordClaim, RecordReview, Point, TypeOK
  <2>. QED
    BY <2>1 DEF ClaimInv, CallsCarry
<1>3. ASSUME NEW s \in Slot, Clear(s), tx'[i] # tx[i] PROVE FALSE
  BY <1>0, <1>3 DEF Clear, TypeOK
<1>4. ASSUME ~\E s \in Slot : \/ RecordLate(s) \/ RecordClaim(s)
                              \/ RecordReview(s) \/ Clear(s)
      PROVE  tx' = tx
  BY <1>4 DEF Next, vars, rowVars, Create, PrepareAnchor, Verify, Review,
     ReadClaim, ReadReview, Broadcast, Poll, ReadTx, Query, FinishClaim,
     FinishReview, Abandon, Execute
<1>. QED
  BY <1>1, <1>2, <1>3, <1>4

LEMMA SentStep == ClaimInv /\ [Next]_vars => SentIsVerified'
<1> SUFFICES ASSUME ClaimInv, [Next]_vars, NEW t \in Tx, NEW i \in Item,
                    Carries(t, i)'
             PROVE  Due(i)' /\ (i # Claim => about'[t].says \in Final)
  BY DEF SentIsVerified, Carries, Due, Item
<1>0. TypeOK /\ SentIsVerified
  BY DEF ClaimInv
<1>1. CASE chain[t] # "unsent"
  <2>1. Carries(t, i) /\ about'[t] = about[t]
    BY <1>0, <1>1, ChainGrows DEF Carries
  <2>2. i # Claim => about[t].says \in Final
    BY <1>0, <2>1 DEF SentIsVerified, Item
  <2>. QED
    BY <1>0, <2>1, <2>2, CarriedIsDue, DueStays
<1>2. CASE chain[t] = "unsent"
  <2>1. PICK s \in Slot : Broadcast(s, t)
    <3>1. ASSUME NEW u \in Tx, Execute(u) PROVE chain'[t] = "unsent"
      BY <1>0, <1>2, <3>1 DEF Execute, TypeOK
    <3>2. ASSUME NEW s \in Slot, NEW u \in Tx, Broadcast(s, u), u # t
          PROVE  chain'[t] = "unsent"
      BY <1>0, <1>2, <3>2 DEF Broadcast, TypeOK
    <3>3. ASSUME ~\E s \in Slot, u \in Tx : Broadcast(s, u),
                 ~\E u \in Tx : Execute(u)
          PROVE  chain' = chain
      BY <3>3 DEF Next, vars, rowVars, Create, PrepareAnchor, Verify, Review,
         ReadClaim, ReadReview, Poll, RecordLate, RecordClaim, RecordReview,
         ReadTx, Query, Clear, FinishClaim, FinishReview, Abandon
    <3>. QED
      BY <1>2, <3>1, <3>2, <3>3 DEF Carries
  <2>2. /\ call[s].step = "send" /\ level' = level
        /\ about'[t] = [item |-> call[s].item, says |-> call[s].says]
    BY <1>0, <2>1 DEF Broadcast, rowVars, TypeOK
  <2>3. i = call[s].item
    BY <2>2 DEF Carries
  <2>. QED
    BY <2>2, <2>3 DEF ClaimInv, SendIsDue, Due
<1>. QED
  BY <1>1, <1>2

LEMMA StampStep == ClaimInv /\ [Next]_vars => StampedIsOnLedger'
<1> SUFFICES ASSUME ClaimInv, [Next]_vars, NEW i \in Item, stamped'[i]
             PROVE  OnLedger(i)'
  BY DEF StampedIsOnLedger, OnLedger
<1>0. TypeOK
  BY DEF ClaimInv
<1>1. CASE OnLedger(i)
  BY <1>0, <1>1, ChainGrows DEF OnLedger
<1>2. ASSUME NEW s \in Slot, ~stamped[i],
             \/ RecordClaim(s) \/ RecordReview(s)
             \/ FinishClaim(s) \/ FinishReview(s)
      PROVE  OnLedger(i)
  <2>1. call[s].item = i /\ call[s].step \in {"confirmed", "finish"}
    BY <1>0, <1>2 DEF RecordClaim, RecordReview, FinishClaim, FinishReview,
       TypeOK
  <2>2. call[s].tx \in Tx
    BY <1>0, <2>1 DEF TypeOK
  <2>. QED
    BY <2>1, <2>2 DEF ClaimInv, CallsCarry, OnLedger, Carries
<1>3. ASSUME ~\E s \in Slot : \/ RecordClaim(s) \/ RecordReview(s)
                              \/ FinishClaim(s) \/ FinishReview(s)
      PROVE  stamped' = stamped
  BY <1>3 DEF Next, vars, rowVars, Create, PrepareAnchor, Verify, Review,
     ReadClaim, ReadReview, Broadcast, Poll, RecordLate, ReadTx, Query, Clear,
     Abandon, Execute
<1>. QED
  BY <1>1, <1>2, <1>3 DEF ClaimInv, StampedIsOnLedger

\* The inductive invariant holds: calls and rows name transactions for the item
\* they carry, and what is sent was due.
THEOREM ClaimInvariant == Spec => []ClaimInv
<1>1. ClaimInv /\ [Next]_vars => ClaimInv'
  BY TypeStep, SendStep, CallStep, RowStep, SentStep, StampStep DEF ClaimInv
<1>. QED
  BY <1>1, InitClaim, PTL DEF Spec

\* Every column, transaction and call keeps its type; a call has a
\* transaction exactly after the broadcast or the read of one.
THEOREM ClaimTypes == Spec => []TypeOK
<1>1. ClaimInv => TypeOK
  BY DEF ClaimInv
<1>. QED
  BY <1>1, ClaimInvariant, PTL

\* No timestamp or log entry of a service speaks of a transaction that the
\* ledger has not executed.
THEOREM ConfirmationsAreTrue == Spec => []StampedIsOnLedger
<1>1. ClaimInv => StampedIsOnLedger
  BY DEF ClaimInv
<1>. QED
  BY <1>1, ClaimInvariant, PTL

\* Whatever may reach the ledger, also by a transaction nobody recorded, was
\* verified and cannot be withdrawn.
THEOREM OnlyVerifiedIsSent == Spec => []SentIsVerified
<1>1. ClaimInv => SentIsVerified
  BY DEF ClaimInv
<1>. QED
  BY <1>1, ClaimInvariant, PTL

-----------------------------------------------------------------------------
(* The refinement.                                                         *)

OnChain == {i \in Item : OnLedger(i)}
Stamps == {i \in Item : stamped[i]}

LEMMA LevelMoves ==
  ASSUME ClaimInv, [Next]_vars, level' # level
  PROVE  /\ level' \in Contract!Successors(level)
         /\ \/ stamped' = stamped
            \/ \E s \in Slot : RecordClaim(s) \/ FinishClaim(s)
         /\ chain' = chain /\ about' = about
<1>1. ASSUME NEW l \in Level, Verify(l)
      PROVE  level' \in Contract!Successors(level) /\ stamped' = stamped
             /\ chain' = chain /\ about' = about
  BY <1>1 DEF Verify, Allowed, Contract!Successors
<1>2. CASE Create
  BY <1>2 DEF Create, Contract!Successors
<1>3. ASSUME NEW s \in Slot, RecordClaim(s) \/ FinishClaim(s)
      PROVE  level' \in Contract!Successors(level)
             /\ chain' = chain /\ about' = about
  <2>1. call[s].item = Claim /\ call[s].step \in {"confirmed", "finish"}
    BY <1>3 DEF RecordClaim, FinishClaim
  <2>2. call[s].tx \in Tx /\ Claim \in Item
    BY <2>1 DEF ClaimInv, TypeOK, Item
  <2>3. Due(Claim)
    BY <2>1, <2>2, CarriedIsDue DEF ClaimInv, CallsCarry
  <2>4. level = "verified" /\ level' = "ledger_anchored"
    BY <1>3, <2>3 DEF Due, RecordClaim, FinishClaim
  <2>. QED
    BY <1>3, <2>4 DEF RecordClaim, FinishClaim, Contract!Successors
<1>4. ASSUME ~Create, ~\E l \in Level : Verify(l),
             ~\E s \in Slot : RecordClaim(s) \/ FinishClaim(s)
      PROVE  level' = level
  BY <1>4 DEF Next, vars, rowVars, PrepareAnchor, Review, ReadClaim,
     ReadReview, Broadcast, Poll, RecordLate, RecordReview, ReadTx, Query,
     Clear, FinishReview, Abandon, Execute
<1>. QED
  BY <1>1, <1>2, <1>3, <1>4

\* What is on the ledger changes when it executes a transaction only.
LEMMA ChainSame ==
  ASSUME ClaimInv, [Next]_vars, ~\E t \in Tx : Execute(t)
  PROVE  OnChain' = OnChain
<1>0. TypeOK
  BY DEF ClaimInv
<1>1. ASSUME NEW s \in Slot, NEW u \in Tx, Broadcast(s, u)
      PROVE  \A t \in Tx, i \in Item :
               chain'[t] = "done" /\ about'[t].item = i
                 <=> chain[t] = "done" /\ about[t].item = i
  BY <1>0, <1>1 DEF Broadcast, TypeOK
<1>2. ASSUME ~\E s \in Slot, u \in Tx : Broadcast(s, u)
      PROVE  chain' = chain /\ about' = about
  BY <1>2 DEF Next, vars, rowVars, Create, PrepareAnchor, Verify, Review,
     ReadClaim, ReadReview, Poll, RecordLate, RecordClaim, RecordReview,
     ReadTx, Query, Clear, FinishClaim, FinishReview, Abandon
<1>. QED
  BY <1>1, <1>2 DEF OnChain, OnLedger

LEMMA ContractStep == ClaimInv /\ [Next]_vars => [Contract!Next]_(Contract!vars)
<1> SUFFICES ASSUME ClaimInv, [Next]_vars
             PROVE  \/ Contract!Next
                    \/ level' = level /\ OnChain' = OnChain /\ Stamps' = Stamps
  BY DEF Contract!vars, OnChain, Stamps
<1> DEFINE Confirms(s) == \/ RecordClaim(s) \/ RecordReview(s)
                          \/ FinishClaim(s) /\ level = "verified"
                          \/ FinishReview(s)
<1> DEFINE Answer == \/ Contract!Next
                     \/ level' = level /\ OnChain' = OnChain /\ Stamps' = Stamps
<1>0. TypeOK
  BY DEF ClaimInv
<1>1. ASSUME NEW s \in Slot, Confirms(s) PROVE Answer
  <2>1. PICK i \in Item : i = call[s].item
    BY <1>0 DEF TypeOK
  <2>2. /\ call[s].step \in {"confirmed", "finish"}
        /\ stamped' = [stamped EXCEPT ![i] = TRUE]
        /\ chain' = chain /\ about' = about
        /\ level' = IF i = Claim THEN "ledger_anchored" ELSE level
    BY <1>1, <2>1 DEF RecordClaim, RecordReview, FinishClaim, FinishReview
  <2>3. call[s].tx \in Tx
    BY <1>0, <2>2 DEF TypeOK
  <2>4. OnLedger(i) /\ Carries(call[s].tx, i)
    BY <2>1, <2>2, <2>3 DEF ClaimInv, CallsCarry, OnLedger, Carries
  <2>5. level' = "ledger_anchored"
    BY <2>2, <2>3, <2>4, CarriedIsDue DEF Due, ClaimInv
  <2>6. Stamps' = Stamps \union {i} /\ OnChain' = OnChain
    BY <1>0, <2>2 DEF Stamps, OnChain, OnLedger, TypeOK
  <2>7. Contract!Confirm(i)
    BY <2>4, <2>5, <2>6 DEF Contract!Confirm, Stamps, OnChain
  <2>. QED
    BY <2>7 DEF Contract!Next, Contract!Item, Item
<1>2. ASSUME NEW t \in Tx, Execute(t) PROVE Answer
  <2>1. PICK i \in Item : i = about[t].item
    BY <1>0 DEF TypeOK
  <2>2. Carries(t, i) /\ level' = level /\ stamped' = stamped
    BY <1>2, <2>1 DEF Execute, Carries, rowVars
  <2>3. Due(i)
    BY <1>0, <2>2, CarriedIsDue DEF ClaimInv
  <2>4. OnChain' = OnChain \/ OnChain' = OnChain \union {i}
    <3>1. CASE chain'[t] = "failed"
      <4>1. \A u \in Tx : chain'[u] = "done" <=> chain[u] = "done"
        BY <1>0, <1>2, <3>1 DEF Execute, TypeOK
      <4>. QED
        BY <1>2, <4>1 DEF OnChain, OnLedger, Execute
    <3>2. CASE chain'[t] = "done"
      <4>1. \A u \in Tx : chain'[u] = "done" <=> chain[u] = "done" \/ u = t
        BY <1>0, <1>2, <3>2 DEF Execute, TypeOK
      <4>2. about' = about
        BY <1>2 DEF Execute
      <4>3. \A j \in Item : OnLedger(j)' <=> OnLedger(j) \/ j = i
        BY <2>1, <4>1, <4>2 DEF OnLedger
      <4>. QED
        BY <4>3 DEF OnChain
    <3>. QED
      BY <1>0, <1>2, <3>1, <3>2 DEF Execute, TypeOK
  <2>5. OnChain' = OnChain \union {i} => Contract!Publish(i)
    BY <2>2, <2>3 DEF Contract!Publish, Due, OnChain
  <2>. QED
    BY <2>2, <2>4, <2>5 DEF Contract!Next, Contract!Item, Item, Stamps
<1>3. ASSUME ~\E t \in Tx : Execute(t), ~\E s \in Slot : Confirms(s)
      PROVE  Answer
  <2>1. stamped' = stamped
    BY <1>3 DEF Next, vars, rowVars, Create, PrepareAnchor, Verify, Review,
       ReadClaim, ReadReview, Broadcast, Poll, RecordLate, ReadTx, Query,
       Clear, FinishClaim, Abandon
  <2>2. OnChain' = OnChain
    BY <1>3, ChainSame
  <2>3. CASE level' # level
    <3>1. Contract!Move
      BY <2>1, <2>2, <2>3, LevelMoves DEF Contract!Move, OnChain, Stamps
    <3>. QED
      BY <3>1 DEF Contract!Next
  <2>. QED
    BY <2>1, <2>2, <2>3 DEF Stamps
<1> HIDE DEF Confirms, Answer
<1>4. Answer
  BY <1>1, <1>2, <1>3
<1>. QED
  BY <1>4 DEF Answer

\* The claim, its reviews and all the calls on them implement the contract.
THEOREM ContractIsKept == Spec => KeepsContract
<1>1. Init => Contract!Init
  BY DEF Init, Contract!Init, OnLedger
<1>2. ClaimInv /\ [Next]_vars => [Contract!Next]_(Contract!vars)
  BY ContractStep
<1>. QED
  BY <1>1, <1>2, ClaimInvariant, PTL DEF Spec, KeepsContract, Contract!Spec

=============================================================================
