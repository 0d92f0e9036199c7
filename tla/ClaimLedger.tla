----------------------------- MODULE ClaimLedger -----------------------------
(***************************************************************************)
(* An impact claim of the claims engine, its reviews (attestations) and    *)
(* the calls that anchor them on the Regen ledger.  A call reads the row,  *)
(* lets go of the database, broadcasts a transaction and asks for it for   *)
(* half a minute, then writes what it learnt into whatever the row is by   *)
(* then.  A call whose answer is lost leaves a transaction nobody has      *)
(* recorded.                                                               *)
(*                                                                         *)
(* tx_hash and ledger_iri are written and cleared together: tx stands for  *)
(* both, says for the content the ledger_iri is the hash of.  One claim:   *)
(* a request names one and touches no other.                               *)
(***************************************************************************)
EXTENDS Integers, FiniteSets

CONSTANTS
  Reviewer,
  Claim,
  Exempt,   \* the claim is older than the attestation policy
  Slot,     \* bound: anchor and reconcile calls in flight at once
  Tx,       \* bound: transactions ever broadcast
  NoTx

Item == Reviewer \union {Claim}

ASSUME ClaimAssumption ==
  Claim \notin Reviewer /\ NoTx \notin Tx /\ Exempt \in BOOLEAN

VARIABLES
  level,    \* claims.verification, "none" before the INSERT
  hashed,   \* claims.content_hash is set
  verdict,  \* claim_attestations.verdict by reviewer, "none" without a row
  tx,       \* tx_hash of the claim, attest_tx_hash of a review
  says,     \* what the content of its ledger_iri says
  stamped,  \* ledger_timestamp and the log entry of a service, or
            \* attest_timestamp, have been written
  chain,    \* what has become of a transaction
  about,    \* the item and content it anchors
  call      \* the calls in flight

rowVars == <<level, hashed, verdict, tx, says, stamped>>
vars == <<rowVars, chain, about, call>>

Level == {"none", "self_reported", "peer_reviewed", "verified",
          "ledger_anchored", "withdrawn"}
Final == {"approved", "rejected"}
Verdict == Final \union {"open"}   \* "open": pending or needs_info
Content == Verdict \union {"none", "claim"}

Idle == [step |-> "idle", item |-> Claim, says |-> "none", tx |-> NoTx]

Step == {"idle", "send", "poll", "confirmed", "late", "ask", "clear", "finish"}

TypeOK ==
  /\ level \in Level /\ hashed \in BOOLEAN
  /\ verdict \in [Reviewer -> Verdict \union {"none"}]
  /\ tx \in [Item -> Tx \union {NoTx}]
  /\ says \in [Item -> Content]
  /\ stamped \in [Item -> BOOLEAN]
  /\ chain \in [Tx -> {"unsent", "pending", "done", "failed"}]
  /\ about \in [Tx -> [item : Item, says : Content]]
  /\ call \in [Slot -> [step : Step, item : Item, says : Content,
                        tx : Tx \union {NoTx}]]
  /\ \A s \in Slot : call[s].step \in {"idle", "send"} <=> call[s].tx = NoTx

Init ==
  /\ level = "none" /\ hashed = FALSE
  /\ verdict = [r \in Reviewer |-> "none"]
  /\ tx = [i \in Item |-> NoTx] /\ says = [i \in Item |-> "none"]
  /\ stamped = [i \in Item |-> FALSE]
  /\ chain = [t \in Tx |-> "unsent"]
  /\ about = [t \in Tx |-> [item |-> Claim, says |-> "none"]]
  /\ call = [s \in Slot |-> Idle]

-----------------------------------------------------------------------------
(* The claim and its reviews.                                              *)

\* create_claim: a second request for the same content is answered with the
\* row, also when it loses the race to insert it.
Create ==
  /\ level = "none"
  /\ level' = "self_reported"
  /\ UNCHANGED <<hashed, verdict, tx, says, stamped, chain, about, call>>

\* Fault: a verified claim may still be withdrawn.
WithdrawLate(l) ==
  CASE l = "self_reported" -> {"peer_reviewed", "withdrawn"}
    [] l = "peer_reviewed" -> {"verified", "withdrawn"}
    [] l = "verified"      -> {"ledger_anchored", "withdrawn"}
    [] OTHER               -> {}

\* _VALID_TRANSITIONS.
Allowed(l) ==
  CASE l = "self_reported" -> {"peer_reviewed", "withdrawn"}
    [] l = "peer_reviewed" -> {"verified", "withdrawn"}
    [] l = "verified"      -> {"ledger_anchored"}
    [] OTHER               -> {}

Approvals == Cardinality({r \in Reviewer : verdict[r] = "approved"})

\* _check_attestation_policy, _TRANSITION_PRECONDITIONS.
Precondition(l) ==
  CASE l = "peer_reviewed"   -> Exempt \/ Approvals >= 1
    [] l = "verified"        -> Exempt \/ Approvals >= 2
    [] l = "ledger_anchored" -> hashed /\ tx[Claim] # NoTx
    [] OTHER                 -> TRUE

\* verify_claim, one transaction that holds the row.
Verify(l) ==
  /\ l \in Allowed(level) /\ Precondition(l)
  /\ level' = l
  /\ UNCHANGED <<hashed, verdict, tx, says, stamped, chain, about, call>>

\* create_attestation: inserted, or changed as long as the row names no
\* transaction.
Review(r, v) ==
  /\ level # "none" /\ tx[r] = NoTx
  /\ verdict' = [verdict EXCEPT ![r] = v]
  /\ UNCHANGED <<level, hashed, tx, says, stamped, chain, about, call>>

\* prepare_anchor computes the hash once: a stored one is kept.
PrepareAnchor ==
  /\ level # "none" /\ ~hashed
  /\ hashed' = TRUE
  /\ UNCHANGED <<level, verdict, tx, says, stamped, chain, about, call>>

-----------------------------------------------------------------------------
(* anchor_claim, anchor_attestation and attest_onchain.                    *)

Begin(s, i, c) ==
  /\ call[s].step = "idle"
  /\ call' = [call EXCEPT ![s] = [step |-> "send", item |-> i, says |-> c,
                                  tx |-> NoTx]]

\* The row is read and given back; that it has a transaction already is not
\* asked.
ReadClaim(s) ==
  /\ level = "verified"
  /\ Begin(s, Claim, "claim")
  /\ hashed' = TRUE
  /\ UNCHANGED <<level, verdict, tx, says, stamped, chain, about>>

\* Fault: a review is anchored with the claim, before it.
ReadEarly(s, r) ==
  /\ level \in {"verified", "ledger_anchored"}
  /\ verdict[r] \in Final /\ tx[r] = NoTx
  /\ Begin(s, r, verdict[r])
  /\ UNCHANGED <<rowVars, chain, about>>

\* The guards of anchor_attestation and attest_onchain are the same.
ReadReview(s, r) ==
  /\ level = "ledger_anchored"
  /\ verdict[r] \in Final /\ tx[r] = NoTx
  /\ Begin(s, r, verdict[r])
  /\ UNCHANGED <<rowVars, chain, about>>

\* broadcast_anchor: the CLI returns the hash of a new transaction, or it is
\* cut off after thirty seconds and the call fails.
Broadcast(s, t) ==
  /\ call[s].step = "send" /\ chain[t] = "unsent"
  /\ chain' = [chain EXCEPT ![t] = "pending"]
  /\ about' = [about EXCEPT ![t] = [item |-> call[s].item,
                                    says |-> call[s].says]]
  /\ \/ call' = [call EXCEPT ![s] = [step |-> "poll", item |-> call[s].item,
                                     says |-> call[s].says, tx |-> t]]
     \/ call' = [call EXCEPT ![s] = Idle]
  /\ UNCHANGED rowVars

\* Fault: a timeout is answered as if it were a confirmation.
PollHopeful(s) ==
  /\ call[s].step = "poll"
  /\ call' = [call EXCEPT ![s].step = "confirmed"]
  /\ UNCHANGED <<rowVars, chain, about>>

\* Six queries: confirmed, or nothing found in time.
Poll(s) ==
  /\ call[s].step = "poll"
  /\ \/ chain[call[s].tx] = "done" /\ call' = [call EXCEPT ![s].step = "confirmed"]
     \/ call' = [call EXCEPT ![s].step = "late"]
  /\ UNCHANGED <<rowVars, chain, about>>

\* Fault: the call ends and keeps its transaction.
PointOnly(s) ==
  /\ tx' = [tx EXCEPT ![call[s].item] = call[s].tx]
  /\ says' = [says EXCEPT ![call[s].item] = call[s].says]
  /\ call' = [call EXCEPT ![s].step = "idle"]

\* Both columns are written, and the call is answered.
Point(s) ==
  /\ tx' = [tx EXCEPT ![call[s].item] = call[s].tx]
  /\ says' = [says EXCEPT ![call[s].item] = call[s].says]
  /\ call' = [call EXCEPT ![s] = Idle]

\* The transaction is noted, to be reconciled, by id only.
RecordLate(s) ==
  /\ call[s].step = "late"
  /\ Point(s)
  /\ UNCHANGED <<level, hashed, verdict, stamped, chain, about>>

\* The claim row is locked, and not looked at.
RecordClaim(s) ==
  /\ call[s].step = "confirmed" /\ call[s].item = Claim
  /\ Point(s)
  /\ level' = "ledger_anchored" /\ hashed' = TRUE
  /\ stamped' = [stamped EXCEPT ![Claim] = TRUE]
  /\ UNCHANGED <<verdict, chain, about>>

RecordReview(s) ==
  /\ call[s].step = "confirmed" /\ call[s].item # Claim
  /\ Point(s)
  /\ stamped' = [stamped EXCEPT ![call[s].item] = TRUE]
  /\ UNCHANGED <<level, hashed, verdict, chain, about>>

-----------------------------------------------------------------------------
(* reconcile_claim and reconcile_attestation.                              *)

ReadTx(s, i) ==
  /\ call[s].step = "idle" /\ tx[i] # NoTx
  /\ i = Claim => level = "verified"
  /\ call' = [call EXCEPT ![s] = [step |-> "ask", item |-> i,
                                  says |-> says[i], tx |-> tx[i]]]
  /\ UNCHANGED <<rowVars, chain, about>>

\* query_tx_status: not found ends the call, whatever the reason.
Query(s) ==
  /\ call[s].step = "ask"
  /\ \/ /\ chain[call[s].tx] = "failed"
        /\ call' = [call EXCEPT ![s].step = "clear"]
     \/ /\ chain[call[s].tx] = "done"
        /\ call' = [call EXCEPT ![s].step = "finish"]
  /\ UNCHANGED <<rowVars, chain, about>>

\* A failed transaction is taken off the row, by id only.
Clear(s) ==
  /\ call[s].step = "clear"
  /\ tx' = [tx EXCEPT ![call[s].item] = NoTx]
  /\ says' = [says EXCEPT ![call[s].item] = "none"]
  /\ call' = [call EXCEPT ![s] = Idle]
  /\ UNCHANGED <<level, hashed, verdict, stamped, chain, about>>

\* The claim is looked at again under its lock: it is verified, or the call
\* is refused.
FinishClaim(s) ==
  /\ call[s].step = "finish" /\ call[s].item = Claim
  /\ call' = [call EXCEPT ![s] = Idle]
  /\ IF level = "verified"
       THEN /\ level' = "ledger_anchored"
            /\ stamped' = [stamped EXCEPT ![Claim] = TRUE]
       ELSE UNCHANGED <<level, stamped>>
  /\ UNCHANGED <<hashed, verdict, tx, says, chain, about>>

FinishReview(s) ==
  /\ call[s].step = "finish" /\ call[s].item # Claim
  /\ stamped' = [stamped EXCEPT ![call[s].item] = TRUE]
  /\ call' = [call EXCEPT ![s] = Idle]
  /\ UNCHANGED <<level, hashed, verdict, tx, says, chain, about>>

\* An exception, a refusal of the ledger, a query that finds nothing, or the
\* end of the process: what the call knew is gone.
Abandon(s) ==
  /\ call[s].step # "idle"
  /\ call' = [call EXCEPT ![s] = Idle]
  /\ UNCHANGED <<rowVars, chain, about>>

\* The ledger executes a transaction.
Execute(t) ==
  /\ chain[t] = "pending"
  /\ \E c \in {"done", "failed"} : chain' = [chain EXCEPT ![t] = c]
  /\ UNCHANGED <<rowVars, about, call>>

Next ==
  \/ Create \/ PrepareAnchor
  \/ \E l \in Level : Verify(l)
  \/ \E r \in Reviewer, v \in Verdict : Review(r, v)
  \/ \E s \in Slot :
       \/ ReadClaim(s) \/ \E r \in Reviewer : ReadReview(s, r)
       \/ \E t \in Tx : Broadcast(s, t)
       \/ Poll(s) \/ RecordLate(s) \/ RecordClaim(s) \/ RecordReview(s)
       \/ \E i \in Item : ReadTx(s, i)
       \/ Query(s) \/ Clear(s) \/ FinishClaim(s) \/ FinishReview(s)
       \/ Abandon(s)
  \/ \E t \in Tx : Execute(t)

Spec == Init /\ [][Next]_vars

-----------------------------------------------------------------------------
(* Properties.                                                             *)

Carries(t, i) == chain[t] # "unsent" /\ about[t].item = i

OnLedger(i) == \E t \in Tx : chain[t] = "done" /\ about[t].item = i

\* What a service has recorded as confirmed is on the ledger: no timeout, no
\* transaction replaced or cleared while a call waits makes it say so.
StampedIsOnLedger == \A i \in Item : stamped[i] => OnLedger(i)

\* A transaction that may reach the ledger, recorded here or lost, carries a
\* claim that was verified and can no longer be withdrawn, or the final
\* verdict of a reviewer on an anchored claim.
SentIsVerified ==
  \A t \in Tx :
    /\ Carries(t, Claim) => level \in {"verified", "ledger_anchored"}
    /\ \A r \in Reviewer : Carries(t, r) => /\ level = "ledger_anchored"
                                            /\ about[t].says \in Final

\* The row and the calls, with all they lose and overwrite, keep to the
\* contract of a claim.
Contract == INSTANCE ClaimContract WITH
  ledger  <- {i \in Item : OnLedger(i)},
  stamped <- {i \in Item : stamped[i]}

KeepsContract == Contract!Spec

\* "Anchored attestations are immutable": the verdict shown with a confirmed
\* transaction is the one the ledger has.
AnchoredVerdict ==
  \A r \in Reviewer : stamped[r] /\ tx[r] # NoTx => says[r] = verdict[r]

==============================================================================
