---------------------------- MODULE ClaimContract ----------------------------
(***************************************************************************)
(* What an impact claim promises its readers, whatever becomes of the      *)
(* calls that carry it to the Regen ledger: the verification ladder, and   *)
(* how the ladder, the ledger and the confirmations recorded here relate.  *)
(***************************************************************************)
CONSTANTS
  Reviewer,
  Claim      \* the claim itself, as something that can be anchored

Item == Reviewer \union {Claim}

VARIABLES
  level,    \* claims.verification, "none" before the claim exists
  ledger,   \* the items whose content is on the ledger
  stamped   \* the items recorded here as confirmed by the ledger

vars == <<level, ledger, stamped>>

\* _VALID_TRANSITIONS: "terminal - on-chain is permanent".
Successors(l) ==
  CASE l = "none"          -> {"self_reported"}
    [] l = "self_reported" -> {"peer_reviewed", "withdrawn"}
    [] l = "peer_reviewed" -> {"verified", "withdrawn"}
    [] l = "verified"      -> {"ledger_anchored"}
    [] OTHER               -> {}

Init == level = "none" /\ ledger = {} /\ stamped = {}

Move ==
  /\ level' \in Successors(level)
  /\ UNCHANGED <<ledger, stamped>>

\* The ledger takes a claim once it is verified, a review once the claim is
\* anchored; what it has taken it keeps.
Publish(i) ==
  /\ level \in IF i = Claim THEN {"verified", "ledger_anchored"}
                            ELSE {"ledger_anchored"}
  /\ ledger' = ledger \union {i}
  /\ UNCHANGED <<level, stamped>>

\* A confirmation is recorded of what the ledger has; a claim is then anchored.
Confirm(i) ==
  /\ i \in ledger
  /\ stamped' = stamped \union {i}
  /\ level' = "ledger_anchored"
  /\ UNCHANGED ledger

Next == Move \/ \E i \in Item : Publish(i) \/ Confirm(i)

Spec == Init /\ [][Next]_vars

==============================================================================
