---------------------------- MODULE MCClaimLedger ----------------------------
(***************************************************************************)
(* Instances of ClaimLedger for TLC.                                       *)
(***************************************************************************)
EXTENDS ClaimLedger, TLC

CONSTANTS r1, r2, s1, s2, t1, t2, t3

TwoReviewers == {r1, r2}
TwoSlots == {s1, s2}
ThreeTxs == {t1, t2, t3}

\* Reviewers, calls and transaction hashes are alike.
Alike == Permutations(TwoReviewers) \union Permutations(TwoSlots)
           \union Permutations(ThreeTxs)

=============================================================================
