--------------------------- MODULE MCCommonsIntake ---------------------------
(***************************************************************************)
(* Instances of CommonsIntake for TLC.                                     *)
(***************************************************************************)
EXTENDS CommonsIntake, TLC

CONSTANTS s1, c1, c2, w1, w2

OneShare == {s1}
OneCandidate == {c1}
TwoCandidates == {c1, c2}
TwoWorkers == {w1, w2}

=============================================================================
