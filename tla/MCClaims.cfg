\* Two reviewers, two calls in flight, three transactions; an exempt claim may
\* take every step that one under the policy may.
SPECIFICATION Spec
CONSTANTS
  r1 = r1
  r2 = r2
  s1 = s1
  s2 = s2
  t1 = t1
  t2 = t2
  t3 = t3
  Claim = Claim
  NoTx = NoTx
  Exempt = TRUE
  Reviewer <- TwoReviewers
  Slot <- TwoSlots
  Tx <- ThreeTxs
SYMMETRY Alike
INVARIANTS TypeOK StampedIsOnLedger SentIsVerified
PROPERTIES KeepsContract
CHECK_DEADLOCK FALSE
