---------------------------- MODULE MCEntityMerge ----------------------------
(***************************************************************************)
(* Instances of EntityMerge for TLC.                                       *)
(***************************************************************************)
EXTENDS EntityMerge, TLC

CONSTANTS a, b, c, x, y, d, e1, s1, s2

ThreeUris == {a, b, c}
AllKnown == {a, b, c}
AandC == {a, c}
TwoNames == {x, y}
\* b is a under another type; c is somebody else.
Names == (a :> x) @@ (b :> x) @@ (c :> y)
Types == (a :> {b}) @@ (b :> {a}) @@ (c :> {})
OneDoc == {d}
OneEvent == {e1}
EventDoc == e1 :> d
EventUri == e1 :> a

=============================================================================
