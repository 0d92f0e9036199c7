----------------------------- MODULE MCVaultScan -----------------------------
(***************************************************************************)
(* Instances of VaultScan for TLC.                                         *)
(***************************************************************************)
EXTENDS VaultScan, TLC

CONSTANTS f1, f2, x, y

TwoPaths == {f1, f2}
OneContent == {x}
TwoContents == {x, y}

Symmetric == Permutations(Path) \union Permutations(Content)

=============================================================================
