----------------------------- MODULE MCVaultSync -----------------------------
(***************************************************************************)
(* Instances of VaultSync for TLC: two nodes, three in a line (b relays)   *)
(* and three in a mesh.                                                    *)
(***************************************************************************)
EXTENDS VaultSync, TLC

CONSTANTS a, b, c

Pair == {a, b}
Trio == {a, b, c}
JustA == {a}
PairPeers == a :> {b} @@ b :> {a}
LinePeers == a :> {b} @@ b :> {a, c} @@ c :> {b}
MeshPeers == a :> {b, c} @@ b :> {a, c} @@ c :> {a, b}

Nodes == Permutations(Node)

=============================================================================
