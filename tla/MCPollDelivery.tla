---------------------------- MODULE MCPollDelivery ----------------------------
(***************************************************************************)
(* Instances of PollDelivery for TLC.                                      *)
(***************************************************************************)
EXTENDS PollDelivery, TLC

CONSTANTS p1, p2, e1, e2, e3, none, task, entity

\* One peer; a profile that provides "task" only: e2 sits in front of e3 and is
\* filtered out, and an unparseable RID is never in scope.
OnePeer == {p1}
ThreeEvents == {e1, e2, e3}
MixedTypes == e1 :> task @@ e2 :> none @@ e3 :> task
AllBroadcast == [e \in {e1, e2, e3} |-> Broadcast]

\* The same with one event behind the excluded one, for the liveness runs.
OneExcluded == e1 :> none @@ e2 :> task
BothBroadcast == [e \in {e1, e2} |-> Broadcast]

\* Two peers: one event for everybody, one for p2 alone.
TwoPeers == {p1, p2}
TwoEvents == {e1, e2}
TwoTypes == e1 :> task @@ e2 :> entity
Addressed == e1 :> Broadcast @@ e2 :> p2

\* An operator takes everything off an edge.
Emptied == {{}}

=============================================================================
