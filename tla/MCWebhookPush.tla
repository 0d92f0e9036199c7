---------------------------- MODULE MCWebhookPush ----------------------------
(***************************************************************************)
(* Instances of WebhookPush for TLC.                                       *)
(***************************************************************************)
EXTENDS WebhookPush, TLC

CONSTANTS p1, p2, e1, e2, e3, none, task, entity

\* e1 is for everybody, the others for p1 alone; e2 is outside p1's scope.
TwoPeers == {p1, p2}
ThreeEvents == {e1, e2, e3}
TasksAndEntity == e1 :> task @@ e2 :> entity @@ e3 :> task
TwoUnicasts == e1 :> Broadcast @@ e2 :> p1 @@ e3 :> p1
NarrowAndWide == p1 :> {task} @@ p2 :> {task, entity}

=============================================================================
