--------------------------- MODULE DeliveryContract ---------------------------
(***************************************************************************)
(* What a POLL edge promises for one event and one peer: an event is       *)
(* handed over at most once, and what is not handled then is gone.         *)
(*                                                                         *)
(*     pending --> handed --> handled                                      *)
(*        \           \                                                    *)
(*         `-----------`--> closed                                         *)
(***************************************************************************)
CONSTANTS Peer, Event

VARIABLE status

Status == {"pending", "handed", "handled", "closed"}

Progress == {<<"pending", "handed">>, <<"pending", "closed">>,
             <<"handed", "handled">>, <<"handed", "closed">>}

Init == status = [p \in Peer |-> [e \in Event |-> "pending"]]

\* One step may move many events: a batch is handed over, a crash closes it.
Next ==
  /\ status' \in [Peer -> [Event -> Status]]
  /\ \A p \in Peer, e \in Event :
       \/ status'[p][e] = status[p][e]
       \/ <<status[p][e], status'[p][e]>> \in Progress

Spec == Init /\ [][Next]_status

=============================================================================
