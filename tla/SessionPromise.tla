--------------------------- MODULE SessionPromise ---------------------------
(***************************************************************************)
(* What a qf-client session promises its user, whatever the threads do:    *)
(* the session starts, is online, may drop and be recovered, and ends once *)
(* and for all; the window closes when the user closes it, or because the  *)
(* session ended - never because a session that is still being started or  *)
(* recovered was mistaken for a dead one - and a session that ended does   *)
(* not keep its window open.                                               *)
(***************************************************************************)

VARIABLES
    phase,    \* "starting", "online", "recovering" or "ended"
    window    \* "open", "closedByUser" or "closedOnLoss"

vars == <<phase, window>>

Init == /\ phase = "starting"
        /\ window = "open"

Connect == /\ phase \in {"starting", "recovering"}
           /\ phase' = "online"
           /\ UNCHANGED window

Lose == /\ phase = "online"
        /\ phase' = "recovering"
        /\ UNCHANGED window

End == /\ phase # "ended"
       /\ phase' = "ended"
       /\ UNCHANGED window

CloseByUser == /\ window = "open"
               /\ window' = "closedByUser"
               /\ UNCHANGED phase

CloseOnLoss == /\ phase = "ended"
               /\ window # "closedOnLoss"
               /\ window' = "closedOnLoss"
               /\ UNCHANGED phase

Next == Connect \/ Lose \/ End \/ CloseByUser \/ CloseOnLoss

Safety == Init /\ [][Next]_vars

Spec == Safety /\ WF_vars(window = "open" /\ CloseOnLoss)
=============================================================================
