------------------------------ MODULE Delivery ------------------------------
(***************************************************************************)
(* What the inbox and the queue promise of a message: it is sent once, and *)
(* is taken once or lost for good.  Nothing is sent again, nothing is      *)
(* taken twice, and nobody learns that a message was lost.                 *)
(***************************************************************************)
CONSTANT Messages

VARIABLE fate   \* fate[m] of each message

Fates == {"unsent", "under way", "taken", "lost"}

Init == fate = [m \in Messages |-> "unsent"]

Send(m) == fate[m] = "unsent" /\ fate'[m] = "under way"
End(m) == fate[m] = "under way" /\ fate'[m] \in {"taken", "lost"}

\* Messages may be lost together with the one that is taken.
Next ==
    /\ fate' \in [Messages -> Fates]
    /\ \A m \in Messages : Send(m) \/ End(m) \/ fate'[m] = fate[m]

Spec == Init /\ [][Next]_fate
==============================================================================
