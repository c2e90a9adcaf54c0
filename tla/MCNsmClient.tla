----------------------------- MODULE MCNsmClient -----------------------------
(***************************************************************************)
(* Instances of NsmClient for TLC: how often NSM leaves is bounded.          *)
(***************************************************************************)
EXTENDS NsmClient

CONSTANT Losses          \* bound: how often NSM leaves
VARIABLE losses          \* how often it may still

MCInit == Init /\ losses = Losses

MCNext ==
    \/ (NsmStep \/ ClientStep \/ RequestStep \/ NsmRestarts) /\ UNCHANGED losses
    \/ losses > 0 /\ losses' = losses - 1 /\ NsmLeaves

MCSpec == MCInit /\ [][MCNext]_<<vars, losses>> /\ Fairness
=============================================================================
