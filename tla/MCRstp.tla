------------------------------- MODULE MCRstp -------------------------------
(***************************************************************************)
(* An instance of Rstp for TLC: three bridges, wired in four ways.          *)
(***************************************************************************)
EXTENDS Rstp

MCOf == <<1, 1, 2, 2, 2, 3, 3>>
\* On the ring both ways from the third bridge to the first are as long as each other.
MCCost == [p \in Port |-> IF p = 7 THEN 2 ELSE 1]

\* A ring; two cables between two bridges; a cable from a bridge to itself; one cable.
Ring == <<3, 7, 1, 6, 5, 4, 2>>
Twin == <<3, 4, 1, 2, 5, 6, 7>>
Self == <<3, 2, 1, 5, 4, 6, 7>>
Single == <<3, 2, 1, 4, 5, 6, 7>>
Wirings == {Ring, Twin, Self, Single}

MCLosses == [w \in Wirings |-> IF w = Single THEN 6 ELSE 0]
MCFlaps == [w \in Wirings |-> IF w \in {Twin, Single} THEN 1 ELSE 0]
=============================================================================
