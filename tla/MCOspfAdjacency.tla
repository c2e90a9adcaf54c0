-------------------------- MODULE MCOspfAdjacency --------------------------
EXTENDS OspfAdjacency

\* Each router has its own LSA only.
Apart == [r \in Router |-> [i \in Lsa |-> IF i = r THEN 1 ELSE 0]]
=============================================================================
