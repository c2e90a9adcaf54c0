----------------------------- MODULE GarpDisable -----------------------------
(***************************************************************************)
(* GVRP turned off on a port that may forward, by "set port gvrp disable" or   *)
(* by taking the port off the bridge: Garp with gvrp_disable_port, after which *)
(* the port has no gvrp_port and no GID.  Turning GVRP on again is left out.    *)
(***************************************************************************)
EXTENDS Garp

VARIABLE off    \* the ports whose GVRP was turned off

varsOff == <<vars, off>>

\* Two leaves of p, one after the other, in one step: p has no GID then.
LeavesTwice(p) ==
    LET once == Less(members) IN
    /\ members' = Less(once)
    /\ gid' = [q \in Port |->
                 IF q # p /\ On(q) THEN LeaveTold(p, q, LeaveTold(p, q, gid[q], once), members')
                 ELSE NoGid]

\* gvrp_disable_port, gvrp_destroy_port: gid_destroy_gid lets the port leave and
\* gid_free_gid, when the port registers the VLAN and forwards, as it does, once more.
Disable(p) ==
    /\ p \notin off
    /\ IF On(p) /\ gid[p].registrar = "INN" THEN LeavesTwice(p) ELSE Destroy(p)
    /\ off' = off \cup {p}

InitOff == Init /\ off = {}

\* The handlers of Garp: a port without GVRP makes no GID when it forwards.
NextOff ==
    \E p \in Port :
        \/ Disable(p)
        \/ /\ Timers(p) \/ (Forward(p) /\ p \notin off) \/ Discard(p)
              \/ StationJoins(p) \/ StationTells(p)
           /\ UNCHANGED off

SpecOff == InitOff /\ [][NextOff]_varsOff

\* The count is what its comment calls it: "Decrement the number of members registered
\* for the gid index if the count is greater than zero" (garp_gip.c:161).
CountsMembers == members = Cardinality(Registering)
=============================================================================
