------------------------------- MODULE MCLacp -------------------------------
(***************************************************************************)
(* Instances of Lacp for TLC: which LACPDUs arrive, how many events a run   *)
(* counts, and the state it starts in.                                      *)
(***************************************************************************)
EXTENDS Lacp

CONSTANT Budget          \* bound: the events a run counts

VARIABLE budget          \* how many of them are still to come

\* What the partner on port q of system y says of itself.
Says(y, q, k, sync, aggr) ==
    [sys |-> y, sprio |-> 1, key |-> k, port |-> q, prio |-> 1, act |-> TRUE,
     short |-> FALSE, aggr |-> aggr, sync |-> sync, dflt |-> FALSE]

\* What a partner says of port p once it has heard it.
Knows(p, k) ==
    [sys |-> MySystem, sprio |-> 1, key |-> k, port |-> p, prio |-> 1, act |-> TRUE,
     short |-> FALSE, aggr |-> TRUE, sync |-> TRUE, dflt |-> FALSE]

From(p, y, sync, aggr) == [actor |-> Says(y, p, 1, sync, aggr), partner |-> Knows(p, 1)]

\* Every port may be cabled to system a or to system b.
TwoNeighbours == [p \in Port |-> {From(p, y, TRUE, TRUE) : y \in {"a", "b"}}]

\* Port 1 may be cabled to system a or b; the partner may be passive, may not
\* have heard this system, may not be in sync.
AnyNeighbour ==
    [p \in Port |->
        {From(p, y, TRUE, TRUE) : y \in {"a", "b"}}
        \cup {[From(p, "a", FALSE, TRUE) EXCEPT !.actor.act = FALSE,
                                              !.partner = DefaultPartner]}]

----------------------------------------------------------------------------

Counted(A) == budget > 0 /\ budget' = budget - 1 /\ A
Free(A)    == A /\ UNCHANGED budget

\* The inputs are counted and every timer is free to expire, or the timers that
\* watch a bundle are counted as well.
InputsCounted ==
    Free(SettlingStep \/ WatchingStep) \/ Counted(PartnerStep \/ NsmStep \/ CommandStep)
EventsCounted ==
    Free(SettlingStep) \/ Counted(WatchingStep \/ PartnerStep \/ NsmStep \/ CommandStep)

\* From the start of the daemon.
ColdInit == Init /\ budget = Budget
ColdSpec == ColdInit /\ [][InputsCounted]_<<vars, budget>>
FairColdSpec == ColdSpec /\ Fairness

\* The run begins in a state of S.
Starts(S) == \E s \in S :
    /\ link = s.link /\ agg = s.agg /\ links = s.links /\ agg_cnt = s.agg_cnt
    /\ system_priority = s.system_priority /\ ifg = s.ifg /\ nsm = s.nsm
    /\ static = s.static /\ crashed = s.crashed /\ walk = Idle /\ budget = Budget

\* What Step makes of state s for each port in turn, the highest first.
InTurn(Step(_, _), s) ==
    LET after[P \in SUBSET Port] ==
            IF P = {} THEN s
            ELSE LET p == CHOOSE p \in P : \A q \in P : p <= q IN Step(after[P \ {p}], p)
    IN  after[Port]

\* The function that is x everywhere on S = 1..n, as a tuple.
Tuple(S, x) == SubSeq([i \in S |-> x], 1, Cardinality(S))

\* NSM has announced every interface, up, and put its port into group 1: a
\* state Init reaches by InterfaceAdd and AggregatorConfigAdd.
Configured ==
    LET announced ==
            [link |-> Tuple(Port, NoLinkRec), agg |-> Tuple(Key, FreeAgg),
             links |-> {}, agg_cnt |-> 0, system_priority |-> DefaultPrio,
             ifg |-> Tuple(Port, [present |-> TRUE, up |-> TRUE,
                                  akey |-> CHOOSE a \in AdminKey : TRUE]),
             nsm |-> Tuple(Key, {}), static |-> 0, sent |-> <<>>, crashed |-> FALSE]
        add(s, p) == ConfigAdd(s, p, 1, TRUE)
    IN  InTurn(add, announced)

\* System a has answered on every port, the bundle carries traffic, and the
\* selection list has been rebuilt since (SetLinkPriority): a state Configured
\* reaches by HandlePacket, Select and WaitWhileExpiry, with the higher port
\* bundled before the lower one came up when the list is too short for both.
Bundled ==
    LET hear(s, p) == RunSm(s, p, Received(From(p, "a", TRUE, TRUE)))
        selected(s) == InTurn(hear, InTurn(AttemptToAggregate, s))
        waited(s)   == InTurn(hear, InTurn(WaitOver, s))
    IN  UpdateSelection(
            InTurn(hear, waited(selected(InTurn(hear, InTurn(hear, Configured))))))

BundleSpec == Starts({Bundled}) /\ [][EventsCounted]_<<vars, budget>>
FairBundleSpec == BundleSpec /\ WalkFairness

----------------------------------------------------------------------------
(* Properties of the runs whose inputs come to an end.                     *)

\* Once the partner, NSM and the operator are silent for good, an enabled port
\* gives the partner up: its receive machine ends in DEFAULTED and it carries no
\* traffic (lacp_rcv_sm, lacp_mux_sm), unless the process died.
SilenceEndsCollecting ==
    \A p \in Port :
        <>[](Defined /\ IsEnabled(link[p]) =>
                /\ link[p].rcv = "DEFAULTED"
                /\ link[p].mux # "COLLECTING_DISTRIBUTING")

\* And the selection logic forgets no enabled port, whatever took its
\* aggregator away: the port ends SELECTED or STANDBY.
SelectionReachesEveryPort ==
    \A p \in Port :
        <>[](Defined /\ IsEnabled(link[p]) => link[p].selected # "UNSELECTED")

\* Port p stands by for an aggregator that would take it, in which q is no better.
PassedOver(p, q) ==
    /\ IsEnabled(link[p]) /\ link[p].selected = "STANDBY"
    /\ link[q].agg # NoAgg /\ SearchForAggregator(State, p) = link[q].agg
    /\ ~Outranks(State, q, p)

\* When the events have come to an end, the transmit timer alone settles who
\* aggregates: no enabled port is left in STANDBY for an aggregator that would
\* take it, while a port of lower priority holds one of its slots
\* (lacp_attempt_to_aggregate_link, 43.6.1).
BestPortsChosen == <>[](Defined => \A p, q \in Port : ~PassedOver(p, q))
=============================================================================
