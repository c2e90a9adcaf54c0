-------------------------------- MODULE Garp --------------------------------
(***************************************************************************)
(* GVRP on one bridge, as nsm/L2/garp and nsm/L2/gvrp run it for one VLAN:   *)
(* each forwarding port has a GID with an applicant, which declares the VLAN  *)
(* on the port's LAN, a registrar, which notes that the LAN declares it, and   *)
(* a LeaveAll countdown.  The bridge counts the ports that register the VLAN  *)
(* and makes the other ports declare it (GIP).                               *)
(*                                                                           *)
(* The stations of a LAN may send any GARP message at any time, and a message *)
(* may be lost: it then changes nothing.                                     *)
(***************************************************************************)
EXTENDS Integers, FiniteSets

CONSTANTS
    Port,                  \* the ports of the bridge
    GID_LEAVE_ALL_COUNT    \* expiries of the LeaveAll timer before it acts

ASSUME PortAssumption == IsFiniteSet(Port) /\ Port # {}
ASSUME CountAssumption == GID_LEAVE_ALL_COUNT \in Nat \ {0}

VARIABLES
    gid,        \* the GID of each port; NoGid before it forwards and after it was stopped
    members     \* the GIP count of the VLAN

vars == <<gid, members>>

Member == {"VA", "AA", "QA", "VP", "AP", "QP"}
Applicant == Member \cup {"LA", "VO", "AO", "QO", "LO"}
Leaving == {"LV", "L3", "L2", "L1"}
Registrar == {"INN", "MT"} \cup Leaving
RcvEvent == {"RCV_LEAVE_EMPTY", "RCV_LEAVE_IN", "RCV_EMPTY", "RCV_JOIN_EMPTY", "RCV_JOIN_IN"}

NoGid == [on |-> FALSE]
Gid == [on : {TRUE}, applicant : Applicant, registrar : Registrar, known : BOOLEAN,
        cstart_join : BOOLEAN, cstart_leave : BOOLEAN, tx_pending : BOOLEAN,
        join_running : BOOLEAN, leave_running : BOOLEAN, leave_all_running : BOOLEAN,
        countdown : 0..GID_LEAVE_ALL_COUNT]

On(p) == gid[p].on
Registered(p) == On(p) /\ gid[p].registrar # "MT"
Declares(p) == On(p) /\ gid[p].applicant \in Member

TypeOK ==
    /\ gid \in [Port -> Gid \cup {NoGid}]
    /\ members \in 0..Cardinality(Port)

----------------------------------------------------------------------------
(* The state machines of garp_gid_fsm.c.                                    *)

\* Where each event takes the applicant.
applicant_garp_tt ==
    [RCV_LEAVE_EMPTY |->
        [VA |-> "VP", AA |-> "VP", QA |-> "VP", LA |-> "VO", VP |-> "VP", AP |-> "VP",
         QP |-> "VP", VO |-> "LO", AO |-> "LO", QO |-> "LO", LO |-> "VO"],
     RCV_LEAVE_IN |->
        [VA |-> "VA", AA |-> "VA", QA |-> "VP", LA |-> "LA", VP |-> "VP", AP |-> "VP",
         QP |-> "VP", VO |-> "LO", AO |-> "LO", QO |-> "LO", LO |-> "VO"],
     RCV_EMPTY |->
        [VA |-> "VA", AA |-> "VA", QA |-> "VA", LA |-> "LA", VP |-> "VP", AP |-> "VP",
         QP |-> "VP", VO |-> "VO", AO |-> "VO", QO |-> "VO", LO |-> "VO"],
     RCV_JOIN_EMPTY |->
        [VA |-> "VA", AA |-> "VA", QA |-> "VA", LA |-> "VO", VP |-> "VP", AP |-> "VP",
         QP |-> "VP", VO |-> "VO", AO |-> "VO", QO |-> "VO", LO |-> "VO"],
     RCV_JOIN_IN |->
        [VA |-> "AA", AA |-> "QA", QA |-> "QA", LA |-> "LA", VP |-> "AP", AP |-> "QP",
         QP |-> "QP", VO |-> "AO", AO |-> "QO", QO |-> "QO", LO |-> "AO"],
     JOIN |->
        [VA |-> "VA", AA |-> "AA", QA |-> "QA", LA |-> "VA", VP |-> "VP", AP |-> "AP",
         QP |-> "QP", VO |-> "VP", AO |-> "AP", QO |-> "QP", LO |-> "VP"],
     LEAVE |->
        [VA |-> "LA", AA |-> "LA", QA |-> "LA", LA |-> "LA", VP |-> "VO", AP |-> "AO",
         QP |-> "QO", VO |-> "VO", AO |-> "AO", QO |-> "QO", LO |-> "LO"]]

\* Faulty: the applicant that is quiet and anxious forgets the join timer.
StartsJoinSlack(e, a) ==
    CASE e \in {"RCV_LEAVE_EMPTY", "RCV_LEAVE_IN"} -> a \in {"QA", "QP", "VO", "AO", "QO"}
      [] e \in {"RCV_EMPTY", "RCV_JOIN_EMPTY"} -> a \in {"QA", "QP"}
      [] e = "JOIN" -> a = "VO"
      [] e = "LEAVE" -> a = "QA"
      [] OTHER -> FALSE

\* Where the applicant asks for the join timer as well.
StartsJoin(e, a) ==
    CASE e \in {"RCV_LEAVE_EMPTY", "RCV_LEAVE_IN"} -> a \in {"QA", "QP", "VO", "AO", "QO"}
      [] e \in {"RCV_EMPTY", "RCV_JOIN_EMPTY"} -> a \in {"QA", "QP"}
      [] e = "JOIN" -> a \in {"VO", "AO"}
      [] e = "LEAVE" -> a = "QA"
      [] OTHER -> FALSE

\* The registrar of a port in normal registration.
RegistrarNext(e, r) ==
    CASE e \in {"RCV_JOIN_EMPTY", "RCV_JOIN_IN"} -> "INN"
      [] e \in {"RCV_LEAVE_EMPTY", "RCV_LEAVE_IN"} /\ r = "INN" -> "LV"
      [] OTHER -> r

\* The port's machines and timers after an event for the VLAN; its machine is made by
\* the first.
ChangeStates(g, e) ==
    LET starts == StartsJoin(e, g.applicant) IN
    [g EXCEPT !.known = TRUE,
              !.applicant = applicant_garp_tt[e][g.applicant],
              !.registrar = RegistrarNext(e, g.registrar),
              !.join_running = @ \/ (e = "JOIN" /\ starts),
              !.cstart_join = @ \/ starts,
              !.cstart_leave = @ \/ (g.registrar = "INN" /\ RegistrarNext(e, "INN") = "LV")]

\* gid_do_actions: start the timers the machines asked for.
DoActions(g) ==
    LET pending == g.tx_pending \/ g.cstart_join IN
    [g EXCEPT !.tx_pending = pending,
              !.join_running = @ \/ pending \/ g.countdown = 0,
              !.leave_running = @ \/ g.cstart_leave,
              !.cstart_join = FALSE, !.cstart_leave = FALSE]

\* gid_leave_all: a LeaveAll, ours or a station's, is a LeaveEmpty for the machine there is.
LeaveAll(g) ==
    DoActions([(IF g.known THEN ChangeStates(g, "RCV_LEAVE_EMPTY") ELSE g)
               EXCEPT !.tx_pending = TRUE])

----------------------------------------------------------------------------
(* GIP: what registration on one port makes of the others.                  *)

\* gid_registrar_empty_here: a port without a machine does not count as empty.
RegistrarEmpty(q) == gid[q].known /\ gid[q].registrar = "MT"

\* The ports a change on p reaches when n of the ports are then registered, but for
\* p those that register it.
Reaches(p, q, n, all) == q # p /\ On(q) /\ n <= all + 1 /\ (n = all \/ ~RegistrarEmpty(q))

\* gip_propagate_join_event, gip_do_actions
PropagateJoin(p, g) ==
    /\ members' = members + 1
    /\ gid' = [q \in Port |->
                 CASE q = p -> g
                   [] q # p /\ On(q) ->
                        DoActions(IF Reaches(p, q, members', 1)
                                  THEN ChangeStates(gid[q], "JOIN") ELSE gid[q])
                   [] OTHER -> NoGid]

\* A leave takes one port out of the count, which never falls below zero.
Less(n) == IF n > 0 THEN n - 1 ELSE 0

\* The machine g of another port q once p has left and n ports are counted: only
\* machines that exist can leave.
LeaveTold(p, q, g, n) ==
    DoActions(IF g.known /\ Reaches(p, q, n, 0) THEN ChangeStates(g, "LEAVE") ELSE g)

\* gip_propagate_leave, gip_do_actions
PropagateLeave(p, g) ==
    /\ members' = Less(members)
    /\ gid' = [q \in Port |->
                 CASE q = p -> g
                   [] q # p /\ On(q) -> LeaveTold(p, q, gid[q], members')
                   [] OTHER -> NoGid]

\* gvrp_do_actions after a message that leaves the count alone.
Others(p, g) ==
    /\ gid' = [q \in Port |-> CASE q = p -> g [] q # p /\ On(q) -> DoActions(gid[q])
                                [] OTHER -> NoGid]
    /\ UNCHANGED members

----------------------------------------------------------------------------
(* The handlers.                                                            *)

\* Faulty: a Join that takes back a Leave counts the port once more.
ReceiveRecounted(p, e) ==
    LET g == ChangeStates(gid[p], e)
        told == IF e \in {"RCV_LEAVE_EMPTY", "RCV_LEAVE_IN"} \/ g.cstart_join
                THEN DoActions([g EXCEPT !.tx_pending = TRUE]) ELSE g
    IN  /\ On(p)
        /\ IF gid[p].registrar # "INN" /\ g.registrar = "INN"
           THEN PropagateJoin(p, told) ELSE Others(p, told)

\* gid_rcv_attribute: a message for the VLAN arrives at p.
Receive(p, e) ==
    LET g == ChangeStates(gid[p], e)
        told == IF e \in {"RCV_LEAVE_EMPTY", "RCV_LEAVE_IN"} \/ g.cstart_join
                THEN DoActions([g EXCEPT !.tx_pending = TRUE]) ELSE g
    IN  /\ On(p)
        /\ IF gid[p].registrar = "MT" /\ g.registrar = "INN"
           THEN PropagateJoin(p, told) ELSE Others(p, told)

\* gid_rcv_leave_all
ReceiveLeaveAll(p) ==
    /\ On(p)
    /\ Others(p, LeaveAll([gid[p] EXCEPT !.countdown = GID_LEAVE_ALL_COUNT]))

\* What the applicant says when it may, and what becomes of it.
applicant_garp_txtt ==
    [VA |-> "AA", AA |-> "QA", LA |-> "VO", VP |-> "AA", AP |-> "QA", LO |-> "VO"]
Speaks(a) == a \in DOMAIN applicant_garp_txtt

\* gid_tx_attribute until nothing is pending: first the LeaveAll that is due, then the
\* VLAN.  When the VLAN has nothing to say tx_pending stays set.
Transmit(g) ==
    LET due == g.countdown = 0
        rest == IF due THEN [g EXCEPT !.countdown = GID_LEAVE_ALL_COUNT,
                                      !.leave_all_running = TRUE] ELSE g
    IN  IF g.known /\ Speaks(g.applicant)
        THEN [rest EXCEPT !.applicant = applicant_garp_txtt[g.applicant],
                          !.cstart_join = @ \/ g.applicant \in {"VA", "VP"},
                          !.tx_pending = FALSE]
        ELSE [rest EXCEPT !.tx_pending = TRUE]

\* gid_join_timer_handler
JoinTimer(p) ==
    /\ On(p) /\ gid[p].join_running
    /\ gid' = [gid EXCEPT ![p] = DoActions(Transmit([@ EXCEPT !.join_running = FALSE]))]
    /\ UNCHANGED members

registrar_leave_timer_table == [LV |-> "L3", L3 |-> "L2", L2 |-> "L1", L1 |-> "MT"]

\* gid_leave_timer_handler: a quarter of the leave time has passed.
LeaveTimer(p) ==
    LET leaves == gid[p].registrar \in Leaving
        next == IF leaves THEN registrar_leave_timer_table[gid[p].registrar]
                ELSE gid[p].registrar
        g == DoActions([gid[p] EXCEPT !.leave_running = FALSE, !.registrar = next,
                                      !.cstart_leave = next \in Leaving])
    IN  /\ On(p) /\ gid[p].leave_running
        /\ IF leaves /\ next = "MT" THEN PropagateLeave(p, g)
           ELSE gid' = [gid EXCEPT ![p] = g] /\ UNCHANGED members

\* Faulty: the LeaveAll is only sent, the port's own machine does not see it.
LeaveAllTimerSent(p) ==
    /\ On(p) /\ gid[p].leave_all_running
    /\ gid' = [gid EXCEPT ![p] =
                IF @.countdown > 1
                THEN [@ EXCEPT !.countdown = @ - 1]
                ELSE [@ EXCEPT !.leave_all_running = FALSE, !.tx_pending = TRUE,
                               !.countdown = 0, !.join_running = TRUE]]
    /\ UNCHANGED members

\* gid_leave_all_timer_handler
LeaveAllTimer(p) ==
    LET g == gid[p]
        acts == LeaveAll([g EXCEPT !.leave_all_running = FALSE])
    IN  /\ On(p) /\ g.leave_all_running
        /\ gid' = [gid EXCEPT ![p] =
                    IF g.countdown > 1 THEN [g EXCEPT !.countdown = g.countdown - 1]
                    ELSE [acts EXCEPT !.countdown = 0, !.join_running = TRUE]]
        /\ UNCHANGED members

\* gid_new_gid
NewGid ==
    [on |-> TRUE, applicant |-> "VO", registrar |-> "MT", known |-> FALSE,
     cstart_join |-> FALSE, cstart_leave |-> FALSE, tx_pending |-> FALSE,
     join_running |-> FALSE, leave_running |-> FALSE, leave_all_running |-> TRUE,
     countdown |-> GID_LEAVE_ALL_COUNT]

\* nsm_bridge_set_port_state, forwarding: gvrp_enable_port_cb makes the GID, and
\* gid_propagate_join_leave_event has it declare what other ports register.
Forward(p) ==
    /\ ~On(p)
    /\ gid' = [gid EXCEPT ![p] = IF members >= 1 THEN DoActions(ChangeStates(NewGid, "JOIN"))
                                 ELSE NewGid]
    /\ UNCHANGED members

\* Faulty: the GID is freed and nobody is told.
DestroySilent(p) ==
    /\ gid' = [gid EXCEPT ![p] = NoGid]
    /\ UNCHANGED members

\* gid_destroy_gid: what the port registers, or was about to deregister, leaves before
\* the GID is freed.  What becomes of its own machine on the way goes with it.
Destroy(p) ==
    \/ Registered(p) /\ PropagateLeave(p, NoGid)
    \/ /\ ~Registered(p)
       /\ gid' = [gid EXCEPT ![p] = NoGid]
       /\ UNCHANGED members

\* nsm_bridge_set_port_state, discarding, blocking or disabled: gvrp_disable_port_cb.  The
\* state is stored first, so that gid_free_gid does not propagate the leave again.
Discard(p) == On(p) /\ Destroy(p)

----------------------------------------------------------------------------
(* The stations of a LAN send what they like; what is lost on the way changes nothing.      *)

\* A station declares the VLAN.
StationJoins(p) == \E e \in {"RCV_JOIN_EMPTY", "RCV_JOIN_IN"} : Receive(p, e)

\* A station sends anything else: a Leave, an Empty or a LeaveAll.
StationTells(p) ==
    \/ \E e \in RcvEvent \ {"RCV_JOIN_EMPTY", "RCV_JOIN_IN"} : Receive(p, e)
    \/ ReceiveLeaveAll(p)

Init == gid = [p \in Port |-> NoGid] /\ members = 0

Timers(p) == JoinTimer(p) \/ LeaveTimer(p) \/ LeaveAllTimer(p)
Next ==
    \E p \in Port :
        \/ Timers(p) \/ Forward(p) \/ Discard(p)
        \/ StationJoins(p) \/ StationTells(p)

Spec == Init /\ [][Next]_vars
FairSpec ==
    Spec /\ \A p \in Port :
        WF_vars(JoinTimer(p)) /\ WF_vars(LeaveTimer(p)) /\ WF_vars(LeaveAllTimer(p))

\* An applicant with something to say has the join timer running and a registrar that
\* counts down has the leave timer running; no request for a timer outlives the handler
\* that made it (gid_do_actions, gip_do_actions).
NothingStalls ==
    \A p \in Port : On(p) =>
        /\ Speaks(gid[p].applicant) => gid[p].join_running
        /\ gid[p].registrar \in Leaving => gid[p].leave_running
        /\ ~gid[p].cstart_join /\ ~gid[p].cstart_leave

Registering == {p \in Port : Registered(p)}

\* Whatever ports come, register, deregister and stop, the count is the number of ports
\* that register the VLAN, and a port declares it exactly if another registers it
\* (gip_propagate_join_event, gip_propagate_leave, gid_destroy_gid).
DeclaresForOthers ==
    /\ members = Cardinality(Registering)
    /\ \A q \in Port : On(q) => (Declares(q) <=> Registering \ {q} # {})

\* The LeaveAll machine of p goes round: its timer runs or its LeaveAll waits for the join
\* timer.
LeaveAllAlive(p) == gid[p].leave_all_running \/ gid[p].countdown = 0

\* When no station of the LAN declares the VLAN any more it is deregistered in the end,
\* though the Leave was lost, as long as the port's LeaveAll machine goes round
\* (gid_leave_all_timer_handler, gid_leave_timer_handler).
StaleAgesOut ==
    \A p \in Port :
        <>[][~StationJoins(p)]_vars /\ <>[](On(p) /\ LeaveAllAlive(p)) => <>[](~Registered(p))
=============================================================================
