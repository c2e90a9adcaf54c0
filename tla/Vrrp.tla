-------------------------------- MODULE Vrrp --------------------------------
(***************************************************************************)
(* VRRP as nsm/vrrp runs it: the routers of one group on one LAN, each with  *)
(* a session for the virtual address and a timer of one second that serves   *)
(* it.  Advertisements may be lost, interfaces and monitored circuits fail    *)
(* and come back, the operator changes what may be changed.                  *)
(*                                                                           *)
(* A second of the LAN is a round: every router's timer fires once in it, in  *)
(* any order, and what is sent in it arrives in it or is lost.               *)
(***************************************************************************)
EXTENDS Integers, Sequences, FiniteSets

CONSTANTS
    Router,          \* the routers, each the number its primary address is
    Priority,        \* the priorities the operator sets
    Interval,        \* the advertisement intervals the operator sets, in seconds
    PriorityDelta    \* priority_delta of every monitored circuit

ASSUME RouterAssumption == Router \subseteq Nat /\ Router # {}
ASSUME PriorityAssumption == Priority \subseteq 1..254 /\ PriorityDelta \in 1..253
ASSUME IntervalAssumption == Interval \subseteq 1..255

VARIABLES
    sess,            \* the session of each router
    up,              \* its interface is up and running
    circuit,         \* the interface it may monitor is running
    inbox,           \* advertisements on their way to it
    ticked           \* the routers whose timer fired in this second

vars == <<sess, up, circuit, inbox, ticked>>

Unset == -1          \* VRRP_UNSET
OwnerPriority == 255
DefaultPriority == 100
DefaultInterval == 1

Session ==
    [state : {"INIT", "BACKUP", "MASTER"}, admin : BOOLEAN, owner : BOOLEAN,
     preempt : BOOLEAN, prio : 0..255, conf_prio : {Unset} \cup 0..255,
     adv_int : 1..255, skew_time : {0, 1}, master_down_int : 0..766, timer : Int,
     monitor : BOOLEAN, mc_status : BOOLEAN, mc_down_cnt : -1..2]

Advert == [from : Router, prio : 0..255, adv_int : 1..255]

TypeOK ==
    /\ sess \in [Router -> Session]
    /\ up \in [Router -> BOOLEAN] /\ circuit \in [Router -> BOOLEAN]
    /\ inbox \in [Router -> Seq(Advert)]
    /\ ticked \subseteq Router

\* A session as it is created, with its virtual address set for a router that
\* does not own it.
Created ==
    [state |-> "INIT", admin |-> FALSE, owner |-> FALSE, preempt |-> TRUE,
     prio |-> DefaultPriority, conf_prio |-> Unset, adv_int |-> DefaultInterval,
     skew_time |-> 0, master_down_int |-> 0, timer |-> 0,
     monitor |-> FALSE, mc_status |-> FALSE, mc_down_cnt |-> 0]

----------------------------------------------------------------------------
(* What a handler makes of a session: the session after it, and the         *)
(* priorities it advertised.                                                *)

Quiet(s) == [sess |-> s, sent |-> <<>>]

IsShutdown(s) == s.state = "INIT" /\ s.admin

StateToMaster(s, running) ==
    IF ~running THEN Quiet(s)
    ELSE [sess |-> [s EXCEPT !.state = "MASTER", !.timer = s.adv_int], sent |-> <<s.prio>>]

StateToBackup(s) == [s EXCEPT !.state = "BACKUP", !.timer = s.master_down_int]

\* Mutant: the interface is not looked at.
EnableSessBlindly(s, running, mc) ==
    IF ~(IsShutdown(s) /\ (s.monitor => mc)) THEN Quiet(s)
    ELSE IF s.prio = OwnerPriority THEN StateToMaster(s, running)
    ELSE Quiet(StateToBackup(s))

\* vrrp_enable_sess, given whether the interface and the circuit run.
EnableSess(s, running, mc) ==
    IF ~(IsShutdown(s) /\ running /\ (s.monitor => mc)) THEN Quiet(s)
    ELSE IF s.prio = OwnerPriority THEN StateToMaster(s, running)
    ELSE Quiet(StateToBackup(s))

\* The master says goodbye with priority 0, if its interface still runs.
ShutdownSess(s, running) ==
    [sess |-> [s EXCEPT !.state = "INIT"],
     sent |-> IF s.state = "MASTER" /\ running THEN <<0>> ELSE <<>>]

DefaultPrio(s) == IF s.owner THEN OwnerPriority ELSE DefaultPriority
FullPrio(s) == IF s.conf_prio = Unset THEN DefaultPrio(s) ELSE s.conf_prio

\* Mutant: the priority has no floor.
AdjustPriorityBare(s) == FullPrio(s) - PriorityDelta

\* vrrp_adjust_priority for a circuit that is down.
AdjustPriority(s) ==
    IF FullPrio(s) >= PriorityDelta THEN FullPrio(s) - PriorityDelta ELSE 0

\* Mutant: one more look is needed to find the circuit down.
MonitorCircuitPatient(s, mc) ==
    IF ~s.monitor \/ s.mc_status = mc THEN [sess |-> s, news |-> "UNCHG"]
    ELSE IF mc
    THEN [sess |-> [s EXCEPT !.mc_status = TRUE, !.mc_down_cnt = 2, !.prio = FullPrio(s)],
          news |-> "UP"]
    ELSE IF s.mc_down_cnt > 0
    THEN [sess |-> [s EXCEPT !.mc_down_cnt = @ - 1], news |-> "UNCHG"]
    ELSE [sess |-> [s EXCEPT !.mc_status = FALSE, !.prio = AdjustPriority(s)], news |-> "DOWN"]

\* _vrrp_monitor_circuit: a circuit counts as up at once, and as down when it was
\* found down twice since it last came up.
MonitorCircuit(s, mc) ==
    IF ~s.monitor \/ s.mc_status = mc THEN [sess |-> s, news |-> "UNCHG"]
    ELSE IF mc
    THEN [sess |-> [s EXCEPT !.mc_status = TRUE, !.mc_down_cnt = 2, !.prio = FullPrio(s)],
          news |-> "UP"]
    ELSE IF s.mc_down_cnt > 1
    THEN [sess |-> [s EXCEPT !.mc_down_cnt = @ - 1], news |-> "UNCHG"]
    ELSE [sess |-> [s EXCEPT !.mc_down_cnt = @ - 1, !.mc_status = FALSE,
                             !.prio = AdjustPriority(s)],
          news |-> "DOWN"]

\* A second has passed for a session that runs on.
CountDown(s, running) ==
    LET less == [s EXCEPT !.timer = @ - 1] IN
    IF less.timer > 0 THEN Quiet(less)
    ELSE IF s.state = "BACKUP" THEN StateToMaster(less, running)
    ELSE [sess |-> [s EXCEPT !.timer = s.adv_int], sent |-> <<s.prio>>]

\* _sess_timer_handler.
SessTimer(s, running, mc) ==
    LET seen == MonitorCircuit(s, mc) IN
    CASE s.state = "INIT" /\ seen.news = "UP" -> EnableSess(seen.sess, running, mc)
      [] s.state = "INIT" /\ seen.news # "UP" -> Quiet(seen.sess)
      [] s.state # "INIT" /\ seen.news = "DOWN" -> ShutdownSess(seen.sess, running)
      [] s.state # "INIT" /\ seen.news # "DOWN" -> CountDown(seen.sess, running)

\* Mutant: an equal master is no reason to give up.
YieldsProudly(r, s, m) == ~s.owner /\ ((m.prio > s.prio /\ s.preempt) \/ m.prio = OwnerPriority)

\* A master gives up for m.
Yields(r, s, m) ==
    \/ ~s.owner /\ ((m.prio > s.prio /\ s.preempt) \/ m.prio = OwnerPriority)
    \/ m.prio = s.prio /\ m.prio # OwnerPriority /\ m.from > r

\* Mutant: an equal master does not hold a backup back.
WaitsStrict(s, m) ==
    IF m.prio = 0 THEN [s EXCEPT !.timer = s.skew_time]
    ELSE IF ~s.preempt \/ m.prio > s.prio THEN [s EXCEPT !.timer = s.master_down_int]
    ELSE s

\* A backup waits anew, for as long as a goodbye or a good master is worth.
Waits(s, m) ==
    IF m.prio = 0 THEN [s EXCEPT !.timer = s.skew_time]
    ELSE IF ~s.preempt \/ m.prio >= s.prio THEN [s EXCEPT !.timer = s.master_down_int]
    ELSE s

\* vrrp_handle_advert, after the checks of _validate_advert that a router of the
\* group can fail.
HandleAdvert(r, s, m) ==
    IF s.state = "INIT" \/ m.adv_int # s.adv_int THEN s
    ELSE IF s.state = "BACKUP" THEN Waits(s, m)
    ELSE IF m.prio # 0 /\ Yields(r, s, m) THEN StateToBackup(s) ELSE s

----------------------------------------------------------------------------

Init ==
    /\ sess = [r \in Router |-> Created]
    /\ up = [r \in Router |-> TRUE] /\ circuit = [r \in Router |-> TRUE]
    /\ inbox = [r \in Router |-> <<>>] /\ ticked = {}

\* Everyone else on the LAN gets the advertisements of r, in order.
Multicast(r, h) ==
    [q \in Router |->
        IF q = r \/ ~up[q] THEN inbox[q]
        ELSE inbox[q] \o [i \in DOMAIN h.sent |->
                            [from |-> r, prio |-> h.sent[i], adv_int |-> h.sess.adv_int]]]

\* Router r makes of its session what handler h does.
Does(r, h) == sess' = [sess EXCEPT ![r] = h.sess] /\ inbox' = Multicast(r, h)

Tick(r) ==
    /\ r \notin ticked /\ ticked' = ticked \cup {r}
    /\ Does(r, SessTimer(sess[r], up[r], circuit[r]))
    /\ UNCHANGED <<up, circuit>>

NextSecond ==
    /\ ticked = Router /\ \A r \in Router : inbox[r] = <<>>
    /\ ticked' = {} /\ UNCHANGED <<sess, up, circuit, inbox>>

Receive(r) ==
    /\ inbox[r] # <<>>
    /\ sess' = [sess EXCEPT ![r] = HandleAdvert(r, @, Head(inbox[r]))]
    /\ inbox' = [inbox EXCEPT ![r] = Tail(@)]
    /\ UNCHANGED <<up, circuit, ticked>>

Lose(r) ==
    /\ inbox[r] # <<>>
    /\ inbox' = [inbox EXCEPT ![r] = Tail(@)]
    /\ UNCHANGED <<sess, up, circuit, ticked>>

\* vrrp_if_down: what was on its way to the interface is gone.
IfDown(r) ==
    /\ up[r] /\ up' = [up EXCEPT ![r] = FALSE]
    /\ sess' = [sess EXCEPT ![r] = ShutdownSess(@, FALSE).sess]
    /\ inbox' = [inbox EXCEPT ![r] = <<>>]
    /\ UNCHANGED <<circuit, ticked>>

\* vrrp_if_up: the sessions of the interface are enabled.
IfUp(r) ==
    /\ ~up[r] /\ up' = [up EXCEPT ![r] = TRUE]
    /\ Does(r, EnableSess(sess[r], TRUE, circuit[r]))
    /\ UNCHANGED <<circuit, ticked>>

\* The monitored interface changes; the timer will notice.
CircuitChange(r) ==
    /\ sess[r].monitor /\ circuit' = [circuit EXCEPT ![r] = ~@]
    /\ UNCHANGED <<sess, up, inbox, ticked>>

----------------------------------------------------------------------------
(* Commands.  Most are refused while the session runs.                      *)

Configures(r, s) ==
    /\ sess[r].state = "INIT" /\ sess' = [sess EXCEPT ![r] = s]
    /\ UNCHANGED <<up, circuit, inbox, ticked>>

SetPriority(r, p) ==
    /\ p = OwnerPriority <=> sess[r].owner
    /\ Configures(r, [sess[r] EXCEPT !.prio = p, !.conf_prio = p])

UnsetPriority(r) == Configures(r, [sess[r] EXCEPT !.prio = DefaultPrio(sess[r])])

AdvtInterval(r, i) == Configures(r, [sess[r] EXCEPT !.adv_int = i])

PreemptMode(r, mode) == Configures(r, [sess[r] EXCEPT !.preempt = mode])

VirtualIp(r, is_owner) ==
    LET s == [sess[r] EXCEPT !.owner = is_owner] IN
    Configures(r, IF is_owner THEN [s EXCEPT !.prio = OwnerPriority]
                  ELSE IF s.prio = OwnerPriority
                  THEN [s EXCEPT !.prio = DefaultPriority, !.conf_prio = DefaultPriority]
                  ELSE s)

MonitoredCircuit(r) == Configures(r, [sess[r] EXCEPT !.monitor = TRUE, !.mc_status = FALSE])

UnsetMonitoredCircuit(r) ==
    Configures(r, [sess[r] EXCEPT !.monitor = FALSE, !.mc_status = FALSE, !.mc_down_cnt = 2])

\* vrrp_api_enable_session: the intervals are worked out here and nowhere else.
EnableSession(r) ==
    LET s == sess[r]
        skew == IF s.prio > 128 THEN 0 ELSE 1
    IN  /\ ~s.admin /\ (s.owner <=> s.prio = OwnerPriority)
        /\ Does(r, EnableSess([s EXCEPT !.admin = TRUE, !.skew_time = skew,
                                       !.master_down_int = 3 * s.adv_int + skew],
                              up[r], circuit[r]))
        /\ UNCHANGED <<up, circuit, ticked>>

DisableSession(r) ==
    LET h == ShutdownSess(sess[r], up[r]) IN
    /\ sess[r].admin
    /\ Does(r, [h EXCEPT !.sess.admin = FALSE])
    /\ UNCHANGED <<up, circuit, ticked>>

----------------------------------------------------------------------------

ClockStep == NextSecond \/ \E r \in Router : Tick(r) \/ Receive(r)

FaultStep == \E r \in Router : Lose(r) \/ IfDown(r) \/ IfUp(r) \/ CircuitChange(r)

CommandStep == \E r \in Router :
    \/ \E p \in Priority \cup {OwnerPriority} : SetPriority(r, p)
    \/ \E i \in Interval : AdvtInterval(r, i)
    \/ \E b \in BOOLEAN : PreemptMode(r, b) \/ VirtualIp(r, b)
    \/ UnsetPriority(r) \/ MonitoredCircuit(r) \/ UnsetMonitoredCircuit(r)
    \/ EnableSession(r) \/ DisableSession(r)

Next == ClockStep \/ FaultStep \/ CommandStep

Spec == Init /\ [][Next]_vars

----------------------------------------------------------------------------
(* Properties.                                                              *)

Running(r) == sess[r].state # "INIT"
Master(r) == sess[r].state = "MASTER"

\* A session that runs is enabled, its interface is up, and its timer goes off within
\* the interval of its state: no sequence of commands, failures and goodbyes leaves a
\* session running that has nothing to wait for or waits for longer than it was set
\* to (vrrp_enable_sess, vrrp_if_down, vrrp_handle_advert).
Ticking ==
    \A r \in Router : Running(r) =>
        /\ up[r] /\ sess[r].admin
        /\ sess[r].timer \in 0..(IF Master(r) THEN sess[r].adv_int ELSE sess[r].master_down_int)

\* Router r runs with the intervals its advertisements go by: they are worked out
\* when the session is enabled, and the operator may have changed adv_int since.
Fresh(r) == sess[r].master_down_int >= 3 * sess[r].adv_int

\* The sessions that run may be expected to agree: all preempt, all have the same
\* interval, and priority 255 is the owner's, of whom there is one at most.
Compatible ==
    \A q, r \in Router : Running(q) /\ Running(r) =>
        /\ sess[r].preempt /\ Fresh(r)
        /\ sess[r].owner <=> sess[r].prio = OwnerPriority
        /\ sess[q].adv_int = sess[r].adv_int
        /\ sess[q].owner /\ sess[r].owner => q = r

\* One of the running sessions is master, and none runs with a higher priority.
Elected ==
    \E r \in Router :
        /\ Master(r)
        /\ \A q \in Router \ {r} : ~Master(q) /\ (Running(q) => sess[q].prio <= sess[r].prio)

\* Whatever happened, once nothing more does, sessions that may be expected to
\* agree do: two masters do not stay, nor none, nor one of lower priority
\* (vrrp_handle_advert, _sess_timer_handler).
Converges == <>[](Compatible /\ (\E r \in Router : Running(r)) => Elected)

\* vrrp.c:321: "Circuit is broken bring the session down to avoid traffic loss."  A
\* session whose circuit stays down ends up not running.
StopsWithCircuit ==
    \A r \in Router : <>[](sess[r].monitor /\ ~circuit[r] => ~Running(r))
=============================================================================
