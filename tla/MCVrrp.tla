------------------------------- MODULE MCVrrp -------------------------------
(***************************************************************************)
(* Instances of Vrrp for TLC: the sessions a run begins with, how many      *)
(* faults and commands it counts, and observers of what the routers missed.  *)
(***************************************************************************)
EXTENDS Vrrp

CONSTANTS Budget,        \* bound: the faults and commands a run counts
          Owners,        \* who may own the address: routers, or Nobody
          Nobody         \* not a router

VARIABLES
    budget,              \* the faults and commands still to come
    blind,               \* how often in a row a router found its circuit down: 0, 1, 2 or
                         \* more; Unseen until it finds it up
    heard,               \* the master a backup heard last, as long as both go on
    lost                 \* how many of its advertisements were lost since: 0, 1, 2 or more

Unseen == -1
all == <<vars, budget, blind, heard, lost>>

\* Sessions as the operator leaves them, enabled while the interface is down.
Enabled(p, monitored, owner) ==
    LET prio == IF owner THEN OwnerPriority ELSE p
        skew == IF prio > 128 THEN 0 ELSE 1
    IN  [Created EXCEPT !.admin = TRUE, !.owner = owner, !.prio = prio,
                        !.conf_prio = prio, !.monitor = monitored,
                        !.skew_time = skew, !.master_down_int = 3 + skew]

WarmInit ==
    /\ \E monitored \in BOOLEAN, owner \in Owners, p \in [Router -> Priority] :
        sess = [r \in Router |-> Enabled(p[r], monitored, r = owner)]
    /\ up = [r \in Router |-> FALSE] /\ circuit = [r \in Router |-> TRUE]
    /\ inbox = [r \in Router |-> <<>>] /\ ticked = {}
    /\ budget = Budget
    /\ blind = [r \in Router |-> Unseen] /\ lost = [r \in Router |-> 0]
    /\ heard = [r \in Router |-> Nobody]

AtMost2(n) == IF n > 2 THEN 2 ELSE n

\* The advertisement that comes next for backup r holds it back, and its master is
\* one still.
HoldsBack(r) ==
    LET m == Head(inbox[r]) IN
    /\ sess[r].state = "BACKUP" /\ m.prio # 0 /\ m.adv_int = sess[r].adv_int
    /\ m.prio >= sess[r].prio /\ Master(m.from)

\* A goodbye, whoever says it, makes r forget its master.
Hears(r) ==
    IF HoldsBack(r) THEN Head(inbox[r]).from
    ELSE IF Head(inbox[r]).prio = 0 THEN Nobody ELSE heard[r]

\* What the observers see, given whom the backups heard and what was lost.
Observe(h, l) ==
    /\ blind' = [r \in Router |->
                    LET looks == r \in ticked' \ ticked IN
                    CASE looks /\ sess'[r].monitor /\ circuit[r] -> 0
                      [] looks /\ ~circuit[r] /\ blind[r] # Unseen -> AtMost2(blind[r] + 1)
                      [] ~looks /\ ~sess'[r].mc_status -> Unseen
                      [] OTHER -> blind[r]]
    /\ heard' = [r \in Router |->
                    IF h[r] # Nobody /\ sess'[r].state = "BACKUP" /\ sess'[h[r]].state = "MASTER"
                    THEN h[r] ELSE Nobody]
    /\ lost' = [r \in Router |-> IF heard'[r] = Nobody THEN 0 ELSE l[r]]

Clock ==
    /\ UNCHANGED budget
    /\ \/ NextSecond /\ Observe(heard, lost)
       \/ \E r \in Router :
            \/ Tick(r) /\ Observe(heard, lost)
            \/ Receive(r) /\ Observe([heard EXCEPT ![r] = Hears(r)],
                                     [lost EXCEPT ![r] = IF HoldsBack(r) THEN 0 ELSE @])

Fault ==
    /\ budget > 0 /\ budget' = budget - 1
    /\ \/ \E r \in Router :
            \/ Lose(r) /\ Observe(heard, [lost EXCEPT ![r] = AtMost2(@ + 1)])
            \/ (IfDown(r) \/ CircuitChange(r)) /\ Observe(heard, lost)
       \/ CommandStep /\ Observe(heard, lost)

\* An interface that is down comes up in the end: this is not counted.
Repair == UNCHANGED budget /\ (\E r \in Router : IfUp(r)) /\ Observe(heard, lost)

MCSpec ==
    /\ WarmInit /\ [][Clock \/ Fault \/ Repair]_all
    /\ WF_all(Clock) /\ \A r \in Router : WF_all(UNCHANGED budget /\ IfUp(r) /\ Observe(heard, lost))

----------------------------------------------------------------------------

\* A session that found its circuit up does not run on when it finds it down twice in
\* a row (_vrrp_monitor_circuit).
CircuitHonoured == \A r \in Router : blind[r] >= 2 => ~Running(r)

\* A backup does not take over from a master it heard, and that is as good, at the
\* same interval and still there, unless advertisements were lost: more than one where its
\* skew_time is 1 (vrrp_api_enable_session, vrrp_handle_advert,
\* _sess_timer_handler).
RidesOutLoss ==
    [][\A r \in Router :
        /\ sess[r].state = "BACKUP" /\ sess'[r].state = "MASTER" /\ heard[r] # Nobody
        /\ Fresh(r) /\ sess[heard[r]].prio >= sess'[r].prio
        /\ sess[heard[r]].adv_int = sess[r].adv_int
        => lost[r] > sess[r].skew_time]_all
=============================================================================
