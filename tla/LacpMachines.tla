---------------------------- MODULE LacpMachines ----------------------------
(***************************************************************************)
(* The state machines of one link: receive (lacp_rcv.c), periodic          *)
(* transmission (lacp_periodic_tx.c), mux (lacp_mux.c), churn detection     *)
(* (lacp_churn.c) and transmit (lacp_tx.c), and lacp_run_sm, which runs     *)
(* each of them one step.                                                  *)
(*                                                                         *)
(* What a handler sets before lacp_run_sm and clears after it - lacp_begin, *)
(* link->pdu, the timer-expired flags - is the event ev the step runs with. *)
(* The collecting and distributing bits follow the mux state, so they are  *)
(* not in the link's record.                                               *)
(***************************************************************************)
EXTENDS LacpSelection

NoPdu == [actor |-> DefaultPartner, partner |-> DefaultPartner]

NoEvent       == [type |-> "none", pdu |-> NoPdu]
Begin         == [type |-> "begin", pdu |-> NoPdu]
Received(m)   == [type |-> "pdu", pdu |-> m]
CurrentWhileExpired == [type |-> "current_while", pdu |-> NoPdu]
PeriodicExpired     == [type |-> "periodic", pdu |-> NoPdu]
ActorChurnExpired   == [type |-> "actor_churn", pdu |-> NoPdu]
PartnerChurnExpired == [type |-> "partner_churn", pdu |-> NoPdu]

Pdu == [actor: Info, partner: Info]

\* What this system says of itself on port p; the actor of a transmitted PDU.
OwnInfo(s, p) ==
    LET l == s.link[p] IN
    [sys |-> MySystem, sprio |-> s.system_priority, key |-> l.key, port |-> p,
     prio |-> l.prio, act |-> l.act, short |-> l.short, aggr |-> TRUE,
     sync |-> l.sync, dflt |-> l.dflt]

FormatLacpdu(s, p) == [actor |-> OwnInfo(s, p), partner |-> s.link[p].partner]

\* The fields by which update_Selected, update_NTT and recordPDU tell ends of
\* links apart.
Identity(i) == <<i.port, i.prio, i.sys, i.sprio, i.key, i.aggr>>

BothPassive(l) == ~l.act /\ ~l.partner.act

----------------------------------------------------------------------------
(* Receive machine.                                                        *)

RecordPdu(s, p, m) ==
    LET l == s.link[p]
        maintaining == m.actor.act \/ (l.act /\ m.partner.act)
        knowsMe == Identity(m.partner) = Identity(OwnInfo(s, p))
        inSync == m.actor.sync /\ maintaining /\ (knowsMe \/ ~m.actor.aggr)
    IN  SetLink(s, p, [l EXCEPT !.partner = [m.actor EXCEPT !.sync = inSync], !.dflt = FALSE])

RecordDefault(l) == [l EXCEPT !.partner = DefaultPartner, !.dflt = TRUE]

\* Faulty: only the partner's port is compared.
UpdateSelectedByPort(s, p, m) ==
    IF s.link[p].partner.port # m.actor.port THEN Disaggregate(s, p, FALSE) ELSE s

\* Both drop the aggregation when the partner is another one; only the second
\* tells NSM.
UpdateSelected(s, p, m) ==
    IF Identity(s.link[p].partner) # Identity(m.actor) THEN Disaggregate(s, p, FALSE) ELSE s

UpdateDefaultSelected(s, p) ==
    IF Identity(s.link[p].partner) # Identity(DefaultPartner) THEN Disaggregate(s, p, TRUE) ELSE s

UpdateNtt(s, p, m) ==
    LET me == OwnInfo(s, p)
        it == m.partner
    IN  IF \/ Identity(it) # Identity(me)
           \/ <<it.act, it.short, it.sync>> # <<me.act, me.short, me.sync>>
        THEN SetLink(s, p, Ntt(s.link[p]))
        ELSE s

OutOfSync(i) == [i EXCEPT !.sync = FALSE]

PortDisabled(l) == [l EXCEPT !.rcv = "PORT_DISABLED", !.partner = OutOfSync(l.partner)]

RcvInitialize(s, p) ==
    LET t == IF s.link[p].agg # NoAgg THEN Disaggregate(s, p, TRUE)
             ELSE SetLink(s, p, [s.link[p] EXCEPT !.selected = "UNSELECTED"])
    IN  SetLink(t, p, PortDisabled(RecordDefault(t.link[p])))

\* Faulty: current_while_timer is not started.
ExpiredUntimed(l) ==
    [l EXCEPT !.rcv = "EXPIRED", !.partner = [OutOfSync(l.partner) EXCEPT !.short = TRUE]]

Expired(l) ==
    [l EXCEPT !.rcv = "EXPIRED", !.partner = [OutOfSync(l.partner) EXCEPT !.short = TRUE],
              !.current_while = TRUE]

Defaulted(l) == [RecordDefault(l) EXCEPT !.rcv = "DEFAULTED"]
RcvDefaulted(s, p) ==
    LET t == UpdateDefaultSelected(s, p) IN SetLink(t, p, Defaulted(t.link[p]))

Current(l) == [l EXCEPT !.rcv = "CURRENT", !.current_while = TRUE]
RcvCurrent(s, p, m) ==
    LET t == RecordPdu(UpdateNtt(UpdateSelected(s, p, m), p, m), p, m) IN
    SetLink(t, p, Current(t.link[p]))

\* lacp_enabled is always true and port_moved never is.
RcvSm(s, p, ev) ==
    LET l == s.link[p]
        heard   == ev.type = "pdu" /\ l.rcv \in {"EXPIRED", "DEFAULTED", "CURRENT"}
        expired == ev.type = "current_while"
    IN  CASE ev.type = "begin" -> RcvInitialize(s, p)
          [] ev.type # "begin" /\ ~l.up -> SetLink(s, p, PortDisabled(l))
          [] ev.type # "begin" /\ l.up /\ l.rcv = "INVALID" -> RcvInitialize(s, p)
          [] ev.type # "begin" /\ l.up /\ l.rcv = "PORT_DISABLED" -> SetLink(s, p, Expired(l))
          [] l.up /\ heard -> RcvCurrent(s, p, ev.pdu)
          [] l.up /\ expired /\ l.rcv = "EXPIRED" -> RcvDefaulted(s, p)
          [] l.up /\ expired /\ l.rcv = "CURRENT" -> SetLink(s, p, Expired(l))
          [] OTHER -> s

----------------------------------------------------------------------------
(* Periodic transmission machine.                                          *)

Periodic(l, state) == [l EXCEPT !.periodic = state, !.periodic_timer = TRUE]

NoPeriodic(l) ==
    IF l.up /\ ~BothPassive(l) THEN Periodic(l, "FAST")
    ELSE [l EXCEPT !.periodic = "NO_PERIODIC", !.periodic_timer = FALSE]

PeriodicTx(l) == Periodic(Ntt(l), IF l.partner.short THEN "FAST" ELSE "SLOW")

NextPeriodic(l, ev) ==
    LET expired == ev.type = "periodic" IN
    CASE ev.type = "begin" \/ ~l.up \/ BothPassive(l)
            \/ l.periodic \notin {"FAST", "SLOW"} -> NoPeriodic(l)
      [] OTHER ->
            CASE expired \/ (l.periodic = "SLOW" /\ l.partner.short) -> PeriodicTx(l)
              [] ~expired /\ l.periodic = "FAST" /\ ~l.partner.short -> Periodic(l, "SLOW")
              [] OTHER -> l

PeriodicTxSm(s, p, ev) == SetLink(s, p, NextPeriodic(s.link[p], ev))

----------------------------------------------------------------------------
(* Mux machine (coupled control).                                          *)

Detached(l) == [l EXCEPT !.mux = "DETACHED", !.sync = FALSE, !.ntt = TRUE]
Waiting(l)  == [l EXCEPT !.mux = "WAITING", !.wait_while = TRUE]
Attached(l) == [l EXCEPT !.mux = "ATTACHED", !.sync = TRUE, !.ntt = TRUE]
CollectingDistributing(l) == [l EXCEPT !.mux = "COLLECTING_DISTRIBUTING", !.ntt = TRUE]

MuxDetached(s, p) ==
    DisableCollectingDistributing(SetLink(s, p, Detached(s.link[p])), p)

Attach(s, p) == DisableCollectingDistributing(SetLink(s, p, Attached(s.link[p])), p)
MuxAttached(s, p) == Attach(AttemptToAggregate(s, p), p)

MuxCollectingDistributing(s, p) ==
    EnableCollectingDistributing(SetLink(s, p, CollectingDistributing(s.link[p])), p)

\* In WAITING the code reads link->aggregator->ready when the link is
\* SELECTED: a link selected without an aggregator ends the process.
MuxSm(s, p, ev) ==
    LET l == s.link[p]
        chosen == l.selected = "SELECTED"
        null   == l.mux = "WAITING" /\ chosen /\ l.agg = NoAgg
    IN  CASE ev.type = "begin" -> MuxDetached(s, p)
          [] ev.type # "begin" /\ null -> [s EXCEPT !.crashed = TRUE]
          [] OTHER ->
                CASE l.mux = "DETACHED" /\ l.selected # "UNSELECTED" -> SetLink(s, p, Waiting(l))
                  [] l.mux = "WAITING" /\ chosen /\ s.agg[l.agg].ready -> MuxAttached(s, p)
                  [] l.mux = "WAITING" /\ l.selected = "UNSELECTED" -> MuxDetached(s, p)
                  [] l.mux = "ATTACHED" /\ chosen /\ l.partner.sync ->
                        MuxCollectingDistributing(s, p)
                  [] l.mux = "ATTACHED" /\ ~chosen -> MuxDetached(s, p)
                  [] l.mux = "COLLECTING_DISTRIBUTING" /\ ~(chosen /\ l.partner.sync) ->
                        MuxAttached(s, p)
                  [] OTHER -> s

----------------------------------------------------------------------------
(* Churn machines: they observe the synchronization bits, but their timers  *)
(* run the other machines too.  Entering MONITOR arms the timer, leaving it *)
(* does not cancel it.                                                      *)

NextChurn(state, sync, expired) ==
    CASE state \in {"MONITOR", "CHURN"} /\ sync -> "NO_CHURN"
      [] state = "MONITOR" /\ ~sync /\ expired -> "CHURN"
      [] state = "NO_CHURN" /\ ~sync -> "MONITOR"
      [] state = "INVALID" -> "MONITOR"
      [] OTHER -> state

Churned(l, ev) ==
    LET monitor == ev.type = "begin" \/ ~l.up
        a == IF monitor THEN "MONITOR" ELSE NextChurn(l.actor_churn, l.sync, ev.type = "actor_churn")
        b == IF monitor THEN "MONITOR"
             ELSE NextChurn(l.partner_churn, l.partner.sync, ev.type = "partner_churn")
        armed(old, new) == new = "MONITOR" /\ (monitor \/ old # new)
    IN  [l EXCEPT !.actor_churn = a, !.partner_churn = b,
                  !.actor_churn_timer = @ \/ armed(l.actor_churn, a),
                  !.partner_churn_timer = @ \/ armed(l.partner_churn, b)]

ChurnSm(s, p, ev) == SetLink(s, p, Churned(s.link[p], ev))

----------------------------------------------------------------------------
(* Transmission, and one run of all the machines of a link.                *)

Frame(s, p) == [port |-> p, pdu |-> FormatLacpdu(s, p)]

\* lacp_tx.  A frame send_lacp fails to write is a lost frame.
Tx(s, p) ==
    LET l == s.link[p] IN
    CASE l.ntt /\ (l.periodic = "NO_PERIODIC" \/ ~IsEnabled(l)) ->
            SetLink(s, p, [l EXCEPT !.ntt = FALSE])
      [] l.ntt /\ l.periodic # "NO_PERIODIC" /\ IsEnabled(l)
               /\ ~BothPassive(l) /\ l.tx_count < TxLimit ->
            [SetLink(s, p, [l EXCEPT !.ntt = FALSE, !.tx_count = @ + 1]) EXCEPT
                !.sent = Append(@, Frame(s, p))]
      [] OTHER -> s

\* marker_tx: the response to a Marker Information PDU.  It counts as a frame
\* sent, and no limit is looked at.
MarkerTx(s, p) ==
    LET l == s.link[p] IN
    IF l.agg = NoAgg THEN s
    ELSE SetLink(s, p, [l EXCEPT !.tx_count = (@ + 1) % (MaxShort + 1)])

InSync(l) == l.sync /\ l.partner.sync

Machines(s, p, ev) ==
    Tx(ChurnSm(MuxSm(ReadyLogic(PeriodicTxSm(RcvSm(s, p, ev), p, ev)), p, ev), p, ev), p)

\* NSM learns of a link when both ends have come to agree, or ceased to.
TellNsm(s, t, p) ==
    CASE ~IsEnabled(s.link[p]) -> s
      [] IsEnabled(s.link[p]) /\ ~InSync(s.link[p]) /\ InSync(t.link[p]) -> AttachMux(t, p)
      [] IsEnabled(s.link[p]) /\ InSync(s.link[p]) /\ ~InSync(t.link[p]) -> DetachMux(t, p, TRUE)
      [] OTHER -> t

RunSm(s, p, ev) == TellNsm(s, Machines(s, p, ev), p)

InitializeLink(s, p) ==
    IF IsEnabled(s.link[p]) THEN RunSm(SetLink(s, p, Ntt(s.link[p])), p, Begin) ELSE s
=============================================================================
