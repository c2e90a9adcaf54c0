-------------------------------- MODULE Lacp --------------------------------
(***************************************************************************)
(* The LACP daemon of one system (lacpd): every handler its thread runs -   *)
(* a received LACPDU, a timer, a message of NSM, a configuration command -  *)
(* as one action on the state of LacpSelection.  The partner is any source  *)
(* of the LACPDUs in Pdus; time is not counted: an armed timer may expire   *)
(* at any moment.                                                          *)
(*                                                                         *)
(* The one-second transmit timer walks the links twice, once to grant       *)
(* credits (in the order of the hash table) and once for the selection      *)
(* logic.  Each link's turn is one step and no other handler runs between   *)
(* them.  The selection may take the links in any order, which covers every *)
(* order lacp_update_selection_logic and lacp_selection_logic_add_link can  *)
(* leave in lacp_instance->links.                                          *)
(***************************************************************************)
EXTENDS LacpMachines

CONSTANTS
    Pdus,            \* the LACPDUs the partner of each port may send
    Activities,      \* the modes NSM configures: active (TRUE), passive (FALSE)
    Timeouts,        \* the timeouts an operator sets: short (TRUE), long (FALSE)
    StaticLimit      \* bound: static aggregators NSM announces at most

ASSUME InputAssumption ==
    /\ Pdus \in [Port -> SUBSET Pdu] /\ Activities \subseteq BOOLEAN /\ Timeouts \subseteq BOOLEAN
    /\ StaticLimit \in Nat

VARIABLES
    link,            \* the links
    agg,             \* lacp_agg_list, by key
    links,           \* the links the selection logic knows
    agg_cnt,         \* aggregators counted, static ones included
    system_priority, \* LACP_SYSTEM_PRIORITY
    ifg,             \* the interface table
    nsm,             \* external: the members NSM believes each aggregator has
    static,          \* external: the static aggregators NSM has
    crashed,         \* the process died
    walk             \* the transmit timer's walk: its phase and the links left

vars == <<link, agg, links, agg_cnt, system_priority, ifg, nsm, static, crashed, walk>>

State == [link |-> link, agg |-> agg, links |-> links, agg_cnt |-> agg_cnt,
          system_priority |-> system_priority, ifg |-> ifg, nsm |-> nsm,
          static |-> static, sent |-> <<>>, crashed |-> crashed]

Becomes(s) ==
    /\ link' = s.link /\ agg' = s.agg /\ links' = s.links /\ agg_cnt' = s.agg_cnt
    /\ system_priority' = s.system_priority /\ ifg' = s.ifg /\ nsm' = s.nsm
    /\ static' = s.static /\ crashed' = s.crashed

Idle == [phase |-> "idle", todo |-> {}]

\* The program has a next step only while it is alive and no pointer dangles.
Defined == ~crashed /\ \A p \in Port : ~Dangling(State, p)

Runs(s) == Defined /\ walk = Idle /\ Becomes(s) /\ UNCHANGED walk

Init ==
    /\ link = [p \in Port |-> NoLinkRec]
    /\ agg = [k \in Key |-> FreeAgg]
    /\ links = {} /\ agg_cnt = 0 /\ system_priority = DefaultPrio
    /\ ifg = [p \in Port |-> [present |-> FALSE, up |-> FALSE,
                              akey |-> CHOOSE a \in AdminKey : TRUE]]
    /\ nsm = [k \in Key |-> {}]
    /\ static = 0 /\ crashed = FALSE
    /\ walk = Idle

----------------------------------------------------------------------------
(* LACPDUs and the timers of a link.                                       *)

Known(p) == link[p].exists /\ link[p].ifp

HandlePacket(p, m) ==
    /\ Known(p) /\ IsEnabled(link[p])
    /\ Runs(RunSm(State, p, Received(m)))

\* A Marker Information PDU arrives; a Marker Response changes nothing.
HandleMarker(p) ==
    /\ Known(p) /\ IsEnabled(link[p])
    /\ Runs(MarkerTx(State, p))

CurrentWhileExpiry(p) ==
    /\ link[p].current_while
    /\ LET l == [link[p] EXCEPT !.current_while = FALSE] IN
       Runs(RunSm(SetLink(State, p, l), p, CurrentWhileExpired))

WaitOver(s, p) ==
    LET chosen == s.link[p].selected = "SELECTED"
        l == [s.link[p] EXCEPT !.wait_while = FALSE, !.ready_n = @ \/ chosen, !.ntt = @ \/ chosen]
    IN  RunSm(SetLink(s, p, l), p, NoEvent)

WaitWhileExpiry(p) == link[p].wait_while /\ Runs(WaitOver(State, p))

PeriodicExpiry(p) ==
    /\ link[p].periodic_timer
    /\ LET l == [link[p] EXCEPT !.periodic_timer = FALSE] IN
       Runs(RunSm(SetLink(State, p, l), p, PeriodicExpired))

ActorChurnExpiry(p) ==
    /\ link[p].actor_churn_timer
    /\ LET l == [link[p] EXCEPT !.actor_churn_timer = FALSE] IN
       Runs(RunSm(SetLink(State, p, l), p, ActorChurnExpired))

PartnerChurnExpiry(p) ==
    /\ link[p].partner_churn_timer
    /\ LET l == [link[p] EXCEPT !.partner_churn_timer = FALSE] IN
       Runs(RunSm(SetLink(State, p, l), p, PartnerChurnExpired))

----------------------------------------------------------------------------
(* The transmit timer.                                                     *)

\* The walk goes on with the next link, with the selection, or ends.
Onward(w) ==
    CASE w.todo # {} -> w
      [] w.todo = {} /\ w.phase = "credit" /\ links # {} -> [phase |-> "select", todo |-> links]
      [] OTHER -> Idle

TxTimerExpiry ==
    /\ Defined /\ walk = Idle
    /\ walk' = Onward([phase |-> "credit", todo |-> {p \in Port : link[p].exists}])
    /\ UNCHANGED <<link, agg, links, agg_cnt, system_priority, ifg, nsm, static, crashed>>

\* lacp_update_tx_credits, for one link.
GrantCredit(p) ==
    LET l == [link[p] EXCEPT !.tx_count = IF @ >= TxLimit THEN @ - TxLimit ELSE 0]
        s == SetLink(State, p, l)
    IN  /\ Defined /\ walk.phase = "credit"
        /\ p \in walk.todo /\ \A q \in walk.todo : p <= q
        /\ Becomes(IF link[p].ntt THEN RunSm(s, p, NoEvent) ELSE s)
        /\ walk' = Onward([walk EXCEPT !.todo = @ \ {p}])

\* lacp_selection_logic, for one link.
Select(p) ==
    LET l == link[p]
        wants == (l.mux = "DETACHED" /\ l.selected = "UNSELECTED") \/ l.selected = "STANDBY"
    IN  /\ Defined /\ walk.phase = "select" /\ p \in walk.todo
        /\ Becomes(IF ~IsEnabled(l) THEN State
                   ELSE Tx(IF wants THEN AttemptToAggregate(State, p) ELSE State, p))
        /\ walk' = Onward([walk EXCEPT !.todo = @ \ {p}])

----------------------------------------------------------------------------
(* Messages of NSM.                                                        *)

SetInterface(s, p, i) == [s EXCEPT !.ifg[p] = i]

PortAttach(s, p) ==
    LET t == SetLink(s, p, [s.link[p] EXCEPT !.ifp = TRUE, !.up = s.ifg[p].up]) IN
    IF IsEnabled(t.link[p]) THEN InitializeLink(SelectionAddLink(t, p), p) ELSE t

InterfaceAdd(p, up, a) ==
    LET s == SetInterface(State, p, [present |-> TRUE, up |-> up, akey |-> a]) IN
    /\ ~ifg[p].present
    /\ Runs(IF link[p].exists THEN PortAttach(s, p) ELSE s)

\* NSM drops a deleted interface from its aggregators by itself.
InterfaceDelete(p) ==
    LET s == IF Known(p) THEN DeleteLink(State, p, FALSE) ELSE State IN
    /\ ifg[p].present
    /\ Runs([SetInterface(s, p, [ifg[p] EXCEPT !.present = FALSE, !.up = FALSE]) EXCEPT
                !.nsm = [k \in Key |-> @[k] \ {p}]])

\* The interface of aggregator k goes away at NSM.
AggregatorInterfaceDelete(k) ==
    /\ agg[k].alive /\ agg[k].installed
    /\ Runs(FreeAggregator(DetachLinks(DeleteAtNsm(State, k), k, FALSE), k))

PortUp(s, p) ==
    InitializeLink(SelectionAddLink(SetLink(s, p, [s.link[p] EXCEPT !.up = TRUE]), p), p)

\* The machines of a link that goes down run one step by themselves.
Stop(s, p) ==
    LET t == SetLink(s, p, [s.link[p] EXCEPT !.up = FALSE]) IN
    MuxSm(PeriodicTxSm(RcvSm(t, p, NoEvent), p, NoEvent), p, NoEvent)

PortDown(s, p) == Refresh(Stop(LinkCleanup(s, p, TRUE), p), IsEnabled(s.link[p]))

StateChanged(s, p, up) ==
    CASE Known(p) /\ up /\ ~ifg[p].up -> PortUp(s, p)
      [] Known(p) /\ ~up /\ ifg[p].up -> PortDown(s, p)
      [] OTHER -> s

\* The interface's key at NSM changes while its link is aggregated.
AdminKeyChanged(s, p, changed, keep) ==
    LET t == IF keep THEN s ELSE Disaggregate(s, p, TRUE) IN
    IF ~changed \/ s.link[p].agg = NoAgg THEN s ELSE SetLink(t, p, Ntt(t.link[p]))

InterfaceState(p, up, a, keep) ==
    LET s == SetInterface(State, p, [ifg[p] EXCEPT !.up = up, !.akey = a])
        changed == Known(p) /\ a # ifg[p].akey
    IN  /\ ifg[p].present
        /\ Runs(AdminKeyChanged(StateChanged(s, p, up), p, changed, keep))

\* lacp_add_link: a new record takes the state of its interface.
AddLink(s, p) ==
    SetLink(s, p, [NoLinkRec EXCEPT !.exists = TRUE, !.ifp = TRUE, !.up = s.ifg[p].up,
                                    !.act = TRUE, !.dflt = TRUE])

\* A link that has left its aggregator takes key k; the code counts the
\* reference without a look at the flag.
TakeKey(t, p, k) ==
    LET u == SetLink(t, p, [t.link[p] EXCEPT !.key = k, !.ntt = TRUE])
        v == IF u.agg[k].alive
             THEN SetLink(SetAgg(u, k, [u.agg[k] EXCEPT !.refCnt = Incr(@)]),
                          p, [u.link[p] EXCEPT !.match = TRUE])
             ELSE u
    IN  IF IsEnabled(v.link[p]) /\ ~IsEnabled(t.link[p])
        THEN InitializeLink(SelectionAddLink(v, p), p)
        ELSE v

SetLinkAdminKey(s, p, k) ==
    IF k = s.link[p].key THEN s
    ELSE TakeKey(LeaveAggregator(ReleaseReference(s, p), p, TRUE), p, k)

Restart(s, p) == IF IsEnabled(s.link[p]) THEN InitializeLink(UpdateSelection(s), p) ELSE s

\* A port is put into channel group k, as LACP active or passive.
ConfigAdd(r, p, k, act) ==
    LET s == IF r.link[p].exists THEN r ELSE AddLink(r, p) IN
    Restart(SetLinkAdminKey(SetLink(s, p, [s.link[p] EXCEPT !.act = act]), p, k), p)

AggregatorConfigAdd(p, k, act) ==
    /\ ifg[p].present
    /\ Runs(ConfigAdd(State, p, k, act))

AggregatorConfigDelete(p) ==
    /\ ifg[p].present /\ link[p].exists
    /\ Runs(DeleteLink(State, p, IsEnabled(link[p])))

StaticAggregatorCount(more) ==
    /\ more => static < StaticLimit           \* bound
    /\ ~more => static > 0
    /\ Runs([State EXCEPT !.static = IF more THEN @ + 1 ELSE @ - 1,
                          !.agg_cnt = CASE more -> @ + 1
                                        [] ~more /\ @ > 0 -> @ - 1
                                        [] OTHER -> @])

\* The connection to NSM is lost, maybe because NSM restarts, without its static
\* aggregators at first.  The NSM client is freed first; an aggregator
\* that is still installed once its links are off is then deleted through it.
NsmDisconnect ==
    LET alive == {k \in Key : agg[k].alive}
        stillInstalled(k) ==
            agg[k].installed /\ agg[k].refCnt \notin 1..Cardinality(Occupied(agg[k]))
        detached(l) ==
            IF ~l.exists THEN l
            ELSE [TimersOff(IF l.agg # NoAgg THEN Dropped(l) ELSE l) EXCEPT
                    !.ifp = FALSE, !.up = FALSE]
        left == Cardinality(alive)
    IN  \E kept \in {0, static} :
            IF \E k \in alive : stillInstalled(k)
            THEN Runs([State EXCEPT !.crashed = TRUE, !.static = kept])
            ELSE Runs([State EXCEPT
                    !.link = [p \in Port |-> detached(link[p])],
                    !.agg = [k \in Key |-> FreeAgg],
                    !.agg_cnt = IF @ >= left THEN @ - left ELSE 0,
                    !.links = IF EnabledLinks(State) = {} THEN @ ELSE {},
                    !.ifg = [p \in Port |-> [@[p] EXCEPT !.present = FALSE, !.up = FALSE]],
                    !.nsm = [k \in Key |-> {}],
                    !.static = kept])

----------------------------------------------------------------------------
(* Commands.                                                               *)

SetLinkPriority(p, v) ==
    LET s == SetLink(State, p, [link[p] EXCEPT !.prio = v, !.ntt = TRUE]) IN
    /\ link[p].exists
    /\ Runs(Refresh(s, IsEnabled(link[p])))

SetLinkTimeout(p, short) ==
    /\ link[p].exists
    /\ Runs(RunSm(SetLink(State, p, [link[p] EXCEPT !.short = short]), p, NoEvent))

SetSystemPriority(v) == Runs([State EXCEPT !.system_priority = v])

----------------------------------------------------------------------------

\* The transmit timer and its walk.
WalkStep == TxTimerExpiry \/ \E p \in Port : GrantCredit(p) \/ Select(p)

\* The timers a bundle needs to form, and those that watch it.
SettlingStep == WalkStep \/ \E p \in Port : WaitWhileExpiry(p)
WatchingStep ==
    \E p \in Port : \/ CurrentWhileExpiry(p) \/ PeriodicExpiry(p)
                    \/ ActorChurnExpiry(p) \/ PartnerChurnExpiry(p)

PartnerStep == \E p \in Port : HandleMarker(p) \/ \E m \in Pdus[p] : HandlePacket(p, m)

NsmStep ==
    \/ \E p \in Port, up \in BOOLEAN, a \in AdminKey :
            InterfaceAdd(p, up, a) \/ \E keep \in BOOLEAN : InterfaceState(p, up, a, keep)
    \/ \E p \in Port : InterfaceDelete(p) \/ AggregatorConfigDelete(p)
    \/ \E p \in Port, k \in Key, act \in Activities : AggregatorConfigAdd(p, k, act)
    \/ \E k \in Key : AggregatorInterfaceDelete(k)
    \/ \E more \in BOOLEAN : StaticAggregatorCount(more)
    \/ NsmDisconnect

CommandStep ==
    \/ \E p \in Port, v \in Prio : SetLinkPriority(p, v)
    \/ \E p \in Port, short \in Timeouts : SetLinkTimeout(p, short)
    \/ \E v \in Prio : SetSystemPriority(v)

Next == SettlingStep \/ WatchingStep \/ PartnerStep \/ NsmStep \/ CommandStep

Spec == Init /\ [][Next]_vars

\* The event loop serves every expired timer: strong fairness, since the walk
\* of the transmit timer keeps the others waiting now and then.  The conditions
\* under which the handlers run are written out, for TLC's sake.
Waits == Defined /\ walk = Idle
WalkFairness ==
    []<>~(Defined /\ \E p \in Port : link[p].exists) \/ []<><<WalkStep>>_vars
Fairness ==
    /\ WalkFairness
    /\ \A p \in Port :
        /\ <>[]~(Waits /\ link[p].current_while) \/ []<><<CurrentWhileExpiry(p)>>_vars
        /\ <>[]~(Waits /\ link[p].wait_while) \/ []<><<WaitWhileExpiry(p)>>_vars
        /\ <>[]~(Waits /\ link[p].periodic_timer) \/ []<><<PeriodicExpiry(p)>>_vars
        /\ <>[]~(Waits /\ link[p].actor_churn_timer) \/ []<><<ActorChurnExpiry(p)>>_vars
        /\ <>[]~(Waits /\ link[p].partner_churn_timer) \/ []<><<PartnerChurnExpiry(p)>>_vars

FairSpec == Spec /\ Fairness

----------------------------------------------------------------------------
(* Properties.                                                             *)

\* Every variable has its type: the receive state of an aggregator never
\* falls below zero, its reference count and a link's tx_count wrap.
TypeOK ==
    /\ link \in [Port -> Link] /\ agg \in [Key -> Aggregator]
    /\ links \subseteq Port /\ agg_cnt \in Nat /\ system_priority \in Prio
    /\ ifg \in [Port -> Interface] /\ nsm \in [Key -> SUBSET Port] /\ static \in Nat
    /\ crashed \in BOOLEAN
    /\ walk \in [phase: {"idle", "credit", "select"}, todo: SUBSET Port]

\* A link is SELECTED exactly when it points to an aggregator, whatever handler
\* of whatever link took the aggregator away: what LACP_ASSERT in
\* lacp_disaggregate_link and the unguarded link->aggregator->ready in
\* lacp_mux_sm rely on.
SelectedHasAggregator ==
    \A p \in Port : link[p].selected = "SELECTED" <=> link[p].agg # NoAgg

\* agg->link[] and link->aggregator agree: a slot holds a link that points
\* back and no other slot does, and a live aggregator holds every link that
\* points to it.  lacp_aggregate_link and lacp_disaggregate_link keep the two by
\* hand.
SlotsAgree ==
    \A k \in Key :
        /\ \A i \in Occupied(agg[k]) :
              /\ link[agg[k].slot[i]].agg = k
              /\ \A j \in Slot : agg[k].slot[j] = agg[k].slot[i] => j = i
        /\ agg[k].alive => \A p \in Port : link[p].agg = k => Holds(agg[k], p)

\* The list the selection logic walks holds no freed and no disabled link, and
\* forgets an enabled one only when it is full: when a link leaves a full list,
\* one that found no place takes it (lacp_update_selection_logic,
\* lacp_selection_logic_add_link).
SelectionListCurrent ==
    /\ links \subseteq EnabledLinks(State)
    /\ links = EnabledLinks(State) \/ Cardinality(links) = MaxLinks

\* No link waits for a timer nobody armed: in the states a timer must end,
\* the timer runs (lacp_rcv_sm, lacp_periodic_tx_sm, lacp_mux_sm).
NoLostTimer ==
    \A p \in Port : LET l == link[p] IN
        l.exists /\ IsEnabled(l) =>
            /\ l.rcv \in {"EXPIRED", "CURRENT"} => l.current_while
            /\ l.periodic \in {"FAST", "SLOW"} => l.periodic_timer
            /\ l.actor_churn = "MONITOR" => l.actor_churn_timer
            /\ l.partner_churn = "MONITOR" => l.partner_churn_timer
            /\ l.mux = "WAITING" /\ l.selected = "SELECTED" => l.wait_while \/ l.ready_n

\* lacpd never believes it has fewer aggregators than there are: agg_cnt covers
\* the live ones and NSM's static ones, so LACP_AGG_COUNT_MAX is never passed.
CountCoversAggregators ==
    Cardinality({k \in Key : agg[k].alive}) + static <= agg_cnt

\* A port that starts to hear another partner carries no traffic until it has
\* been selected again (update_Selected, 43.4.9).
PartnerChangeStopsTraffic ==
    [][\A p \in Port :
        /\ link[p].exists /\ link'[p].exists
        /\ link[p].partner.sys # link'[p].partner.sys
        => link'[p].mux # "COLLECTING_DISTRIBUTING"]_vars
=============================================================================
