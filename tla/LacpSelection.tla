--------------------------- MODULE LacpSelection ---------------------------
(***************************************************************************)
(* Links, aggregators and the selection logic of the LACP daemon           *)
(* (lacp_link.c, lacp_selection_logic.c).                                  *)
(*                                                                         *)
(* The daemon is one thread running one handler at a time, so every        *)
(* routine here is an operator from a state of the daemon to the next: the *)
(* state s is a record of what lacp_instance, the link hash table and the  *)
(* library's interface table hold, together with what the daemon has told  *)
(* NSM.  The fields of s are given by DaemonState.                         *)
(*                                                                         *)
(* linkCnt is not a field: the code changes it exactly where it fills or   *)
(* clears a slot of agg->link[], so it is the number of occupied slots.    *)
(* agg_ix, MAC addresses and the copies of the partner's identity that an  *)
(* aggregator keeps for display are left out: nothing reads them back.     *)
(***************************************************************************)
EXTENDS Integers, Sequences, FiniteSets

CONSTANTS
    Port,            \* interface indexes
    Key,             \* administrative keys (channel groups)
    Prio,            \* port and system priorities
    DefaultPrio,     \* LACP_DEFAULT_PORT_PRIORITY, LACP_DEFAULT_SYSTEM_PRIORITY
    System,          \* system identifiers
    MySystem,        \* LACP_SYSTEM_ID
    NoSystem,        \* the all-zero system identifier of partner_admin_system
    TailZero,        \* identifiers lacp_is_partner_system_NULL takes for zero
    AdminKey,        \* NSM's property keys of an interface (ifp->lacp_admin_key)
    MaxAggLinks,     \* LACP_MAX_AGGREGATOR_LINKS
    MaxLinks,        \* LACP_MAX_LINKS
    MaxAggs,         \* LACP_AGG_COUNT_MAX
    TxLimit          \* LACP_TX_LIMIT

MaxShort == 65535    \* the largest value of a u_int16_t
Octet    == 0..255   \* the values of a u_char
Short    == 0..MaxShort

\* Interface indexes and priorities are 16-bit fields.
ASSUME PortAssumption == Port \subseteq 1..MaxShort
ASSUME KeyAssumption  == Key \subseteq Nat \ {0} /\ IsFiniteSet(Key)
ASSUME PrioAssumption == Prio \subseteq 0..MaxShort /\ DefaultPrio \in Prio
ASSUME AdminKeyAssumption == AdminKey # {}
ASSUME SystemAssumption ==
    /\ MySystem \in System /\ NoSystem \in System /\ MySystem # NoSystem
    /\ TailZero \subseteq System /\ NoSystem \in TailZero
ASSUME LimitAssumption ==
    /\ MaxAggLinks \in Nat \ {0} /\ MaxLinks \in Nat /\ MaxAggs \in Nat
    /\ TxLimit \in 1..MaxShort

NoLink == 0          \* an empty slot of agg->link[]
NoAgg  == 0          \* link->aggregator == NULL
Slot   == 1..MaxAggLinks

\* What an LACPDU says of one end of a link (43.4.2.2), and the record the
\* daemon keeps of its partner.
Info == [sys: System, sprio: Prio, key: Key \cup {0}, port: Port \cup {0},
         prio: Prio \cup {0}, act: BOOLEAN, short: BOOLEAN, aggr: BOOLEAN,
         sync: BOOLEAN, dflt: BOOLEAN]

\* partner_admin_*: what a link assumes of a partner it has not heard.
DefaultPartner ==
    [sys |-> NoSystem, sprio |-> DefaultPrio, key |-> 0, port |-> 0, prio |-> 0,
     act |-> FALSE, short |-> FALSE, aggr |-> TRUE, sync |-> FALSE, dflt |-> TRUE]

Interface == [present: BOOLEAN, up: BOOLEAN, akey: AdminKey]

Churn == {"INVALID", "MONITOR", "NO_CHURN", "CHURN"}

Link == [exists: BOOLEAN,            \* the link is in lacp_link_hash
         ifp: BOOLEAN,               \* link->ifp != NULL
         up: BOOLEAN,                \* port_enabled
         key: Key \cup {0}, prio: Prio,
         act: BOOLEAN, short: BOOLEAN, sync: BOOLEAN, dflt: BOOLEAN,
         selected: {"UNSELECTED", "SELECTED", "STANDBY"},
         agg: Key \cup {NoAgg},      \* aggregators are named po<key>
         match: BOOLEAN,             \* LINK_FLAG_AGG_MATCH
         ready_n: BOOLEAN, ntt: BOOLEAN, tx_count: Short,
         rcv: {"INVALID", "PORT_DISABLED", "EXPIRED", "DEFAULTED", "CURRENT"},
         mux: {"DETACHED", "WAITING", "ATTACHED", "COLLECTING_DISTRIBUTING"},
         periodic: {"INVALID", "NO_PERIODIC", "FAST", "SLOW"},
         actor_churn: Churn, partner_churn: Churn,
         current_while: BOOLEAN, wait_while: BOOLEAN, periodic_timer: BOOLEAN,
         actor_churn_timer: BOOLEAN, partner_churn_timer: BOOLEAN,
         partner: Info]

Aggregator == [alive: BOOLEAN,       \* it is in lacp_agg_list
               slot: [Slot -> Port \cup {NoLink}],
               refCnt: Octet, receive_state: Octet,
               ready: BOOLEAN, installed: BOOLEAN]

\* A slot of lacp_agg_list that holds no aggregator.
FreeAgg == [alive |-> FALSE, slot |-> [i \in Slot |-> NoLink], refCnt |-> 0,
            receive_state |-> 0, ready |-> FALSE, installed |-> FALSE]

\* A link record that is not in the hash table.
NoLinkRec ==
    [exists |-> FALSE, ifp |-> FALSE, up |-> FALSE, key |-> 0, prio |-> DefaultPrio,
     act |-> FALSE, short |-> FALSE, sync |-> FALSE, dflt |-> FALSE,
     selected |-> "UNSELECTED", agg |-> NoAgg, match |-> FALSE,
     ready_n |-> FALSE, ntt |-> FALSE, tx_count |-> 0,
     rcv |-> "INVALID", mux |-> "DETACHED", periodic |-> "INVALID",
     actor_churn |-> "INVALID", partner_churn |-> "INVALID",
     current_while |-> FALSE, wait_while |-> FALSE, periodic_timer |-> FALSE,
     actor_churn_timer |-> FALSE, partner_churn_timer |-> FALSE,
     partner |-> DefaultPartner]

DaemonState ==
    [link: [Port -> Link], agg: [Key -> Aggregator],
     links: SUBSET Port,             \* lacp_instance->links
     agg_cnt: Nat, system_priority: Prio,
     ifg: [Port -> Interface],       \* the library's interface table
     nsm: [Key -> SUBSET Port],      \* the members NSM has been told of
     static: Nat,                    \* the static aggregators NSM has
     sent: Seq([port: Port, pdu: [actor: Info, partner: Info]]),
     crashed: BOOLEAN]               \* the process died of a NULL dereference

----------------------------------------------------------------------------
(* Small helpers.                                                          *)

SetLink(s, p, l) == [s EXCEPT !.link[p] = l]
SetAgg(s, k, a)  == [s EXCEPT !.agg[k] = a]

IsEnabled(l) == l.ifp /\ l.up /\ l.key > 0
Ntt(l) == [l EXCEPT !.ntt = TRUE]

Occupied(a) == {i \in Slot : a.slot[i] # NoLink}
FirstSlot(a, x) == CHOOSE i \in Slot : a.slot[i] = x /\ \A j \in Slot : a.slot[j] = x => i <= j
Holds(a, x) == \E i \in Slot : a.slot[i] = x
HasRoom(a) == Holds(a, NoLink)
Members(a) == {a.slot[i] : i \in Occupied(a)}

\* refCnt is a u_char.
Decr(n) == (n + 255) % 256
Incr(n) == (n + 1) % 256

\* CALC_LINK_PRIORITY: the priority above the port number, lower is better.
LinkPriority(s, p) == (MaxShort + 1) * s.link[p].prio + p
Outranks(s, p, q)  == LinkPriority(s, p) < LinkPriority(s, q)

\* The aggregator lacp_aggregator_lookup_by_key finds, NoAgg if there is none.
LookupByKey(s, k) == IF k \in Key /\ s.agg[k].alive THEN k ELSE NoAgg

\* link->aggregator points to freed memory.
Dangling(s, p) == s.link[p].agg # NoAgg /\ ~s.agg[s.link[p].agg].alive

----------------------------------------------------------------------------
(* Attaching and detaching (lacp_link.c).                                  *)

\* Faulty: the count is not compared with zero first.
DisableUnguarded(s, p) ==
    LET k == s.link[p].agg IN
    IF k # NoAgg
    THEN SetLink(SetAgg(s, k, [s.agg[k] EXCEPT !.receive_state = @ - 1]), p, Ntt(s.link[p]))
    ELSE s

DisableCollectingDistributing(s, p) ==
    LET k == s.link[p].agg IN
    IF k # NoAgg /\ s.agg[k].receive_state > 0
    THEN SetLink(SetAgg(s, k, [s.agg[k] EXCEPT !.receive_state = @ - 1]), p, Ntt(s.link[p]))
    ELSE s

EnableCollectingDistributing(s, p) ==
    LET k == s.link[p].agg IN
    IF k # NoAgg
    THEN SetLink(SetAgg(s, k, [s.agg[k] EXCEPT !.receive_state = Incr(@)]), p, Ntt(s.link[p]))
    ELSE s

AttachMux(s, p) ==
    LET k == s.link[p].agg IN
    IF k = NoAgg THEN s
    ELSE [SetAgg(s, k, [s.agg[k] EXCEPT !.installed = TRUE]) EXCEPT !.nsm[k] = @ \cup {p}]

DetachMux(s, p, notify) ==
    LET k == s.link[p].agg IN
    IF k = NoAgg THEN s
    ELSE [SetAgg(s, k, [s.agg[k] EXCEPT !.installed = @ /\ s.agg[k].refCnt # 0]) EXCEPT
            !.nsm[k] = IF notify THEN @ \ {p} ELSE @]

\* A link's slot is cleared; the last link to leave also clears the count of
\* collecting muxes.
Vacate(a, p) ==
    LET left == [a.slot EXCEPT ![FirstSlot(a, p)] = NoLink] IN
    [a EXCEPT !.slot = left,
              !.receive_state = IF \A i \in Slot : left[i] = NoLink THEN 0 ELSE @]

Unselected(l) ==
    [l EXCEPT !.agg = NoAgg, !.selected = "UNSELECTED", !.ntt = TRUE,
              !.partner = [l.partner EXCEPT !.sprio = DefaultPrio]]

\* Faulty: the slot is cleared and the link's own state is not.
DisaggregateHalf(s, p, notify) ==
    LET k == s.link[p].agg
        t == DetachMux(DisableCollectingDistributing(s, p), p, notify)
    IN  IF k = NoAgg \/ ~Holds(s.agg[k], p) THEN s
        ELSE SetLink(SetAgg(t, k, Vacate(t.agg[k], p)), p, [t.link[p] EXCEPT !.agg = NoAgg])

Disaggregate(s, p, notify) ==
    LET k == s.link[p].agg
        t == DetachMux(DisableCollectingDistributing(s, p), p, notify)
    IN  IF k = NoAgg \/ ~Holds(s.agg[k], p) THEN s
        ELSE SetLink(SetAgg(t, k, Vacate(t.agg[k], p)), p, Unselected(t.link[p]))

Occupy(a, p) == [a EXCEPT !.slot = [a.slot EXCEPT ![FirstSlot(a, NoLink)] = p]]
Selected(l, k) ==
    [l EXCEPT !.agg = k, !.selected = "SELECTED", !.ntt = TRUE,
              !.ready_n = @ \/ l.selected = "STANDBY"]

\* "Make sure we don't cross link things."
LeaveOther(s, k, p) ==
    IF s.link[p].agg \in {NoAgg, k} THEN s ELSE Disaggregate(s, p, TRUE)

\* Faulty: the link is put into the first slot, occupied or not.
AggregateFirst(s, k, p) ==
    LET t == LeaveOther(s, k, p) IN
    SetLink([t EXCEPT !.agg[k].slot[1] = p], p, Selected(t.link[p], k))

\* A link that is in no other aggregator is SELECTED, in the first empty slot.
TakeSlot(t, k, p) ==
    LET u == SetLink(t, p, Selected(t.link[p], k))
    IN  CASE t.link[p].agg = k -> u
          [] t.link[p].agg # k /\ HasRoom(t.agg[k]) -> SetAgg(u, k, Occupy(t.agg[k], p))
          [] OTHER -> t

Aggregate(s, k, p) == TakeSlot(LeaveOther(s, k, p), k, p)

----------------------------------------------------------------------------
(* Selection (lacp_selection_logic.c).                                     *)

\* The properties NSM gave two interfaces differ, or the two ports are the
\* ends of one cable.
Incompatible(s, p, q) ==
    \/ ~s.link[q].ifp \/ s.ifg[q].akey # s.ifg[p].akey
    \/ /\ s.link[p].partner.sys = MySystem
       /\ p = s.link[q].partner.port /\ q = s.link[p].partner.port

\* Port p may join an aggregator that holds q.
Joins(s, p, q) ==
    LET a == s.link[p].partner
        b == s.link[q].partner
    IN  /\ s.link[p].key = s.link[q].key
        /\ \/ a.sys = b.sys /\ a.key = b.key
           \/ b.sys \in TailZero /\ b.key = 0

\* The scan of agg->link[]: the first slot that decides.
ScanAccepts(s, k, p) ==
    LET a == s.agg[k] IN
    \E i \in Occupied(a) :
        /\ Joins(s, p, a.slot[i])
        /\ \A j \in Occupied(a) : j <= i => ~Incompatible(s, p, a.slot[j])

\* The key of the aggregator lacp_search_for_aggregator returns, NoAgg for
\* NULL.  CreateAggregator is its side effect.
SearchForAggregator(s, p) ==
    LET l == s.link[p]
        k == LookupByKey(s, l.key)
        individual == ~l.partner.aggr /\ l.partner.key # 0
    IN  CASE ~IsEnabled(l) -> NoAgg
          [] IsEnabled(l) /\ k = NoAgg -> IF s.agg_cnt < MaxAggs THEN l.key ELSE NoAgg
          [] IsEnabled(l) /\ k # NoAgg /\ Occupied(s.agg[k]) = {} -> k
          [] OTHER ->
                IF individual
                THEN IF l.agg = k THEN k ELSE NoAgg
                ELSE IF ScanAccepts(s, k, p) THEN k ELSE NoAgg

\* Faulty: the new aggregator is not counted.
CreateAggregatorUncounted(s, k) ==
    IF k = NoAgg \/ s.agg[k].alive THEN s ELSE SetAgg(s, k, [FreeAgg EXCEPT !.alive = TRUE])

CreateAggregator(s, k) ==
    IF k = NoAgg \/ s.agg[k].alive THEN s
    ELSE [SetAgg(s, k, [FreeAgg EXCEPT !.alive = TRUE]) EXCEPT !.agg_cnt = @ + 1]

Standby(s, p) ==
    LET t == Disaggregate(s, p, TRUE) IN SetLink(t, p, [t.link[p] EXCEPT !.selected = "STANDBY"])

CountReference(s, k, p) ==
    IF k = NoAgg \/ s.link[p].match THEN s
    ELSE SetLink(SetAgg(s, k, [s.agg[k] EXCEPT !.refCnt = Incr(@)]),
                 p, [s.link[p] EXCEPT !.match = TRUE])

\* Faulty: the comparison of the priorities is the wrong way round.
ReplaceableBetter(s, k, p) == {q \in Members(s.agg[k]) : Outranks(s, q, p)}

\* The members of a full aggregator that p outranks, and the worst of them.
Replaceable(s, k, p) == {q \in Members(s.agg[k]) : Outranks(s, p, q)}
Victim(s, k, p) ==
    CHOOSE q \in Replaceable(s, k, p) :
        \A r \in Replaceable(s, k, p) : LinkPriority(s, r) <= LinkPriority(s, q)

AttemptToAggregate(s, p) ==
    LET k == SearchForAggregator(s, p)
        t == CountReference(CreateAggregator(s, k), k, p)
    IN  CASE ~IsEnabled(s.link[p]) -> s
          [] IsEnabled(s.link[p]) /\ k = NoAgg -> Standby(s, p)
          [] OTHER ->
                CASE t.link[p].agg = k -> t
                  [] t.link[p].agg # k /\ HasRoom(t.agg[k]) -> Aggregate(t, k, p)
                  [] OTHER ->
                        IF Replaceable(t, k, p) = {} THEN Standby(t, p)
                        ELSE Aggregate(Disaggregate(t, Victim(t, k, p), TRUE), k, p)

\* lacp_ready_logic: an empty aggregator keeps its old value.
Readied(s, a) ==
    IF a.alive /\ Occupied(a) # {}
    THEN [a EXCEPT !.ready = \A q \in Members(a) : s.link[q].ready_n]
    ELSE a
ReadyLogic(s) == [s EXCEPT !.agg = [k \in Key |-> Readied(s, s.agg[k])]]

EnabledLinks(s) == {p \in Port : s.link[p].exists /\ IsEnabled(s.link[p])}

\* The list the selection logic walks: the enabled links, the first MaxLinks
\* of the hash table when there are more.  It is kept as a set: the code sorts
\* it by priority, and the walk may take any order (see Lacp).
UpdateSelection(s) ==
    [s EXCEPT !.links = {p \in EnabledLinks(s) :
                            Cardinality({q \in EnabledLinks(s) : q < p}) < MaxLinks}]

Refresh(s, enabled) == IF enabled THEN UpdateSelection(s) ELSE s

\* Faulty: the last place of the list is never used.
SelectionAddLinkShort(s, p) ==
    IF Cardinality(s.links) + 1 >= MaxLinks \/ ~IsEnabled(s.link[p]) THEN s
    ELSE [s EXCEPT !.links = @ \cup {p}]

SelectionAddLink(s, p) ==
    IF Cardinality(s.links) = MaxLinks \/ ~IsEnabled(s.link[p]) THEN s
    ELSE [s EXCEPT !.links = @ \cup {p}]

----------------------------------------------------------------------------
(* Releasing links and aggregators.                                        *)

\* unlink_aggregator and XFREE.
FreeAggregator(s, k) ==
    [SetAgg(s, k, FreeAgg) EXCEPT !.agg_cnt = IF @ > 0 THEN @ - 1 ELSE 0]

\* lacp_nsm_aggregator_delete, when the aggregator is installed.
DeleteAtNsm(s, k) ==
    IF s.agg[k].installed
    THEN [SetAgg(s, k, [s.agg[k] EXCEPT !.installed = FALSE]) EXCEPT !.nsm[k] = {}]
    ELSE s

\* The aggregator a link refers to when it leaves.
AggregatorOf(s, p) ==
    IF s.link[p].agg # NoAgg THEN s.link[p].agg ELSE LookupByKey(s, s.link[p].key)

\* Release the reference a link holds.  The code does not look at the flag.
ReleaseReference(s, p) ==
    LET k == AggregatorOf(s, p) IN
    IF k = NoAgg THEN s
    ELSE SetLink(SetAgg(s, k, [s.agg[k] EXCEPT !.refCnt = Decr(@)]),
                 p, [s.link[p] EXCEPT !.match = FALSE])

\* Leave the aggregator, or drop one nobody refers to any more.
LeaveAggregator(s, p, notify) ==
    LET k == AggregatorOf(s, p)
        t == CASE s.link[p].agg # NoAgg -> Disaggregate(s, p, notify)
               [] s.link[p].agg = NoAgg /\ k # NoAgg /\ s.agg[k].refCnt = 0 -> DeleteAtNsm(s, k)
               [] OTHER -> s
    IN  IF k # NoAgg /\ t.agg[k].refCnt = 0 THEN FreeAggregator(t, k) ELSE t

TimersOff(l) ==
    [l EXCEPT !.current_while = FALSE, !.wait_while = FALSE, !.periodic_timer = FALSE,
              !.actor_churn_timer = FALSE, !.partner_churn_timer = FALSE]

\* link_cleanup.
LinkCleanup(s, p, notify) ==
    LET t == LeaveAggregator(s, p, notify) IN SetLink(t, p, TimersOff(t.link[p]))

\* Faulty: the freed link stays in lacp_instance->links.
DeleteLinkListed(s, p, notify) ==
    SetLink(LinkCleanup(ReleaseReference(s, p), p, notify), p, NoLinkRec)

\* lacp_delete_link.
DeleteLink(s, p, notify) ==
    LET t == LinkCleanup(ReleaseReference(s, p), p, notify)
    IN  Refresh(SetLink(t, p, NoLinkRec), IsEnabled(t.link[p]))

\* A link whose aggregator is taken away.
Dropped(l) == [Unselected(l) EXCEPT !.match = FALSE]

\* lacp_aggregator_detach_links: the slots are independent, so the loop is
\* written at once.
DetachLinks(s, k, notify) ==
    LET a == s.agg[k]
        gone == Members(a)
        linkCnt == Cardinality(Occupied(a))
        left == [a EXCEPT !.slot = [i \in Slot |-> NoLink], !.receive_state = 0,
                          !.refCnt = (@ + 256 - linkCnt) % 256,
                          !.installed = @ /\ a.refCnt \notin 1..linkCnt]
    IN  IF gone = {} THEN s
        ELSE [SetAgg(s, k, left) EXCEPT
                !.link = [p \in Port |-> IF p \in gone THEN Dropped(s.link[p]) ELSE s.link[p]],
                !.nsm[k] = IF notify THEN @ \ gone ELSE @]
=============================================================================
