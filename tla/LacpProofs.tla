------------------------------ MODULE LacpProofs ------------------------------
(***************************************************************************)
(* Theorems about Lacp: its type, the agreement of the links with the       *)
(* aggregators after every handler, the list the selection logic walks, the *)
(* timers of the state machines, and that a new partner finds no traffic,   *)
(* whatever the constants are.                                             *)
(*                                                                         *)
(* The invariant that is inductive is IInv: SelectedHasAggregator and       *)
(* SlotsAgree are parts of it, and it adds that a link outside the hash     *)
(* table has no aggregator and no interface.  A handler starts only while   *)
(* no pointer dangles (Defined), which is what the attempts to aggregate    *)
(* inside it need.  The list and the timers need more, LInv: a link that    *)
(* has an interface has one that is present, or a deleted and announced     *)
(* interface could leave an enabled link out of the list.                   *)
(***************************************************************************)
EXTENDS Lacp, LacpSelectionProofs

----------------------------------------------------------------------------
(***************************************************************************)
(* The state machines keep what LacpSelectionProofs calls Inv and Live.     *)
(* Only the attempt to aggregate needs Live: a run of the machines with     *)
(* lacp_begin, and the machines of a port that is down, do not attempt it.  *)
(* The second half follows the timers through a run: every machine leaves   *)
(* its state with the timer that state must end with, if it found it so or  *)
(* the timer is the one whose expiry it handles.                            *)
(***************************************************************************)
LEMMA KeepsRefl == ASSUME NEW s, Inv(s) PROVE Keeps(s, s)
  BY DEF Keeps

LEMMA KeepsTrans ==
  ASSUME NEW s, NEW t, NEW u, Keeps(s, t), Keeps(t, u)
  PROVE  Keeps(s, u)
  BY DEF Keeps

LEMMA PatchKeeps ==
  ASSUME NEW s, Inv(s), NEW p \in Port, NEW l \in Link, SameLink(l, s.link[p])
  PROVE  Keeps(s, SetLink(s, p, l))
  BY PatchLink, QuietKeeps DEF Inv

LEMMA DisaggregateOk ==
  ASSUME NEW s, Inv(s), NEW p \in Port, NEW notify \in BOOLEAN
  PROVE  Keeps(s, Disaggregate(s, p, notify))
  BY DisaggregateKeeps DEF Keeps

----------------------------------------------------------------------------
(* What the machines do to a link.                                         *)

LEMMA PartnerType ==
  ASSUME NEW l \in Link, NEW i \in Info
  PROVE  [l EXCEPT !.partner = i] \in Link /\ SameLink([l EXCEPT !.partner = i], l)
<1>1. [l EXCEPT !.partner = i] \in Link BY ZenonT(40) DEF Link
<1>2. SameLink([l EXCEPT !.partner = i], l) BY ZenonT(40) DEF Link, SameLink
<1> QED BY <1>1, <1>2

LEMMA LinkFields ==
  ASSUME NEW l \in Link
  PROVE  /\ l.partner \in Info /\ l.up \in BOOLEAN /\ l.tx_count \in Short
         /\ l.act \in BOOLEAN /\ l.short \in BOOLEAN /\ l.sync \in BOOLEAN
         /\ l.dflt \in BOOLEAN /\ l.key \in Key \cup {0} /\ l.prio \in Prio
  BY ZenonT(40) DEF Link

LEMMA OutOfSyncType == ASSUME NEW i \in Info PROVE OutOfSync(i) \in Info
  BY Zenon DEF OutOfSync, Info

LEMMA RecordDefaultType ==
  ASSUME NEW l \in Link PROVE RecordDefault(l) \in Link /\ SameLink(RecordDefault(l), l)
<1>1. RecordDefault(l) \in Link BY DefaultPartnerType, ZenonT(40) DEF RecordDefault, Link
<1>2. SameLink(RecordDefault(l), l) BY ZenonT(40) DEF RecordDefault, Link, SameLink
<1> QED BY <1>1, <1>2

LEMMA RcvField ==
  ASSUME NEW l \in Link, NEW x \in {"INVALID", "PORT_DISABLED", "EXPIRED", "DEFAULTED", "CURRENT"}
  PROVE  LET m == [l EXCEPT !.rcv = x] IN m \in Link /\ SameLink(m, l)
<1> DEFINE m == [l EXCEPT !.rcv = x]
<1>1. m \in Link BY ZenonT(40) DEF Link
<1>2. SameLink(m, l) BY ZenonT(40) DEF Link, SameLink
<1> QED BY <1>1, <1>2

LEMMA RcvPartner ==
  ASSUME NEW l \in Link, NEW i \in Info,
         NEW x \in {"INVALID", "PORT_DISABLED", "EXPIRED", "DEFAULTED", "CURRENT"}
  PROVE  LET m == [l EXCEPT !.rcv = x, !.partner = i] IN m \in Link /\ SameLink(m, l)
<1> DEFINE m == [l EXCEPT !.rcv = x, !.partner = i]
<1>1. m \in Link BY ZenonT(40) DEF Link
<1>2. SameLink(m, l) BY ZenonT(40) DEF Link, SameLink
<1> QED BY <1>1, <1>2

LEMMA RcvTimer ==
  ASSUME NEW l \in Link, NEW x \in {"INVALID", "PORT_DISABLED", "EXPIRED", "DEFAULTED", "CURRENT"}
  PROVE  LET m == [l EXCEPT !.rcv = x, !.current_while = TRUE] IN m \in Link /\ SameLink(m, l)
<1> DEFINE m == [l EXCEPT !.rcv = x, !.current_while = TRUE]
<1>1. m \in Link BY ZenonT(40) DEF Link
<1>2. SameLink(m, l) BY ZenonT(40) DEF Link, SameLink
<1> QED BY <1>1, <1>2

LEMMA RcvBoth ==
  ASSUME NEW l \in Link, NEW x \in {"INVALID", "PORT_DISABLED", "EXPIRED", "DEFAULTED", "CURRENT"},
         NEW i \in Info
  PROVE  LET m == [l EXCEPT !.rcv = x, !.partner = i, !.current_while = TRUE] IN m \in Link /\ SameLink(m, l)
<1> DEFINE m == [l EXCEPT !.rcv = x, !.partner = i, !.current_while = TRUE]
<1>1. m \in Link BY ZenonT(40) DEF Link
<1>2. SameLink(m, l) BY ZenonT(40) DEF Link, SameLink
<1> QED BY <1>1, <1>2

LEMMA PortDisabledType ==
  ASSUME NEW l \in Link PROVE PortDisabled(l) \in Link /\ SameLink(PortDisabled(l), l)
<1>1. OutOfSync(l.partner) \in Info BY LinkFields, OutOfSyncType
<1> QED BY <1>1, RcvPartner, ZenonT(40) DEF PortDisabled

LEMMA ExpiredType ==
  ASSUME NEW l \in Link PROVE Expired(l) \in Link /\ SameLink(Expired(l), l)
<1> DEFINE i == OutOfSync(l.partner)
           j == [i EXCEPT !.short = TRUE]
<1>1. i \in Info BY LinkFields, OutOfSyncType
<1>2. j \in Info
  <2> HIDE DEF i
  <2> QED BY <1>1, Zenon DEF Info
<1>3. Expired(l) = [l EXCEPT !.rcv = "EXPIRED", !.partner = j, !.current_while = TRUE]
  BY DEF Expired
<1> HIDE DEF j
<1> QED BY <1>2, <1>3, RcvBoth, ZenonT(40)

LEMMA DefaultedType ==
  ASSUME NEW l \in Link PROVE Defaulted(l) \in Link /\ SameLink(Defaulted(l), l)
<1> DEFINE m == RecordDefault(l)
<1>1. m \in Link /\ SameLink(m, l) BY RecordDefaultType
<1>2. Defaulted(l) = [m EXCEPT !.rcv = "DEFAULTED"] BY DEF Defaulted
<1> HIDE DEF m
<1>3. Defaulted(l) \in Link /\ SameLink(Defaulted(l), m)
  BY <1>1, <1>2, RcvField
<1> QED BY <1>1, <1>3, SMT DEF SameLink

LEMMA CurrentType ==
  ASSUME NEW l \in Link PROVE Current(l) \in Link /\ SameLink(Current(l), l)
  BY RcvTimer, ZenonT(40) DEF Current

LEMMA PeriodicType ==
  ASSUME NEW l \in Link, NEW x \in {"INVALID", "NO_PERIODIC", "FAST", "SLOW"}, NEW b \in BOOLEAN
  PROVE  LET m == [l EXCEPT !.periodic = x, !.periodic_timer = b] IN m \in Link /\ SameLink(m, l)
<1> DEFINE m == [l EXCEPT !.periodic = x, !.periodic_timer = b]
<1>1. m \in Link BY ZenonT(40) DEF Link
<1>2. SameLink(m, l) BY ZenonT(40) DEF Link, SameLink
<1> QED BY <1>1, <1>2

LEMMA NextPeriodicType ==
  ASSUME NEW l \in Link, NEW ev
  PROVE  NextPeriodic(l, ev) \in Link /\ SameLink(NextPeriodic(l, ev), l)
<1> DEFINE Good(m) == m \in Link /\ SameLink(m, l)
<1>1. Good(NoPeriodic(l)) BY PeriodicType DEF NoPeriodic, Periodic
<1>2. Good(PeriodicTx(l))
  <2> DEFINE n == Ntt(l)
             x == IF l.partner.short THEN "FAST" ELSE "SLOW"
             m == [n EXCEPT !.periodic = x, !.periodic_timer = TRUE]
  <2>1. n \in Link /\ SameLink(n, l) BY NttType
  <2>2. x \in {"INVALID", "NO_PERIODIC", "FAST", "SLOW"} OBVIOUS
  <2>3. PeriodicTx(l) = m BY DEF PeriodicTx, Periodic
  <2> HIDE DEF n, x
  <2>4. m \in Link /\ SameLink(m, n) BY <2>1, <2>2, PeriodicType
  <2> HIDE DEF m
  <2> QED BY <2>1, <2>3, <2>4, SMT DEF SameLink
<1>3. Good(Periodic(l, "SLOW")) BY PeriodicType DEF Periodic
<1>4. Good(l) BY DEF SameLink
<1>5. \/ NextPeriodic(l, ev) = NoPeriodic(l)
      \/ NextPeriodic(l, ev) = PeriodicTx(l)
      \/ NextPeriodic(l, ev) = Periodic(l, "SLOW")
      \/ NextPeriodic(l, ev) = l
  BY Zenon DEF NextPeriodic
<1> HIDE DEF Good
<1>6. Good(NextPeriodic(l, ev)) BY <1>1, <1>2, <1>3, <1>4, <1>5
<1> QED BY <1>6 DEF Good

LEMMA MuxSync ==
  ASSUME NEW l \in Link, NEW x \in {"DETACHED", "WAITING", "ATTACHED", "COLLECTING_DISTRIBUTING"},
         NEW b \in BOOLEAN
  PROVE  LET m == [l EXCEPT !.mux = x, !.sync = b, !.ntt = TRUE] IN m \in Link /\ SameLink(m, l)
<1> DEFINE m == [l EXCEPT !.mux = x, !.sync = b, !.ntt = TRUE]
<1>1. m \in Link BY ZenonT(40) DEF Link
<1>2. SameLink(m, l) BY ZenonT(40) DEF Link, SameLink
<1> QED BY <1>1, <1>2

LEMMA MuxTimer ==
  ASSUME NEW l \in Link, NEW x \in {"DETACHED", "WAITING", "ATTACHED", "COLLECTING_DISTRIBUTING"}
  PROVE  LET m == [l EXCEPT !.mux = x, !.wait_while = TRUE] IN m \in Link /\ SameLink(m, l)
<1> DEFINE m == [l EXCEPT !.mux = x, !.wait_while = TRUE]
<1>1. m \in Link BY ZenonT(40) DEF Link
<1>2. SameLink(m, l) BY ZenonT(40) DEF Link, SameLink
<1> QED BY <1>1, <1>2

LEMMA MuxField ==
  ASSUME NEW l \in Link, NEW x \in {"DETACHED", "WAITING", "ATTACHED", "COLLECTING_DISTRIBUTING"}
  PROVE  LET m == [l EXCEPT !.mux = x, !.ntt = TRUE] IN m \in Link /\ SameLink(m, l)
<1> DEFINE m == [l EXCEPT !.mux = x, !.ntt = TRUE]
<1>1. m \in Link BY ZenonT(40) DEF Link
<1>2. SameLink(m, l) BY ZenonT(40) DEF Link, SameLink
<1> QED BY <1>1, <1>2

LEMMA MuxTypes ==
  ASSUME NEW l \in Link
  PROVE  /\ Detached(l) \in Link /\ SameLink(Detached(l), l)
         /\ Waiting(l) \in Link /\ SameLink(Waiting(l), l)
         /\ Attached(l) \in Link /\ SameLink(Attached(l), l)
         /\ CollectingDistributing(l) \in Link /\ SameLink(CollectingDistributing(l), l)
<1>1. Detached(l) \in Link /\ SameLink(Detached(l), l) BY MuxSync DEF Detached
<1>2. Waiting(l) \in Link /\ SameLink(Waiting(l), l) BY MuxTimer DEF Waiting
<1>3. Attached(l) \in Link /\ SameLink(Attached(l), l) BY MuxSync, ZenonT(40) DEF Attached
<1>4. CollectingDistributing(l) \in Link /\ SameLink(CollectingDistributing(l), l)
  BY MuxField, ZenonT(40) DEF CollectingDistributing
<1> QED BY <1>1, <1>2, <1>3, <1>4

LEMMA ChurnedType ==
  ASSUME NEW l \in Link, NEW ev
  PROVE  Churned(l, ev) \in Link /\ SameLink(Churned(l, ev), l)
<1> DEFINE monitor == ev.type = "begin" \/ ~l.up
           a == IF monitor THEN "MONITOR"
                ELSE NextChurn(l.actor_churn, l.sync, ev.type = "actor_churn")
           b == IF monitor THEN "MONITOR"
                ELSE NextChurn(l.partner_churn, l.partner.sync, ev.type = "partner_churn")
           armed(old, new) == new = "MONITOR" /\ (monitor \/ old # new)
           x == l.actor_churn_timer \/ armed(l.actor_churn, a)
           y == l.partner_churn_timer \/ armed(l.partner_churn, b)
           m == [l EXCEPT !.actor_churn = a, !.partner_churn = b,
                          !.actor_churn_timer = x, !.partner_churn_timer = y]
<1>1. l.actor_churn \in Churn /\ l.partner_churn \in Churn BY ZenonT(40) DEF Link
<1>2. \A c \in Churn : \A v, e : NextChurn(c, v, e) \in Churn BY SMT DEF NextChurn, Churn
<1>3. a \in Churn /\ b \in Churn
  <2>1. "MONITOR" \in Churn BY DEF Churn
  <2> HIDE DEF monitor
  <2> QED BY <1>1, <1>2, <2>1, Zenon
<1>4. x \in BOOLEAN /\ y \in BOOLEAN BY Zenon
<1>5. Churned(l, ev) = m BY Zenon DEF Churned
<1> HIDE DEF a, b, x, y
<1>6. m \in Link BY <1>3, <1>4, ZenonT(40) DEF Link
<1>7. SameLink(m, l) BY ZenonT(40) DEF Link, SameLink
<1> HIDE DEF m
<1> QED BY <1>5, <1>6, <1>7
LEMMA TxType ==
  ASSUME NEW l \in Link, NEW n \in Short, NEW b \in BOOLEAN
  PROVE  /\ [l EXCEPT !.ntt = b, !.tx_count = n] \in Link
         /\ SameLink([l EXCEPT !.ntt = b, !.tx_count = n], l)
         /\ [l EXCEPT !.ntt = b] \in Link /\ SameLink([l EXCEPT !.ntt = b], l)
         /\ [l EXCEPT !.tx_count = n] \in Link /\ SameLink([l EXCEPT !.tx_count = n], l)
<1>1. [l EXCEPT !.ntt = b, !.tx_count = n] \in Link BY ZenonT(40) DEF Link
<1>2. SameLink([l EXCEPT !.ntt = b, !.tx_count = n], l) BY ZenonT(40) DEF Link, SameLink
<1>3. [l EXCEPT !.ntt = b] \in Link BY ZenonT(40) DEF Link
<1>4. SameLink([l EXCEPT !.ntt = b], l) BY ZenonT(40) DEF Link, SameLink
<1>5. [l EXCEPT !.tx_count = n] \in Link BY ZenonT(40) DEF Link
<1>6. SameLink([l EXCEPT !.tx_count = n], l) BY ZenonT(40) DEF Link, SameLink
<1> QED BY <1>1, <1>2, <1>3, <1>4, <1>5, <1>6

----------------------------------------------------------------------------
(* The receive machine.                                                    *)

LEMMA RecordPduKeeps ==
  ASSUME NEW s, Inv(s), NEW p \in Port, NEW m \in Pdu
  PROVE  Keeps(s, RecordPdu(s, p, m))
<1> DEFINE l == s.link[p]
           maintaining == m.actor.act \/ (l.act /\ m.partner.act)
           knowsMe == Identity(m.partner) = Identity(OwnInfo(s, p))
           inSync == m.actor.sync /\ maintaining /\ (knowsMe \/ ~m.actor.aggr)
           i == [m.actor EXCEPT !.sync = inSync]
           n == [l EXCEPT !.partner = i, !.dflt = FALSE]
<1>1. l \in Link BY LinkType DEF Inv
<1>2. m.actor \in Info BY SMT DEF Pdu
<1>3. inSync \in BOOLEAN BY Zenon
<1>4. i \in Info
  <2> HIDE DEF inSync
  <2> QED BY <1>2, <1>3, Zenon DEF Info
<1>5. RecordPdu(s, p, m) = SetLink(s, p, n) BY Zenon DEF RecordPdu
<1>6. n \in Link
  <2> HIDE DEF i, l
  <2> QED BY <1>1, <1>4, ZenonT(40) DEF Link
<1>7. SameLink(n, s.link[p])
  <2> HIDE DEF i
  <2> QED BY <1>1, ZenonT(40) DEF Link, SameLink
<1> HIDE DEF n
<1> QED BY <1>5, <1>6, <1>7, PatchKeeps

LEMMA UpdateNttKeeps ==
  ASSUME NEW s, Inv(s), NEW p \in Port, NEW m \in Pdu
  PROVE  Keeps(s, UpdateNtt(s, p, m))
<1>1. Ntt(s.link[p]) \in Link /\ SameLink(Ntt(s.link[p]), s.link[p]) BY LinkType, NttType DEF Inv
<1>2. Keeps(s, SetLink(s, p, Ntt(s.link[p]))) BY <1>1, PatchKeeps
<1>3. UpdateNtt(s, p, m) = s \/ UpdateNtt(s, p, m) = SetLink(s, p, Ntt(s.link[p]))
  BY DEF UpdateNtt
<1> QED BY <1>2, <1>3, KeepsRefl

LEMMA UpdateSelectedKeeps ==
  ASSUME NEW s, Inv(s), NEW p \in Port, NEW m \in Pdu
  PROVE  Keeps(s, UpdateSelected(s, p, m)) /\ Keeps(s, UpdateDefaultSelected(s, p))
  BY DisaggregateOk, KeepsRefl DEF UpdateSelected, UpdateDefaultSelected

LEMMA RcvCurrentKeeps ==
  ASSUME NEW s, Inv(s), NEW p \in Port, NEW m \in Pdu
  PROVE  Keeps(s, RcvCurrent(s, p, m))
<1> DEFINE t == UpdateSelected(s, p, m)
           u == UpdateNtt(t, p, m)
           v == RecordPdu(u, p, m)
<1>1. Keeps(s, t) BY UpdateSelectedKeeps
<1>2. Inv(t) BY <1>1 DEF Keeps
<1>3. Keeps(t, u)
  <2> HIDE DEF t
  <2> QED BY <1>2, UpdateNttKeeps
<1>4. Inv(u) BY <1>3 DEF Keeps
<1>5. Keeps(u, v)
  <2> HIDE DEF u
  <2> QED BY <1>4, RecordPduKeeps
<1>6. Inv(v) BY <1>5 DEF Keeps
<1>7. Keeps(v, SetLink(v, p, Current(v.link[p])))
  <2> HIDE DEF v
  <2> QED BY <1>6, LinkType, CurrentType, PatchKeeps DEF Inv
<1>8. RcvCurrent(s, p, m) = SetLink(v, p, Current(v.link[p])) BY Zenon DEF RcvCurrent
<1> HIDE DEF t, u, v
<1> QED BY <1>1, <1>3, <1>5, <1>7, <1>8, KeepsTrans

LEMMA RcvDefaultedKeeps ==
  ASSUME NEW s, Inv(s), NEW p \in Port
  PROVE  Keeps(s, RcvDefaulted(s, p))
<1> DEFINE t == UpdateDefaultSelected(s, p)
<1>1. Keeps(s, t) BY DisaggregateOk, KeepsRefl DEF UpdateDefaultSelected
<1>2. RcvDefaulted(s, p) = SetLink(t, p, Defaulted(t.link[p])) BY DEF RcvDefaulted
<1> HIDE DEF t
<1>3. Inv(t) BY <1>1 DEF Keeps
<1>4. Keeps(t, SetLink(t, p, Defaulted(t.link[p])))
  BY <1>3, LinkType, DefaultedType, PatchKeeps DEF Inv
<1> QED BY <1>1, <1>2, <1>4, KeepsTrans

\* A link without an aggregator may be made UNSELECTED.
LEMMA ResetKeeps ==
  ASSUME NEW s, Inv(s), NEW p \in Port, s.link[p].agg = NoAgg
  PROVE  Keeps(s, SetLink(s, p, [s.link[p] EXCEPT !.selected = "UNSELECTED"]))
<1> DEFINE l == s.link[p]
           m == [l EXCEPT !.selected = "UNSELECTED"]
<1>1. l \in Link BY LinkType DEF Inv
<1>2. m \in Link BY <1>1, ZenonT(40) DEF Link
<1>3. m.agg = l.agg /\ m.selected = "UNSELECTED" /\ m.exists = l.exists /\ m.ifp = l.ifp
  BY <1>1, ZenonT(40) DEF Link
<1>4. ~l.exists => ~l.ifp BY DEF Inv, Absent
<1>5. \A k \in Key, i \in Slot : s.agg[k].slot[i] # p BY NoSlot, ZeroNotKey
<1> HIDE DEF m
<1>6. Keeps(s, SetLink(s, p, m)) BY <1>2, <1>3, <1>4, <1>5, LooseKeeps
<1> QED BY <1>6 DEF m

LEMMA RcvInitializeKeeps ==
  ASSUME NEW s, Inv(s), NEW p \in Port
  PROVE  Keeps(s, RcvInitialize(s, p))
<1> DEFINE t == IF s.link[p].agg # NoAgg THEN Disaggregate(s, p, TRUE)
                ELSE SetLink(s, p, [s.link[p] EXCEPT !.selected = "UNSELECTED"])
           l == RecordDefault(t.link[p])
           m == PortDisabled(l)
<1>1. Keeps(s, t)
  <2>1. CASE s.link[p].agg # NoAgg BY <2>1, DisaggregateOk
  <2>2. CASE s.link[p].agg = NoAgg BY <2>2, ResetKeeps
  <2> QED BY <2>1, <2>2
<1>2. RcvInitialize(s, p) = SetLink(t, p, m) BY Zenon DEF RcvInitialize
<1> HIDE DEF t
<1>3. Inv(t) /\ t.link[p] \in Link BY <1>1, LinkType DEF Keeps, Inv
<1>4. l \in Link /\ SameLink(l, t.link[p]) BY <1>3, RecordDefaultType
<1> HIDE DEF l
<1>5. m \in Link /\ SameLink(m, l) BY <1>4, PortDisabledType
<1> HIDE DEF m
<1>6. SameLink(m, t.link[p]) BY <1>4, <1>5, SMT DEF SameLink
<1>7. Keeps(t, SetLink(t, p, m)) BY <1>3, <1>5, <1>6, PatchKeeps
<1> QED BY <1>1, <1>2, <1>7, KeepsTrans

LEMMA RcvSmKeeps ==
  ASSUME NEW s, Inv(s), NEW p \in Port, NEW ev, ev.pdu \in Pdu
  PROVE  Keeps(s, RcvSm(s, p, ev))
<1>0. s.link[p] \in Link BY LinkType DEF Inv
<1>1. Keeps(s, RcvInitialize(s, p)) BY RcvInitializeKeeps
<1>2. Keeps(s, SetLink(s, p, PortDisabled(s.link[p]))) BY <1>0, PortDisabledType, PatchKeeps
<1>3. Keeps(s, SetLink(s, p, Expired(s.link[p]))) BY <1>0, ExpiredType, PatchKeeps
<1>4. Keeps(s, RcvCurrent(s, p, ev.pdu)) BY RcvCurrentKeeps
<1>5. Keeps(s, RcvDefaulted(s, p)) BY RcvDefaultedKeeps
<1>6. Keeps(s, s) BY KeepsRefl
<1>7. RcvSm(s, p, ev) \in {RcvInitialize(s, p), SetLink(s, p, PortDisabled(s.link[p])),
                           SetLink(s, p, Expired(s.link[p])), RcvCurrent(s, p, ev.pdu),
                           RcvDefaulted(s, p), s}
  BY Zenon DEF RcvSm
<1> QED BY <1>1, <1>2, <1>3, <1>4, <1>5, <1>6, <1>7

----------------------------------------------------------------------------
(* The periodic transmission and churn machines.                           *)

LEMMA PeriodicTxSmKeeps ==
  ASSUME NEW s, Inv(s), NEW p \in Port, NEW ev
  PROVE  Keeps(s, PeriodicTxSm(s, p, ev))
<1>1. s.link[p] \in Link BY LinkType DEF Inv
<1> QED BY <1>1, NextPeriodicType, PatchKeeps DEF PeriodicTxSm

LEMMA ChurnSmKeeps ==
  ASSUME NEW s, Inv(s), NEW p \in Port, NEW ev
  PROVE  Keeps(s, ChurnSm(s, p, ev))
<1>1. s.link[p] \in Link BY LinkType DEF Inv
<1> QED BY <1>1, ChurnedType, PatchKeeps DEF ChurnSm

LEMMA ReadyLogicKeeps == ASSUME NEW s, Inv(s) PROVE Keeps(s, ReadyLogic(s))
  BY ReadyLogicQuiet, QuietKeeps DEF Inv

----------------------------------------------------------------------------
(* The mux machine.                                                        *)

LEMMA MuxDetachedKeeps ==
  ASSUME NEW s, Inv(s), NEW p \in Port
  PROVE  Keeps(s, MuxDetached(s, p))
<1> DEFINE t == SetLink(s, p, Detached(s.link[p]))
<1>1. Keeps(s, t) BY LinkType, MuxTypes, PatchKeeps DEF Inv
<1>2. MuxDetached(s, p) = DisableCollectingDistributing(t, p) BY DEF MuxDetached
<1> HIDE DEF t
<1>3. Keeps(t, DisableCollectingDistributing(t, p))
  BY <1>1, DisableQuiet, QuietKeeps DEF Keeps, Inv
<1> QED BY <1>1, <1>2, <1>3, KeepsTrans

LEMMA MuxCollectingDistributingKeeps ==
  ASSUME NEW s, Inv(s), NEW p \in Port
  PROVE  Keeps(s, MuxCollectingDistributing(s, p))
<1> DEFINE t == SetLink(s, p, CollectingDistributing(s.link[p]))
<1>1. Keeps(s, t) BY LinkType, MuxTypes, PatchKeeps DEF Inv
<1>2. MuxCollectingDistributing(s, p) = EnableCollectingDistributing(t, p)
  BY DEF MuxCollectingDistributing
<1> HIDE DEF t
<1>3. Keeps(t, EnableCollectingDistributing(t, p))
  BY <1>1, EnableQuiet, QuietKeeps DEF Keeps, Inv
<1> QED BY <1>1, <1>2, <1>3, KeepsTrans

LEMMA AttemptOk ==
  ASSUME NEW s, Inv(s), NEW p \in Port, Live(s) \/ ~IsEnabled(s.link[p])
  PROVE  Keeps(s, AttemptToAggregate(s, p))
<1>1. CASE IsEnabled(s.link[p]) BY <1>1, AttemptKeeps DEF Keeps
<1>2. CASE ~IsEnabled(s.link[p])
  <2>1. AttemptToAggregate(s, p) = s BY <1>2, Zenon DEF AttemptToAggregate
  <2> QED BY <2>1, KeepsRefl
<1> QED BY <1>1, <1>2

LEMMA MuxAttachedKeeps ==
  ASSUME NEW s, Inv(s), NEW p \in Port, Live(s) \/ ~IsEnabled(s.link[p])
  PROVE  Keeps(s, MuxAttached(s, p))
<1> DEFINE t == AttemptToAggregate(s, p)
           u == SetLink(t, p, Attached(t.link[p]))
<1>1. Keeps(s, t) BY AttemptOk
<1>2. MuxAttached(s, p) = DisableCollectingDistributing(u, p) BY DEF MuxAttached, Attach
<1> HIDE DEF t
<1>3. Keeps(t, u) BY <1>1, LinkType, MuxTypes, PatchKeeps DEF Keeps, Inv
<1> HIDE DEF u
<1>4. Keeps(u, DisableCollectingDistributing(u, p))
  BY <1>3, DisableQuiet, QuietKeeps DEF Keeps, Inv
<1> QED BY <1>1, <1>2, <1>3, <1>4, KeepsTrans

LEMMA CrashQuiet == ASSUME NEW s \in DaemonState PROVE Quiet(s, [s EXCEPT !.crashed = TRUE])
<1> DEFINE t == [s EXCEPT !.crashed = TRUE]
<1>1. t \in DaemonState BY Zenon DEF DaemonState
<1>2. t.link = s.link /\ t.agg = s.agg BY Zenon DEF DaemonState
<1>6. t.agg_cnt = s.agg_cnt /\ t.static = s.static BY Zenon DEF DaemonState
<1> HIDE DEF t
<1>3. Quiet(s, t) BY <1>1, <1>2, <1>6 DEF Quiet, Calm, SameCounts, SameLink, SameAgg
<1> QED BY <1>3 DEF t

LEMMA MuxSmKeeps ==
  ASSUME NEW s, Inv(s), NEW p \in Port, NEW ev,
         Live(s) \/ ~IsEnabled(s.link[p]) \/ ev.type = "begin"
  PROVE  Keeps(s, MuxSm(s, p, ev))
<1> DEFINE crash == [s EXCEPT !.crashed = TRUE]
           waiting == SetLink(s, p, Waiting(s.link[p]))
<1>1. Keeps(s, MuxDetached(s, p)) BY MuxDetachedKeeps
<1>2. Keeps(s, crash) BY CrashQuiet, QuietKeeps DEF Inv
<1>3. Keeps(s, waiting) BY LinkType, MuxTypes, PatchKeeps DEF Inv
<1>4. Keeps(s, MuxCollectingDistributing(s, p)) BY MuxCollectingDistributingKeeps
<1>5. Keeps(s, s) BY KeepsRefl
<1>6. CASE ev.type = "begin"
  <2>1. MuxSm(s, p, ev) = MuxDetached(s, p) BY <1>6, Zenon DEF MuxSm
  <2> QED BY <1>1, <2>1
<1>7. CASE ev.type # "begin"
  <2>1. Keeps(s, MuxAttached(s, p)) BY <1>7, MuxAttachedKeeps
  <2>2. MuxSm(s, p, ev) \in {MuxDetached(s, p), crash, waiting, MuxAttached(s, p),
                             MuxCollectingDistributing(s, p), s}
    BY Zenon DEF MuxSm
  <2> HIDE DEF crash, waiting
  <2> QED BY <1>1, <1>2, <1>3, <1>4, <1>5, <2>1, <2>2
<1> QED BY <1>6, <1>7

----------------------------------------------------------------------------
(* Transmission, and a run of all the machines.                            *)

LEMMA FrameType ==
  ASSUME NEW s \in DaemonState, NEW p \in Port
  PROVE  Frame(s, p) \in [port: Port, pdu: [actor: Info, partner: Info]]
<1> DEFINE l == s.link[p]
<1>1. l \in Link BY LinkType
<1>2. /\ l.partner \in Info /\ l.act \in BOOLEAN /\ l.short \in BOOLEAN /\ l.sync \in BOOLEAN
      /\ l.dflt \in BOOLEAN /\ l.key \in Key \cup {0} /\ l.prio \in Prio
  BY <1>1, LinkFields
<1>3. s.system_priority \in Prio BY Zenon DEF DaemonState
<1>4. MySystem \in System BY SystemAssumption
<1>5. p \in Port \cup {0} /\ l.prio \in Prio \cup {0} BY <1>2
<1> HIDE DEF l
<1>6. OwnInfo(s, p) \in Info BY <1>2, <1>3, <1>4, <1>5, Zenon DEF OwnInfo, Info, l
<1>7. FormatLacpdu(s, p) \in [actor: Info, partner: Info]
  BY <1>2, <1>6, Zenon DEF FormatLacpdu, l
<1> QED BY <1>7 DEF Frame

LEMMA SentQuiet ==
  ASSUME NEW s \in DaemonState, NEW f \in [port: Port, pdu: [actor: Info, partner: Info]]
  PROVE  Quiet(s, [s EXCEPT !.sent = Append(s.sent, f)])
<1> DEFINE F == [port: Port, pdu: [actor: Info, partner: Info]]
           q == Append(s.sent, f)
           t == [s EXCEPT !.sent = q]
<1>1. s.sent \in Seq(F) BY Zenon DEF DaemonState
<1>2. q \in Seq(F)
  <2> HIDE DEF F
  <2> QED BY <1>1, SMT DEF F
<1> HIDE DEF q
<1>3. t \in DaemonState BY <1>2, Zenon DEF DaemonState
<1>4. t.link = s.link /\ t.agg = s.agg BY Zenon DEF DaemonState
<1>6. t.agg_cnt = s.agg_cnt /\ t.static = s.static BY Zenon DEF DaemonState
<1> HIDE DEF t
<1>5. Quiet(s, t) BY <1>3, <1>4, <1>6 DEF Quiet, Calm, SameCounts, SameLink, SameAgg
<1> QED BY <1>5 DEF t, q

LEMMA TxKeeps ==
  ASSUME NEW s, Inv(s), NEW p \in Port
  PROVE  Keeps(s, Tx(s, p))
<1> DEFINE l == s.link[p]
           n == l.tx_count + 1
           f == Frame(s, p)
           silent == SetLink(s, p, [l EXCEPT !.ntt = FALSE])
           t == SetLink(s, p, [l EXCEPT !.ntt = FALSE, !.tx_count = n])
           spoken == [t EXCEPT !.sent = Append(s.sent, f)]
<1>0. s \in DaemonState BY DEF Inv
<1>1. l \in Link BY <1>0, LinkType
<1>2. l.tx_count \in Short BY <1>1, LinkFields
<1>3. Keeps(s, silent)
  <2>1. [l EXCEPT !.ntt = FALSE] \in Link /\ SameLink([l EXCEPT !.ntt = FALSE], l)
    BY <1>1, <1>2, TxType
  <2> QED BY <2>1, PatchKeeps
<1>4. ASSUME l.tx_count < TxLimit PROVE Keeps(s, spoken)
  <2>1. n \in Short BY <1>2, <1>4, LimitAssumption, ShortType, SMT DEF Short
  <2>2. Keeps(s, t)
    <3> HIDE DEF l, n
    <3>1. [l EXCEPT !.ntt = FALSE, !.tx_count = n] \in Link
          /\ SameLink([l EXCEPT !.ntt = FALSE, !.tx_count = n], l)
      BY <1>1, <2>1, TxType
    <3> QED BY <3>1, PatchKeeps DEF l
  <2>3. t.sent = s.sent BY <1>0, ZenonT(40) DEF SetLink, DaemonState
  <2>4. f \in [port: Port, pdu: [actor: Info, partner: Info]] BY <1>0, FrameType
  <2> HIDE DEF t, f
  <2>5. Quiet(t, [t EXCEPT !.sent = Append(t.sent, f)]) BY <2>2, <2>4, SentQuiet DEF Keeps, Inv
  <2>6. Keeps(t, spoken) BY <2>2, <2>3, <2>5, QuietKeeps DEF Keeps
  <2> HIDE DEF spoken
  <2> QED BY <2>2, <2>6, KeepsTrans
<1>5. \/ Tx(s, p) = silent
      \/ Tx(s, p) = spoken /\ l.tx_count < TxLimit
      \/ Tx(s, p) = s
  <2>1. t.sent = s.sent BY <1>0, ZenonT(40) DEF SetLink, DaemonState
  <2>2. \/ Tx(s, p) = silent
        \/ Tx(s, p) = [t EXCEPT !.sent = Append(t.sent, f)] /\ l.tx_count < TxLimit
        \/ Tx(s, p) = s
    BY Zenon DEF Tx
  <2> HIDE DEF t
  <2> QED BY <2>1, <2>2
<1>6. Keeps(s, s) BY KeepsRefl
<1> HIDE DEF silent, spoken
<1> QED BY <1>3, <1>4, <1>5, <1>6

LEMMA ShortNext == ASSUME NEW n \in Short PROVE (n + 1) % (MaxShort + 1) \in Short
  BY ShortType, SMT DEF Short

LEMMA MarkerTxKeeps ==
  ASSUME NEW s, Inv(s), NEW p \in Port
  PROVE  Keeps(s, MarkerTx(s, p))
<1> DEFINE n == (s.link[p].tx_count + 1) % (MaxShort + 1)
           l == [s.link[p] EXCEPT !.tx_count = n]
<1>1. s.link[p] \in Link BY LinkType DEF Inv
<1>2. n \in Short BY <1>1, LinkFields, ShortNext
<1>3. MarkerTx(s, p) \in {s, SetLink(s, p, l)} BY DEF MarkerTx
<1> HIDE DEF n
<1>4. l \in Link /\ SameLink(l, s.link[p])
  <2>1. TRUE \in BOOLEAN OBVIOUS
  <2> QED BY <1>1, <1>2, <2>1, TxType
<1> HIDE DEF l
<1>5. Keeps(s, SetLink(s, p, l)) BY <1>4, PatchKeeps
<1> QED BY <1>3, <1>5, KeepsRefl

LEMMA MachinesKeep ==
  ASSUME NEW s, Inv(s), NEW p \in Port, NEW ev, ev.pdu \in Pdu, Live(s) \/ ev.type = "begin"
  PROVE  Keeps(s, Machines(s, p, ev))
<1> DEFINE a == RcvSm(s, p, ev)
           b == PeriodicTxSm(a, p, ev)
           c == ReadyLogic(b)
           d == MuxSm(c, p, ev)
           e == ChurnSm(d, p, ev)
<1>1. Keeps(s, a) BY RcvSmKeeps
<1>2. Machines(s, p, ev) = Tx(e, p) BY DEF Machines
<1> HIDE DEF a
<1>3. Keeps(a, b) BY <1>1, PeriodicTxSmKeeps DEF Keeps
<1> HIDE DEF b
<1>4. Keeps(b, c) BY <1>3, ReadyLogicKeeps DEF Keeps
<1> HIDE DEF c
<1>5. Keeps(s, c) BY <1>1, <1>3, <1>4, KeepsTrans
<1>6. Keeps(c, d) BY <1>5, MuxSmKeeps DEF Keeps
<1> HIDE DEF d
<1>7. Keeps(d, e) BY <1>6, ChurnSmKeeps DEF Keeps
<1> HIDE DEF e
<1>8. Keeps(e, Tx(e, p)) BY <1>7, TxKeeps DEF Keeps
<1>9. Keeps(s, e) BY <1>5, <1>6, <1>7, KeepsTrans
<1> QED BY <1>2, <1>8, <1>9, KeepsTrans

LEMMA AttachMuxKeeps ==
  ASSUME NEW s, Inv(s), NEW p \in Port
  PROVE  Keeps(s, AttachMux(s, p)) /\ Keeps(s, DetachMux(s, p, TRUE))
<1>1. Quiet(s, AttachMux(s, p)) BY AttachQuiet DEF Inv
<1>2. Quiet(s, DetachMux(s, p, TRUE)) BY DetachQuiet DEF Inv
<1> QED BY <1>1, <1>2, QuietKeeps

LEMMA RunSmKeeps ==
  ASSUME NEW s, Inv(s), NEW p \in Port, NEW ev, ev.pdu \in Pdu, Live(s) \/ ev.type = "begin"
  PROVE  Keeps(s, RunSm(s, p, ev))
<1> DEFINE t == Machines(s, p, ev)
<1>1. Keeps(s, t) BY MachinesKeep
<1>2. RunSm(s, p, ev) \in {s, AttachMux(t, p), DetachMux(t, p, TRUE), t} BY Zenon DEF RunSm, TellNsm
<1> HIDE DEF t
<1>3. Keeps(t, AttachMux(t, p)) /\ Keeps(t, DetachMux(t, p, TRUE))
  BY <1>1, AttachMuxKeeps DEF Keeps
<1>4. Keeps(s, AttachMux(t, p)) /\ Keeps(s, DetachMux(t, p, TRUE)) BY <1>1, <1>3, KeepsTrans
<1> QED BY <1>1, <1>2, <1>4, KeepsRefl

LEMMA NoPduType == NoPdu \in Pdu
  BY DefaultPartnerType DEF NoPdu, Pdu

LEMMA InitializeLinkKeeps ==
  ASSUME NEW s, Inv(s), NEW p \in Port
  PROVE  Keeps(s, InitializeLink(s, p))
<1> DEFINE t == SetLink(s, p, Ntt(s.link[p]))
<1>1. Keeps(s, t) BY LinkType, NttType, PatchKeeps DEF Inv
<1>2. Begin.pdu \in Pdu /\ Begin.type = "begin" BY NoPduType DEF Begin
<1>3. InitializeLink(s, p) \in {s, RunSm(t, p, Begin)} BY DEF InitializeLink
<1> HIDE DEF t
<1>4. Keeps(t, RunSm(t, p, Begin)) BY <1>1, <1>2, RunSmKeeps DEF Keeps
<1>5. Keeps(s, RunSm(t, p, Begin)) BY <1>1, <1>4, KeepsTrans
<1> QED BY <1>3, <1>5, KeepsRefl

----------------------------------------------------------------------------
(* The timers of a link.                                                   *)

RcvTick(l)      == l.rcv \in {"EXPIRED", "CURRENT"} => l.current_while
PeriodicTick(l) == l.periodic \in {"FAST", "SLOW"} => l.periodic_timer
ActorTick(l)    == l.actor_churn = "MONITOR" => l.actor_churn_timer
PartnerTick(l)  == l.partner_churn = "MONITOR" => l.partner_churn_timer
WaitTick(l)     == Owed(l) => l.wait_while

\* Every timer a state of a link must end with runs.
Ticks(l) == RcvTick(l) /\ PeriodicTick(l) /\ ActorTick(l) /\ PartnerTick(l) /\ WaitTick(l)

\* So it was before the timer whose expiry is ev stopped.
Due(l, ev) ==
    ev.type # "begin" =>
        /\ RcvTick(l) \/ ev.type = "current_while"
        /\ PeriodicTick(l) \/ ev.type = "periodic"
        /\ ActorTick(l) \/ ev.type = "actor_churn"
        /\ PartnerTick(l) \/ ev.type = "partner_churn"
        /\ WaitTick(l)

LEMMA RestsTicks == ASSUME NEW l, NEW m, Rests(m, l), Ticks(l) PROVE Ticks(m)
<1>1. RcvTick(m) BY DEF Rests, SameRcv, Ticks, RcvTick
<1>2. PeriodicTick(m) BY DEF Rests, SamePeriodic, Ticks, PeriodicTick
<1>3. ActorTick(m) /\ PartnerTick(m) BY DEF Rests, SameChurn, Ticks, ActorTick, PartnerTick
<1>4. WaitTick(m) BY DEF Rests, SameMux, Ticks, WaitTick
<1> QED BY <1>1, <1>2, <1>3, <1>4 DEF Ticks

----------------------------------------------------------------------------
(* The receive machine.                                                    *)

\* What it leaves alone, and what those of its steps leave alone that do not
\* take the aggregator away.
Hears(m, l) == SameFace(m, l) /\ SamePeriodic(m, l) /\ SameChurn(m, l) /\ SameMux(m, l)
Notes(m, l) == Hears(m, l) /\ m.selected = l.selected

LEMMA HearsTrans ==
  ASSUME NEW l, NEW m, NEW n, Hears(m, l), Hears(n, m)
  PROVE  Hears(n, l)
  BY DEF Hears, SameFace, SamePeriodic, SameChurn, SameMux

LEMMA RestsHears == ASSUME NEW l, NEW m, Rests(m, l) PROVE Hears(m, l)
  BY DEF Hears, Rests

LEMMA PartnerNotes ==
  ASSUME NEW l \in Link, NEW i \in Info, NEW d \in BOOLEAN
  PROVE  LET m == [l EXCEPT !.partner = i, !.dflt = d] IN Notes(m, l) /\ m.partner = i
<1> DEFINE m == [l EXCEPT !.partner = i, !.dflt = d]
<1>1. SameFace(m, l) /\ SamePeriodic(m, l) /\ SameChurn(m, l)
  BY ZenonT(40) DEF Link, SameFace, SamePeriodic, SameChurn
<1>2. SameMux(m, l) /\ m.selected = l.selected BY ZenonT(40) DEF Link, SameMux, Owed
<1>3. m.partner = i BY ZenonT(40) DEF Link
<1> QED BY <1>1, <1>2, <1>3 DEF Notes, Hears

LEMMA RcvNotes ==
  ASSUME NEW l \in Link, NEW x
  PROVE  LET m == [l EXCEPT !.rcv = x] IN Notes(m, l) /\ m.rcv = x
<1> DEFINE m == [l EXCEPT !.rcv = x]
<1>1. SameFace(m, l) /\ SamePeriodic(m, l) /\ SameChurn(m, l)
  BY ZenonT(40) DEF Link, SameFace, SamePeriodic, SameChurn
<1>2. SameMux(m, l) /\ m.selected = l.selected BY ZenonT(40) DEF Link, SameMux, Owed
<1>3. m.rcv = x BY ZenonT(40) DEF Link
<1> QED BY <1>1, <1>2, <1>3 DEF Notes, Hears

LEMMA OutOfSyncSystem == ASSUME NEW i \in Info PROVE OutOfSync(i).sys = i.sys
  BY Zenon DEF OutOfSync, Info

LEMMA PortDisabledNotes ==
  ASSUME NEW l \in Link
  PROVE  /\ Notes(PortDisabled(l), l) /\ SameSystem(PortDisabled(l), l)
         /\ PortDisabled(l).rcv = "PORT_DISABLED"
<1> DEFINE i == OutOfSync(l.partner)
           m == [l EXCEPT !.rcv = "PORT_DISABLED", !.partner = i]
<1>1. i \in Info /\ i.sys = l.partner.sys BY LinkFields, OutOfSyncType, OutOfSyncSystem
<1>2. PortDisabled(l) = m BY DEF PortDisabled
<1> HIDE DEF i
<1>3. SameFace(m, l) /\ SamePeriodic(m, l) /\ SameChurn(m, l)
  BY ZenonT(40) DEF Link, SameFace, SamePeriodic, SameChurn
<1>4. SameMux(m, l) /\ m.selected = l.selected BY ZenonT(40) DEF Link, SameMux, Owed
<1>5. m.rcv = "PORT_DISABLED" /\ m.partner = i BY ZenonT(40) DEF Link
<1> HIDE DEF m
<1> QED BY <1>1, <1>2, <1>3, <1>4, <1>5 DEF Notes, Hears, SameSystem

LEMMA ExpiredNotes ==
  ASSUME NEW l \in Link
  PROVE  /\ Notes(Expired(l), l) /\ SameSystem(Expired(l), l)
         /\ Expired(l).current_while
<1> DEFINE j == OutOfSync(l.partner)
           i == [j EXCEPT !.short = TRUE]
           m == [l EXCEPT !.rcv = "EXPIRED", !.partner = i, !.current_while = TRUE]
<1>1. j \in Info /\ j.sys = l.partner.sys BY LinkFields, OutOfSyncType, OutOfSyncSystem
<1>2. Expired(l) = m BY DEF Expired
<1> HIDE DEF j
<1>3. i.sys = l.partner.sys BY <1>1, Zenon DEF Info
<1> HIDE DEF i
<1>4. SameFace(m, l) /\ SamePeriodic(m, l) /\ SameChurn(m, l)
  BY ZenonT(40) DEF Link, SameFace, SamePeriodic, SameChurn
<1>5. SameMux(m, l) /\ m.selected = l.selected BY ZenonT(40) DEF Link, SameMux, Owed
<1>6. m.partner = i /\ m.current_while BY ZenonT(40) DEF Link
<1> HIDE DEF m
<1> QED BY <1>2, <1>3, <1>4, <1>5, <1>6 DEF Notes, Hears, SameSystem

LEMMA CurrentNotes ==
  ASSUME NEW l \in Link
  PROVE  /\ Notes(Current(l), l) /\ SameSystem(Current(l), l)
         /\ Current(l).current_while
<1> DEFINE m == [l EXCEPT !.rcv = "CURRENT", !.current_while = TRUE]
<1>1. SameFace(m, l) /\ SamePeriodic(m, l) /\ SameChurn(m, l)
  BY ZenonT(40) DEF Link, SameFace, SamePeriodic, SameChurn
<1>2. SameMux(m, l) /\ m.selected = l.selected BY ZenonT(40) DEF Link, SameMux, Owed
<1>3. m.partner = l.partner /\ m.current_while BY ZenonT(40) DEF Link
<1>4. Current(l) = m BY DEF Current
<1> HIDE DEF m
<1> QED BY <1>1, <1>2, <1>3, <1>4 DEF Notes, Hears, SameSystem

LEMMA RecordDefaultNotes ==
  ASSUME NEW l \in Link
  PROVE  Notes(RecordDefault(l), l) /\ RecordDefault(l).partner = DefaultPartner
<1>1. RecordDefault(l) = [l EXCEPT !.partner = DefaultPartner, !.dflt = TRUE] BY DEF RecordDefault
<1> QED BY <1>1, DefaultPartnerType, PartnerNotes

LEMMA DefaultedNotes ==
  ASSUME NEW l \in Link
  PROVE  /\ Notes(Defaulted(l), l) /\ Defaulted(l).rcv = "DEFAULTED"
         /\ Defaulted(l).partner = DefaultPartner
<1> DEFINE n == RecordDefault(l)
           m == [n EXCEPT !.rcv = "DEFAULTED"]
<1>1. n \in Link /\ Notes(n, l) /\ n.partner = DefaultPartner
  BY RecordDefaultType, RecordDefaultNotes
<1>2. Defaulted(l) = m BY DEF Defaulted
<1> HIDE DEF n
<1>3. Notes(m, n) /\ m.rcv = "DEFAULTED" BY <1>1, RcvNotes
<1>4. m.partner = n.partner BY <1>1, ZenonT(40) DEF Link
<1> HIDE DEF m
<1>5. Notes(m, l) BY <1>1, <1>3, HearsTrans DEF Notes
<1> QED BY <1>1, <1>2, <1>3, <1>4, <1>5

\* The receive machine at port p: it keeps its timer in step with its state,
\* and what it hears of another partner has cost the link its place.
RcvDone(s, u, p, ev) ==
    LET l == s.link[p]
        m == u.link[p]
    IN  /\ Only(s, u, p) /\ Hears(m, l)
        /\ RcvTick(l) \/ ev.type \in {"begin", "current_while"} => RcvTick(m)
        /\ Live(s) => SameSystem(m, l) \/ m.selected # "SELECTED"

LEMMA SetNotes ==
  ASSUME NEW s \in DaemonState, NEW p \in Port, NEW m, Hears(m, s.link[p])
  PROVE  Only(s, SetLink(s, p, m), p) /\ SetLink(s, p, m).link[p] = m
  BY ShapedState, SetLinkOnly, SetLinkFrame DEF Hears

LEMMA RcvSetLink ==
  ASSUME NEW s \in DaemonState, NEW p \in Port, NEW m, NEW ev,
         Notes(m, s.link[p]), SameSystem(m, s.link[p]), RcvTick(m)
  PROVE  RcvDone(s, SetLink(s, p, m), p, ev)
<1> DEFINE u == SetLink(s, p, m)
<1>1. Only(s, u, p) /\ u.link[p] = m BY SetNotes DEF Notes
<1> HIDE DEF u
<1>2. RcvDone(s, u, p, ev) BY <1>1 DEF RcvDone, Notes
<1> QED BY <1>2 DEF u

\* Taking the aggregator away costs the link its place.
LEMMA DisaggregateHears ==
  ASSUME NEW s, Inv(s), NEW p \in Port, NEW notify \in BOOLEAN
  PROVE  LET t == Disaggregate(s, p, notify) IN
         /\ t \in DaemonState /\ Only(s, t, p) /\ Hears(t.link[p], s.link[p])
         /\ Live(s) => t.link[p].selected # "SELECTED"
<1> DEFINE t == Disaggregate(s, p, notify)
<1>1. t \in DaemonState /\ (Live(s) => t.link[p].selected # "SELECTED")
  BY DisaggregateKeeps DEF Inv
<1>2. Spares(s, t) BY DisaggregateQuits DEF Quits
<1> HIDE DEF t
<1>3. Only(s, t, p) BY <1>2, SparesOnly
<1>4. Hears(t.link[p], s.link[p]) BY <1>2, RestsHears DEF Spares
<1>5. /\ t \in DaemonState /\ Only(s, t, p) /\ Hears(t.link[p], s.link[p])
      /\ Live(s) => t.link[p].selected # "SELECTED"
  BY <1>1, <1>3, <1>4
<1> QED BY <1>5 DEF t

LEMMA UnselectRests ==
  ASSUME NEW l \in Link
  PROVE  LET m == [l EXCEPT !.selected = "UNSELECTED"] IN
         m \in Link /\ Rests(m, l) /\ m.selected = "UNSELECTED"
<1> DEFINE m == [l EXCEPT !.selected = "UNSELECTED"]
<1>1. m \in Link BY ZenonT(40) DEF Link
<1>2. Rests(m, l)
  BY ZenonT(40) DEF Link, Rests, SameFace, SameRcv, SamePeriodic, SameChurn, SameMux,
                    SameSystem, Owed
<1>3. m.selected = "UNSELECTED" BY ZenonT(40) DEF Link
<1> QED BY <1>1, <1>2, <1>3

LEMMA InitializeDone ==
  ASSUME NEW s, Inv(s), NEW p \in Port, NEW ev
  PROVE  RcvDone(s, RcvInitialize(s, p), p, ev)
<1> DEFINE n == [s.link[p] EXCEPT !.selected = "UNSELECTED"]
           t == IF s.link[p].agg # NoAgg THEN Disaggregate(s, p, TRUE) ELSE SetLink(s, p, n)
           l == RecordDefault(t.link[p])
           m == PortDisabled(l)
           u == SetLink(t, p, m)
<1>1. /\ t \in DaemonState /\ Only(s, t, p) /\ Hears(t.link[p], s.link[p])
      /\ Live(s) => t.link[p].selected # "SELECTED"
  <2>1. CASE s.link[p].agg # NoAgg BY <2>1, DisaggregateHears
  <2>2. CASE s.link[p].agg = NoAgg
    <3>1. n \in Link /\ Rests(n, s.link[p]) /\ n.selected = "UNSELECTED"
      BY LinkType, UnselectRests DEF Inv
    <3>2. t = SetLink(s, p, n) BY <2>2
    <3> HIDE DEF n, t
    <3>3. t \in DaemonState BY <3>1, <3>2, SetLinkIs DEF Inv
    <3>4. Hears(n, s.link[p]) BY <3>1, RestsHears
    <3>5. Only(s, t, p) /\ t.link[p] = n BY <3>2, <3>4, SetNotes DEF Inv
    <3> QED BY <3>1, <3>3, <3>4, <3>5
  <2> QED BY <2>1, <2>2
<1>2. RcvInitialize(s, p) = u BY Zenon DEF RcvInitialize
<1> HIDE DEF t
<1>3. l \in Link /\ Notes(l, t.link[p]) BY <1>1, LinkType, RecordDefaultType, RecordDefaultNotes
<1> HIDE DEF l
<1>4. Notes(m, l) /\ m.rcv = "PORT_DISABLED" BY <1>3, PortDisabledNotes
<1> HIDE DEF m
<1>5. Hears(m, t.link[p]) /\ m.selected = t.link[p].selected
  BY <1>3, <1>4, HearsTrans DEF Notes
<1>6. Only(t, u, p) /\ u.link[p] = m BY <1>1, <1>5, SetNotes
<1> HIDE DEF u
<1>7. Only(s, u, p) BY <1>1, <1>6, OnlyTrans
<1>8. Hears(m, s.link[p]) BY <1>1, <1>5, HearsTrans
<1>9. RcvDone(s, u, p, ev) BY <1>1, <1>4, <1>5, <1>6, <1>7, <1>8 DEF RcvDone, RcvTick
<1> QED BY <1>2, <1>9

LEMMA SameIdentity ==
  ASSUME NEW i, NEW j, Identity(i) = Identity(j)
  PROVE  i.sys = j.sys
  BY SMT DEF Identity

\* Either the partner is the one the link had, or the link has lost its place.
LEMMA UpdateDone ==
  ASSUME NEW s, Inv(s), Live(s), NEW p \in Port, NEW i, NEW notify \in BOOLEAN
  PROVE  LET t == IF Identity(s.link[p].partner) # Identity(i) THEN Disaggregate(s, p, notify)
                  ELSE s
         IN  /\ t \in DaemonState /\ Only(s, t, p) /\ Hears(t.link[p], s.link[p])
             /\ s.link[p].partner.sys = i.sys \/ t.link[p].selected # "SELECTED"
<1>1. CASE Identity(s.link[p].partner) # Identity(i) BY <1>1, DisaggregateHears
<1>2. CASE Identity(s.link[p].partner) = Identity(i)
  <2>1. s.link[p].partner.sys = i.sys BY <1>2, SameIdentity
  <2>2. Hears(s.link[p], s.link[p]) BY RestsRefl, RestsHears
  <2> QED BY <1>2, <2>1, <2>2, OnlyRefl DEF Inv
<1> QED BY <1>1, <1>2

LEMMA DefaultedDone ==
  ASSUME NEW s, Inv(s), Live(s), NEW p \in Port, NEW ev
  PROVE  RcvDone(s, RcvDefaulted(s, p), p, ev)
<1> DEFINE t == UpdateDefaultSelected(s, p)
           m == Defaulted(t.link[p])
           u == SetLink(t, p, m)
<1>1. /\ t \in DaemonState /\ Only(s, t, p) /\ Hears(t.link[p], s.link[p])
      /\ s.link[p].partner.sys = DefaultPartner.sys \/ t.link[p].selected # "SELECTED"
  BY UpdateDone DEF UpdateDefaultSelected
<1>2. RcvDefaulted(s, p) = u BY DEF RcvDefaulted
<1> HIDE DEF t
<1>3. Notes(m, t.link[p]) /\ m.rcv = "DEFAULTED" /\ m.partner = DefaultPartner
  BY <1>1, LinkType, DefaultedNotes
<1> HIDE DEF m
<1>4. Only(t, u, p) /\ u.link[p] = m BY <1>1, <1>3, SetNotes DEF Notes
<1> HIDE DEF u
<1>5. Only(s, u, p) BY <1>1, <1>4, OnlyTrans
<1>6. Hears(m, s.link[p]) BY <1>1, <1>3, HearsTrans DEF Notes
<1>7. RcvDone(s, u, p, ev) BY <1>1, <1>3, <1>4, <1>5, <1>6 DEF RcvDone, RcvTick, Notes, SameSystem
<1> QED BY <1>2, <1>7

LEMMA NotesTrans ==
  ASSUME NEW l, NEW m, NEW n, Notes(m, l), Notes(n, m)
  PROVE  Notes(n, l)
  BY HearsTrans DEF Notes

LEMMA NttNotes == ASSUME NEW l \in Link PROVE Notes(Ntt(l), l)
<1>1. Ntt(l).selected = l.selected BY ZenonT(40) DEF Ntt, Link
<1> QED BY <1>1, NttRests, RestsHears DEF Notes

LEMMA UpdateNttNotes ==
  ASSUME NEW s \in DaemonState, NEW p \in Port, NEW m
  PROVE  LET t == UpdateNtt(s, p, m) IN
         t \in DaemonState /\ Only(s, t, p) /\ Notes(t.link[p], s.link[p])
<1> DEFINE n == Ntt(s.link[p])
           u == SetLink(s, p, n)
<1>1. n \in Link /\ Notes(n, s.link[p]) BY LinkType, NttType, NttNotes
<1>2. UpdateNtt(s, p, m) \in {s, u} BY DEF UpdateNtt
<1> HIDE DEF n
<1>3. u \in DaemonState BY <1>1, SetLinkIs
<1>4. Only(s, u, p) /\ u.link[p] = n BY <1>1, SetNotes DEF Notes
<1> HIDE DEF u
<1>5. Notes(s.link[p], s.link[p]) BY RestsRefl, RestsHears DEF Notes
<1> QED BY <1>1, <1>2, <1>3, <1>4, <1>5, OnlyRefl

LEMMA RecordPduNotes ==
  ASSUME NEW s \in DaemonState, NEW p \in Port, NEW m \in Pdu
  PROVE  LET t == RecordPdu(s, p, m) IN
         /\ t \in DaemonState /\ Only(s, t, p) /\ Notes(t.link[p], s.link[p])
         /\ t.link[p].partner.sys = m.actor.sys
<1> DEFINE l == s.link[p]
           maintaining == m.actor.act \/ (l.act /\ m.partner.act)
           knowsMe == Identity(m.partner) = Identity(OwnInfo(s, p))
           inSync == m.actor.sync /\ maintaining /\ (knowsMe \/ ~m.actor.aggr)
           i == [m.actor EXCEPT !.sync = inSync]
           n == [l EXCEPT !.partner = i, !.dflt = FALSE]
           t == SetLink(s, p, n)
<1>1. l \in Link BY LinkType
<1>2. m.actor \in Info BY SMT DEF Pdu
<1>3. inSync \in BOOLEAN BY Zenon
<1>4. i \in Info /\ i.sys = m.actor.sys
  <2> HIDE DEF inSync
  <2> QED BY <1>2, <1>3, Zenon DEF Info
<1>5. RecordPdu(s, p, m) = t BY Zenon DEF RecordPdu
<1> HIDE DEF i
<1>6. n \in Link BY <1>1, <1>4, ZenonT(40) DEF Link
<1>7. Notes(n, l) /\ n.partner = i BY <1>1, <1>4, PartnerNotes
<1> HIDE DEF n
<1>8. t \in DaemonState BY <1>6, SetLinkIs
<1>9. Only(s, t, p) /\ t.link[p] = n BY <1>7, SetNotes DEF Notes
<1> HIDE DEF t
<1> QED BY <1>4, <1>5, <1>7, <1>8, <1>9

LEMMA CurrentDone ==
  ASSUME NEW s, Inv(s), Live(s), NEW p \in Port, NEW m \in Pdu, NEW ev
  PROVE  RcvDone(s, RcvCurrent(s, p, m), p, ev)
<1> DEFINE t == UpdateSelected(s, p, m)
           u == UpdateNtt(t, p, m)
           v == RecordPdu(u, p, m)
           n == Current(v.link[p])
           w == SetLink(v, p, n)
<1>1. /\ t \in DaemonState /\ Only(s, t, p) /\ Hears(t.link[p], s.link[p])
      /\ s.link[p].partner.sys = m.actor.sys \/ t.link[p].selected # "SELECTED"
  BY UpdateDone DEF UpdateSelected
<1>2. RcvCurrent(s, p, m) = w BY Zenon DEF RcvCurrent
<1> HIDE DEF t
<1>3. u \in DaemonState /\ Only(t, u, p) /\ Notes(u.link[p], t.link[p]) BY <1>1, UpdateNttNotes
<1> HIDE DEF u
<1>4. /\ v \in DaemonState /\ Only(u, v, p) /\ Notes(v.link[p], u.link[p])
      /\ v.link[p].partner.sys = m.actor.sys
  BY <1>3, RecordPduNotes
<1> HIDE DEF v
<1>5. Notes(n, v.link[p]) /\ SameSystem(n, v.link[p]) /\ n.current_while
  BY <1>4, LinkType, CurrentNotes
<1> HIDE DEF n
<1>6. Only(v, w, p) /\ w.link[p] = n BY <1>4, <1>5, SetNotes DEF Notes
<1> HIDE DEF w
<1>7. Only(s, w, p) BY <1>1, <1>3, <1>4, <1>6, OnlyTrans
<1>8. Notes(n, t.link[p]) BY <1>3, <1>4, <1>5, NotesTrans
<1>9. Hears(n, s.link[p]) BY <1>1, <1>8, HearsTrans DEF Notes
<1>10. n.partner.sys = m.actor.sys BY <1>4, <1>5 DEF SameSystem
<1>11. RcvDone(s, w, p, ev)
  BY <1>1, <1>5, <1>6, <1>7, <1>8, <1>9, <1>10 DEF RcvDone, RcvTick, Notes, SameSystem
<1> QED BY <1>2, <1>11

\* The whole machine, at a port that is up or begins.
LEMMA RcvSmDone ==
  ASSUME NEW s, Inv(s), NEW p \in Port, NEW ev, ev.pdu \in Pdu,
         (Live(s) /\ s.link[p].up) \/ ev.type = "begin"
  PROVE  RcvDone(s, RcvSm(s, p, ev), p, ev)
<1> DEFINE l == s.link[p]
           x == SetLink(s, p, Expired(l))
           heard   == ev.type = "pdu" /\ l.rcv \in {"EXPIRED", "DEFAULTED", "CURRENT"}
           expired == ev.type = "current_while"
<1>0. s \in DaemonState BY DEF Inv
<1>1. RcvDone(s, RcvInitialize(s, p), p, ev) BY InitializeDone
<1>2. RcvDone(s, x, p, ev)
  <2>1. Notes(Expired(l), l) /\ SameSystem(Expired(l), l) /\ RcvTick(Expired(l))
    BY <1>0, LinkType, ExpiredNotes DEF RcvTick
  <2> QED BY <1>0, <2>1, RcvSetLink
<1>3. Live(s) => RcvDone(s, RcvCurrent(s, p, ev.pdu), p, ev) BY CurrentDone
<1>4. Live(s) => RcvDone(s, RcvDefaulted(s, p), p, ev) BY DefaultedDone
<1>5. \/ RcvSm(s, p, ev) \in {RcvInitialize(s, p), x}
      \/ RcvSm(s, p, ev) \in {RcvCurrent(s, p, ev.pdu), RcvDefaulted(s, p)} /\ Live(s)
      \/ RcvSm(s, p, ev) = s /\ ev.type # "begin" /\ (expired => l.rcv \notin {"EXPIRED", "CURRENT"})
  <2> HIDE DEF x
  <2>1. CASE ev.type = "begin" BY <2>1, Zenon DEF RcvSm
  <2>2. CASE ev.type # "begin" /\ Live(s) /\ l.up BY <2>2, ZenonT(40) DEF RcvSm, x
  <2> QED BY <2>1, <2>2
<1>6. ASSUME ev.type # "begin", expired => l.rcv \notin {"EXPIRED", "CURRENT"}
      PROVE  RcvDone(s, s, p, ev)
  <2>1. Hears(l, l) /\ SameSystem(l, l) BY RestsRefl, RestsHears DEF SameSystem
  <2> QED BY <1>6, <2>1, OnlyRefl DEF RcvDone, RcvTick
<1> HIDE DEF x
<1> QED BY <1>1, <1>2, <1>3, <1>4, <1>5, <1>6

----------------------------------------------------------------------------
(* The periodic transmission machine.                                      *)

Paces(m, l) ==
    /\ SameFace(m, l) /\ SameRcv(m, l) /\ SameChurn(m, l) /\ SameMux(m, l) /\ SameSystem(m, l)
    /\ m.selected = l.selected

Paced(m, l, x, b) == Paces(m, l) /\ m.periodic = x /\ m.periodic_timer = b

LEMMA PeriodicPaces ==
  ASSUME NEW l \in Link, NEW x, NEW b
  PROVE  Paced([l EXCEPT !.periodic = x, !.periodic_timer = b], l, x, b)
<1> DEFINE m == [l EXCEPT !.periodic = x, !.periodic_timer = b]
<1>1. SameFace(m, l) /\ SameRcv(m, l) /\ SameChurn(m, l)
  BY ZenonT(40) DEF Link, SameFace, SameRcv, SameChurn
<1>2. SameMux(m, l) /\ SameSystem(m, l) /\ m.selected = l.selected
  BY ZenonT(40) DEF Link, SameMux, SameSystem, Owed
<1>3. m.periodic = x /\ m.periodic_timer = b BY ZenonT(40) DEF Link
<1> QED BY <1>1, <1>2, <1>3 DEF Paces, Paced

LEMMA ArmedPaces ==
  ASSUME NEW l \in Link, NEW x
  PROVE  Paces(Periodic(l, x), l) /\ PeriodicTick(Periodic(l, x))
<1> DEFINE m == [l EXCEPT !.periodic = x, !.periodic_timer = TRUE]
<1>1. Periodic(l, x) = m BY DEF Periodic
<1>2. Paced(m, l, x, TRUE) BY PeriodicPaces
<1> HIDE DEF m
<1> QED BY <1>1, <1>2 DEF PeriodicTick, Paced

LEMMA NoPeriodicPaces ==
  ASSUME NEW l \in Link
  PROVE  Paces(NoPeriodic(l), l) /\ PeriodicTick(NoPeriodic(l))
<1> DEFINE m == [l EXCEPT !.periodic = "NO_PERIODIC", !.periodic_timer = FALSE]
<1>1. Paced(m, l, "NO_PERIODIC", FALSE) BY PeriodicPaces
<1>2. NoPeriodic(l) \in {Periodic(l, "FAST"), m} BY DEF NoPeriodic
<1> HIDE DEF m
<1> QED BY <1>1, <1>2, ArmedPaces DEF PeriodicTick, Paced

LEMMA PeriodicTxPaces ==
  ASSUME NEW l \in Link
  PROVE  Paces(PeriodicTx(l), l) /\ PeriodicTick(PeriodicTx(l))
<1> DEFINE n == Ntt(l)
           x == IF l.partner.short THEN "FAST" ELSE "SLOW"
           m == Periodic(n, x)
<1>1. n \in Link /\ Rests(n, l) /\ Notes(n, l) BY NttType, NttRests, NttNotes
<1>2. PeriodicTx(l) = m BY DEF PeriodicTx
<1> HIDE DEF n, x
<1>3. Paces(m, n) /\ PeriodicTick(m) BY <1>1, ArmedPaces
<1> HIDE DEF m
<1>4. Paces(m, l)
  BY <1>1, <1>3 DEF Paces, Rests, Notes, SameFace, SameRcv, SameChurn, SameMux, SameSystem
<1> QED BY <1>2, <1>3, <1>4

LEMMA NextPeriodicDone ==
  ASSUME NEW l \in Link, NEW ev
  PROVE  LET m == NextPeriodic(l, ev) IN
         /\ Paces(m, l)
         /\ PeriodicTick(l) \/ ev.type \in {"begin", "periodic"} => PeriodicTick(m)
<1>1. \/ NextPeriodic(l, ev) \in {NoPeriodic(l), PeriodicTx(l), Periodic(l, "SLOW")}
      \/ NextPeriodic(l, ev) = l /\ ev.type \notin {"begin", "periodic"}
  BY Zenon DEF NextPeriodic
<1>2. Paces(l, l)
  BY DEF Paces, SameFace, SameRcv, SameChurn, SameMux, SameSystem
<1> QED BY <1>1, <1>2, NoPeriodicPaces, PeriodicTxPaces, ArmedPaces

PeriodicDone(s, u, p, ev) ==
    LET l == s.link[p]
        m == u.link[p]
    IN  /\ Only(s, u, p) /\ Paces(m, l)
        /\ PeriodicTick(l) \/ ev.type \in {"begin", "periodic"} => PeriodicTick(m)

LEMMA PeriodicSmDone ==
  ASSUME NEW s \in DaemonState, NEW p \in Port, NEW ev
  PROVE  PeriodicDone(s, PeriodicTxSm(s, p, ev), p, ev)
<1> DEFINE m == NextPeriodic(s.link[p], ev)
           u == SetLink(s, p, m)
<1>1. /\ Paces(m, s.link[p])
      /\ PeriodicTick(s.link[p]) \/ ev.type \in {"begin", "periodic"} => PeriodicTick(m)
  BY LinkType, NextPeriodicDone
<1>2. PeriodicTxSm(s, p, ev) = u BY DEF PeriodicTxSm
<1> HIDE DEF m
<1>3. Only(s, u, p) /\ u.link[p] = m
  BY <1>1, ShapedState, SetLinkOnly, SetLinkFrame DEF Paces
<1> HIDE DEF u
<1> QED BY <1>1, <1>2, <1>3 DEF PeriodicDone

----------------------------------------------------------------------------
(* The churn machines.                                                     *)

Observes(m, l) ==
    /\ SameFace(m, l) /\ SameRcv(m, l) /\ SamePeriodic(m, l) /\ SameMux(m, l)
    /\ SameSystem(m, l)

Observed(m, l, a, b, x, y) ==
    /\ Observes(m, l)
    /\ m.actor_churn = a /\ m.actor_churn_timer = x
    /\ m.partner_churn = b /\ m.partner_churn_timer = y

LEMMA ChurnObserves ==
  ASSUME NEW l \in Link, NEW a, NEW b, NEW x, NEW y
  PROVE  Observed([l EXCEPT !.actor_churn = a, !.partner_churn = b,
                            !.actor_churn_timer = x, !.partner_churn_timer = y], l, a, b, x, y)
<1> DEFINE m == [l EXCEPT !.actor_churn = a, !.partner_churn = b,
                          !.actor_churn_timer = x, !.partner_churn_timer = y]
<1>1. SameFace(m, l) /\ SameRcv(m, l) /\ SamePeriodic(m, l)
  BY ZenonT(40) DEF Link, SameFace, SameRcv, SamePeriodic
<1>2. SameMux(m, l) /\ SameSystem(m, l) BY ZenonT(40) DEF Link, SameMux, SameSystem, Owed
<1>3. m.actor_churn = a /\ m.actor_churn_timer = x BY ZenonT(40) DEF Link
<1>4. m.partner_churn = b /\ m.partner_churn_timer = y BY ZenonT(40) DEF Link
<1> QED BY <1>1, <1>2, <1>3, <1>4 DEF Observes, Observed

\* A machine that stays in MONITOR does so because its timer has not expired.
LEMMA NextChurnStays ==
  ASSUME NEW v, NEW expired \in BOOLEAN
  PROVE  NextChurn("MONITOR", v, expired) = "MONITOR" => ~expired
  BY Zenon DEF NextChurn

LEMMA ChurnedDone ==
  ASSUME NEW l \in Link, NEW ev
  PROVE  LET m == Churned(l, ev) IN
         /\ Observes(m, l)
         /\ ActorTick(l) \/ ev.type \in {"begin", "actor_churn"} => ActorTick(m)
         /\ PartnerTick(l) \/ ev.type \in {"begin", "partner_churn"} => PartnerTick(m)
<1> DEFINE monitor == ev.type = "begin" \/ ~l.up
           a == IF monitor THEN "MONITOR"
                ELSE NextChurn(l.actor_churn, l.sync, ev.type = "actor_churn")
           b == IF monitor THEN "MONITOR"
                ELSE NextChurn(l.partner_churn, l.partner.sync, ev.type = "partner_churn")
           armed(old, new) == new = "MONITOR" /\ (monitor \/ old # new)
           x == l.actor_churn_timer \/ armed(l.actor_churn, a)
           y == l.partner_churn_timer \/ armed(l.partner_churn, b)
           m == [l EXCEPT !.actor_churn = a, !.partner_churn = b,
                          !.actor_churn_timer = x, !.partner_churn_timer = y]
<1>1. ASSUME a = "MONITOR", ActorTick(l) \/ ev.type \in {"begin", "actor_churn"} PROVE x
  <2>1. CASE monitor \/ l.actor_churn # "MONITOR" BY <1>1, <2>1
  <2>2. CASE ~monitor /\ l.actor_churn = "MONITOR"
    <3>1. NextChurn("MONITOR", l.sync, ev.type = "actor_churn") = "MONITOR" BY <1>1, <2>2
    <3>2. ev.type # "actor_churn" BY <3>1, NextChurnStays
    <3> QED BY <1>1, <2>2, <3>2 DEF ActorTick
  <2> QED BY <2>1, <2>2
<1>2. ASSUME b = "MONITOR", PartnerTick(l) \/ ev.type \in {"begin", "partner_churn"} PROVE y
  <2>1. CASE monitor \/ l.partner_churn # "MONITOR" BY <1>2, <2>1
  <2>2. CASE ~monitor /\ l.partner_churn = "MONITOR"
    <3>1. NextChurn("MONITOR", l.partner.sync, ev.type = "partner_churn") = "MONITOR"
      BY <1>2, <2>2
    <3>2. ev.type # "partner_churn" BY <3>1, NextChurnStays
    <3> QED BY <1>2, <2>2, <3>2 DEF PartnerTick
  <2> QED BY <2>1, <2>2
<1>3. Churned(l, ev) = m BY Zenon DEF Churned
<1> HIDE DEF a, b, x, y
<1>4. Observed(m, l, a, b, x, y) BY ChurnObserves
<1> HIDE DEF m
<1> QED BY <1>1, <1>2, <1>3, <1>4 DEF ActorTick, PartnerTick, Observed

ChurnDone(s, u, p, ev) ==
    LET l == s.link[p]
        m == u.link[p]
    IN  /\ Only(s, u, p) /\ Observes(m, l)
        /\ ActorTick(l) \/ ev.type \in {"begin", "actor_churn"} => ActorTick(m)
        /\ PartnerTick(l) \/ ev.type \in {"begin", "partner_churn"} => PartnerTick(m)

LEMMA ChurnSmDone ==
  ASSUME NEW s \in DaemonState, NEW p \in Port, NEW ev
  PROVE  ChurnDone(s, ChurnSm(s, p, ev), p, ev)
<1> DEFINE l == s.link[p]
           m == Churned(l, ev)
           u == SetLink(s, p, m)
<1>1. /\ Observes(m, l)
      /\ ActorTick(l) \/ ev.type \in {"begin", "actor_churn"} => ActorTick(m)
      /\ PartnerTick(l) \/ ev.type \in {"begin", "partner_churn"} => PartnerTick(m)
  BY LinkType, ChurnedDone
<1>2. ChurnSm(s, p, ev) = u BY DEF ChurnSm
<1> HIDE DEF m
<1>3. Only(s, u, p) /\ u.link[p] = m
  BY <1>1, ShapedState, SetLinkOnly, SetLinkFrame DEF Observes
<1> HIDE DEF u
<1> QED BY <1>1, <1>2, <1>3 DEF ChurnDone

----------------------------------------------------------------------------
(* The mux machine.                                                        *)

Muxes(m, l) ==
    /\ SameFace(m, l) /\ SameRcv(m, l) /\ SamePeriodic(m, l) /\ SameChurn(m, l)
    /\ SameSystem(m, l)

LEMMA RestsMuxes ==
  ASSUME NEW l, NEW m, NEW n, Muxes(m, l), Rests(n, m)
  PROVE  Muxes(n, l) /\ SameMux(n, m)
  BY DEF Muxes, Rests, SameFace, SameRcv, SamePeriodic, SameChurn, SameSystem

MuxAt(m, l, x) == Muxes(m, l) /\ m.mux = x

LEMMA DetachedMuxes == ASSUME NEW l \in Link PROVE MuxAt(Detached(l), l, "DETACHED")
<1> DEFINE m == [l EXCEPT !.mux = "DETACHED", !.sync = FALSE, !.ntt = TRUE]
<1>1. SameFace(m, l) /\ SameRcv(m, l) /\ SamePeriodic(m, l)
  BY ZenonT(40) DEF Link, SameFace, SameRcv, SamePeriodic
<1>2. SameChurn(m, l) /\ SameSystem(m, l) /\ m.mux = "DETACHED"
  BY ZenonT(40) DEF Link, SameChurn, SameSystem
<1> QED BY <1>1, <1>2 DEF MuxAt, Muxes, Detached

LEMMA AttachedMuxes == ASSUME NEW l \in Link PROVE MuxAt(Attached(l), l, "ATTACHED")
<1> DEFINE m == [l EXCEPT !.mux = "ATTACHED", !.sync = TRUE, !.ntt = TRUE]
<1>1. SameFace(m, l) /\ SameRcv(m, l) /\ SamePeriodic(m, l)
  BY ZenonT(40) DEF Link, SameFace, SameRcv, SamePeriodic
<1>2. SameChurn(m, l) /\ SameSystem(m, l) /\ m.mux = "ATTACHED"
  BY ZenonT(40) DEF Link, SameChurn, SameSystem
<1> QED BY <1>1, <1>2 DEF MuxAt, Muxes, Attached

LEMMA WaitingMuxes ==
  ASSUME NEW l \in Link PROVE MuxAt(Waiting(l), l, "WAITING") /\ Waiting(l).wait_while
<1> DEFINE m == [l EXCEPT !.mux = "WAITING", !.wait_while = TRUE]
<1>1. SameFace(m, l) /\ SameRcv(m, l) /\ SamePeriodic(m, l)
  BY ZenonT(40) DEF Link, SameFace, SameRcv, SamePeriodic
<1>2. SameChurn(m, l) /\ SameSystem(m, l) /\ m.mux = "WAITING" /\ m.wait_while
  BY ZenonT(40) DEF Link, SameChurn, SameSystem
<1> QED BY <1>1, <1>2 DEF MuxAt, Muxes, Waiting

LEMMA CollectingMuxes ==
  ASSUME NEW l \in Link PROVE MuxAt(CollectingDistributing(l), l, "COLLECTING_DISTRIBUTING")
<1> DEFINE m == [l EXCEPT !.mux = "COLLECTING_DISTRIBUTING", !.ntt = TRUE]
<1>1. SameFace(m, l) /\ SameRcv(m, l) /\ SamePeriodic(m, l)
  BY ZenonT(40) DEF Link, SameFace, SameRcv, SamePeriodic
<1>2. SameChurn(m, l) /\ SameSystem(m, l) /\ m.mux = "COLLECTING_DISTRIBUTING"
  BY ZenonT(40) DEF Link, SameChurn, SameSystem
<1> QED BY <1>1, <1>2 DEF MuxAt, Muxes, CollectingDistributing

\* A step of the machine that enters state x.
Enters(s, u, p, x) == Only(s, u, p) /\ MuxAt(u.link[p], s.link[p], x)

LEMMA EnterThen ==
  ASSUME NEW s \in DaemonState, NEW p \in Port, NEW n, NEW x, NEW u,
         MuxAt(n, s.link[p], x), Spares(SetLink(s, p, n), u)
  PROVE  Enters(s, u, p, x)
<1> DEFINE t == SetLink(s, p, n)
<1>1. Only(s, t, p) /\ t.link[p] = n
  BY ShapedState, SetLinkOnly, SetLinkFrame DEF MuxAt, Muxes
<1> HIDE DEF t
<1>2. Spares(t, u) BY DEF t
<1>3. Only(s, u, p) BY <1>1, <1>2, SparesOnly, OnlyTrans
<1>4. Rests(u.link[p], n) BY <1>1, <1>2 DEF Spares
<1>5. MuxAt(u.link[p], s.link[p], x) BY <1>4, RestsMuxes DEF MuxAt, SameMux
<1> QED BY <1>3, <1>5 DEF Enters

LEMMA MuxDetachedEnters ==
  ASSUME NEW s \in DaemonState, NEW p \in Port
  PROVE  Enters(s, MuxDetached(s, p), p, "DETACHED")
<1> DEFINE n == Detached(s.link[p])
           t == SetLink(s, p, n)
<1>1. n \in Link /\ MuxAt(n, s.link[p], "DETACHED") BY LinkType, MuxTypes, DetachedMuxes
<1> HIDE DEF n
<1>2. Spares(t, DisableCollectingDistributing(t, p)) BY <1>1, SetLinkIs, DisableSpares
<1>3. Enters(s, DisableCollectingDistributing(t, p), p, "DETACHED") BY <1>1, <1>2, EnterThen
<1> QED BY <1>3 DEF MuxDetached, t, n

LEMMA MuxCollectingEnters ==
  ASSUME NEW s \in DaemonState, NEW p \in Port
  PROVE  Enters(s, MuxCollectingDistributing(s, p), p, "COLLECTING_DISTRIBUTING")
<1> DEFINE n == CollectingDistributing(s.link[p])
           t == SetLink(s, p, n)
<1>1. n \in Link /\ MuxAt(n, s.link[p], "COLLECTING_DISTRIBUTING")
  BY LinkType, MuxTypes, CollectingMuxes
<1> HIDE DEF n
<1>2. Spares(t, EnableCollectingDistributing(t, p)) BY <1>1, SetLinkIs, EnableSpares
<1>3. Enters(s, EnableCollectingDistributing(t, p), p, "COLLECTING_DISTRIBUTING")
  BY <1>1, <1>2, EnterThen
<1> QED BY <1>3 DEF MuxCollectingDistributing, t, n

LEMMA MuxWaitingEnters ==
  ASSUME NEW s \in DaemonState, NEW p \in Port
  PROVE  LET u == SetLink(s, p, Waiting(s.link[p])) IN
         Enters(s, u, p, "WAITING") /\ u.link[p].wait_while
<1> DEFINE n == Waiting(s.link[p])
           u == SetLink(s, p, n)
<1>1. MuxAt(n, s.link[p], "WAITING") /\ n.wait_while BY LinkType, WaitingMuxes
<1> HIDE DEF n
<1>2. u.link[p] = n BY ShapedState, SetLinkFrame
<1>3. Enters(s, u, p, "WAITING") BY <1>1, SparesRefl, EnterThen
<1> QED BY <1>1, <1>2, <1>3 DEF n

LEMMA MuxAttachedEnters ==
  ASSUME NEW s, Inv(s), NEW p \in Port, Live(s) \/ ~IsEnabled(s.link[p]), Willing(s.link[p])
  PROVE  Enters(s, MuxAttached(s, p), p, "ATTACHED")
<1> DEFINE r == AttemptToAggregate(s, p)
           n == Attached(r.link[p])
           t == SetLink(r, p, n)
           u == DisableCollectingDistributing(t, p)
<1>1. Spares(s, r) /\ r \in DaemonState BY AttemptSpares, AttemptOk DEF Keeps, Inv
<1>2. MuxAttached(s, p) = u BY DEF MuxAttached, Attach
<1> HIDE DEF r
<1>3. n \in Link /\ MuxAt(n, r.link[p], "ATTACHED") BY <1>1, LinkType, MuxTypes, AttachedMuxes
<1> HIDE DEF n
<1>4. Spares(t, u) BY <1>1, <1>3, SetLinkIs, DisableSpares
<1> HIDE DEF u
<1>5. Enters(r, u, p, "ATTACHED") BY <1>1, <1>3, <1>4, EnterThen
<1>6. Only(s, u, p) BY <1>1, <1>5, SparesOnly, OnlyTrans DEF Enters
<1>7. MuxAt(u.link[p], s.link[p], "ATTACHED")
  BY <1>1, <1>5 DEF Enters, MuxAt, Muxes, Spares, Rests,
                    SameFace, SameRcv, SamePeriodic, SameChurn, SameSystem
<1> QED BY <1>2, <1>6, <1>7 DEF Enters

\* A link that has lost its place carries no traffic after the step.
MuxDone(s, u, p, ev) ==
    LET l == s.link[p]
        m == u.link[p]
    IN  /\ Only(s, u, p) /\ Muxes(m, l)
        /\ ev.type = "begin" => m.mux = "DETACHED"
        /\ l.selected # "SELECTED" => m.mux # "COLLECTING_DISTRIBUTING"
        /\ WaitTick(l) \/ ev.type = "begin" => WaitTick(m)

LEMMA CrashFrame == ASSUME NEW s \in DaemonState PROVE Untouched(s, [s EXCEPT !.crashed = TRUE])
<1> DEFINE t == [s EXCEPT !.crashed = TRUE]
<1>1. t.link = s.link /\ t.links = s.links /\ t.ifg = s.ifg BY Zenon DEF DaemonState
<1> QED BY <1>1 DEF Untouched, SameTables

LEMMA MuxSmDone ==
  ASSUME NEW s, Inv(s), NEW p \in Port, NEW ev,
         Live(s) \/ ~IsEnabled(s.link[p]) \/ ev.type = "begin"
  PROVE  MuxDone(s, MuxSm(s, p, ev), p, ev)
<1> DEFINE l == s.link[p]
           chosen == l.selected = "SELECTED"
           crash == [s EXCEPT !.crashed = TRUE]
           waiting == SetLink(s, p, Waiting(l))
<1> SUFFICES ASSUME NEW u, u = MuxSm(s, p, ev) PROVE MuxDone(s, u, p, ev) OBVIOUS
<1>0. s \in DaemonState BY DEF Inv
<1>1. CASE u = MuxDetached(s, p)
  <2>1. Enters(s, u, p, "DETACHED") BY <1>0, <1>1, MuxDetachedEnters
  <2> QED BY <2>1 DEF Enters, MuxAt, MuxDone, WaitTick, Owed
<1>2. CASE u = waiting /\ ev.type # "begin"
  <2>1. Enters(s, u, p, "WAITING") /\ u.link[p].wait_while BY <1>0, <1>2, MuxWaitingEnters
  <2> QED BY <1>2, <2>1 DEF Enters, MuxAt, MuxDone, WaitTick, Owed
<1>3. CASE u = MuxAttached(s, p) /\ ev.type # "begin" /\ (l.mux = "WAITING" => chosen)
  <2>1. Willing(l) BY <1>3 DEF Willing
  <2>2. Enters(s, u, p, "ATTACHED") BY <1>3, <2>1, MuxAttachedEnters
  <2> QED BY <1>3, <2>2 DEF Enters, MuxAt, MuxDone, WaitTick, Owed
<1>4. CASE u = MuxCollectingDistributing(s, p) /\ ev.type # "begin" /\ chosen
  <2>1. Enters(s, u, p, "COLLECTING_DISTRIBUTING") BY <1>0, <1>4, MuxCollectingEnters
  <2> QED BY <1>4, <2>1 DEF Enters, MuxAt, MuxDone, WaitTick, Owed
<1>5. CASE u \in {s, crash} /\ ev.type # "begin"
           /\ (l.mux = "COLLECTING_DISTRIBUTING" => chosen)
  <2>1. Untouched(s, crash) BY <1>0, CrashFrame
  <2> HIDE DEF crash
  <2>2. SameTables(s, u) /\ u.link = s.link BY <1>5, <2>1 DEF Untouched, SameTables
  <2>3. Only(s, u, p) BY <2>2, SameSpares, SparesOnly
  <2>4. Muxes(l, l) BY DEF Muxes, SameFace, SameRcv, SamePeriodic, SameChurn, SameSystem
  <2> QED BY <1>5, <2>2, <2>3, <2>4 DEF MuxDone
<1>6. \/ u = MuxDetached(s, p)
      \/ u = waiting /\ ev.type # "begin"
      \/ u = MuxAttached(s, p) /\ ev.type # "begin" /\ (l.mux = "WAITING" => chosen)
      \/ u = MuxCollectingDistributing(s, p) /\ ev.type # "begin" /\ chosen
      \/ u \in {s, crash} /\ ev.type # "begin" /\ (l.mux = "COLLECTING_DISTRIBUTING" => chosen)
  <2> HIDE DEF waiting, crash
  <2>1. CASE ev.type = "begin" BY <2>1, Zenon DEF MuxSm
  <2>2. CASE ev.type # "begin" /\ l.mux = "WAITING" /\ chosen /\ l.agg = NoAgg
    BY <2>2, Zenon DEF MuxSm, crash
  <2>3. CASE ev.type # "begin" /\ ~(l.mux = "WAITING" /\ chosen /\ l.agg = NoAgg)
    BY <2>3, ZenonT(60) DEF MuxSm, waiting
  <2> QED BY <2>1, <2>2, <2>3
<1> QED BY <1>1, <1>2, <1>3, <1>4, <1>5, <1>6

----------------------------------------------------------------------------
(* Transmission, and a run of all the machines.                            *)

LEMMA TxRests ==
  ASSUME NEW l \in Link, NEW b \in BOOLEAN, NEW n \in Short
  PROVE  /\ Rests([l EXCEPT !.ntt = b], l)
         /\ Rests([l EXCEPT !.tx_count = n], l)
         /\ Rests([l EXCEPT !.ntt = b, !.tx_count = n], l)
<1>1. Rests([l EXCEPT !.ntt = b], l)
  BY ZenonT(40) DEF Link, Rests, SameFace, SameRcv, SamePeriodic, SameChurn, SameMux,
                    SameSystem, Owed
<1>2. Rests([l EXCEPT !.tx_count = n], l)
  BY ZenonT(40) DEF Link, Rests, SameFace, SameRcv, SamePeriodic, SameChurn, SameMux,
                    SameSystem, Owed
<1>3. Rests([l EXCEPT !.ntt = b, !.tx_count = n], l)
  BY ZenonT(40) DEF Link, Rests, SameFace, SameRcv, SamePeriodic, SameChurn, SameMux,
                    SameSystem, Owed
<1> QED BY <1>1, <1>2, <1>3

LEMMA SentFrame ==
  ASSUME NEW s, Shaped(s), NEW q
  PROVE  Untouched(s, [s EXCEPT !.sent = q])
  BY SMT DEF Shaped, Untouched, SameTables

LEMMA TxSpares ==
  ASSUME NEW s \in DaemonState, NEW p \in Port
  PROVE  Spares(s, Tx(s, p))
<1> DEFINE l == s.link[p]
           n == l.tx_count + 1
           silent == SetLink(s, p, [l EXCEPT !.ntt = FALSE])
           t == SetLink(s, p, [l EXCEPT !.ntt = FALSE, !.tx_count = n])
           q == Append(t.sent, Frame(s, p))
           spoken == [t EXCEPT !.sent = q]
<1>1. l \in Link /\ l.tx_count \in Short BY LinkType, LinkFields
<1>2. \/ Tx(s, p) \in {s, silent}
      \/ Tx(s, p) = spoken /\ l.tx_count < TxLimit
  BY Zenon DEF Tx
<1>3. Spares(s, silent)
  <2>1. Rests([l EXCEPT !.ntt = FALSE], l) BY <1>1, TxRests
  <2> QED BY <2>1, ShapedState, SetLinkSpares
<1>4. ASSUME l.tx_count < TxLimit PROVE Spares(s, spoken)
  <2>1. n \in Short BY <1>1, <1>4, LimitAssumption, ShortType, SMT DEF Short
  <2> HIDE DEF n
  <2> DEFINE m == [l EXCEPT !.ntt = FALSE, !.tx_count = n]
  <2>2. Rests(m, s.link[p])
    <3>1. FALSE \in BOOLEAN OBVIOUS
    <3> QED BY <1>1, <2>1, <3>1, TxRests
  <2> HIDE DEF m
  <2>3. Spares(s, SetLink(s, p, m)) /\ Shaped(SetLink(s, p, m))
    BY <2>2, ShapedState, SetLinkSpares, SetLinkFrame
  <2>4. Spares(s, t) /\ Shaped(t) BY <2>3 DEF m
  <2> HIDE DEF t, q
  <2>5. Untouched(t, spoken) BY <2>4, SentFrame
  <2> HIDE DEF spoken
  <2> QED BY <2>4, <2>5, SameSpares, SparesTrans DEF Untouched
<1> HIDE DEF silent, spoken
<1> QED BY <1>2, <1>3, <1>4, SparesRefl

LEMMA MarkerTxSpares ==
  ASSUME NEW s \in DaemonState, NEW p \in Port
  PROVE  Spares(s, MarkerTx(s, p))
<1> DEFINE l == s.link[p]
           n == (l.tx_count + 1) % (MaxShort + 1)
           m == [l EXCEPT !.tx_count = n]
<1>1. l \in Link /\ n \in Short BY LinkType, LinkFields, ShortNext
<1>2. MarkerTx(s, p) \in {s, SetLink(s, p, m)} BY DEF MarkerTx
<1> HIDE DEF n
<1>3. Rests(m, s.link[p])
  <2>1. TRUE \in BOOLEAN OBVIOUS
  <2> QED BY <1>1, <2>1, TxRests
<1> HIDE DEF m
<1>4. Spares(s, SetLink(s, p, m)) BY <1>3, ShapedState, SetLinkSpares
<1> QED BY <1>2, <1>4, SparesRefl

\* One run of the machines of p: its timers run afterwards if those that had
\* not expired ran before, and a partner newly heard finds no traffic.
RunDone(s, u, p, ev) ==
    LET l == s.link[p]
        m == u.link[p]
    IN  /\ Only(s, u, p)
        /\ Due(l, ev) => Ticks(m)
        /\ SameSystem(m, l) \/ m.mux # "COLLECTING_DISTRIBUTING"
        /\ ev.type = "begin" => m.mux # "COLLECTING_DISTRIBUTING"

LEMMA RunThen ==
  ASSUME NEW s, NEW t, NEW u, NEW p \in Port, NEW ev, RunDone(s, t, p, ev), Spares(t, u)
  PROVE  RunDone(s, u, p, ev)
<1>1. Only(s, u, p) BY SparesOnly, OnlyTrans DEF RunDone
<1>2. Rests(u.link[p], t.link[p]) BY DEF Spares
<1>3. Due(s.link[p], ev) => Ticks(u.link[p]) BY <1>2, RestsTicks DEF RunDone
<1>4. SameSystem(u.link[p], s.link[p]) \/ u.link[p].mux # "COLLECTING_DISTRIBUTING"
  BY <1>2 DEF RunDone, Rests, SameSystem, SameMux
<1>5. ev.type = "begin" => u.link[p].mux # "COLLECTING_DISTRIBUTING"
  BY <1>2 DEF RunDone, Rests, SameMux
<1> QED BY <1>1, <1>3, <1>4, <1>5 DEF RunDone

LEMMA MachinesDone ==
  ASSUME NEW s, Inv(s), NEW p \in Port, NEW ev, ev.pdu \in Pdu,
         (Live(s) /\ s.link[p].up) \/ ev.type = "begin"
  PROVE  RunDone(s, Machines(s, p, ev), p, ev)
<1> DEFINE a == RcvSm(s, p, ev)
           b == PeriodicTxSm(a, p, ev)
           c == ReadyLogic(b)
           d == MuxSm(c, p, ev)
           e == ChurnSm(d, p, ev)
           u == Tx(e, p)
<1>1. Keeps(s, a) /\ RcvDone(s, a, p, ev) BY RcvSmKeeps, RcvSmDone
<1>2. Machines(s, p, ev) = u BY DEF Machines
<1> HIDE DEF a
<1>3. Keeps(a, b) /\ PeriodicDone(a, b, p, ev)
  BY <1>1, PeriodicTxSmKeeps, PeriodicSmDone DEF Keeps, Inv
<1> HIDE DEF b
<1>4. Keeps(b, c) /\ Untouched(b, c) BY <1>3, ReadyLogicKeeps, ReadyLogicFrame DEF Keeps, Inv
<1> HIDE DEF c
<1>5. Keeps(s, c) BY <1>1, <1>3, <1>4, KeepsTrans
<1>6. Keeps(c, d) /\ MuxDone(c, d, p, ev) BY <1>5, MuxSmKeeps, MuxSmDone DEF Keeps
<1> HIDE DEF d
<1>7. Keeps(d, e) /\ ChurnDone(d, e, p, ev) BY <1>6, ChurnSmKeeps, ChurnSmDone DEF Keeps, Inv
<1> HIDE DEF e
<1>8. Spares(e, u) BY <1>7, TxSpares DEF Keeps, Inv
<1> HIDE DEF u
<1> DEFINE l == s.link[p]
           la == a.link[p]
           lb == b.link[p]
           ld == d.link[p]
           le == e.link[p]
<1>9. Hears(la, l) /\ Paces(lb, la) /\ c.link[p] = lb /\ Muxes(ld, lb) /\ Observes(le, ld)
  BY <1>1, <1>3, <1>4, <1>6, <1>7 DEF RcvDone, PeriodicDone, Untouched, MuxDone, ChurnDone
<1>10. Only(s, e, p)
  <2>1. Only(b, c, p) BY <1>4, SameSpares, SparesOnly DEF Untouched
  <2>2. Only(s, a, p) /\ Only(a, b, p) /\ Only(c, d, p) /\ Only(d, e, p)
    BY <1>1, <1>3, <1>6, <1>7 DEF RcvDone, PeriodicDone, MuxDone, ChurnDone
  <2>3. Only(s, b, p) BY <2>2, OnlyTrans
  <2>4. Only(s, c, p) BY <2>1, <2>3, OnlyTrans
  <2>5. Only(s, d, p) BY <2>2, <2>4, OnlyTrans
  <2> QED BY <2>2, <2>5, OnlyTrans
<1>11. ASSUME Due(l, ev) PROVE Ticks(le)
  <2>1. RcvTick(le)
    <3>1. RcvTick(la) BY <1>1, <1>11 DEF Due, RcvDone
    <3> QED BY <1>9, <3>1 DEF Paces, Muxes, Observes, SameRcv, RcvTick
  <2>2. PeriodicTick(le)
    <3>1. PeriodicTick(l) \/ ev.type \in {"begin", "periodic"} BY <1>11 DEF Due
    <3>2. PeriodicTick(la) \/ ev.type \in {"begin", "periodic"}
      BY <1>9, <3>1 DEF Hears, SamePeriodic, PeriodicTick
    <3>3. PeriodicTick(lb) BY <1>3, <3>2 DEF PeriodicDone
    <3> QED BY <1>9, <3>3 DEF Muxes, Observes, SamePeriodic, PeriodicTick
  <2>3. ActorTick(le) /\ PartnerTick(le)
    <3>1. /\ ActorTick(l) \/ ev.type \in {"begin", "actor_churn"}
          /\ PartnerTick(l) \/ ev.type \in {"begin", "partner_churn"}
      BY <1>11 DEF Due
    <3>2. SameChurn(ld, l) BY <1>9 DEF Hears, Paces, Muxes, SameChurn
    <3>3. /\ ActorTick(ld) \/ ev.type \in {"begin", "actor_churn"}
          /\ PartnerTick(ld) \/ ev.type \in {"begin", "partner_churn"}
      BY <3>1, <3>2 DEF SameChurn, ActorTick, PartnerTick
    <3> QED BY <1>7, <3>3 DEF ChurnDone
  <2>4. WaitTick(le)
    <3>1. WaitTick(l) \/ ev.type = "begin" BY <1>11 DEF Due
    <3>2. WaitTick(lb) \/ ev.type = "begin"
      BY <1>9, <3>1 DEF Hears, Paces, SameMux, WaitTick
    <3>3. WaitTick(ld) BY <1>6, <1>9, <3>2 DEF MuxDone
    <3> QED BY <1>9, <3>3 DEF Observes, SameMux, WaitTick
  <2> QED BY <2>1, <2>2, <2>3, <2>4 DEF Ticks
<1>12. SameSystem(le, l) \/ le.mux # "COLLECTING_DISTRIBUTING"
  <2>1. le.mux = ld.mux /\ SameSystem(le, la) /\ lb.selected = la.selected
    BY <1>9 DEF Paces, Muxes, Observes, SameMux, SameSystem
  <2>2. CASE ev.type = "begin" BY <1>6, <2>1, <2>2 DEF MuxDone
  <2>3. CASE Live(s)
    <3>1. SameSystem(la, l) \/ la.selected # "SELECTED" BY <1>1, <2>3 DEF RcvDone
    <3>2. la.selected # "SELECTED" => ld.mux # "COLLECTING_DISTRIBUTING"
      BY <1>6, <1>9, <2>1 DEF MuxDone
    <3> QED BY <2>1, <3>1, <3>2 DEF SameSystem
  <2> QED BY <2>2, <2>3
<1>13. ev.type = "begin" => le.mux # "COLLECTING_DISTRIBUTING"
  BY <1>6, <1>9 DEF MuxDone, Observes, SameMux
<1>14. RunDone(s, e, p, ev) BY <1>10, <1>11, <1>12, <1>13 DEF RunDone
<1> QED BY <1>2, <1>8, <1>14, RunThen

LEMMA RunSmDone ==
  ASSUME NEW s, Inv(s), NEW p \in Port, NEW ev, ev.pdu \in Pdu,
         Live(s) \/ ev.type = "begin", IsEnabled(s.link[p])
  PROVE  RunDone(s, RunSm(s, p, ev), p, ev)
<1> DEFINE t == Machines(s, p, ev)
<1>1. s.link[p].up BY DEF IsEnabled
<1>2. Keeps(s, t) /\ RunDone(s, t, p, ev) BY <1>1, MachinesKeep, MachinesDone
<1>3. RunSm(s, p, ev) \in {AttachMux(t, p), DetachMux(t, p, TRUE), t} BY Zenon DEF RunSm, TellNsm
<1> HIDE DEF t
<1>4. Spares(t, AttachMux(t, p)) /\ Spares(t, DetachMux(t, p, TRUE)) /\ Spares(t, t)
  BY <1>2, AttachMuxFrame, DetachMuxFrame, SameSpares, SparesRefl DEF Keeps, Inv, Untouched
<1> QED BY <1>2, <1>3, <1>4, RunThen

LEMMA RunSmOff ==
  ASSUME NEW s, NEW p \in Port, NEW ev, ~IsEnabled(s.link[p])
  PROVE  RunSm(s, p, ev) = s
  BY Zenon DEF RunSm, TellNsm

----------------------------------------------------------------------------
(* The handlers of the daemon.                                              *)

WalkType == walk \in [phase: {"idle", "credit", "select"}, todo: SUBSET Port]

IInv == Inv(State) /\ WalkType

LEMMA StateIs ==
  /\ State.link = link /\ State.agg = agg /\ State.links = links /\ State.agg_cnt = agg_cnt
  /\ State.system_priority = system_priority /\ State.ifg = ifg /\ State.nsm = nsm
  /\ State.static = static /\ State.crashed = crashed
  BY DEF State

LEMMA Lands ==
  ASSUME NEW s, Inv(s), Becomes(s)
  PROVE  Inv(State)'
<1> DEFINE t == State'
<1>1. /\ t.link = s.link /\ t.agg = s.agg
      /\ t.agg_cnt = s.agg_cnt /\ t.static = s.static
  BY DEF State, Becomes
<1>2. t \in DaemonState
  <2>0. s \in DaemonState BY DEF Inv
  <2>1. /\ s.link \in [Port -> Link] /\ s.agg \in [Key -> Aggregator] /\ s.links \in SUBSET Port
        /\ s.agg_cnt \in Nat /\ s.system_priority \in Prio /\ s.ifg \in [Port -> Interface]
        /\ s.nsm \in [Key -> SUBSET Port] /\ s.static \in Nat /\ s.crashed \in BOOLEAN
    BY <2>0, Zenon DEF DaemonState
  <2> DEFINE F == [port: Port, pdu: [actor: Info, partner: Info]]
  <2>2. <<>> \in Seq(F)
    <3> HIDE DEF F
    <3> QED BY SMT
  <2>3. t = [link |-> s.link, agg |-> s.agg, links |-> s.links, agg_cnt |-> s.agg_cnt,
          system_priority |-> s.system_priority, ifg |-> s.ifg, nsm |-> s.nsm,
          static |-> s.static, sent |-> <<>>, crashed |-> s.crashed] BY Zenon DEF State, Becomes
  <2> HIDE DEF t
  <2> QED BY <2>1, <2>2, <2>3, Zenon DEF DaemonState
<1>3. Quiet(s, t)
  <2> HIDE DEF t
  <2> QED BY <1>1, <1>2 DEF Quiet, Calm, SameCounts, SameLink, SameAgg
<1>4. Inv(t)
  <2> HIDE DEF t
  <2> QED BY <1>3, QuietKeeps DEF Keeps
<1> QED BY <1>4

LEMMA DefinedLive == ASSUME Defined PROVE Live(State)
  BY DEF Defined, Live

----------------------------------------------------------------------------
(* Events of a link.                                                       *)

LEMMA EventType ==
  /\ NoEvent.pdu \in Pdu /\ CurrentWhileExpired.pdu \in Pdu /\ PeriodicExpired.pdu \in Pdu
  /\ ActorChurnExpired.pdu \in Pdu /\ PartnerChurnExpired.pdu \in Pdu
  BY NoPduType DEF NoEvent, CurrentWhileExpired, PeriodicExpired, ActorChurnExpired,
                   PartnerChurnExpired

\* A handler that touches up a link and runs its machines.
LEMMA EventKeeps ==
  ASSUME NEW s, Inv(s), Live(s), NEW p \in Port, NEW l \in Link, SameLink(l, s.link[p]),
         NEW ev, ev.pdu \in Pdu
  PROVE  Inv(RunSm(SetLink(s, p, l), p, ev))
<1>1. Keeps(s, SetLink(s, p, l)) BY PatchKeeps
<1> QED BY <1>1, RunSmKeeps DEF Keeps

LEMMA TimerTypes ==
  ASSUME NEW l \in Link
  PROVE  /\ LET m == [l EXCEPT !.current_while = FALSE] IN m \in Link /\ SameLink(m, l)
         /\ LET m == [l EXCEPT !.periodic_timer = FALSE] IN m \in Link /\ SameLink(m, l)
         /\ LET m == [l EXCEPT !.actor_churn_timer = FALSE] IN m \in Link /\ SameLink(m, l)
         /\ LET m == [l EXCEPT !.partner_churn_timer = FALSE] IN m \in Link /\ SameLink(m, l)
<1>1. [l EXCEPT !.current_while = FALSE] \in Link BY ZenonT(40) DEF Link
<1>2. SameLink([l EXCEPT !.current_while = FALSE], l) BY ZenonT(40) DEF Link, SameLink
<1>3. [l EXCEPT !.periodic_timer = FALSE] \in Link BY ZenonT(40) DEF Link
<1>4. SameLink([l EXCEPT !.periodic_timer = FALSE], l) BY ZenonT(40) DEF Link, SameLink
<1>5. [l EXCEPT !.actor_churn_timer = FALSE] \in Link BY ZenonT(40) DEF Link
<1>6. SameLink([l EXCEPT !.actor_churn_timer = FALSE], l) BY ZenonT(40) DEF Link, SameLink
<1>7. [l EXCEPT !.partner_churn_timer = FALSE] \in Link BY ZenonT(40) DEF Link
<1>8. SameLink([l EXCEPT !.partner_churn_timer = FALSE], l) BY ZenonT(40) DEF Link, SameLink
<1> QED BY <1>1, <1>2, <1>3, <1>4, <1>5, <1>6, <1>7, <1>8

LEMMA WaitedType ==
  ASSUME NEW l \in Link, NEW b \in BOOLEAN, NEW c \in BOOLEAN
  PROVE  LET m == [l EXCEPT !.wait_while = FALSE, !.ready_n = b, !.ntt = c]
         IN  m \in Link /\ SameLink(m, l)
<1> DEFINE m == [l EXCEPT !.wait_while = FALSE, !.ready_n = b, !.ntt = c]
<1>1. m \in Link BY ZenonT(40) DEF Link
<1>2. SameLink(m, l) BY ZenonT(40) DEF Link, SameLink
<1> QED BY <1>1, <1>2

LEMMA WaitOverInv ==
  ASSUME NEW s, Inv(s), Live(s), NEW p \in Port
  PROVE  Inv(WaitOver(s, p))
<1> DEFINE chosen == s.link[p].selected = "SELECTED"
           b == s.link[p].ready_n \/ chosen
           c == s.link[p].ntt \/ chosen
           l == [s.link[p] EXCEPT !.wait_while = FALSE, !.ready_n = b, !.ntt = c]
<1>1. b \in BOOLEAN /\ c \in BOOLEAN BY Zenon
<1>2. WaitOver(s, p) = RunSm(SetLink(s, p, l), p, NoEvent) BY Zenon DEF WaitOver
<1>3. l \in Link /\ SameLink(l, s.link[p])
  <2> HIDE DEF b, c
  <2> QED BY <1>1, LinkType, WaitedType DEF Inv
<1> HIDE DEF l
<1> QED BY <1>2, <1>3, EventKeeps, EventType

\* The handlers of LACPDUs and of the timers of a link.
LEMMA LinkEventInv ==
  ASSUME IInv, Defined, NEW p \in Port
  PROVE  /\ \A m \in Pdus[p] : Inv(RunSm(State, p, Received(m)))
         /\ Inv(RunSm(SetLink(State, p, [link[p] EXCEPT !.current_while = FALSE]),
                      p, CurrentWhileExpired))
         /\ Inv(RunSm(SetLink(State, p, [link[p] EXCEPT !.periodic_timer = FALSE]),
                      p, PeriodicExpired))
         /\ Inv(RunSm(SetLink(State, p, [link[p] EXCEPT !.actor_churn_timer = FALSE]),
                      p, ActorChurnExpired))
         /\ Inv(RunSm(SetLink(State, p, [link[p] EXCEPT !.partner_churn_timer = FALSE]),
                      p, PartnerChurnExpired))
<1>0. Inv(State) /\ Live(State) /\ State.link = link BY DefinedLive, StateIs DEF IInv
<1>1. link[p] \in Link BY <1>0, LinkType DEF Inv
<1> HIDE DEF State
<1>2. ASSUME NEW m \in Pdus[p] PROVE Inv(RunSm(State, p, Received(m)))
  <2>1. m \in Pdu BY InputAssumption
  <2>2. Received(m).pdu \in Pdu BY <2>1 DEF Received
  <2> QED BY <1>0, <2>2, RunSmKeeps DEF Keeps
<1>3. Inv(RunSm(SetLink(State, p, [link[p] EXCEPT !.current_while = FALSE]),
                p, CurrentWhileExpired))
  BY <1>0, <1>1, TimerTypes, EventKeeps, EventType
<1>4. Inv(RunSm(SetLink(State, p, [link[p] EXCEPT !.periodic_timer = FALSE]),
                p, PeriodicExpired))
  BY <1>0, <1>1, TimerTypes, EventKeeps, EventType
<1>5. Inv(RunSm(SetLink(State, p, [link[p] EXCEPT !.actor_churn_timer = FALSE]),
                p, ActorChurnExpired))
  BY <1>0, <1>1, TimerTypes, EventKeeps, EventType
<1>6. Inv(RunSm(SetLink(State, p, [link[p] EXCEPT !.partner_churn_timer = FALSE]),
                p, PartnerChurnExpired))
  BY <1>0, <1>1, TimerTypes, EventKeeps, EventType
<1> QED BY <1>2, <1>3, <1>4, <1>5, <1>6

----------------------------------------------------------------------------
(* The interface table and NSM.                                            *)

LEMMA SetInterfaceQuiet ==
  ASSUME NEW s \in DaemonState, NEW p \in Port, NEW i \in Interface
  PROVE  Quiet(s, SetInterface(s, p, i)) /\ SetInterface(s, p, i).link = s.link
<1> DEFINE g == [s.ifg EXCEPT ![p] = i]
           t == [s EXCEPT !.ifg = g]
<1>1. g \in [Port -> Interface]
  <2>1. s.ifg \in [Port -> Interface] BY Zenon DEF DaemonState
  <2> QED BY <2>1
<1>2. SetInterface(s, p, i) = t BY DEF SetInterface
<1> HIDE DEF g
<1>3. t \in DaemonState BY <1>1, Zenon DEF DaemonState
<1>4. t.link = s.link /\ t.agg = s.agg BY Zenon DEF DaemonState
<1>6. t.agg_cnt = s.agg_cnt /\ t.static = s.static BY Zenon DEF DaemonState
<1> HIDE DEF t
<1>5. Quiet(s, t) BY <1>3, <1>4, <1>6 DEF Quiet, Calm, SameCounts, SameLink, SameAgg
<1> QED BY <1>2, <1>4, <1>5

LEMMA SetNsmAllQuiet ==
  ASSUME NEW s \in DaemonState, NEW f \in [Key -> SUBSET Port]
  PROVE  Quiet(s, [s EXCEPT !.nsm = f])
<1> DEFINE t == [s EXCEPT !.nsm = f]
<1>1. t \in DaemonState BY Zenon DEF DaemonState
<1>2. t.link = s.link /\ t.agg = s.agg BY Zenon DEF DaemonState
<1>4. t.agg_cnt = s.agg_cnt /\ t.static = s.static BY Zenon DEF DaemonState
<1> HIDE DEF t
<1>3. Quiet(s, t) BY <1>1, <1>2, <1>4 DEF Quiet, Calm, SameCounts, SameLink, SameAgg
<1> QED BY <1>3 DEF t

LEMMA InterfaceType ==
  ASSUME NEW s \in DaemonState, NEW p \in Port
  PROVE  /\ s.ifg[p] \in Interface /\ s.ifg[p].present \in BOOLEAN
         /\ s.ifg[p].up \in BOOLEAN /\ s.ifg[p].akey \in AdminKey
<1>1. s.ifg \in [Port -> Interface] BY Zenon DEF DaemonState
<1>2. s.ifg[p] \in Interface BY <1>1
<1> QED BY <1>2, Zenon DEF Interface

LEMMA UpType ==
  ASSUME NEW l \in Link, NEW b \in BOOLEAN
  PROVE  LET m == [l EXCEPT !.up = b] IN m \in Link /\ SameLink(m, l) /\ m.up = b
<1> DEFINE m == [l EXCEPT !.up = b]
<1>1. m \in Link BY ZenonT(40) DEF Link
<1>2. SameLink(m, l) BY ZenonT(40) DEF Link, SameLink
<1>3. m.up = b BY ZenonT(40) DEF Link
<1> QED BY <1>1, <1>2, <1>3

LEMMA AttachedType ==
  ASSUME NEW l \in Link, NEW b \in BOOLEAN, l.exists
  PROVE  LET m == [l EXCEPT !.ifp = TRUE, !.up = b] IN m \in Link /\ SameLink(m, l)
<1> DEFINE m == [l EXCEPT !.ifp = TRUE, !.up = b]
<1>1. m \in Link BY ZenonT(40) DEF Link
<1>2. m.agg = l.agg /\ m.selected = l.selected /\ m.exists = l.exists BY ZenonT(40) DEF Link
<1> HIDE DEF m
<1>3. SameLink(m, l) BY <1>2 DEF SameLink
<1> QED BY <1>1, <1>3 DEF m

LEMMA StartKeeps ==
  ASSUME NEW s, Inv(s), NEW p \in Port
  PROVE  Keeps(s, InitializeLink(SelectionAddLink(s, p), p))
<1> DEFINE t == SelectionAddLink(s, p)
<1>1. Keeps(s, t) BY SelectionAddLinkQuiet, QuietKeeps DEF Inv
<1> HIDE DEF t
<1>2. Keeps(t, InitializeLink(t, p)) BY <1>1, InitializeLinkKeeps DEF Keeps
<1>3. Keeps(s, InitializeLink(t, p)) BY <1>1, <1>2, KeepsTrans
<1> QED BY <1>3 DEF t

LEMMA PortAttachKeeps ==
  ASSUME NEW s, Inv(s), NEW p \in Port, s.link[p].exists
  PROVE  Keeps(s, PortAttach(s, p))
<1> DEFINE l == [s.link[p] EXCEPT !.ifp = TRUE, !.up = s.ifg[p].up]
           t == SetLink(s, p, l)
<1>1. l \in Link /\ SameLink(l, s.link[p])
  <2>1. s.link[p] \in Link /\ s.ifg[p].up \in BOOLEAN BY LinkType, InterfaceType DEF Inv
  <2> QED BY <2>1, AttachedType
<1>2. PortAttach(s, p) \in {t, InitializeLink(SelectionAddLink(t, p), p)} BY DEF PortAttach
<1> HIDE DEF l
<1>3. Keeps(s, t) BY <1>1, PatchKeeps
<1> HIDE DEF t
<1>4. Keeps(t, InitializeLink(SelectionAddLink(t, p), p)) BY <1>3, StartKeeps DEF Keeps
<1>5. Keeps(s, InitializeLink(SelectionAddLink(t, p), p)) BY <1>3, <1>4, KeepsTrans
<1> QED BY <1>2, <1>3, <1>5

LEMMA PortUpKeeps ==
  ASSUME NEW s, Inv(s), NEW p \in Port
  PROVE  Keeps(s, PortUp(s, p))
<1> DEFINE t == SetLink(s, p, [s.link[p] EXCEPT !.up = TRUE])
<1>1. Keeps(s, t) BY LinkType, UpType, PatchKeeps DEF Inv
<1>2. PortUp(s, p) = InitializeLink(SelectionAddLink(t, p), p) BY DEF PortUp
<1> HIDE DEF t
<1>3. Keeps(t, InitializeLink(SelectionAddLink(t, p), p)) BY <1>1, StartKeeps DEF Keeps
<1> QED BY <1>1, <1>2, <1>3, KeepsTrans

\* The machines of a port that is down: it stays down, so nothing is attempted.
LEMMA PortDownInv ==
  ASSUME NEW s, Inv(s), Live(s), NEW p \in Port
  PROVE  Inv(PortDown(s, p))
<1> DEFINE c == LinkCleanup(s, p, TRUE)
           l == [c.link[p] EXCEPT !.up = FALSE]
           t == SetLink(c, p, l)
           a == RcvSm(t, p, NoEvent)
           b == PeriodicTxSm(a, p, NoEvent)
           u == MuxSm(b, p, NoEvent)
<1>1. Inv(c) BY CleanupKeeps
<1>2. PortDown(s, p) \in {u, UpdateSelection(u)} BY DEF PortDown, Refresh, Stop
<1> HIDE DEF c
<1>3. c.link[p] \in Link BY <1>1, LinkType DEF Inv
<1>4. l \in Link /\ SameLink(l, c.link[p]) /\ l.up = FALSE BY <1>3, UpType
<1> HIDE DEF l
<1>5. Keeps(c, t) /\ t.link[p] = l BY <1>1, <1>4, PatchKeeps, SetLinkIs DEF Inv
<1>6. Inv(t) BY <1>5 DEF Keeps
<1> HIDE DEF t
<1>7. a = SetLink(t, p, PortDisabled(l))
  BY <1>4, <1>5, Zenon DEF RcvSm, NoEvent
<1>8. PortDisabled(l) \in Link BY <1>4, PortDisabledType
<1>9. Inv(a) BY <1>6, EventType, RcvSmKeeps DEF Keeps
<1>10. a.link[p] = PortDisabled(l) BY <1>6, <1>7, <1>8, SetLinkIs DEF Inv
<1>11. PortDisabled(l).up = FALSE
  BY <1>4, ZenonT(40) DEF PortDisabled, Link
<1> HIDE DEF a
<1>12. Inv(b) BY <1>9, PeriodicTxSmKeeps DEF Keeps
<1>13. ~IsEnabled(b.link[p])
  <2> DEFINE m == PortDisabled(l)
             n == [m EXCEPT !.periodic = "NO_PERIODIC", !.periodic_timer = FALSE]
  <2>1. m \in Link /\ m.up = FALSE BY <1>8, <1>11
  <2>2. NextPeriodic(m, NoEvent) = n BY <2>1, Zenon DEF NextPeriodic, NoPeriodic
  <2>3. b = SetLink(a, p, n) BY <1>10, <2>2 DEF PeriodicTxSm
  <2> HIDE DEF m
  <2>4. n \in Link BY <2>1, PeriodicType
  <2>5. n.up = FALSE BY <2>1, ZenonT(40) DEF Link
  <2> HIDE DEF n
  <2>6. b.link[p] = n BY <1>9, <2>3, <2>4, SetLinkIs DEF Inv
  <2> QED BY <2>5, <2>6 DEF IsEnabled
<1> HIDE DEF b
<1>14. Inv(u) BY <1>12, <1>13, MuxSmKeeps DEF Keeps
<1> HIDE DEF u
<1>15. Inv(UpdateSelection(u)) BY <1>14, UpdateSelectionQuiet, QuietKeeps DEF Keeps, Inv
<1> QED BY <1>2, <1>14, <1>15

LEMMA AdminKeyChangedKeeps ==
  ASSUME NEW s, Inv(s), NEW p \in Port, NEW changed, NEW keep
  PROVE  Keeps(s, AdminKeyChanged(s, p, changed, keep))
<1> DEFINE t == IF keep THEN s ELSE Disaggregate(s, p, TRUE)
<1>1. Keeps(s, t) BY KeepsRefl, DisaggregateOk
<1>2. AdminKeyChanged(s, p, changed, keep) \in {s, SetLink(t, p, Ntt(t.link[p]))} BY DEF AdminKeyChanged
<1> HIDE DEF t
<1>3. Keeps(t, SetLink(t, p, Ntt(t.link[p])))
  BY <1>1, LinkType, NttType, PatchKeeps DEF Keeps, Inv
<1>4. Keeps(s, SetLink(t, p, Ntt(t.link[p]))) BY <1>1, <1>3, KeepsTrans
<1> QED BY <1>2, <1>4, KeepsRefl

----------------------------------------------------------------------------
(* Configuration of a port.                                                *)

LEMMA AddLinkKeeps ==
  ASSUME NEW s, Inv(s), NEW p \in Port, ~s.link[p].exists
  PROVE  Keeps(s, AddLink(s, p))
<1> DEFINE b == s.ifg[p].up
           l == [NoLinkRec EXCEPT !.exists = TRUE, !.ifp = TRUE, !.up = b,
                                  !.act = TRUE, !.dflt = TRUE]
<1>1. b \in BOOLEAN BY InterfaceType DEF Inv
<1>2. l \in Link
  <2> HIDE DEF b
  <2> QED BY <1>1, NoLinkRecType, ZenonT(40) DEF Link
<1>3. l.agg = NoAgg /\ l.selected # "SELECTED" /\ l.exists
  <2> HIDE DEF b
  <2> QED BY SMT DEF NoLinkRec
<1>4. s.link[p].agg = NoAgg BY DEF Inv, Absent
<1>5. \A k \in Key, i \in Slot : s.agg[k].slot[i] # p BY <1>4, NoSlot, ZeroNotKey
<1>6. AddLink(s, p) = SetLink(s, p, l) BY Zenon DEF AddLink
<1> HIDE DEF l
<1> QED BY <1>2, <1>3, <1>5, <1>6, LooseKeeps

LEMMA ConfigTypes ==
  ASSUME NEW l \in Link, NEW k \in Key, NEW b \in BOOLEAN, NEW v \in Prio
  PROVE  /\ LET m == [l EXCEPT !.key = k, !.ntt = TRUE] IN m \in Link /\ SameLink(m, l)
         /\ LET m == [l EXCEPT !.act = b] IN m \in Link /\ SameLink(m, l)
         /\ LET m == [l EXCEPT !.short = b] IN m \in Link /\ SameLink(m, l)
         /\ LET m == [l EXCEPT !.prio = v, !.ntt = TRUE] IN m \in Link /\ SameLink(m, l)
<1>1. [l EXCEPT !.key = k, !.ntt = TRUE] \in Link BY ZenonT(40) DEF Link
<1>2. SameLink([l EXCEPT !.key = k, !.ntt = TRUE], l) BY ZenonT(40) DEF Link, SameLink
<1>3. [l EXCEPT !.act = b] \in Link BY ZenonT(40) DEF Link
<1>4. SameLink([l EXCEPT !.act = b], l) BY ZenonT(40) DEF Link, SameLink
<1>5. [l EXCEPT !.short = b] \in Link BY ZenonT(40) DEF Link
<1>6. SameLink([l EXCEPT !.short = b], l) BY ZenonT(40) DEF Link, SameLink
<1>7. [l EXCEPT !.prio = v, !.ntt = TRUE] \in Link BY ZenonT(40) DEF Link
<1>8. SameLink([l EXCEPT !.prio = v, !.ntt = TRUE], l) BY ZenonT(40) DEF Link, SameLink
<1> QED BY <1>1, <1>2, <1>3, <1>4, <1>5, <1>6, <1>7, <1>8

LEMMA SetLinkAdminKeyInv ==
  ASSUME NEW s, Inv(s), Live(s), NEW p \in Port, NEW k \in Key
  PROVE  Inv(SetLinkAdminKey(s, p, k))
<1> DEFINE r == ReleaseReference(s, p)
           t == LeaveAggregator(r, p, TRUE)
           l == [t.link[p] EXCEPT !.key = k, !.ntt = TRUE]
           u == SetLink(t, p, l)
           w == SetLink(SetAgg(u, k, [u.agg[k] EXCEPT !.refCnt = Incr(u.agg[k].refCnt)]),
                        p, [u.link[p] EXCEPT !.match = TRUE])
           v == IF u.agg[k].alive THEN w ELSE u
<1>1. Keeps(s, r) BY ReleaseReferenceQuiet, QuietKeeps DEF Inv
<1> HIDE DEF r
<1>2. Inv(t) BY <1>1, LeaveKeeps DEF Keeps
<1>3. SetLinkAdminKey(s, p, k) \in {s, InitializeLink(SelectionAddLink(v, p), p), v}
  BY Zenon DEF SetLinkAdminKey, TakeKey, r
<1> HIDE DEF t
<1>4. l \in Link /\ SameLink(l, t.link[p])
  <2>1. t.link[p] \in Link BY <1>2, LinkType DEF Inv
  <2>2. DefaultPrio \in Prio /\ TRUE \in BOOLEAN BY PrioAssumption
  <2> QED BY <2>1, <2>2, ConfigTypes
<1> HIDE DEF l
<1>5. Inv(u) BY <1>2, <1>4, PatchKeeps DEF Keeps
<1> HIDE DEF u
<1>6. Inv(w)
  <2>1. Incr(u.agg[k].refCnt) \in Octet BY <1>5, RefCntType, OctetType DEF Inv
  <2>2. Quiet(u, w) BY <1>5, <2>1, SetReferenceQuiet DEF Inv
  <2> HIDE DEF w
  <2> QED BY <1>5, <2>2, QuietKeeps DEF Keeps
<1> HIDE DEF w
<1>7. Inv(v) BY <1>5, <1>6
<1> HIDE DEF v
<1>8. Inv(InitializeLink(SelectionAddLink(v, p), p)) BY <1>7, StartKeeps DEF Keeps
<1> QED BY <1>3, <1>7, <1>8

LEMMA ConfigAddInv ==
  ASSUME NEW r, Inv(r), Live(r), NEW p \in Port, NEW k \in Key, NEW act \in BOOLEAN
  PROVE  Inv(ConfigAdd(r, p, k, act))
<1> DEFINE s == IF r.link[p].exists THEN r ELSE AddLink(r, p)
           l == [s.link[p] EXCEPT !.act = act]
           a == SetLink(s, p, l)
           t == SetLinkAdminKey(a, p, k)
           u == UpdateSelection(t)
<1>1. Keeps(r, s) BY KeepsRefl, AddLinkKeeps
<1>2. ConfigAdd(r, p, k, act) \in {InitializeLink(u, p), t} BY DEF ConfigAdd, Restart
<1> HIDE DEF s
<1>3. l \in Link /\ SameLink(l, s.link[p])
  <2>1. s.link[p] \in Link BY <1>1, LinkType DEF Inv, Keeps
  <2>2. DefaultPrio \in Prio BY PrioAssumption
  <2> QED BY <2>1, <2>2, ConfigTypes
<1> HIDE DEF l
<1>4. Inv(a) /\ Live(a) BY <1>1, <1>3, PatchKeeps DEF Keeps
<1> HIDE DEF a
<1>5. Inv(t) BY <1>4, SetLinkAdminKeyInv
<1> HIDE DEF t
<1>6. Inv(u) BY <1>5, UpdateSelectionQuiet, QuietKeeps DEF Keeps, Inv
<1> HIDE DEF u
<1>7. Inv(InitializeLink(u, p)) BY <1>6, InitializeLinkKeeps DEF Keeps
<1> QED BY <1>2, <1>5, <1>7

----------------------------------------------------------------------------
(* The connection to NSM is lost.                                          *)

Detach(l) ==
    IF ~l.exists THEN l
    ELSE [TimersOff(IF l.agg # NoAgg THEN Dropped(l) ELSE l) EXCEPT !.ifp = FALSE, !.up = FALSE]

LEMMA DetachType ==
  ASSUME NEW l \in Link, l.selected = "SELECTED" <=> l.agg # NoAgg,
         ~l.exists => l.agg = NoAgg /\ ~l.ifp
  PROVE  /\ Detach(l) \in Link
         /\ Detach(l).agg = NoAgg /\ Detach(l).selected # "SELECTED"
         /\ ~Detach(l).exists => ~Detach(l).ifp
<1>1. CASE ~l.exists
  <2>1. Detach(l) = l BY <1>1 DEF Detach
  <2> QED BY <1>1, <2>1
<1>2. CASE l.exists
  <2> DEFINE a == IF l.agg # NoAgg THEN Dropped(l) ELSE l
             b == TimersOff(a)
             c == [b EXCEPT !.ifp = FALSE, !.up = FALSE]
  <2>1. a \in Link /\ a.agg = NoAgg /\ a.selected # "SELECTED" BY DroppedType
  <2>2. Detach(l) = c BY <1>2 DEF Detach
  <2> HIDE DEF a
  <2>3. b \in Link /\ SameLink(b, a) BY <2>1, TimersOffType
  <2> HIDE DEF b
  <2>4. b.agg = NoAgg /\ b.selected # "SELECTED" BY <2>1, <2>3 DEF SameLink
  <2>5. c \in Link BY <2>3, ZenonT(40) DEF Link
  <2>6. c.agg = b.agg /\ c.selected = b.selected /\ ~c.ifp BY <2>3, ZenonT(40) DEF Link
  <2> HIDE DEF c
  <2> QED BY <2>2, <2>4, <2>5, <2>6
<1> QED BY <1>1, <1>2

LEMMA DisconnectedInv ==
  ASSUME NEW s, Inv(s), NEW f \in [Port -> Link], NEW n \in Nat, NEW L \in SUBSET Port,
         NEW g \in [Port -> Interface], \A p \in Port : f[p] = Detach(s.link[p]),
         NEW x \in Nat, x <= n
  PROVE  Inv([s EXCEPT !.link = f, !.agg = [k \in Key |-> FreeAgg], !.agg_cnt = n,
                       !.links = L, !.ifg = g, !.nsm = [k \in Key |-> {}], !.static = x])
<1> DEFINE h == [k \in Key |-> FreeAgg]
           m == [k \in Key |-> {}]
           u == [s EXCEPT !.link = f, !.agg = h, !.agg_cnt = n, !.links = L, !.ifg = g, !.nsm = m,
                          !.static = x]
<1>0. s \in DaemonState BY DEF Inv
<1>1. h \in [Key -> Aggregator] /\ \A k \in Key : h[k] = FreeAgg BY FreeAggType
<1>2. m \in [Key -> SUBSET Port] OBVIOUS
<1> HIDE DEF h, m
<1>3. u \in DaemonState BY <1>0, <1>1, <1>2, ZenonT(40) DEF DaemonState
<1>4. u.link = f /\ u.agg = h BY <1>0, ZenonT(40) DEF DaemonState
<1>7. u.agg_cnt = n /\ u.static = x BY <1>0, ZenonT(40) DEF DaemonState
<1> HIDE DEF u
<1>8. Covered(u)
  <2>1. Alive(u) = {} BY <1>1, <1>4 DEF Alive, FreeAgg
  <2>2. Cardinality(Alive(u)) = 0 BY <2>1, FS_EmptySet
  <2> QED BY <1>7, <2>2, SMT DEF Covered
<1>5. Dropping(s, u, Port)
  <2>1. ASSUME NEW p \in Port
        PROVE  /\ u.link[p].agg = NoAgg /\ u.link[p].selected # "SELECTED"
               /\ ~u.link[p].exists => ~u.link[p].ifp
    <3>1. s.link[p] \in Link BY <1>0, LinkType
    <3>2. s.link[p].selected = "SELECTED" <=> s.link[p].agg # NoAgg BY DEF Inv, Sel
    <3>3. ~s.link[p].exists => s.link[p].agg = NoAgg /\ ~s.link[p].ifp BY DEF Inv, Absent
    <3>4. u.link[p] = Detach(s.link[p]) BY <1>4
    <3> QED BY <3>1, <3>2, <3>3, <3>4, DetachType
  <2>2. \A k \in Key : u.agg[k].alive => s.agg[k].alive BY <1>1, <1>4 DEF FreeAgg
  <2>3. ASSUME NEW k \in Key, NEW i \in Slot
        PROVE  u.agg[k].slot[i] = NoLink /\ ~u.agg[k].alive
    BY <1>1, <1>4 DEF FreeAgg
  <2>4. \A p \in Port \ Port : SameLink(u.link[p], s.link[p]) OBVIOUS
  <2> QED BY <1>3, <1>8, <2>1, <2>2, <2>3, <2>4, ZeroNotPort, Zenon DEF Dropping
<1>6. Inv(u) BY <1>5, DropInv
<1> QED BY <1>6 DEF u, h, m

----------------------------------------------------------------------------
(* The invariant is inductive.                                             *)

LEMMA RunsKeeps ==
  ASSUME IInv, NEW s, Inv(s), Runs(s)
  PROVE  IInv'
<1>1. Inv(State)' BY Lands DEF Runs
<1>2. WalkType' BY DEF IInv, WalkType, Runs
<1> QED BY <1>1, <1>2 DEF IInv

LEMMA OnwardType ==
  ASSUME IInv, NEW w \in [phase: {"idle", "credit", "select"}, todo: SUBSET Port]
  PROVE  Onward(w) \in [phase: {"idle", "credit", "select"}, todo: SUBSET Port]
<1>1. links \in SUBSET Port
  <2>1. State \in DaemonState BY DEF IInv, Inv
  <2>2. State.links \in SUBSET Port
    <3> HIDE DEF State
    <3> QED BY <2>1, Zenon DEF DaemonState
  <2> QED BY <2>2, StateIs
<1> QED BY <1>1, SMT DEF Onward, Idle

\* A step of the transmit timer's walk.
LEMMA WalkKeeps ==
  ASSUME IInv, NEW s, Inv(s), Becomes(s),
         NEW w \in [phase: {"idle", "credit", "select"}, todo: SUBSET Port], walk' = Onward(w)
  PROVE  IInv'
<1>1. Inv(State)' BY Lands
<1>2. walk' \in [phase: {"idle", "credit", "select"}, todo: SUBSET Port] BY OnwardType
<1> QED BY <1>1, <1>2 DEF IInv, WalkType

LEMMA TodoType ==
  ASSUME IInv, NEW p \in Port
  PROVE  [walk EXCEPT !.todo = @ \ {p}] \in [phase: {"idle", "credit", "select"}, todo: SUBSET Port]
<1>1. walk \in [phase: {"idle", "credit", "select"}, todo: SUBSET Port] BY DEF IInv, WalkType
<1>2. walk.todo \ {p} \in SUBSET Port BY <1>1, SMT
<1> QED BY <1>1, <1>2, Zenon

LEMMA InitInv == ASSUME Init PROVE IInv
<1> DEFINE t == State
<1>1. t.link = [p \in Port |-> NoLinkRec] /\ t.agg = [k \in Key |-> FreeAgg]
  BY DEF Init, State
<1>2. t \in DaemonState
  <2> DEFINE akey == CHOOSE a \in AdminKey : TRUE
  <2>1. akey \in AdminKey BY AdminKeyAssumption
  <2> HIDE DEF akey
  <2>2. link \in [Port -> Link] BY NoLinkRecType DEF Init
  <2>3. agg \in [Key -> Aggregator] BY FreeAggType DEF Init
  <2>4. [present |-> FALSE, up |-> FALSE, akey |-> akey] \in Interface
    BY <2>1, Zenon DEF Interface
  <2>5. ifg \in [Port -> Interface] BY <2>4 DEF Init, akey
  <2>6. links \in SUBSET Port /\ agg_cnt \in Nat /\ static \in Nat BY DEF Init
  <2>7. system_priority \in Prio BY PrioAssumption DEF Init
  <2>8. nsm \in [Key -> SUBSET Port] BY DEF Init
  <2>9. crashed \in BOOLEAN BY Zenon DEF Init
  <2> DEFINE F == [port: Port, pdu: [actor: Info, partner: Info]]
  <2>10. <<>> \in Seq(F)
    <3> HIDE DEF F
    <3> QED BY SMT
  <2> QED BY <2>2, <2>3, <2>5, <2>6, <2>7, <2>8, <2>9, <2>10, Zenon DEF State, DaemonState
<1> HIDE DEF t
<1>3. Sel(t) BY <1>1 DEF Sel, NoLinkRec
<1>4. Backed(t) BY <1>1 DEF Backed, FreeAgg
<1>5. Held(t) BY <1>1 DEF Held, FreeAgg
<1>6. Absent(t) BY <1>1 DEF Absent, NoLinkRec
<1>8. Covered(t)
  <2>1. Alive(t) = {} BY <1>1 DEF Alive, FreeAgg
  <2>2. Cardinality(Alive(t)) = 0 BY <2>1, FS_EmptySet
  <2>3. t.agg_cnt = 0 /\ t.static = 0 BY DEF Init, State, t
  <2> QED BY <2>2, <2>3, SMT DEF Covered
<1>7. Inv(t) BY <1>2, <1>3, <1>4, <1>5, <1>6, <1>8 DEF Inv
<1>9. WalkType BY DEF Init, WalkType, Idle
<1> QED BY <1>7, <1>9 DEF IInv, t

LEMMA WalkStepInv == ASSUME IInv, WalkStep PROVE IInv'
<1>1. CASE TxTimerExpiry
  <2> DEFINE w == [phase |-> "credit", todo |-> {p \in Port : link[p].exists}]
  <2>1. Inv(State) BY DEF IInv
  <2>2. Becomes(State) BY <1>1, StateIs DEF TxTimerExpiry, Becomes
  <2>3. w \in [phase: {"idle", "credit", "select"}, todo: SUBSET Port] OBVIOUS
  <2>4. walk' = Onward(w) BY <1>1 DEF TxTimerExpiry
  <2> HIDE DEF w
  <2> QED BY <2>1, <2>2, <2>3, <2>4, WalkKeeps
<1>2. ASSUME NEW p \in Port, GrantCredit(p) PROVE IInv'
  <2> DEFINE n == IF link[p].tx_count >= TxLimit THEN link[p].tx_count - TxLimit ELSE 0
             l == [link[p] EXCEPT !.tx_count = n]
             s == SetLink(State, p, l)
             u == IF link[p].ntt THEN RunSm(s, p, NoEvent) ELSE s
             w == [walk EXCEPT !.todo = @ \ {p}]
  <2>1. Inv(State) /\ Live(State) /\ State.link = link
    BY <1>2, DefinedLive, StateIs DEF IInv, GrantCredit
  <2>2. link[p] \in Link BY <2>1, LinkType DEF Inv
  <2>3. n \in Short
    <3>1. link[p].tx_count \in Short BY <2>2, LinkFields
    <3> QED BY <3>1, LimitAssumption, ShortType, SMT DEF Short
  <2>4. Becomes(u) /\ walk' = Onward(w) BY <1>2, Zenon DEF GrantCredit
  <2> HIDE DEF n
  <2>5. l \in Link /\ SameLink(l, link[p])
    <3>1. TRUE \in BOOLEAN OBVIOUS
    <3> QED BY <2>2, <2>3, <3>1, TxType
  <2> HIDE DEF l
  <2>6. Inv(s) BY <2>1, <2>5, PatchKeeps DEF Keeps
  <2>7. Inv(RunSm(s, p, NoEvent)) BY <2>1, <2>5, EventKeeps, EventType
  <2> HIDE DEF s
  <2>8. Inv(u) BY <2>6, <2>7
  <2>9. w \in [phase: {"idle", "credit", "select"}, todo: SUBSET Port] BY TodoType
  <2> HIDE DEF u, w
  <2> QED BY <2>4, <2>8, <2>9, WalkKeeps
<1>3. ASSUME NEW p \in Port, Select(p) PROVE IInv'
  <2> DEFINE wants == \/ link[p].mux = "DETACHED" /\ link[p].selected = "UNSELECTED"
                      \/ link[p].selected = "STANDBY"
             t == IF wants THEN AttemptToAggregate(State, p) ELSE State
             u == IF ~IsEnabled(link[p]) THEN State ELSE Tx(t, p)
             w == [walk EXCEPT !.todo = @ \ {p}]
  <2>1. Inv(State) /\ Live(State) BY <1>3, DefinedLive DEF IInv, Select
  <2>2. Becomes(u) /\ walk' = Onward(w) BY <1>3, Zenon DEF Select
  <2>3. Inv(t) BY <2>1, AttemptKeeps
  <2> HIDE DEF t
  <2>4. Inv(Tx(t, p)) BY <2>3, TxKeeps DEF Keeps
  <2>5. Inv(u) BY <2>1, <2>4
  <2>6. w \in [phase: {"idle", "credit", "select"}, todo: SUBSET Port] BY TodoType
  <2> HIDE DEF u, w
  <2> QED BY <2>2, <2>5, <2>6, WalkKeeps
<1> QED BY <1>1, <1>2, <1>3 DEF WalkStep

LEMMA TimerStepInv ==
  ASSUME IInv, NEW p \in Port,
         \/ WaitWhileExpiry(p) \/ CurrentWhileExpiry(p) \/ PeriodicExpiry(p)
         \/ ActorChurnExpiry(p) \/ PartnerChurnExpiry(p)
  PROVE  IInv'
<1>1. Defined /\ Inv(State) /\ Live(State)
  BY DefinedLive DEF IInv, WaitWhileExpiry, CurrentWhileExpiry, PeriodicExpiry,
                     ActorChurnExpiry, PartnerChurnExpiry, Runs
<1>2. CASE WaitWhileExpiry(p)
  <2>1. Inv(WaitOver(State, p)) BY <1>1, WaitOverInv
  <2> QED BY <1>2, <2>1, RunsKeeps DEF WaitWhileExpiry
<1>3. CASE CurrentWhileExpiry(p)
  BY <1>1, <1>3, LinkEventInv, RunsKeeps, Zenon DEF CurrentWhileExpiry
<1>4. CASE PeriodicExpiry(p)
  BY <1>1, <1>4, LinkEventInv, RunsKeeps, Zenon DEF PeriodicExpiry
<1>5. CASE ActorChurnExpiry(p)
  BY <1>1, <1>5, LinkEventInv, RunsKeeps, Zenon DEF ActorChurnExpiry
<1>6. CASE PartnerChurnExpiry(p)
  BY <1>1, <1>6, LinkEventInv, RunsKeeps, Zenon DEF PartnerChurnExpiry
<1> QED BY <1>2, <1>3, <1>4, <1>5, <1>6

LEMMA PartnerStepInv == ASSUME IInv, PartnerStep PROVE IInv'
<1>1. ASSUME NEW p \in Port, HandleMarker(p) PROVE IInv'
  <2>1. Runs(MarkerTx(State, p)) BY <1>1 DEF HandleMarker
  <2>2. Inv(MarkerTx(State, p)) BY MarkerTxKeeps DEF IInv, Keeps
  <2> QED BY <2>1, <2>2, RunsKeeps
<1>2. ASSUME NEW p \in Port, NEW m \in Pdus[p], HandlePacket(p, m) PROVE IInv'
  <2>1. Runs(RunSm(State, p, Received(m))) BY <1>2 DEF HandlePacket
  <2>2. Inv(RunSm(State, p, Received(m))) BY <2>1, LinkEventInv DEF Runs
  <2> QED BY <2>1, <2>2, RunsKeeps
<1> QED BY <1>1, <1>2 DEF PartnerStep

LEMMA InterfaceStepInv ==
  ASSUME IInv, NEW p \in Port, NEW up \in BOOLEAN, NEW a \in AdminKey,
         InterfaceAdd(p, up, a) \/ \E keep \in BOOLEAN : InterfaceState(p, up, a, keep)
  PROVE  IInv'
<1>1. Defined /\ Inv(State) /\ Live(State) /\ State.link = link /\ State.ifg = ifg
  BY DefinedLive, StateIs DEF IInv, InterfaceAdd, InterfaceState, Runs
<1>2. CASE InterfaceAdd(p, up, a)
  <2> DEFINE i == [present |-> TRUE, up |-> up, akey |-> a]
             s == SetInterface(State, p, i)
             u == IF link[p].exists THEN PortAttach(s, p) ELSE s
  <2>1. i \in Interface
    <3>1. TRUE \in BOOLEAN OBVIOUS
    <3> QED BY <3>1, Zenon DEF Interface
  <2>2. Runs(u) BY <1>2, Zenon DEF InterfaceAdd
  <2> HIDE DEF i, State
  <2>3. Quiet(State, s) /\ s.link = State.link BY <1>1, <2>1, SetInterfaceQuiet DEF Inv
  <2>4. Inv(s) BY <1>1, <2>3, QuietKeeps DEF Keeps
  <2>5. link[p].exists => Inv(PortAttach(s, p))
    <3> HIDE DEF s
    <3> QED BY <1>1, <2>3, <2>4, PortAttachKeeps DEF Keeps
  <2>6. Inv(u)
    <3> HIDE DEF s
    <3> QED BY <2>4, <2>5
  <2> HIDE DEF u
  <2> QED BY <2>2, <2>6, RunsKeeps
<1>3. ASSUME NEW keep \in BOOLEAN, InterfaceState(p, up, a, keep) PROVE IInv'
  <2> DEFINE i == [ifg[p] EXCEPT !.up = up, !.akey = a]
             s == SetInterface(State, p, i)
             changed == Known(p) /\ a # ifg[p].akey
             t == StateChanged(s, p, up)
             u == AdminKeyChanged(t, p, changed, keep)
  <2>1. i \in Interface
    <3>1. ifg[p] \in Interface BY <1>1, InterfaceType DEF Inv
    <3> QED BY <3>1, Zenon DEF Interface
  <2>2. Runs(u) BY <1>3, Zenon DEF InterfaceState
  <2> HIDE DEF i
  <2>3. Quiet(State, s) BY <1>1, <2>1, SetInterfaceQuiet DEF Inv
  <2>4. Inv(s) /\ Live(s) BY <1>1, <2>3, QuietKeeps DEF Keeps
  <2> HIDE DEF s
  <2>5. t \in {PortUp(s, p), PortDown(s, p), s} BY Zenon DEF StateChanged
  <2> HIDE DEF t
  <2>6. Inv(t)
    <3>1. Inv(PortUp(s, p)) BY <2>4, PortUpKeeps DEF Keeps
    <3>2. Inv(PortDown(s, p)) BY <2>4, PortDownInv
    <3> QED BY <2>4, <2>5, <3>1, <3>2
  <2> HIDE DEF changed
  <2>8. Inv(u) BY <2>6, AdminKeyChangedKeeps DEF Keeps
  <2> HIDE DEF u
  <2> QED BY <2>2, <2>8, RunsKeeps
<1> QED BY <1>2, <1>3

LEMMA DeleteStepInv ==
  ASSUME IInv, NEW p \in Port, InterfaceDelete(p) \/ AggregatorConfigDelete(p)
  PROVE  IInv'
<1>1. Defined /\ Inv(State) /\ Live(State) /\ State.link = link /\ State.ifg = ifg
  BY DefinedLive, StateIs DEF IInv, InterfaceDelete, AggregatorConfigDelete, Runs
<1>2. CASE InterfaceDelete(p)
  <2> DEFINE s == IF Known(p) THEN DeleteLink(State, p, FALSE) ELSE State
             i == [ifg[p] EXCEPT !.present = FALSE, !.up = FALSE]
             t == SetInterface(s, p, i)
             m == [k \in Key |-> t.nsm[k] \ {p}]
             u == [t EXCEPT !.nsm = m]
  <2>1. Inv(s) BY <1>1, DeleteLinkKeeps
  <2>2. i \in Interface
    <3>1. ifg[p] \in Interface BY <1>1, InterfaceType DEF Inv
    <3> QED BY <3>1, Zenon DEF Interface
  <2>3. Runs(u) BY <1>2, Zenon DEF InterfaceDelete
  <2> HIDE DEF s, i
  <2>4. Inv(t)
    <3>1. Quiet(s, t) BY <2>1, <2>2, SetInterfaceQuiet DEF Inv
    <3> HIDE DEF t
    <3> QED BY <2>1, <3>1, QuietKeeps DEF Keeps
  <2> HIDE DEF t
  <2>5. m \in [Key -> SUBSET Port]
    <3>1. t.nsm \in [Key -> SUBSET Port] BY <2>4, Zenon DEF Inv, DaemonState
    <3> QED BY <3>1
  <2> HIDE DEF m
  <2>6. Inv(u)
    <3>1. Quiet(t, u) BY <2>4, <2>5, SetNsmAllQuiet DEF Inv
    <3> HIDE DEF u
    <3> QED BY <2>4, <3>1, QuietKeeps DEF Keeps
  <2> HIDE DEF u
  <2> QED BY <2>3, <2>6, RunsKeeps
<1>3. CASE AggregatorConfigDelete(p)
  <2> DEFINE b == IsEnabled(link[p])
             u == DeleteLink(State, p, b)
  <2>1. b \in BOOLEAN
    <3>1. link[p] \in Link BY <1>1, LinkType DEF Inv
    <3>2. link[p].ifp \in BOOLEAN /\ link[p].up \in BOOLEAN BY <3>1, Zenon DEF Link
    <3> QED BY <3>2, Zenon DEF IsEnabled
  <2>2. Runs(u) BY <1>3, Zenon DEF AggregatorConfigDelete
  <2> HIDE DEF b
  <2>3. Inv(u) BY <1>1, <2>1, DeleteLinkKeeps
  <2> HIDE DEF u
  <2> QED BY <2>2, <2>3, RunsKeeps
<1> QED BY <1>2, <1>3

LEMMA AggregatorStepInv ==
  ASSUME IInv, NEW k \in Key, AggregatorInterfaceDelete(k)
  PROVE  IInv'
<1> DEFINE s == DeleteAtNsm(State, k)
           t == DetachLinks(s, k, FALSE)
           u == FreeAggregator(t, k)
<1>1. Inv(State) BY DEF IInv
<1>2. Inv(s) /\ s.agg[k].alive
  <2>1. Quiet(State, s) BY <1>1, DeleteAtNsmQuiet DEF Inv
  <2>2. State.agg[k].alive BY StateIs DEF AggregatorInterfaceDelete
  <2> HIDE DEF s
  <2>3. s.agg[k].alive BY <2>1, <2>2 DEF Quiet, Calm, SameAgg
  <2> QED BY <1>1, <2>1, <2>3, QuietKeeps DEF Keeps
<1>3. Runs(u) BY DEF AggregatorInterfaceDelete
<1> HIDE DEF s
<1>4. Inv(t) /\ t.agg[k].alive BY <1>2, DetachLinksKeeps
<1> HIDE DEF t
<1>5. Inv(u) BY <1>4, FreeKeeps
<1> HIDE DEF u
<1> QED BY <1>3, <1>5, RunsKeeps

LEMMA ConfigStepInv ==
  ASSUME IInv, NEW p \in Port, NEW k \in Key, NEW act \in Activities,
         AggregatorConfigAdd(p, k, act)
  PROVE  IInv'
<1>1. Runs(ConfigAdd(State, p, k, act)) BY DEF AggregatorConfigAdd
<1>2. Inv(State) /\ Live(State) BY <1>1, DefinedLive DEF IInv, Runs
<1>3. act \in BOOLEAN BY InputAssumption
<1>4. Inv(ConfigAdd(State, p, k, act)) BY <1>2, <1>3, ConfigAddInv
<1> QED BY <1>1, <1>4, RunsKeeps

\* NSM announces one static aggregator more, or one less.
LEMMA StaticStepInv ==
  ASSUME IInv, NEW more \in BOOLEAN, StaticAggregatorCount(more)
  PROVE  IInv'
<1> DEFINE c == State.agg_cnt
           x == IF more THEN State.static + 1 ELSE State.static - 1
           n == CASE more -> c + 1 [] ~more /\ c > 0 -> c - 1 [] OTHER -> c
           u == [State EXCEPT !.static = x, !.agg_cnt = n]
<1>1. Inv(State) /\ State \in DaemonState BY DEF IInv, Inv
<1>2. c \in Nat /\ State.static \in Nat BY <1>1, CountType
<1>3. Cardinality(Alive(State)) \in Nat BY AliveFinite
<1>4. Cardinality(Alive(State)) + State.static <= c BY <1>1 DEF Inv, Covered
<1>5. Runs(u) BY Zenon DEF StaticAggregatorCount
<1>6. more \/ State.static > 0 BY StateIs DEF StaticAggregatorCount
<1> HIDE DEF State
<1>7. n \in Nat /\ x \in Nat
  <2> HIDE DEF c
  <2> QED BY <1>2, <1>6, SMT
<1>8. Cardinality(Alive(State)) + x <= n
  <2> HIDE DEF c
  <2> QED BY <1>2, <1>3, <1>4, <1>6, SMT
<1> HIDE DEF n, x, c
<1>9. u \in DaemonState BY <1>1, <1>7, Zenon DEF DaemonState
<1>10. u.link = State.link /\ u.agg = State.agg BY <1>1, Zenon DEF DaemonState
<1>11. u.agg_cnt = n /\ u.static = x BY <1>1, Zenon DEF DaemonState
<1> HIDE DEF u
<1>12. Calm(State, u) BY <1>9, <1>10 DEF Calm, SameLink, SameAgg
<1>13. Alive(u) = Alive(State) BY <1>10 DEF Alive
<1>14. Covered(u) BY <1>8, <1>11, <1>13 DEF Covered
<1>15. Inv(u) BY <1>1, <1>12, <1>14, CalmKeeps DEF Keeps
<1> QED BY <1>5, <1>15, RunsKeeps

LEMMA DisconnectStepInv == ASSUME IInv, NsmDisconnect PROVE IInv'
<1>0. PICK kept \in {0, static} :
        IF \E k \in {j \in Key : agg[j].alive} :
              agg[k].installed /\ agg[k].refCnt \notin 1..Cardinality(Occupied(agg[k]))
        THEN Runs([State EXCEPT !.crashed = TRUE, !.static = kept])
        ELSE Runs([State EXCEPT
                !.link = [p \in Port |-> Detach(link[p])],
                !.agg = [k \in Key |-> FreeAgg],
                !.agg_cnt = IF State.agg_cnt >= Cardinality({j \in Key : agg[j].alive})
                            THEN State.agg_cnt - Cardinality({j \in Key : agg[j].alive}) ELSE 0,
                !.links = IF EnabledLinks(State) = {} THEN State.links ELSE {},
                !.ifg = [p \in Port |-> [State.ifg[p] EXCEPT !.present = FALSE, !.up = FALSE]],
                !.nsm = [k \in Key |-> {}],
                !.static = kept])
  BY Zenon DEF NsmDisconnect, Detach
<1> DEFINE alive == {k \in Key : agg[k].alive}
           enabled == EnabledLinks(State)
           left == Cardinality(alive)
           f == [p \in Port |-> Detach(link[p])]
           n == IF State.agg_cnt >= left THEN State.agg_cnt - left ELSE 0
           L == IF enabled = {} THEN State.links ELSE {}
           g == [p \in Port |-> [State.ifg[p] EXCEPT !.present = FALSE, !.up = FALSE]]
           crash == [State EXCEPT !.crashed = TRUE, !.static = kept]
           u == [State EXCEPT !.link = f, !.agg = [k \in Key |-> FreeAgg], !.agg_cnt = n,
                              !.links = L, !.ifg = g, !.nsm = [k \in Key |-> {}],
                              !.static = kept]
<1>1. Inv(State) /\ State.link = link /\ State.static = static BY StateIs DEF IInv
<1>2. Alive(State) = alive BY StateIs DEF Alive
<1>3. Runs(crash) \/ Runs(u) BY <1>0, Zenon
<1> HIDE DEF State
<1>6. /\ State \in DaemonState /\ State.agg_cnt \in Nat /\ static \in Nat
      /\ left \in Nat /\ left + static <= State.agg_cnt
  <2>1. State \in DaemonState BY <1>1 DEF Inv
  <2>2. State.agg_cnt \in Nat /\ static \in Nat BY <1>1, <2>1, CountType
  <2>3. left \in Nat BY <1>2, AliveFinite
  <2> QED BY <1>1, <1>2, <2>1, <2>2, <2>3 DEF Inv, Covered
<1>7. kept \in Nat /\ kept <= static BY <1>6, SMT
<1>4. CASE Runs(crash)
  <2>1. crash \in DaemonState BY <1>6, <1>7, Zenon DEF DaemonState
  <2>2. crash.link = State.link /\ crash.agg = State.agg BY <1>6, Zenon DEF DaemonState
  <2>3. crash.agg_cnt = State.agg_cnt /\ crash.static = kept BY <1>6, Zenon DEF DaemonState
  <2> HIDE DEF crash, left
  <2>4. Calm(State, crash) BY <2>1, <2>2 DEF Calm, SameLink, SameAgg
  <2>5. Alive(crash) = Alive(State) BY <2>2 DEF Alive
  <2>6. Covered(crash)
    <3>1. left + kept <= State.agg_cnt BY <1>6, <1>7, SMT
    <3> QED BY <1>2, <2>3, <2>5, <3>1 DEF Covered, left
  <2>7. Inv(crash) BY <1>1, <2>4, <2>6, CalmKeeps DEF Keeps
  <2> QED BY <1>4, <2>7, RunsKeeps
<1>5. CASE Runs(u)
  <2>0. State \in DaemonState BY <1>6
  <2>2. n \in Nat /\ kept <= n
    <3> HIDE DEF left
    <3> QED BY <1>6, <1>7, SMT
  <2>3. L \in SUBSET Port
    <3>1. State.links \in SUBSET Port BY <2>0, Zenon DEF DaemonState
    <3> HIDE DEF enabled
    <3> QED BY <3>1
  <2>4. g \in [Port -> Interface]
    <3>1. ASSUME NEW p \in Port
          PROVE  [State.ifg[p] EXCEPT !.present = FALSE, !.up = FALSE] \in Interface
      <4>1. State.ifg[p] \in Interface BY <2>0, InterfaceType
      <4> QED BY <4>1, Zenon DEF Interface
    <3> QED BY <3>1
  <2>5. f \in [Port -> Link] /\ \A p \in Port : f[p] = Detach(State.link[p])
    <3>1. ASSUME NEW p \in Port PROVE Detach(link[p]) \in Link
      <4>1. link[p] \in Link BY <1>1, <2>0, LinkType
      <4>2. link[p].selected = "SELECTED" <=> link[p].agg # NoAgg BY <1>1 DEF Inv, Sel
      <4>3. ~link[p].exists => link[p].agg = NoAgg /\ ~link[p].ifp BY <1>1 DEF Inv, Absent
      <4> QED BY <4>1, <4>2, <4>3, DetachType
    <3> QED BY <1>1, <3>1
  <2> HIDE DEF f, n, L, g
  <2>6. Inv(u) BY <1>1, <1>7, <2>2, <2>3, <2>4, <2>5, DisconnectedInv
  <2> HIDE DEF u
  <2> QED BY <1>5, <2>6, RunsKeeps
<1> QED BY <1>3, <1>4, <1>5

LEMMA CommandStepInv == ASSUME IInv, CommandStep PROVE IInv'
<1>0. Inv(State) /\ State.link = link BY StateIs DEF IInv
<1>1. ASSUME NEW p \in Port, NEW v \in Prio, SetLinkPriority(p, v) PROVE IInv'
  <2> DEFINE l == [link[p] EXCEPT !.prio = v, !.ntt = TRUE]
             s == SetLink(State, p, l)
             u == Refresh(s, IsEnabled(link[p]))
  <2>1. Runs(u) BY <1>1, Zenon DEF SetLinkPriority
  <2>2. l \in Link /\ SameLink(l, link[p])
    <3>1. link[p] \in Link BY <1>0, LinkType DEF Inv
    <3>2. l \in Link BY <3>1, ZenonT(40) DEF Link
    <3>3. SameLink(l, link[p]) BY <3>1, ZenonT(40) DEF Link, SameLink
    <3> QED BY <3>2, <3>3
  <2> HIDE DEF l, State
  <2>3. Inv(s) BY <1>0, <2>2, PatchKeeps DEF Keeps
  <2> HIDE DEF s
  <2>4. Inv(UpdateSelection(s)) BY <2>3, UpdateSelectionQuiet, QuietKeeps DEF Keeps, Inv
  <2>5. Inv(u) BY <2>3, <2>4 DEF Refresh
  <2> HIDE DEF u
  <2> QED BY <2>1, <2>5, RunsKeeps
<1>2. ASSUME NEW p \in Port, NEW short \in Timeouts, SetLinkTimeout(p, short) PROVE IInv'
  <2> DEFINE l == [link[p] EXCEPT !.short = short]
             u == RunSm(SetLink(State, p, l), p, NoEvent)
  <2>1. Runs(u) BY <1>2 DEF SetLinkTimeout
  <2>2. Live(State) BY <2>1, DefinedLive DEF Runs
  <2>3. short \in BOOLEAN BY InputAssumption
  <2>4. link[p] \in Link BY <1>0, LinkType DEF Inv
  <2>5. l \in Link BY <2>3, <2>4, ZenonT(40) DEF Link
  <2>6. SameLink(l, link[p]) BY <2>4, ZenonT(40) DEF Link, SameLink
  <2> HIDE DEF l, State
  <2>7. Inv(u) BY <1>0, <2>2, <2>5, <2>6, EventKeeps, EventType
  <2> HIDE DEF u
  <2> QED BY <2>1, <2>7, RunsKeeps
<1>3. ASSUME NEW v \in Prio, SetSystemPriority(v) PROVE IInv'
  <2> DEFINE u == [State EXCEPT !.system_priority = v]
  <2>1. Runs(u) BY <1>3 DEF SetSystemPriority
  <2>2. State \in DaemonState BY <1>0 DEF Inv
  <2> HIDE DEF State
  <2>3. u \in DaemonState BY <2>2, Zenon DEF DaemonState
  <2>4. u.link = State.link /\ u.agg = State.agg BY <2>2, Zenon DEF DaemonState
  <2>7. u.agg_cnt = State.agg_cnt /\ u.static = State.static BY <2>2, Zenon DEF DaemonState
  <2> HIDE DEF u
  <2>5. Quiet(State, u) BY <2>3, <2>4, <2>7 DEF Quiet, Calm, SameCounts, SameLink, SameAgg
  <2>6. Inv(u) BY <1>0, <2>5, QuietKeeps DEF Keeps
  <2> QED BY <2>1, <2>6, RunsKeeps
<1> QED BY <1>1, <1>2, <1>3 DEF CommandStep

LEMMA NextInv == ASSUME IInv, [Next]_vars PROVE IInv'
<1>1. CASE SettlingStep BY <1>1, WalkStepInv, TimerStepInv DEF SettlingStep
<1>2. CASE WatchingStep BY <1>2, TimerStepInv DEF WatchingStep
<1>3. CASE PartnerStep BY <1>3, PartnerStepInv
<1>4. CASE NsmStep
  BY <1>4, InterfaceStepInv, DeleteStepInv, ConfigStepInv, AggregatorStepInv, StaticStepInv,
     DisconnectStepInv DEF NsmStep
<1>5. CASE CommandStep BY <1>5, CommandStepInv
<1>6. CASE UNCHANGED vars
  <2>1. Becomes(State) BY <1>6, StateIs DEF Becomes, vars
  <2>2. Inv(State)' BY <2>1, Lands DEF IInv
  <2>3. WalkType' BY <1>6 DEF IInv, WalkType, vars
  <2> QED BY <2>2, <2>3 DEF IInv
<1> QED BY <1>1, <1>2, <1>3, <1>4, <1>5, <1>6 DEF Next

----------------------------------------------------------------------------
(* The theorems.                                                           *)

\* After every handler of the daemon the inductive invariant holds.
THEOREM Inductive == Spec => []IInv
<1>1. Init => IInv BY InitInv
<1>2. IInv /\ [Next]_vars => IInv' BY NextInv
<1> QED BY <1>1, <1>2, PTL DEF Spec

LEMMA IInvType == ASSUME IInv PROVE TypeOK
<1>1. State \in DaemonState BY DEF IInv, Inv
<1>2. /\ State.link \in [Port -> Link] /\ State.agg \in [Key -> Aggregator]
      /\ State.links \in SUBSET Port /\ State.agg_cnt \in Nat /\ State.system_priority \in Prio
      /\ State.ifg \in [Port -> Interface] /\ State.nsm \in [Key -> SUBSET Port]
      /\ State.static \in Nat /\ State.crashed \in BOOLEAN
  <2> HIDE DEF State
  <2> QED BY <1>1, Zenon DEF DaemonState
<1>3. /\ link \in [Port -> Link] /\ agg \in [Key -> Aggregator]
      /\ links \in SUBSET Port /\ agg_cnt \in Nat /\ system_priority \in Prio
      /\ ifg \in [Port -> Interface] /\ nsm \in [Key -> SUBSET Port] /\ static \in Nat
      /\ crashed \in BOOLEAN
  BY <1>2, StateIs
<1>4. links \subseteq Port BY <1>3
<1>5. walk \in [phase: {"idle", "credit", "select"}, todo: SUBSET Port]
  BY DEF IInv, WalkType
<1> QED BY <1>3, <1>4, <1>5, Zenon DEF TypeOK

\* The daemon's variables keep their types, the counters of an aggregator and of
\* a link included: no handler takes receive_state or agg_cnt below zero.
THEOREM TypeSafe == Spec => []TypeOK
<1>1. IInv => TypeOK BY IInvType
<1> QED BY <1>1, Inductive, PTL

\* A link is SELECTED exactly when it points to an aggregator: what
\* lacp_mux_sm dereferences without a check is there.
THEOREM SelectedSafe == Spec => []SelectedHasAggregator
<1>1. IInv => SelectedHasAggregator BY StateIs DEF IInv, Inv, Sel, SelectedHasAggregator
<1> QED BY <1>1, Inductive, PTL

LEMMA IInvSlots == ASSUME IInv PROVE SlotsAgree
<1>1. State.link = link /\ State.agg = agg BY StateIs
<1>2. Backed(State) /\ Held(State) BY DEF IInv, Inv
<1> HIDE DEF State
<1>3. ASSUME NEW k \in Key, NEW i \in Occupied(agg[k])
      PROVE  /\ link[agg[k].slot[i]].agg = k
             /\ \A j \in Slot : agg[k].slot[j] = agg[k].slot[i] => j = i
  BY <1>1, <1>2 DEF Backed, Occupied
<1>4. ASSUME NEW k \in Key, agg[k].alive, NEW p \in Port, link[p].agg = k
      PROVE  Holds(agg[k], p)
  BY <1>1, <1>2, <1>4 DEF Held
<1> QED BY <1>3, <1>4 DEF SlotsAgree

\* The slots of the aggregators and the aggregators of the links agree after
\* every sequence of handlers.
THEOREM SlotsSafe == Spec => []SlotsAgree
<1>1. IInv => SlotsAgree BY IInvSlots
<1> QED BY <1>1, Inductive, PTL

\* The daemon counts every aggregator it makes and stops counting it no sooner than it is
\* gone, through every handler, so LACP_AGG_COUNT_MAX bounds the aggregators there are
\* (lacp_search_for_aggregator, lacp_nsm_recv_static_agg_cnt_update, lacp_nsm_disconnect_process).
THEOREM CountSafe == Spec => []CountCoversAggregators
<1>1. IInv => CountCoversAggregators
  BY StateIs DEF IInv, Inv, Covered, Alive, CountCoversAggregators
<1> QED BY <1>1, Inductive, PTL

----------------------------------------------------------------------------
(* The list and the timers after a handler.                                *)

\* A link in the hash table that is enabled has the timers its states need.
Timed(l) == l.exists /\ IsEnabled(l) => Ticks(l)

\* A partner newly heard finds no traffic.
Stops(m, l) ==
    m.exists /\ l.exists => SameSystem(m, l) \/ m.mux # "COLLECTING_DISTRIBUTING"

Served(m, l) == Timed(m) /\ Stops(m, l)

\* What holds between two handlers, and of a handler that takes s to t.
Tidy(s) == Listed(s) /\ Bound(s) /\ \A q \in Port : Timed(s.link[q])
Serves(s, t) == Listed(t) /\ Bound(t) /\ \A q \in Port : Served(t.link[q], s.link[q])

LEMMA RestsServed ==
  ASSUME NEW l, NEW m, NEW n, Served(m, l), Rests(n, m)
  PROVE  Served(n, l)
<1>1. Timed(n)
  <2>1. SameFace(n, m) BY DEF Rests
  <2>2. n.exists /\ IsEnabled(n) => m.exists /\ IsEnabled(m)
    BY <2>1 DEF SameFace, IsEnabled
  <2> QED BY <2>2, RestsTicks DEF Served, Timed
<1>2. Stops(n, l)
  BY DEF Served, Stops, Rests, SameFace, SameMux, SameSystem
<1> QED BY <1>1, <1>2 DEF Served

LEMMA TimedServed == ASSUME NEW l, Timed(l) PROVE Served(l, l)
  BY DEF Served, Stops, SameSystem

LEMMA TidyServes == ASSUME NEW s, Tidy(s) PROVE Serves(s, s)
  BY TimedServed DEF Tidy, Serves

\* A handler may go on with steps that spare the links.
LEMMA ServesSpares ==
  ASSUME NEW s, NEW t, NEW u, Serves(s, t), Spares(t, u)
  PROVE  Serves(s, u)
<1>1. Listed(u) /\ Bound(u)
  <2>1. ASSUME NEW p \in Port PROVE Listed(u) /\ Bound(u)
    BY SparesOnly, OnlyEnabled DEF Serves
  <2>2. CASE Port = {}
    <3>1. EnabledLinks(u) = {} /\ EnabledLinks(t) = {} BY <2>2 DEF EnabledLinks
    <3>2. u.links = t.links BY DEF Spares, SameTables
    <3> QED BY <2>2, <3>1, <3>2 DEF Serves, Listed, Bound
  <2> QED BY <2>1, <2>2
<1>2. ASSUME NEW q \in Port PROVE Served(u.link[q], s.link[q])
  <2>1. Served(t.link[q], s.link[q]) /\ Rests(u.link[q], t.link[q]) BY DEF Serves, Spares
  <2> QED BY <2>1, RestsServed
<1> QED BY <1>1, <1>2 DEF Serves

\* Or make the list anew.
LEMMA ServesRelists ==
  ASSUME NEW s, NEW t, NEW u, Serves(s, t), Relists(t, u), Listed(u)
  PROVE  Serves(s, u)
  BY DEF Serves, Relists, Bound

\* The links other than p are as before to the machines.
Others(s, t, p) == \A q \in Port \ {p} : Rests(t.link[q], s.link[q])

LEMMA OnlyOthers == ASSUME NEW s, NEW t, NEW p, Only(s, t, p) PROVE Others(s, t, p)
  BY DEF Only, Others

LEMMA OthersTrans ==
  ASSUME NEW s, NEW t, NEW u, NEW p, Others(s, t, p), Others(t, u, p)
  PROVE  Others(s, u, p)
  BY RestsTrans DEF Others

LEMMA SetLinkAside ==
  ASSUME NEW s \in DaemonState, NEW p \in Port, NEW l
  PROVE  /\ Others(s, SetLink(s, p, l), p) /\ SetLink(s, p, l).link[p] = l
         /\ SameTables(s, SetLink(s, p, l))
<1> SUFFICES ASSUME NEW t, t = SetLink(s, p, l)
             PROVE  Others(s, t, p) /\ t.link[p] = l /\ SameTables(s, t)
  OBVIOUS
<1>1. t.link[p] = l /\ SameTables(s, t) /\ \A q \in Port \ {p} : t.link[q] = s.link[q]
  BY ShapedState, SetLinkFrame
<1>2. Others(s, t, p) BY <1>1, RestsRefl DEF Others
<1> QED BY <1>1, <1>2

LEMMA OthersServe ==
  ASSUME NEW s, Tidy(s), NEW t, NEW p \in Port, Others(s, t, p),
         Listed(t), Bound(t), Served(t.link[p], s.link[p])
  PROVE  Serves(s, t)
<1>1. ASSUME NEW q \in Port PROVE Served(t.link[q], s.link[q])
  <2>1. CASE q = p BY <2>1
  <2>2. CASE q # p
    <3>1. Served(s.link[q], s.link[q]) BY TimedServed DEF Tidy
    <3>2. Rests(t.link[q], s.link[q]) BY <2>2 DEF Others
    <3> QED BY <3>1, <3>2, RestsServed
  <2> QED BY <2>1, <2>2
<1> QED BY <1>1 DEF Serves

\* Whether p is enabled decides whether the enabled links have changed.
LEMMA OthersEnabled ==
  ASSUME NEW s, NEW t, NEW p \in Port, Others(s, t, p)
  PROVE  /\ t.link[p].exists /\ IsEnabled(t.link[p]) => EnabledLinks(t) = EnabledLinks(s) \cup {p}
         /\ (~t.link[p].exists \/ ~IsEnabled(t.link[p])) => EnabledLinks(t) = EnabledLinks(s) \ {p}
<1>1. ASSUME NEW q \in Port \ {p} PROVE q \in EnabledLinks(t) <=> q \in EnabledLinks(s)
  <2>1. SameFace(t.link[q], s.link[q]) BY DEF Others, Rests
  <2> QED BY <2>1 DEF SameFace, EnabledLinks, IsEnabled
<1>2. p \in EnabledLinks(t) <=> t.link[p].exists /\ IsEnabled(t.link[p])
  BY DEF EnabledLinks
<1>3. EnabledLinks(t) \subseteq Port /\ EnabledLinks(s) \subseteq Port BY DEF EnabledLinks
<1> QED BY <1>1, <1>2, <1>3

\* A handler that leaves p off.
LEMMA OffServes ==
  ASSUME NEW s, Tidy(s), NEW t, NEW p \in Port, Others(s, t, p), Stops(t.link[p], s.link[p]),
         Listed(t), Bound(t), ~t.link[p].exists \/ ~IsEnabled(t.link[p])
  PROVE  Serves(s, t)
<1>1. Served(t.link[p], s.link[p]) BY DEF Served, Timed
<1> QED BY <1>1, OthersServe

\* p was not in the list and stays out of it.
LEMMA OffListed ==
  ASSUME NEW s, Listed(s), NEW t, NEW p \in Port, Others(s, t, p), t.links = s.links,
         ~s.link[p].exists \/ ~IsEnabled(s.link[p]),
         ~t.link[p].exists \/ ~IsEnabled(t.link[p])
  PROVE  Listed(t)
<1>1. EnabledLinks(t) = EnabledLinks(s) \ {p} BY OthersEnabled
<1>2. p \notin EnabledLinks(s) BY DEF EnabledLinks
<1>3. EnabledLinks(t) = EnabledLinks(s) BY <1>1, <1>2
<1> QED BY <1>3 DEF Listed

LEMMA OthersBound ==
  ASSUME NEW s, Bound(s), NEW t, NEW p \in Port, Others(s, t, p),
         \A q \in Port \ {p} : t.ifg[q].present = s.ifg[q].present,
         t.link[p].ifp => t.ifg[p].present
  PROVE  Bound(t)
<1>1. ASSUME NEW q \in Port, t.link[q].ifp PROVE t.ifg[q].present
  <2>1. CASE q = p BY <1>1, <2>1
  <2>2. CASE q # p
    <3>1. t.link[q].ifp = s.link[q].ifp BY <2>2 DEF Others, Rests, SameFace
    <3> QED BY <1>1, <2>2, <3>1 DEF Bound
  <2> QED BY <2>1, <2>2
<1> QED BY <1>1 DEF Bound

----------------------------------------------------------------------------
(* A link begins.                                                          *)

\* The machines of p begin: its timers run, and it carries no traffic.
Begun(s, u, p) ==
    /\ Only(s, u, p) /\ Ticks(u.link[p]) /\ u.link[p].mux # "COLLECTING_DISTRIBUTING"

LEMMA InitializeBegun ==
  ASSUME NEW s, Inv(s), NEW p \in Port, IsEnabled(s.link[p])
  PROVE  Begun(s, InitializeLink(s, p), p)
<1> DEFINE t == SetLink(s, p, Ntt(s.link[p]))
           u == RunSm(t, p, Begin)
<1>1. InitializeLink(s, p) = u BY DEF InitializeLink
<1>2. s.link[p] \in Link /\ s \in DaemonState BY LinkType DEF Inv
<1>3. Spares(s, t)
  <2>1. Rests(Ntt(s.link[p]), s.link[p]) BY <1>2, NttRests
  <2> QED BY <1>2, <2>1, ShapedState, SetLinkSpares
<1>4. Inv(t) BY <1>2, NttType, PatchKeeps DEF Keeps
<1> HIDE DEF t
<1>5. Only(s, t, p) /\ IsEnabled(t.link[p])
  <2>1. Only(s, t, p) BY <1>3, SparesOnly
  <2>2. SameFace(t.link[p], s.link[p]) BY <2>1, Zenon DEF Only
  <2> QED BY <2>1, <2>2, Zenon DEF SameFace, IsEnabled
<1>6. Begin.pdu \in Pdu /\ Begin.type = "begin" BY NoPduType DEF Begin
<1>7. RunDone(t, u, p, Begin) BY <1>4, <1>5, <1>6, RunSmDone
<1> HIDE DEF u
<1>8. Only(s, u, p) BY <1>5, <1>7, OnlyTrans DEF RunDone
<1>9. Ticks(u.link[p]) /\ u.link[p].mux # "COLLECTING_DISTRIBUTING"
  BY <1>6, <1>7 DEF RunDone, Due
<1> QED BY <1>1, <1>8, <1>9 DEF Begun

LEMMA BegunServes ==
  ASSUME NEW s, Tidy(s), NEW t, Inv(t), NEW p \in Port, Others(s, t, p), Listed(t), Bound(t),
         IsEnabled(t.link[p])
  PROVE  Serves(s, InitializeLink(t, p))
<1> DEFINE u == InitializeLink(t, p)
<1>1. Begun(t, u, p) BY InitializeBegun
<1> HIDE DEF u
<1>2. Only(t, u, p) BY <1>1 DEF Begun
<1>3. Listed(u) /\ Bound(u) BY <1>2, OnlyEnabled
<1>4. Others(s, u, p) BY <1>2, OnlyOthers, OthersTrans
<1>5. Served(u.link[p], s.link[p]) BY <1>1 DEF Begun, Served, Timed, Stops
<1>6. Serves(s, u) BY <1>3, <1>4, <1>5, OthersServe
<1> QED BY <1>6 DEF u

\* A link that has become enabled takes a place in the list and begins.
LEMMA StartServes ==
  ASSUME NEW s, Tidy(s), NEW t, Inv(t), NEW p \in Port, Others(s, t, p), t.links = s.links,
         Bound(t), t.link[p].exists, IsEnabled(t.link[p])
  PROVE  Serves(s, InitializeLink(SelectionAddLink(t, p), p))
<1> DEFINE v == SelectionAddLink(t, p)
<1>1. EnabledLinks(t) = EnabledLinks(s) \cup {p} BY OthersEnabled
<1>2. Listed(s) BY DEF Tidy
<1>3. Relists(t, v) /\ Listed(v) BY <1>1, <1>2, AddLinkLists DEF Inv
<1>4. Inv(v) BY SelectionAddLinkQuiet, QuietKeeps DEF Inv, Keeps
<1> HIDE DEF v
<1>5. Others(s, v, p) /\ Bound(v) /\ IsEnabled(v.link[p])
  BY <1>3 DEF Relists, Others, Bound
<1>6. Serves(s, InitializeLink(v, p)) BY <1>3, <1>4, <1>5, BegunServes
<1> QED BY <1>6 DEF v

----------------------------------------------------------------------------
(* Events of a link.                                                       *)

\* A handler that touches up a link and runs its machines: the timers the
\* event leaves running are the ones the link must have.
LEMMA EventServes ==
  ASSUME NEW s, Inv(s), Live(s), Tidy(s), NEW p \in Port, NEW l \in Link,
         SameLink(l, s.link[p]), SameFace(l, s.link[p]), SameSystem(l, s.link[p]),
         NEW ev, ev.pdu \in Pdu, Ticks(s.link[p]) => Due(l, ev)
  PROVE  Serves(s, RunSm(SetLink(s, p, l), p, ev))
<1> DEFINE t == SetLink(s, p, l)
           u == RunSm(t, p, ev)
<1>0. s \in DaemonState BY DEF Inv
<1>1. Inv(t) /\ Live(t) BY PatchKeeps DEF Keeps
<1>2. Others(s, t, p) /\ t.link[p] = l /\ SameTables(s, t) BY <1>0, SetLinkAside
<1>3. Only(s, t, p) BY <1>0, ShapedState, SetLinkOnly
<1> HIDE DEF t
<1>4. Listed(t) /\ Bound(t) BY <1>3, OnlyEnabled DEF Tidy
<1>5. CASE ~IsEnabled(l)
  <2>1. u = t BY <1>2, <1>5, RunSmOff
  <2>2. Stops(t.link[p], s.link[p]) BY <1>2 DEF Stops
  <2>3. Serves(s, t) BY <1>2, <1>4, <1>5, <2>2, OffServes
  <2> QED BY <2>1, <2>3 DEF t
<1>6. CASE IsEnabled(l)
  <2>1. s.link[p].exists /\ IsEnabled(s.link[p])
    BY <1>6 DEF SameFace, IsEnabled, Inv, Absent
  <2>2. Ticks(s.link[p]) BY <2>1 DEF Tidy, Timed
  <2>3. RunDone(t, u, p, ev) BY <1>1, <1>2, <1>6, RunSmDone
  <2> HIDE DEF u
  <2>4. Listed(u) /\ Bound(u) BY <1>4, <2>3, OnlyEnabled DEF RunDone
  <2>5. Others(s, u, p) BY <1>2, <2>3, OnlyOthers, OthersTrans DEF RunDone
  <2>6. Served(u.link[p], s.link[p])
    BY <1>2, <2>2, <2>3 DEF RunDone, Served, Timed, Stops, SameSystem
  <2>7. Serves(s, u) BY <2>4, <2>5, <2>6, OthersServe
  <2> QED BY <2>7 DEF u, t
<1> QED BY <1>5, <1>6

\* The link the handler of an expired timer runs the machines with.
Expires(m, l, ev) ==
    m \in Link /\ SameLink(m, l) /\ SameFace(m, l) /\ SameSystem(m, l) /\ (Ticks(l) => Due(m, ev))

LEMMA ExpiryTypes ==
  ASSUME NEW l \in Link
  PROVE  /\ Expires([l EXCEPT !.current_while = FALSE], l, CurrentWhileExpired)
         /\ Expires([l EXCEPT !.periodic_timer = FALSE], l, PeriodicExpired)
         /\ Expires([l EXCEPT !.actor_churn_timer = FALSE], l, ActorChurnExpired)
         /\ Expires([l EXCEPT !.partner_churn_timer = FALSE], l, PartnerChurnExpired)
<1>1. Expires([l EXCEPT !.current_while = FALSE], l, CurrentWhileExpired)
  <2> DEFINE m == [l EXCEPT !.current_while = FALSE]
  <2>1. m \in Link /\ SameLink(m, l) BY TimerTypes
  <2>2. SameFace(m, l) /\ SamePeriodic(m, l) /\ SameChurn(m, l) /\ SameMux(m, l)
        /\ SameSystem(m, l)
    BY ZenonT(40) DEF Link, SameFace, SamePeriodic, SameChurn, SameMux, SameSystem, Owed
  <2> HIDE DEF m
  <2>3. Ticks(l) => Due(m, CurrentWhileExpired)
    BY <2>2 DEF Ticks, Due, CurrentWhileExpired, SamePeriodic, SameChurn, SameMux,
                PeriodicTick, ActorTick, PartnerTick, WaitTick
  <2>4. Expires(m, l, CurrentWhileExpired) BY <2>1, <2>2, <2>3 DEF Expires
  <2> QED BY <2>4 DEF m
<1>2. Expires([l EXCEPT !.periodic_timer = FALSE], l, PeriodicExpired)
  <2> DEFINE m == [l EXCEPT !.periodic_timer = FALSE]
  <2>1. m \in Link /\ SameLink(m, l) BY TimerTypes
  <2>2. SameFace(m, l) /\ SameRcv(m, l) /\ SameChurn(m, l) /\ SameMux(m, l)
        /\ SameSystem(m, l)
    BY ZenonT(40) DEF Link, SameFace, SameRcv, SameChurn, SameMux, SameSystem, Owed
  <2> HIDE DEF m
  <2>3. Ticks(l) => Due(m, PeriodicExpired)
    BY <2>2 DEF Ticks, Due, PeriodicExpired, SameRcv, SameChurn, SameMux,
                RcvTick, ActorTick, PartnerTick, WaitTick
  <2>4. Expires(m, l, PeriodicExpired) BY <2>1, <2>2, <2>3 DEF Expires
  <2> QED BY <2>4 DEF m
<1>3. Expires([l EXCEPT !.actor_churn_timer = FALSE], l, ActorChurnExpired)
  <2> DEFINE m == [l EXCEPT !.actor_churn_timer = FALSE]
  <2>1. m \in Link /\ SameLink(m, l) BY TimerTypes
  <2>2. /\ SameFace(m, l) /\ SameRcv(m, l) /\ SamePeriodic(m, l) /\ SameMux(m, l)
        /\ SameSystem(m, l) /\ m.partner_churn = l.partner_churn
        /\ m.partner_churn_timer = l.partner_churn_timer
    BY ZenonT(40) DEF Link, SameFace, SameRcv, SamePeriodic, SameMux, SameSystem, Owed
  <2> HIDE DEF m
  <2>3. Ticks(l) => Due(m, ActorChurnExpired)
    BY <2>2 DEF Ticks, Due, ActorChurnExpired, SameRcv, SamePeriodic, SameMux,
                RcvTick, PeriodicTick, PartnerTick, WaitTick
  <2>4. Expires(m, l, ActorChurnExpired) BY <2>1, <2>2, <2>3 DEF Expires
  <2> QED BY <2>4 DEF m
<1>4. Expires([l EXCEPT !.partner_churn_timer = FALSE], l, PartnerChurnExpired)
  <2> DEFINE m == [l EXCEPT !.partner_churn_timer = FALSE]
  <2>1. m \in Link /\ SameLink(m, l) BY TimerTypes
  <2>2. /\ SameFace(m, l) /\ SameRcv(m, l) /\ SamePeriodic(m, l) /\ SameMux(m, l)
        /\ SameSystem(m, l) /\ m.actor_churn = l.actor_churn
        /\ m.actor_churn_timer = l.actor_churn_timer
    BY ZenonT(40) DEF Link, SameFace, SameRcv, SamePeriodic, SameMux, SameSystem, Owed
  <2> HIDE DEF m
  <2>3. Ticks(l) => Due(m, PartnerChurnExpired)
    BY <2>2 DEF Ticks, Due, PartnerChurnExpired, SameRcv, SamePeriodic, SameMux,
                RcvTick, PeriodicTick, ActorTick, WaitTick
  <2>4. Expires(m, l, PartnerChurnExpired) BY <2>1, <2>2, <2>3 DEF Expires
  <2> QED BY <2>4 DEF m
<1> QED BY <1>1, <1>2, <1>3, <1>4

LEMMA ExpiryServes ==
  ASSUME NEW s, Inv(s), Live(s), Tidy(s), NEW p \in Port, NEW l, NEW ev, ev.pdu \in Pdu,
         Expires(l, s.link[p], ev)
  PROVE  Serves(s, RunSm(SetLink(s, p, l), p, ev))
<1>1. l \in Link BY DEF Expires
<1>2. /\ SameLink(l, s.link[p]) /\ SameFace(l, s.link[p]) /\ SameSystem(l, s.link[p])
      /\ Ticks(s.link[p]) => Due(l, ev)
  BY DEF Expires
<1> QED BY <1>1, <1>2, EventServes

\* A link that waited long enough is ready from now on.
LEMMA WaitedExpires ==
  ASSUME NEW l \in Link
  PROVE  LET chosen == l.selected = "SELECTED" IN
         Expires([l EXCEPT !.wait_while = FALSE, !.ready_n = @ \/ chosen, !.ntt = @ \/ chosen],
                 l, NoEvent)
<1> DEFINE chosen == l.selected = "SELECTED"
           b == l.ready_n \/ chosen
           c == l.ntt \/ chosen
           m == [l EXCEPT !.wait_while = FALSE, !.ready_n = b, !.ntt = c]
<1>1. b \in BOOLEAN /\ c \in BOOLEAN BY Zenon
<1>2. chosen => b BY Zenon
<1> HIDE DEF b, c
<1>3. m \in Link /\ SameLink(m, l) BY <1>1, WaitedType
<1>4. SameFace(m, l) /\ SameRcv(m, l) /\ SamePeriodic(m, l) /\ SameChurn(m, l)
      /\ SameSystem(m, l)
  BY ZenonT(40) DEF Link, SameFace, SameRcv, SamePeriodic, SameChurn, SameSystem
<1>5. m.ready_n = b BY ZenonT(40) DEF Link
<1>7. m.selected = l.selected BY ZenonT(40) DEF Link
<1> HIDE DEF m
<1>6. ~Owed(m) BY <1>2, <1>5, <1>7 DEF Owed
<1>8. Ticks(l) => Due(m, NoEvent)
  BY <1>4, <1>6 DEF Ticks, Due, NoEvent, SameRcv, SamePeriodic, SameChurn,
                    RcvTick, PeriodicTick, ActorTick, PartnerTick, WaitTick
<1>9. Expires(m, l, NoEvent) BY <1>3, <1>4, <1>8 DEF Expires
<1> QED BY <1>9 DEF m, b, c

LEMMA WaitOverServes ==
  ASSUME NEW s, Inv(s), Live(s), Tidy(s), NEW p \in Port
  PROVE  Serves(s, WaitOver(s, p))
<1> DEFINE chosen == s.link[p].selected = "SELECTED"
           l == [s.link[p] EXCEPT !.wait_while = FALSE, !.ready_n = @ \/ chosen,
                                  !.ntt = @ \/ chosen]
<1>1. WaitOver(s, p) = RunSm(SetLink(s, p, l), p, NoEvent) BY DEF WaitOver
<1>2. Expires(l, s.link[p], NoEvent) BY LinkType, WaitedExpires DEF Inv
<1> HIDE DEF l
<1> QED BY <1>1, <1>2, ExpiryServes, EventType

\* What rests the link of a handler without an event.
LEMMA RestingExpires ==
  ASSUME NEW l, NEW m \in Link, Rests(m, l), SameLink(m, l)
  PROVE  Expires(m, l, NoEvent)
<1>1. Ticks(l) => Due(m, NoEvent) BY RestsTicks DEF NoEvent, Due, Ticks
<1> QED BY <1>1 DEF Rests, Expires

LEMMA PacketServes ==
  ASSUME NEW s, Inv(s), Live(s), Tidy(s), NEW p \in Port, NEW m \in Pdu,
         s.link[p].exists, IsEnabled(s.link[p])
  PROVE  Serves(s, RunSm(s, p, Received(m)))
<1> DEFINE ev == Received(m)
           u == RunSm(s, p, ev)
<1>1. ev.pdu \in Pdu BY DEF Received
<1>2. Ticks(s.link[p]) BY DEF Tidy, Timed
<1>3. Due(s.link[p], ev) BY <1>2 DEF Ticks, Due
<1> HIDE DEF ev
<1>4. RunDone(s, u, p, ev) BY <1>1, RunSmDone
<1> HIDE DEF u
<1>5. Listed(u) /\ Bound(u) BY <1>4, OnlyEnabled DEF RunDone, Tidy
<1>6. Others(s, u, p) BY <1>4, OnlyOthers DEF RunDone
<1>7. Served(u.link[p], s.link[p])
  BY <1>3, <1>4 DEF RunDone, Served, Timed, Stops
<1>8. Serves(s, u) BY <1>5, <1>6, <1>7, OthersServe
<1> QED BY <1>8 DEF u, ev

----------------------------------------------------------------------------
(* The interface table.                                                    *)

Table(s, t, p, i) ==
    /\ t.link = s.link /\ t.links = s.links /\ t.ifg[p] = i
    /\ \A q \in Port \ {p} : t.ifg[q] = s.ifg[q]

LEMMA SetInterfaceTable ==
  ASSUME NEW s \in DaemonState, NEW p \in Port, NEW i
  PROVE  Table(s, SetInterface(s, p, i), p, i)
<1> DEFINE g == [s.ifg EXCEPT ![p] = i]
           t == [s EXCEPT !.ifg = g]
<1>1. g[p] = i /\ \A q \in Port \ {p} : g[q] = s.ifg[q]
  <2>1. s.ifg \in [Port -> Interface] BY Zenon DEF DaemonState
  <2> QED BY <2>1
<1>2. SetInterface(s, p, i) = t BY DEF SetInterface
<1> HIDE DEF g
<1>3. t.link = s.link /\ t.links = s.links /\ t.ifg = g BY Zenon DEF DaemonState
<1> HIDE DEF t
<1>4. Table(s, t, p, i) BY <1>1, <1>3 DEF Table
<1> QED BY <1>2, <1>4

LEMMA TableTidy ==
  ASSUME NEW s, Tidy(s), NEW t, NEW p \in Port, NEW i, Table(s, t, p, i),
         i.present \/ ~s.link[p].ifp
  PROVE  Tidy(t)
<1>1. EnabledLinks(t) = EnabledLinks(s) BY DEF Table, EnabledLinks
<1>2. Listed(t) BY <1>1 DEF Tidy, Listed, Table
<1>3. Bound(t)
  <2>1. ASSUME NEW q \in Port, t.link[q].ifp PROVE t.ifg[q].present
    <3>1. CASE q = p BY <2>1, <3>1 DEF Table
    <3>2. CASE q # p BY <2>1, <3>2 DEF Table, Tidy, Bound
    <3> QED BY <3>1, <3>2
  <2> QED BY <2>1 DEF Bound
<1> QED BY <1>2, <1>3 DEF Tidy, Table

\* A handler that first writes the table serves the links as from there.
LEMMA TableServes ==
  ASSUME NEW s, NEW t, NEW u, t.link = s.link, Serves(t, u)
  PROVE  Serves(s, u)
  BY DEF Serves

\* A link gets its interface, or the interface comes up.
Raised(m, l) ==
    m.exists = l.exists /\ m.key = l.key /\ SameSystem(m, l)

LEMMA UpRaises ==
  ASSUME NEW l \in Link, NEW b
  PROVE  LET m == [l EXCEPT !.up = b] IN Raised(m, l) /\ m.ifp = l.ifp /\ m.up = b
<1>1. Raised([l EXCEPT !.up = b], l) BY ZenonT(40) DEF Link, Raised, SameSystem
<1>2. [l EXCEPT !.up = b].ifp = l.ifp BY ZenonT(40) DEF Link
<1>3. [l EXCEPT !.up = b].up = b BY ZenonT(40) DEF Link
<1> QED BY <1>1, <1>2, <1>3

LEMMA AttachRaises ==
  ASSUME NEW l \in Link, NEW b
  PROVE  LET m == [l EXCEPT !.ifp = TRUE, !.up = b] IN Raised(m, l)
  BY ZenonT(40) DEF Link, Raised, SameSystem

\* The end of both: if the link has become enabled it begins.
LEMMA RaiseServes ==
  ASSUME NEW s, Inv(s), Tidy(s), NEW p \in Port, NEW l \in Link, Raised(l, s.link[p]),
         SameLink(l, s.link[p]), s.link[p].exists, s.ifg[p].present,
         ~IsEnabled(l) => ~IsEnabled(s.link[p])
  PROVE  LET t == SetLink(s, p, l) IN
         Serves(s, IF IsEnabled(l) THEN InitializeLink(SelectionAddLink(t, p), p) ELSE t)
<1> DEFINE t == SetLink(s, p, l)
<1>1. s \in DaemonState BY DEF Inv
<1>2. Others(s, t, p) /\ t.link[p] = l /\ SameTables(s, t) BY <1>1, SetLinkAside
<1>3. Inv(t) BY PatchKeeps DEF Keeps
<1> HIDE DEF t
<1>4. Bound(s) /\ Listed(s) BY DEF Tidy
<1>5. t.links = s.links /\ t.ifg = s.ifg BY <1>2 DEF SameTables
<1>6. Bound(t) BY <1>2, <1>4, <1>5, OthersBound
<1>7. t.link[p].exists BY <1>2 DEF Raised
<1>8. ASSUME IsEnabled(l) PROVE Serves(s, InitializeLink(SelectionAddLink(t, p), p))
  BY <1>2, <1>3, <1>5, <1>6, <1>7, <1>8, StartServes
<1>9. ASSUME ~IsEnabled(l) PROVE Serves(s, t)
  <2>1. Listed(t) BY <1>2, <1>4, <1>5, <1>9, OffListed
  <2>2. Stops(t.link[p], s.link[p]) BY <1>2 DEF Stops, Raised
  <2> QED BY <1>2, <1>6, <1>9, <2>1, <2>2, OffServes
<1>10. Serves(s, IF IsEnabled(l) THEN InitializeLink(SelectionAddLink(t, p), p) ELSE t)
  BY <1>8, <1>9
<1> QED BY <1>10 DEF t

LEMMA PortAttachServes ==
  ASSUME NEW s, Inv(s), Tidy(s), NEW p \in Port, s.link[p].exists, ~s.link[p].ifp,
         s.ifg[p].present
  PROVE  Serves(s, PortAttach(s, p))
<1> DEFINE l == [s.link[p] EXCEPT !.ifp = TRUE, !.up = s.ifg[p].up]
           t == SetLink(s, p, l)
<1>1. s.link[p] \in Link /\ s.ifg[p].up \in BOOLEAN BY LinkType, InterfaceType DEF Inv
<1>2. l \in Link /\ SameLink(l, s.link[p]) BY <1>1, AttachedType
<1>3. Raised(l, s.link[p]) BY <1>1, AttachRaises
<1>4. PortAttach(s, p) = IF IsEnabled(t.link[p]) THEN InitializeLink(SelectionAddLink(t, p), p)
                         ELSE t
  BY DEF PortAttach
<1> HIDE DEF l
<1>5. t.link[p] = l BY SetLinkAside DEF Inv
<1>6. ~IsEnabled(s.link[p]) BY DEF IsEnabled
<1> QED BY <1>2, <1>3, <1>4, <1>5, <1>6, RaiseServes

LEMMA PortUpServes ==
  ASSUME NEW s, Inv(s), Tidy(s), NEW p \in Port, s.link[p].exists, s.link[p].ifp
  PROVE  Serves(s, PortUp(s, p))
<1> DEFINE l == [s.link[p] EXCEPT !.up = TRUE]
           t == SetLink(s, p, l)
<1>1. s.link[p] \in Link BY LinkType DEF Inv
<1>2. l \in Link /\ SameLink(l, s.link[p]) /\ Raised(l, s.link[p])
      /\ l.ifp = s.link[p].ifp /\ l.up = TRUE
  BY <1>1, UpType, UpRaises
<1>3. PortUp(s, p) = InitializeLink(SelectionAddLink(t, p), p) BY DEF PortUp
<1> HIDE DEF l
<1>4. t.link[p] = l BY SetLinkAside DEF Inv
<1> HIDE DEF t
<1>5. PortUp(s, p) = IF IsEnabled(l) THEN InitializeLink(SelectionAddLink(t, p), p) ELSE t
  <2>1. ASSUME ~IsEnabled(l) PROVE InitializeLink(SelectionAddLink(t, p), p) = t
    <3>1. SelectionAddLink(t, p) = t BY <1>4, <2>1 DEF SelectionAddLink
    <3> QED BY <1>4, <2>1, <3>1 DEF InitializeLink
  <2> QED BY <1>3, <2>1
<1>6. ~IsEnabled(l) => ~IsEnabled(s.link[p]) BY <1>2 DEF IsEnabled, Raised
<1>7. s.ifg[p].present BY DEF Tidy, Bound
<1> QED BY <1>2, <1>5, <1>6, <1>7, RaiseServes DEF t

\* The machines of a link that goes down: nothing but the link changes.
Lowers(s, u, p) ==
    /\ SameTables(s, u) /\ Others(s, u, p)
    /\ SameSystem(u.link[p], s.link[p]) /\ ~u.link[p].up /\ u.link[p].ifp = s.link[p].ifp

LEMMA StopLowers ==
  ASSUME NEW s, Inv(s), Live(s), NEW p \in Port
  PROVE  LET u == Stop(LinkCleanup(s, p, TRUE), p) IN Lowers(s, u, p) /\ u \in DaemonState
<1> DEFINE c == LinkCleanup(s, p, TRUE)
           l == [c.link[p] EXCEPT !.up = FALSE]
           t == SetLink(c, p, l)
           m == PortDisabled(l)
           a == RcvSm(t, p, NoEvent)
           b == PeriodicTxSm(a, p, NoEvent)
           u == MuxSm(b, p, NoEvent)
<1>1. Inv(c) /\ Tidies(s, c, p) BY CleanupKeeps, CleanupTidies
<1>2. Stop(c, p) = u BY DEF Stop
<1>3. Only(s, c, p) /\ SameSystem(c.link[p], s.link[p]) BY <1>1 DEF Tidies
<1> HIDE DEF c
<1>4. c.link[p] \in Link BY <1>1, LinkType DEF Inv
<1>5. l \in Link /\ SameLink(l, c.link[p]) /\ l.up = FALSE BY <1>4, UpType
<1>6. Raised(l, c.link[p]) /\ l.ifp = c.link[p].ifp BY <1>4, UpRaises
<1> HIDE DEF l
<1>7. Others(c, t, p) /\ t.link[p] = l /\ SameTables(c, t) BY <1>1, SetLinkAside DEF Inv
<1>8. Inv(t) BY <1>1, <1>5, PatchKeeps DEF Keeps
<1> HIDE DEF t
<1>9. a = SetLink(t, p, m) BY <1>5, <1>7, Zenon DEF RcvSm, NoEvent
<1>10. m \in Link /\ Notes(m, l) /\ SameSystem(m, l) BY <1>5, PortDisabledType, PortDisabledNotes
<1>11. Inv(a) BY <1>8, EventType, RcvSmKeeps DEF Keeps
<1> HIDE DEF m
<1>12. Others(t, a, p) /\ a.link[p] = m /\ SameTables(t, a) BY <1>8, <1>9, SetLinkAside DEF Inv
<1> HIDE DEF a
<1>13. PeriodicDone(a, b, p, NoEvent) BY <1>11, PeriodicSmDone DEF Inv
<1>14. Inv(b) BY <1>11, PeriodicTxSmKeeps DEF Keeps
<1> HIDE DEF b
<1>15. Only(a, b, p) /\ Paces(b.link[p], m) BY <1>12, <1>13 DEF PeriodicDone
<1>16. ~b.link[p].up
  BY <1>5, <1>10, <1>15 DEF Paces, Notes, Hears, SameFace
<1>17. MuxDone(b, u, p, NoEvent) BY <1>14, <1>16, MuxSmDone DEF IsEnabled
<1>18. u \in DaemonState BY <1>14, <1>16, MuxSmKeeps DEF Keeps, Inv, IsEnabled
<1> HIDE DEF u
<1>19. Only(b, u, p) /\ Muxes(u.link[p], b.link[p]) BY <1>17 DEF MuxDone
<1>20. Others(s, u, p)
  <2>1. Others(s, c, p) /\ Others(a, b, p) /\ Others(b, u, p) BY <1>3, <1>15, <1>19, OnlyOthers
  <2>2. Others(s, t, p) BY <1>7, <2>1, OthersTrans
  <2>3. Others(s, a, p) BY <1>12, <2>2, OthersTrans
  <2>4. Others(s, b, p) BY <2>1, <2>3, OthersTrans
  <2> QED BY <2>1, <2>4, OthersTrans
<1>21. SameTables(s, u) BY <1>3, <1>7, <1>12, <1>15, <1>19 DEF Only, SameTables
<1>22. SameSystem(u.link[p], s.link[p])
  BY <1>3, <1>6, <1>10, <1>15, <1>19 DEF Raised, Paces, Muxes, SameSystem
<1>23. ~u.link[p].up BY <1>16, <1>19 DEF Muxes, SameFace
<1>24. u.link[p].ifp = s.link[p].ifp
  BY <1>3, <1>6, <1>10, <1>15, <1>19 DEF Only, Notes, Hears, Paces, Muxes, SameFace
<1>25. Lowers(s, u, p) BY <1>20, <1>21, <1>22, <1>23, <1>24 DEF Lowers
<1> QED BY <1>2, <1>18, <1>25 DEF c

\* A link that is off leaves the list when it was on.
LEMMA RefreshServes ==
  ASSUME NEW s, Tidy(s), NEW u \in DaemonState, NEW p \in Port, Others(s, u, p),
         u.links = s.links, Bound(u), Stops(u.link[p], s.link[p]),
         ~u.link[p].exists \/ ~IsEnabled(u.link[p]),
         NEW enabled, enabled \/ ~IsEnabled(s.link[p])
  PROVE  Serves(s, Refresh(u, enabled))
<1> DEFINE v == UpdateSelection(u)
<1>1. CASE enabled
  <2>1. Refresh(u, enabled) = v BY <1>1, Zenon DEF Refresh
  <2>2. Relists(u, v) /\ Listed(v) BY UpdateSelectionLists
  <2> HIDE DEF v
  <2>3. v.link = u.link /\ v.ifg = u.ifg BY <2>2 DEF Relists
  <2>4. Others(s, v, p) /\ Bound(v) BY <2>3 DEF Others, Bound
  <2>5. Serves(s, v) BY <2>2, <2>3, <2>4, OffServes
  <2> QED BY <2>1, <2>5
<1>2. CASE ~enabled
  <2>1. Refresh(u, enabled) = u BY <1>2, Zenon DEF Refresh
  <2>2. ~IsEnabled(s.link[p]) /\ Listed(s) BY <1>2, Zenon DEF Tidy
  <2>4. Listed(u) BY <2>2, OffListed
  <2>3. Serves(s, u) BY <2>4, OffServes
  <2> QED BY <2>1, <2>3
<1> QED BY <1>1, <1>2

LEMMA PortDownServes ==
  ASSUME NEW s, Inv(s), Live(s), Tidy(s), NEW p \in Port, s.ifg[p].present
  PROVE  Serves(s, PortDown(s, p))
<1> DEFINE u == Stop(LinkCleanup(s, p, TRUE), p)
<1>1. Lowers(s, u, p) /\ u \in DaemonState BY StopLowers
<1>2. PortDown(s, p) = Refresh(u, IsEnabled(s.link[p])) BY DEF PortDown
<1> HIDE DEF u
<1>3. Others(s, u, p) /\ u.links = s.links /\ u.ifg = s.ifg BY <1>1 DEF Lowers, SameTables
<1>4. Bound(s) BY DEF Tidy
<1>5. Bound(u) BY <1>3, <1>4, OthersBound
<1>6. Stops(u.link[p], s.link[p]) /\ ~IsEnabled(u.link[p]) BY <1>1 DEF Lowers, Stops, IsEnabled
<1>7. Serves(s, Refresh(u, IsEnabled(s.link[p]))) BY <1>1, <1>3, <1>5, <1>6, RefreshServes
<1> QED BY <1>2, <1>7

LEMMA AdminKeyChangedSpares ==
  ASSUME NEW s, Inv(s), NEW p \in Port, NEW changed, NEW keep
  PROVE  Spares(s, AdminKeyChanged(s, p, changed, keep))
<1> DEFINE t == IF keep THEN s ELSE Disaggregate(s, p, TRUE)
           u == SetLink(t, p, Ntt(t.link[p]))
<1>1. t \in DaemonState /\ Spares(s, t)
  <2>1. Quits(s, Disaggregate(s, p, TRUE), p) /\ Disaggregate(s, p, TRUE) \in DaemonState
    BY DisaggregateQuits, DisaggregateKeeps DEF Inv
  <2>2. s \in DaemonState BY DEF Inv
  <2> QED BY <2>1, <2>2, SparesRefl DEF Quits
<1>2. AdminKeyChanged(s, p, changed, keep) \in {s, u} BY DEF AdminKeyChanged
<1> HIDE DEF t
<1>3. Rests(Ntt(t.link[p]), t.link[p]) BY <1>1, LinkType, NttRests
<1>4. Spares(t, u) BY <1>1, <1>3, ShapedState, SetLinkSpares
<1>5. Spares(s, u) BY <1>1, <1>4, SparesTrans
<1> QED BY <1>2, <1>5, SparesRefl

\* The whole handler of an interface's new state.
LEMMA StateChangedServes ==
  ASSUME NEW s, Inv(s), Live(s), Tidy(s), NEW p \in Port, s.ifg[p].present, NEW t,
         t \in {PortDown(s, p), s} \/ (t = PortUp(s, p) /\ s.link[p].exists /\ s.link[p].ifp),
         NEW changed, NEW keep
  PROVE  Serves(s, AdminKeyChanged(t, p, changed, keep))
<1>1. Inv(t) /\ Serves(s, t)
  <2>1. CASE t = PortDown(s, p) BY <2>1, PortDownInv, PortDownServes
  <2>2. CASE t = s BY <2>2, TidyServes
  <2>3. CASE t = PortUp(s, p) /\ s.link[p].exists /\ s.link[p].ifp
    BY <2>3, PortUpKeeps, PortUpServes DEF Keeps
  <2> QED BY <2>1, <2>2, <2>3
<1>2. Spares(t, AdminKeyChanged(t, p, changed, keep)) BY <1>1, AdminKeyChangedSpares
<1> QED BY <1>1, <1>2, ServesSpares

----------------------------------------------------------------------------
(* Links and aggregators go away.                                          *)

LEMMA DeleteLinkServes ==
  ASSUME NEW s, Inv(s), Live(s), Tidy(s), NEW p \in Port, NEW notify \in BOOLEAN
  PROVE  Serves(s, DeleteLink(s, p, notify)) /\ ~DeleteLink(s, p, notify).link[p].ifp
<1> DEFINE r == ReleaseReference(s, p)
           t == LinkCleanup(r, p, notify)
           u == SetLink(t, p, NoLinkRec)
           v == UpdateSelection(u)
<1>0. s \in DaemonState BY DEF Inv
<1>1. Keeps(s, r) /\ Flags(s, r, p) BY <1>0, ReleaseReferenceQuiet, QuietKeeps, ReleaseFlags
<1>2. DeleteLink(s, p, notify) = Refresh(u, IsEnabled(t.link[p])) BY DEF DeleteLink
<1> HIDE DEF r
<1>3. Inv(t) /\ Tidies(r, t, p) BY <1>1, CleanupKeeps, CleanupTidies DEF Keeps
<1>4. Only(s, t, p)
  <2>1. Only(s, r, p) BY <1>1, SparesOnly DEF Flags
  <2> QED BY <1>3, <2>1, OnlyTrans DEF Tidies
<1> HIDE DEF t
<1>5. Others(t, u, p) /\ u.link[p] = NoLinkRec /\ SameTables(t, u)
  BY <1>3, SetLinkAside DEF Inv
<1>6. u \in DaemonState BY <1>3, NoLinkRecType, SetLinkIs DEF Inv
<1> HIDE DEF u
<1>7. Others(s, u, p) BY <1>4, <1>5, OnlyOthers, OthersTrans
<1>8. u.links = s.links /\ u.ifg = s.ifg BY <1>4, <1>5 DEF Only, SameTables
<1>9. ~u.link[p].exists /\ ~u.link[p].ifp BY <1>5 DEF NoLinkRec
<1>10. Bound(u) BY <1>7, <1>8, <1>9, OthersBound DEF Tidy
<1>11. Stops(u.link[p], s.link[p]) BY <1>9 DEF Stops
<1>12. IsEnabled(t.link[p]) \/ ~IsEnabled(s.link[p]) BY <1>4 DEF Only, SameFace, IsEnabled
<1>13. Serves(s, Refresh(u, IsEnabled(t.link[p])))
  BY <1>6, <1>7, <1>8, <1>9, <1>10, <1>11, <1>12, RefreshServes
<1>14. ~v.link[p].ifp
  <2>1. v.link = u.link BY <1>6, UpdateSelectionLists DEF Relists
  <2> QED BY <1>9, <2>1
<1>15. Refresh(u, IsEnabled(t.link[p])) \in {u, v} BY DEF Refresh
<1> HIDE DEF v
<1> QED BY <1>2, <1>9, <1>13, <1>14, <1>15

\* The interface of a link that is not there any more goes.
LEMMA ServesTable ==
  ASSUME NEW s, NEW t, NEW u, NEW p \in Port, NEW i, Serves(s, t), Table(t, u, p, i),
         ~t.link[p].ifp
  PROVE  Serves(s, u)
<1>1. EnabledLinks(u) = EnabledLinks(t) BY DEF Table, EnabledLinks
<1>2. Listed(u) BY <1>1 DEF Serves, Listed, Table
<1>3. ASSUME NEW q \in Port, u.link[q].ifp PROVE u.ifg[q].present
  <2>1. CASE q = p BY <1>3, <2>1 DEF Table
  <2>2. CASE q # p BY <1>3, <2>2 DEF Table, Serves, Bound
  <2> QED BY <2>1, <2>2
<1> QED BY <1>2, <1>3 DEF Serves, Bound, Table

LEMMA SetNsmFrame ==
  ASSUME NEW s \in DaemonState, NEW f
  PROVE  Untouched(s, [s EXCEPT !.nsm = f])
<1> SUFFICES ASSUME NEW t, t = [s EXCEPT !.nsm = f] PROVE Untouched(s, t) OBVIOUS
<1>1. t.link = s.link /\ t.links = s.links /\ t.ifg = s.ifg BY Zenon DEF DaemonState
<1> QED BY <1>1 DEF Untouched, SameTables

LEMMA AggregatorDeleteSpares ==
  ASSUME NEW s, Inv(s), NEW k \in Key
  PROVE  Spares(s, FreeAggregator(DetachLinks(DeleteAtNsm(s, k), k, FALSE), k))
<1> DEFINE d == DeleteAtNsm(s, k)
           t == DetachLinks(d, k, FALSE)
           u == FreeAggregator(t, k)
<1>1. s \in DaemonState BY DEF Inv
<1>2. Keeps(s, d) BY <1>1, DeleteAtNsmQuiet, QuietKeeps
<1>3. Untouched(s, d) BY <1>1, DeleteAtNsmFrame
<1> HIDE DEF d
<1>4. Inv(d) BY <1>2 DEF Keeps
<1>5. Inv(t) /\ Spares(d, t) BY <1>4, DetachLinksKeeps, DetachLinksSpares DEF Inv
<1> HIDE DEF t
<1>6. Untouched(t, u) BY <1>5, FreeFrame DEF Inv
<1> HIDE DEF u
<1>7. Spares(s, d) /\ Spares(t, u) BY <1>3, <1>6, SameSpares DEF Untouched
<1>8. Spares(s, u) BY <1>5, <1>7, SparesTrans
<1> QED BY <1>8 DEF u, t, d

----------------------------------------------------------------------------
(* Configuration of a port.                                                *)

\* The key of p changes: p keeps its interface, and if it is off in the end
\* neither the list nor its partner has changed.
Rekeys(s, t, p) ==
    /\ Others(s, t, p) /\ t.ifg = s.ifg
    /\ t.link[p].exists = s.link[p].exists /\ t.link[p].ifp = s.link[p].ifp
    /\ t.link[p].up = s.link[p].up
    /\ ~IsEnabled(t.link[p]) => t.links = s.links /\ SameSystem(t.link[p], s.link[p])

LEMMA KeyRekeys ==
  ASSUME NEW l \in Link, NEW k \in Key
  PROVE  LET m == [l EXCEPT !.key = k, !.ntt = TRUE] IN
         /\ m.exists = l.exists /\ m.ifp = l.ifp /\ m.up = l.up
         /\ SameSystem(m, l) /\ m.key = k
<1> DEFINE m == [l EXCEPT !.key = k, !.ntt = TRUE]
<1>1. m.exists = l.exists /\ m.ifp = l.ifp /\ m.up = l.up BY ZenonT(40) DEF Link
<1>2. SameSystem(m, l) BY ZenonT(40) DEF Link, SameSystem
<1>3. m.key = k BY ZenonT(40) DEF Link
<1> QED BY <1>1, <1>2, <1>3

LEMMA SetLinkAdminKeyRekeys ==
  ASSUME NEW s, Inv(s), Live(s), NEW p \in Port, NEW k \in Key
  PROVE  Rekeys(s, SetLinkAdminKey(s, p, k), p) /\ SetLinkAdminKey(s, p, k).link[p].key = k
<1> DEFINE r == ReleaseReference(s, p)
           t == LeaveAggregator(r, p, TRUE)
           l == [t.link[p] EXCEPT !.key = k, !.ntt = TRUE]
           u == SetLink(t, p, l)
           w == SetLink(SetAgg(u, k, [u.agg[k] EXCEPT !.refCnt = Incr(u.agg[k].refCnt)]),
                        p, [u.link[p] EXCEPT !.match = TRUE])
           v == IF u.agg[k].alive THEN w ELSE u
           x == SelectionAddLink(v, p)
           y == InitializeLink(x, p)
<1>0. s \in DaemonState BY DEF Inv
<1>1. Keeps(s, r) /\ Flags(s, r, p) BY <1>0, ReleaseReferenceQuiet, QuietKeeps, ReleaseFlags
<1>2. \/ k = s.link[p].key /\ SetLinkAdminKey(s, p, k) = s
      \/ SetLinkAdminKey(s, p, k) = IF IsEnabled(v.link[p]) /\ ~IsEnabled(t.link[p])
                                    THEN y ELSE v
  BY Zenon DEF SetLinkAdminKey, TakeKey
<1> HIDE DEF r
<1>3. Inv(t) /\ Spares(r, t) BY <1>1, LeaveKeeps, LeaveSpares DEF Keeps
<1> HIDE DEF t
<1>4. t.link[p] \in Link BY <1>3, LinkType DEF Inv
<1>5. l \in Link /\ SameLink(l, t.link[p])
  <2>1. DefaultPrio \in Prio /\ TRUE \in BOOLEAN BY PrioAssumption
  <2> QED BY <1>4, <2>1, ConfigTypes
<1>6. /\ l.exists = t.link[p].exists /\ l.ifp = t.link[p].ifp /\ l.up = t.link[p].up
      /\ SameSystem(l, t.link[p]) /\ l.key = k
  BY <1>4, KeyRekeys
<1> HIDE DEF l
<1>7. Others(t, u, p) /\ u.link[p] = l /\ SameTables(t, u) BY <1>3, SetLinkAside DEF Inv
<1>8. Inv(u) BY <1>3, <1>5, PatchKeeps DEF Keeps
<1> HIDE DEF u
<1>9. Flags(u, w, p) BY <1>8, MatchFlags DEF Inv
<1>10. Inv(w)
  <2>1. Incr(u.agg[k].refCnt) \in Octet BY <1>8, RefCntType, OctetType DEF Inv
  <2>2. Quiet(u, w) BY <1>8, <2>1, SetReferenceQuiet DEF Inv
  <2> HIDE DEF w
  <2> QED BY <1>8, <2>2, QuietKeeps DEF Keeps
<1> HIDE DEF w
<1>11. Inv(v) /\ Spares(u, v) BY <1>8, <1>9, <1>10, SparesRefl DEF Flags
<1> HIDE DEF v
<1>12. Only(s, t, p) /\ Only(u, v, p) /\ SameSystem(t.link[p], s.link[p])
      /\ SameSystem(v.link[p], u.link[p])
  <2>1. Spares(s, t) BY <1>1, <1>3, SparesTrans DEF Flags
  <2> QED BY <1>11, <2>1, SparesOnly DEF Spares, Rests
<1>13. Others(s, v, p)
  <2>1. Others(s, t, p) /\ Others(u, v, p) BY <1>12, OnlyOthers
  <2>2. Others(s, u, p) BY <1>7, <2>1, OthersTrans
  <2> QED BY <2>1, <2>2, OthersTrans
<1>14. v.ifg = s.ifg /\ v.links = s.links BY <1>7, <1>12 DEF Only, SameTables
<1>15. /\ v.link[p].exists = s.link[p].exists /\ v.link[p].ifp = s.link[p].ifp
       /\ v.link[p].up = s.link[p].up /\ v.link[p].key = k
       /\ SameSystem(v.link[p], s.link[p])
  BY <1>6, <1>7, <1>12 DEF Only, SameFace, SameSystem
<1>16. Rekeys(s, v, p) BY <1>13, <1>14, <1>15 DEF Rekeys
<1>17. ASSUME IsEnabled(v.link[p]) PROVE Rekeys(s, y, p) /\ y.link[p].key = k
  <2>1. x.link = v.link /\ x.ifg = v.ifg
    <3>1. x \in {v, [v EXCEPT !.links = v.links \cup {p}]} BY DEF SelectionAddLink
    <3>2. Relists(v, [v EXCEPT !.links = v.links \cup {p}]) BY <1>11, ShapedState, ListFrame DEF Inv
    <3> QED BY <3>1, <3>2 DEF Relists
  <2>2. Inv(x) BY <1>11, SelectionAddLinkQuiet, QuietKeeps DEF Inv, Keeps
  <2> HIDE DEF x
  <2>3. Begun(x, y, p) BY <1>17, <2>1, <2>2, InitializeBegun
  <2> HIDE DEF y
  <2>4. Only(x, y, p) BY <2>3 DEF Begun
  <2>5. Others(s, x, p) BY <1>13, <2>1 DEF Others
  <2>6. Others(s, y, p) BY <2>4, <2>5, OnlyOthers, OthersTrans
  <2>7. y.ifg = s.ifg BY <1>14, <2>1, <2>4 DEF Only, SameTables
  <2>8. /\ y.link[p].exists = v.link[p].exists /\ y.link[p].ifp = v.link[p].ifp
        /\ y.link[p].up = v.link[p].up /\ y.link[p].key = v.link[p].key
    BY <2>1, <2>4 DEF Only, SameFace
  <2>9. IsEnabled(y.link[p]) BY <1>17, <2>8 DEF IsEnabled
  <2> QED BY <1>15, <2>6, <2>7, <2>8, <2>9 DEF Rekeys
<1>18. Rekeys(s, s, p) BY RestsRefl DEF Rekeys, Others, SameSystem
<1> HIDE DEF y
<1> QED BY <1>2, <1>15, <1>16, <1>17, <1>18

LEMMA ActFace ==
  ASSUME NEW l \in Link, NEW b
  PROVE  LET m == [l EXCEPT !.act = b] IN SameFace(m, l) /\ SameSystem(m, l)
<1> DEFINE m == [l EXCEPT !.act = b]
<1>1. SameFace(m, l) BY ZenonT(40) DEF Link, SameFace
<1>2. SameSystem(m, l) BY ZenonT(40) DEF Link, SameSystem
<1> QED BY <1>1, <1>2

LEMMA ConfigAddServes ==
  ASSUME NEW r, Inv(r), Live(r), Tidy(r), NEW p \in Port, NEW k \in Key, NEW act \in BOOLEAN,
         r.ifg[p].present
  PROVE  Serves(r, ConfigAdd(r, p, k, act))
<1> DEFINE s == IF r.link[p].exists THEN r ELSE AddLink(r, p)
           l == [s.link[p] EXCEPT !.act = act]
           a == SetLink(s, p, l)
           t == SetLinkAdminKey(a, p, k)
           v == UpdateSelection(t)
<1>1. Keeps(r, s) BY KeepsRefl, AddLinkKeeps
<1>2. ConfigAdd(r, p, k, act) = IF IsEnabled(t.link[p]) THEN InitializeLink(v, p) ELSE t
  BY DEF ConfigAdd, Restart
<1>3. Others(r, s, p) /\ SameTables(r, s) /\ (r.link[p].exists => s = r)
  <2>1. r \in DaemonState BY DEF Inv
  <2> DEFINE b == [NoLinkRec EXCEPT !.exists = TRUE, !.ifp = TRUE, !.up = r.ifg[p].up,
                                    !.act = TRUE, !.dflt = TRUE]
  <2>2. AddLink(r, p) = SetLink(r, p, b) BY DEF AddLink
  <2> HIDE DEF b
  <2>3. Others(r, SetLink(r, p, b), p) /\ SameTables(r, SetLink(r, p, b)) BY <2>1, SetLinkAside
  <2>4. Others(r, r, p) /\ SameTables(r, r) BY RestsRefl DEF Others, SameTables
  <2> QED BY <2>2, <2>3, <2>4
<1> HIDE DEF s
<1>4. s.link[p] \in Link BY <1>1, LinkType DEF Inv, Keeps
<1>5. l \in Link /\ SameLink(l, s.link[p]) BY <1>4, ConfigTypes, PrioAssumption
<1>6. SameFace(l, s.link[p]) /\ SameSystem(l, s.link[p]) BY <1>4, ActFace
<1> HIDE DEF l
<1>7. Inv(a) /\ Live(a) BY <1>1, <1>5, PatchKeeps DEF Keeps
<1>8. Others(s, a, p) /\ a.link[p] = l /\ SameTables(s, a) BY <1>1, SetLinkAside DEF Inv, Keeps
<1> HIDE DEF a
<1>9. Inv(t) BY <1>7, SetLinkAdminKeyInv
<1>10. Rekeys(a, t, p) /\ t.link[p].key = k BY <1>7, SetLinkAdminKeyRekeys
<1> HIDE DEF t
<1>11. Others(r, t, p)
  <2>1. Others(r, a, p) BY <1>3, <1>8, OthersTrans
  <2>2. Others(a, t, p) BY <1>10 DEF Rekeys
  <2> QED BY <2>1, <2>2, OthersTrans
<1>12. t.ifg = r.ifg BY <1>3, <1>8, <1>10 DEF SameTables, Rekeys
<1>13. Bound(t) BY <1>11, <1>12, OthersBound DEF Tidy
<1>14. ASSUME IsEnabled(t.link[p]) PROVE Serves(r, InitializeLink(v, p))
  <2>1. Relists(t, v) /\ Listed(v) BY <1>9, UpdateSelectionLists DEF Inv
  <2>2. Inv(v) BY <1>9, UpdateSelectionQuiet, QuietKeeps DEF Inv, Keeps
  <2> HIDE DEF v
  <2>3. Others(r, v, p) /\ Bound(v) /\ IsEnabled(v.link[p])
    BY <1>11, <1>13, <1>14, <2>1 DEF Relists, Others, Bound
  <2> QED BY <2>1, <2>2, <2>3, BegunServes
<1>15. ASSUME ~IsEnabled(t.link[p]) PROVE Serves(r, t)
  <2>1. t.links = r.links /\ SameSystem(t.link[p], l)
    BY <1>3, <1>8, <1>10, <1>15 DEF Rekeys, SameTables
  <2>2. k > 0 BY KeyAssumption, SMT
  <2>3. ~r.link[p].exists \/ ~IsEnabled(r.link[p])
    BY <1>3, <1>6, <1>8, <1>10, <1>15, <2>2 DEF Rekeys, SameFace, IsEnabled
  <2>4. Listed(t) BY <1>11, <1>15, <2>1, <2>3, OffListed DEF Tidy
  <2>5. Stops(t.link[p], r.link[p]) BY <1>3, <1>6, <2>1 DEF Stops, SameSystem
  <2> QED BY <1>11, <1>13, <1>15, <2>4, <2>5, OffServes
<1> QED BY <1>2, <1>14, <1>15

----------------------------------------------------------------------------
(* The connection to NSM is lost.                                          *)

LEMMA DetachOff ==
  ASSUME NEW l \in Link, ~l.exists => ~l.ifp
  PROVE  ~Detach(l).ifp /\ SameSystem(Detach(l), l)
<1>1. CASE ~l.exists BY <1>1 DEF Detach, SameSystem
<1>2. CASE l.exists
  <2> DEFINE a == IF l.agg # NoAgg THEN Dropped(l) ELSE l
             b == TimersOff(a)
             c == [b EXCEPT !.ifp = FALSE, !.up = FALSE]
  <2>1. Detach(l) = c BY <1>2 DEF Detach
  <2>2. a \in Link /\ SameSystem(a, l)
    <3>1. Dropped(l) \in Link BY DroppedType
    <3>2. SameSystem(Dropped(l), l) BY DroppedRests DEF Rests
    <3> QED BY <3>1, <3>2 DEF SameSystem
  <2> HIDE DEF a
  <2>3. b \in Link /\ SameSystem(b, a) BY <2>2, TimersOffType, TimersOffFace
  <2> HIDE DEF b
  <2>4. SameSystem(c, b) BY <2>3, ZenonT(40) DEF Link, SameSystem
  <2>5. ~c.ifp BY <2>3, ZenonT(40) DEF Link
  <2> HIDE DEF c
  <2> QED BY <2>1, <2>2, <2>3, <2>4, <2>5 DEF SameSystem
<1> QED BY <1>1, <1>2

LEMMA DisconnectedServes ==
  ASSUME NEW s, Inv(s), Tidy(s), NEW u, \A q \in Port : u.link[q] = Detach(s.link[q]),
         u.links = IF EnabledLinks(s) = {} THEN s.links ELSE {}
  PROVE  Serves(s, u)
<1>1. ASSUME NEW q \in Port PROVE ~u.link[q].ifp /\ SameSystem(u.link[q], s.link[q])
  <2>1. s.link[q] \in Link BY LinkType DEF Inv
  <2>2. ~s.link[q].exists => ~s.link[q].ifp BY DEF Inv, Absent
  <2> QED BY <2>1, <2>2, DetachOff
<1>2. EnabledLinks(u) = {} BY <1>1 DEF EnabledLinks, IsEnabled
<1>3. u.links = {} BY DEF Tidy, Listed
<1>4. Listed(u) BY <1>2, <1>3 DEF Listed
<1>5. Bound(u) BY <1>1 DEF Bound
<1>6. \A q \in Port : Served(u.link[q], s.link[q]) BY <1>1 DEF Served, Timed, Stops, IsEnabled
<1> QED BY <1>4, <1>5, <1>6 DEF Serves

----------------------------------------------------------------------------
(* Every handler serves the links.                                         *)

LInv == IInv /\ Tidy(State)

\* What PartnerChangeStopsTraffic asks of a step.
PartnerStops ==
    \A p \in Port :
        link[p].exists /\ link'[p].exists /\ link[p].partner.sys # link'[p].partner.sys
        => link'[p].mux # "COLLECTING_DISTRIBUTING"

LEMMA ServesLands ==
  ASSUME NEW s, Serves(State, s), Becomes(s)
  PROVE  Tidy(State)' /\ PartnerStops
<1> DEFINE t == State'
<1>1. t.link = s.link /\ t.links = s.links /\ t.ifg = s.ifg /\ t.link = link'
  BY DEF State, Becomes
<1>2. State.link = link BY StateIs
<1> HIDE DEF t, State
<1>3. EnabledLinks(t) = EnabledLinks(s) BY <1>1 DEF EnabledLinks
<1>4. Listed(t) BY <1>1, <1>3 DEF Serves, Listed
<1>5. Bound(t) BY <1>1 DEF Serves, Bound
<1>6. \A q \in Port : Timed(t.link[q]) BY <1>1 DEF Serves, Served
<1>7. Tidy(t) BY <1>4, <1>5, <1>6 DEF Tidy
<1>8. PartnerStops BY <1>1, <1>2 DEF Serves, Served, Stops, SameSystem, PartnerStops
<1> QED BY <1>7, <1>8 DEF t

LEMMA RunsServe ==
  ASSUME NEW s, Serves(State, s), Runs(s)
  PROVE  Tidy(State)' /\ PartnerStops
  BY ServesLands DEF Runs

LEMMA LInvState ==
  ASSUME LInv
  PROVE  Inv(State) /\ Tidy(State) /\ State \in DaemonState /\ State.link = link /\ State.ifg = ifg
         /\ (Defined => Live(State))
  BY StateIs, DefinedLive DEF LInv, IInv, Inv

LEMMA WalkStepServes == ASSUME LInv, WalkStep PROVE Tidy(State)' /\ PartnerStops
<1>0. Inv(State) /\ Tidy(State) /\ State.link = link /\ (Defined => Live(State)) BY LInvState
<1>1. CASE TxTimerExpiry
  <2>1. Becomes(State) BY <1>1, StateIs DEF TxTimerExpiry, Becomes
  <2> QED BY <1>0, <2>1, TidyServes, ServesLands
<1>2. ASSUME NEW p \in Port, GrantCredit(p) PROVE Tidy(State)' /\ PartnerStops
  <2> DEFINE n == IF link[p].tx_count >= TxLimit THEN link[p].tx_count - TxLimit ELSE 0
             l == [link[p] EXCEPT !.tx_count = n]
             s == SetLink(State, p, l)
             u == IF link[p].ntt THEN RunSm(s, p, NoEvent) ELSE s
  <2>1. Live(State) BY <1>0, <1>2 DEF GrantCredit
  <2>2. link[p] \in Link BY <1>0, LinkType DEF Inv
  <2>3. n \in Short
    <3>1. link[p].tx_count \in Short BY <2>2, LinkFields
    <3> QED BY <3>1, LimitAssumption, ShortType, SMT DEF Short
  <2>4. Becomes(u) BY <1>2, Zenon DEF GrantCredit
  <2> HIDE DEF n
  <2>5. l \in Link /\ SameLink(l, link[p]) /\ Rests(l, link[p])
    <3>1. TRUE \in BOOLEAN OBVIOUS
    <3>2. l \in Link /\ SameLink(l, link[p]) BY <2>2, <2>3, <3>1, TxType
    <3>3. Rests(l, link[p]) BY <2>2, <2>3, <3>1, TxRests
    <3> QED BY <3>2, <3>3
  <2> HIDE DEF l, State
  <2>6. Expires(l, link[p], NoEvent) BY <2>5, RestingExpires
  <2>7. Serves(State, RunSm(s, p, NoEvent)) BY <1>0, <2>1, <2>6, ExpiryServes, EventType
  <2>8. Serves(State, s)
    <3>1. Spares(State, s) BY <1>0, <2>5, ShapedState, SetLinkSpares DEF Inv
    <3> HIDE DEF s
    <3> QED BY <1>0, <3>1, TidyServes, ServesSpares
  <2> HIDE DEF s
  <2>9. Serves(State, u) BY <2>7, <2>8
  <2> HIDE DEF u
  <2> QED BY <2>4, <2>9, ServesLands
<1>3. ASSUME NEW p \in Port, Select(p) PROVE Tidy(State)' /\ PartnerStops
  <2> DEFINE wants == \/ link[p].mux = "DETACHED" /\ link[p].selected = "UNSELECTED"
                      \/ link[p].selected = "STANDBY"
             t == IF wants THEN AttemptToAggregate(State, p) ELSE State
             u == IF ~IsEnabled(link[p]) THEN State ELSE Tx(t, p)
  <2>1. Live(State) BY <1>0, <1>3 DEF Select
  <2>2. Becomes(u) BY <1>3, Zenon DEF Select
  <2>3. Inv(t) /\ Spares(State, t)
    <3>1. CASE wants
      <4>1. Willing(State.link[p]) BY <1>0, <3>1 DEF Willing
      <4>2. Spares(State, AttemptToAggregate(State, p)) /\ Inv(AttemptToAggregate(State, p))
        BY <1>0, <2>1, <4>1, AttemptSpares, AttemptKeeps
      <4> QED BY <3>1, <4>2
    <3>2. CASE ~wants BY <1>0, <3>2, SparesRefl
    <3> QED BY <3>1, <3>2
  <2> HIDE DEF t
  <2>4. Spares(t, Tx(t, p)) BY <2>3, TxSpares DEF Inv
  <2>5. Spares(State, u) BY <2>3, <2>4, SparesRefl, SparesTrans
  <2> HIDE DEF u
  <2>6. Serves(State, u) BY <1>0, <2>5, TidyServes, ServesSpares
  <2> QED BY <2>2, <2>6, ServesLands
<1> QED BY <1>1, <1>2, <1>3 DEF WalkStep

LEMMA TimerStepServes ==
  ASSUME LInv, NEW p \in Port,
         \/ WaitWhileExpiry(p) \/ CurrentWhileExpiry(p) \/ PeriodicExpiry(p)
         \/ ActorChurnExpiry(p) \/ PartnerChurnExpiry(p)
  PROVE  Tidy(State)' /\ PartnerStops
<1>1. Defined
  BY DEF WaitWhileExpiry, CurrentWhileExpiry, PeriodicExpiry, ActorChurnExpiry,
         PartnerChurnExpiry, Runs
<1>2. Inv(State) /\ Tidy(State) /\ State.link = link /\ Live(State) BY <1>1, LInvState
<1>3. link[p] \in Link BY <1>2, LinkType DEF Inv
<1>4. CASE WaitWhileExpiry(p)
  BY <1>2, <1>4, WaitOverServes, RunsServe DEF WaitWhileExpiry
<1>5. CASE CurrentWhileExpiry(p)
  <2> DEFINE l == [link[p] EXCEPT !.current_while = FALSE]
  <2>1. Runs(RunSm(SetLink(State, p, l), p, CurrentWhileExpired)) BY <1>5 DEF CurrentWhileExpiry
  <2>2. Expires(l, link[p], CurrentWhileExpired) BY <1>3, ExpiryTypes
  <2> HIDE DEF l
  <2> QED BY <1>2, <2>1, <2>2, ExpiryServes, EventType, RunsServe
<1>6. CASE PeriodicExpiry(p)
  <2> DEFINE l == [link[p] EXCEPT !.periodic_timer = FALSE]
  <2>1. Runs(RunSm(SetLink(State, p, l), p, PeriodicExpired)) BY <1>6 DEF PeriodicExpiry
  <2>2. Expires(l, link[p], PeriodicExpired) BY <1>3, ExpiryTypes
  <2> HIDE DEF l
  <2> QED BY <1>2, <2>1, <2>2, ExpiryServes, EventType, RunsServe
<1>7. CASE ActorChurnExpiry(p)
  <2> DEFINE l == [link[p] EXCEPT !.actor_churn_timer = FALSE]
  <2>1. Runs(RunSm(SetLink(State, p, l), p, ActorChurnExpired)) BY <1>7 DEF ActorChurnExpiry
  <2>2. Expires(l, link[p], ActorChurnExpired) BY <1>3, ExpiryTypes
  <2> HIDE DEF l
  <2> QED BY <1>2, <2>1, <2>2, ExpiryServes, EventType, RunsServe
<1>8. CASE PartnerChurnExpiry(p)
  <2> DEFINE l == [link[p] EXCEPT !.partner_churn_timer = FALSE]
  <2>1. Runs(RunSm(SetLink(State, p, l), p, PartnerChurnExpired)) BY <1>8 DEF PartnerChurnExpiry
  <2>2. Expires(l, link[p], PartnerChurnExpired) BY <1>3, ExpiryTypes
  <2> HIDE DEF l
  <2> QED BY <1>2, <2>1, <2>2, ExpiryServes, EventType, RunsServe
<1> QED BY <1>4, <1>5, <1>6, <1>7, <1>8

LEMMA PartnerStepServes == ASSUME LInv, PartnerStep PROVE Tidy(State)' /\ PartnerStops
<1>0. Inv(State) /\ Tidy(State) /\ State.link = link /\ (Defined => Live(State)) BY LInvState
<1>1. ASSUME NEW p \in Port, HandleMarker(p) PROVE Tidy(State)' /\ PartnerStops
  <2>1. Runs(MarkerTx(State, p)) BY <1>1 DEF HandleMarker
  <2>2. Spares(State, MarkerTx(State, p)) BY <1>0, MarkerTxSpares DEF Inv
  <2>3. Serves(State, MarkerTx(State, p)) BY <1>0, <2>2, TidyServes, ServesSpares
  <2> QED BY <2>1, <2>3, RunsServe
<1>2. ASSUME NEW p \in Port, NEW m \in Pdus[p], HandlePacket(p, m)
      PROVE  Tidy(State)' /\ PartnerStops
  <2>1. Runs(RunSm(State, p, Received(m))) /\ link[p].exists /\ IsEnabled(link[p])
    BY <1>2 DEF HandlePacket, Known
  <2>2. m \in Pdu BY InputAssumption
  <2>3. Live(State) BY <1>0, <2>1 DEF Runs
  <2>4. Serves(State, RunSm(State, p, Received(m))) BY <1>0, <2>1, <2>2, <2>3, PacketServes
  <2> QED BY <2>1, <2>4, RunsServe
<1> QED BY <1>1, <1>2 DEF PartnerStep

LEMMA InterfaceStepServes ==
  ASSUME LInv, NEW p \in Port, NEW up \in BOOLEAN, NEW a \in AdminKey,
         InterfaceAdd(p, up, a) \/ \E keep \in BOOLEAN : InterfaceState(p, up, a, keep)
  PROVE  Tidy(State)' /\ PartnerStops
<1>0. Defined BY DEF InterfaceAdd, InterfaceState, Runs
<1>1. /\ Inv(State) /\ Live(State) /\ Tidy(State) /\ State \in DaemonState
      /\ State.link = link /\ State.ifg = ifg
  BY <1>0, LInvState
<1>2. CASE InterfaceAdd(p, up, a)
  <2> DEFINE i == [present |-> TRUE, up |-> up, akey |-> a]
             s == SetInterface(State, p, i)
             u == IF link[p].exists THEN PortAttach(s, p) ELSE s
  <2>1. i \in Interface
    <3>1. TRUE \in BOOLEAN OBVIOUS
    <3> QED BY <3>1, Zenon DEF Interface
  <2>2. Runs(u) /\ ~ifg[p].present BY <1>2, Zenon DEF InterfaceAdd
  <2>3. i.present OBVIOUS
  <2> HIDE DEF i, State
  <2>4. Table(State, s, p, i) BY <1>1, SetInterfaceTable
  <2>5. Inv(s)
    <3>1. Quiet(State, s) BY <1>1, <2>1, SetInterfaceQuiet
    <3> QED BY <1>1, <3>1, QuietKeeps DEF Keeps
  <2> HIDE DEF s
  <2>6. Tidy(s) BY <1>1, <2>3, <2>4, TableTidy
  <2>7. s.link = link /\ s.ifg[p].present BY <1>1, <2>3, <2>4 DEF Table
  <2>8. ~s.link[p].ifp BY <1>1, <2>2, <2>7 DEF Tidy, Bound
  <2>9. link[p].exists => Serves(s, PortAttach(s, p)) BY <2>5, <2>6, <2>7, <2>8, PortAttachServes
  <2>10. Serves(s, u) BY <2>6, <2>9, TidyServes
  <2> HIDE DEF u
  <2>11. Serves(State, u) BY <1>1, <2>7, <2>10, TableServes
  <2> QED BY <2>2, <2>11, RunsServe
<1>3. ASSUME NEW keep \in BOOLEAN, InterfaceState(p, up, a, keep)
      PROVE  Tidy(State)' /\ PartnerStops
  <2> DEFINE i == [ifg[p] EXCEPT !.up = up, !.akey = a]
             s == SetInterface(State, p, i)
             changed == Known(p) /\ a # ifg[p].akey
             t == StateChanged(s, p, up)
             u == AdminKeyChanged(t, p, changed, keep)
  <2>1. i \in Interface /\ i.present
    <3>1. ifg[p] \in Interface BY <1>1, InterfaceType
    <3>2. ifg[p].present BY <1>3 DEF InterfaceState
    <3>3. i \in Interface BY <3>1, Zenon DEF Interface
    <3>4. i.present = ifg[p].present BY <3>1, Zenon DEF Interface
    <3> QED BY <3>2, <3>3, <3>4
  <2>2. Runs(u) BY <1>3, Zenon DEF InterfaceState
  <2> HIDE DEF i, State
  <2>3. Table(State, s, p, i) BY <1>1, SetInterfaceTable
  <2>4. Keeps(State, s)
    <3>1. Quiet(State, s) BY <1>1, <2>1, SetInterfaceQuiet
    <3> QED BY <1>1, <3>1, QuietKeeps
  <2> HIDE DEF s
  <2>5. Inv(s) /\ Live(s) BY <1>1, <2>4 DEF Keeps
  <2>6. Tidy(s) BY <1>1, <2>1, <2>3, TableTidy
  <2>7. s.link = link /\ s.ifg[p].present BY <1>1, <2>1, <2>3 DEF Table
  <2>8. t \in {PortDown(s, p), s} \/ (t = PortUp(s, p) /\ s.link[p].exists /\ s.link[p].ifp)
    BY <2>7, Zenon DEF StateChanged, Known
  <2> HIDE DEF t, changed
  <2>9. Serves(s, u) BY <2>5, <2>6, <2>7, <2>8, StateChangedServes
  <2> HIDE DEF u
  <2>10. Serves(State, u) BY <1>1, <2>7, <2>9, TableServes
  <2> QED BY <2>2, <2>10, RunsServe
<1> QED BY <1>2, <1>3

LEMMA DeleteStepServes ==
  ASSUME LInv, NEW p \in Port, InterfaceDelete(p) \/ AggregatorConfigDelete(p)
  PROVE  Tidy(State)' /\ PartnerStops
<1>0. Defined BY DEF InterfaceDelete, AggregatorConfigDelete, Runs
<1>1. /\ Inv(State) /\ Live(State) /\ Tidy(State) /\ State \in DaemonState
      /\ State.link = link /\ State.ifg = ifg
  BY <1>0, LInvState
<1>2. CASE InterfaceDelete(p)
  <2> DEFINE s == IF Known(p) THEN DeleteLink(State, p, FALSE) ELSE State
             i == [ifg[p] EXCEPT !.present = FALSE, !.up = FALSE]
             t == SetInterface(s, p, i)
             m == [k \in Key |-> t.nsm[k] \ {p}]
             u == [t EXCEPT !.nsm = m]
  <2>1. Runs(u) BY <1>2, Zenon DEF InterfaceDelete
  <2> HIDE DEF State, i
  <2>2. s \in DaemonState /\ Serves(State, s) /\ ~s.link[p].ifp
    <3>1. FALSE \in BOOLEAN OBVIOUS
    <3>2. CASE Known(p)
      <4>1. Serves(State, DeleteLink(State, p, FALSE)) /\ ~DeleteLink(State, p, FALSE).link[p].ifp
        BY <1>1, <3>1, DeleteLinkServes
      <4>2. DeleteLink(State, p, FALSE) \in DaemonState BY <1>1, <3>1, DeleteLinkKeeps DEF Inv
      <4> QED BY <3>2, <4>1, <4>2
    <3>3. CASE ~Known(p)
      <4>1. s = State BY <3>3
      <4>2. ~State.link[p].ifp BY <1>1, <3>3 DEF Known, Inv, Absent
      <4> QED BY <1>1, <4>1, <4>2, TidyServes
    <3> QED BY <3>2, <3>3
  <2> HIDE DEF s
  <2>3. Table(s, t, p, i) BY <2>2, SetInterfaceTable
  <2>4. i \in Interface
    <3>1. ifg[p] \in Interface BY <1>1, InterfaceType
    <3> QED BY <3>1, Zenon DEF Interface, i
  <2>5. t \in DaemonState BY <2>2, <2>4, SetInterfaceQuiet DEF Quiet, Calm
  <2> HIDE DEF t
  <2>6. Serves(State, t) BY <2>2, <2>3, ServesTable
  <2> HIDE DEF m
  <2>7. Untouched(t, u) BY <2>5, SetNsmFrame
  <2> HIDE DEF u
  <2>8. Spares(t, u) BY <2>7, SameSpares DEF Untouched
  <2>9. Serves(State, u) BY <2>6, <2>8, ServesSpares
  <2> QED BY <2>1, <2>9, RunsServe
<1>3. CASE AggregatorConfigDelete(p)
  <2> DEFINE b == IsEnabled(link[p])
             u == DeleteLink(State, p, b)
  <2>1. b \in BOOLEAN
    <3>1. link[p] \in Link BY <1>1, LinkType
    <3>2. link[p].ifp \in BOOLEAN /\ link[p].up \in BOOLEAN BY <3>1, Zenon DEF Link
    <3> QED BY <3>2, Zenon DEF IsEnabled
  <2>2. Runs(u) BY <1>3, Zenon DEF AggregatorConfigDelete
  <2> HIDE DEF b, State
  <2>3. Serves(State, u) BY <1>1, <2>1, DeleteLinkServes
  <2> HIDE DEF u
  <2> QED BY <2>2, <2>3, RunsServe
<1> QED BY <1>2, <1>3

LEMMA ConfigStepServes ==
  ASSUME LInv, NEW p \in Port, NEW k \in Key, NEW act \in Activities,
         AggregatorConfigAdd(p, k, act)
  PROVE  Tidy(State)' /\ PartnerStops
<1>1. Runs(ConfigAdd(State, p, k, act)) /\ ifg[p].present BY DEF AggregatorConfigAdd
<1>2. Inv(State) /\ Live(State) /\ Tidy(State) /\ State.ifg = ifg BY <1>1, LInvState DEF Runs
<1>3. act \in BOOLEAN BY InputAssumption
<1>4. Serves(State, ConfigAdd(State, p, k, act)) BY <1>1, <1>2, <1>3, ConfigAddServes
<1> QED BY <1>1, <1>4, RunsServe

LEMMA AggregatorStepServes ==
  ASSUME LInv, NEW k \in Key, AggregatorInterfaceDelete(k)
  PROVE  Tidy(State)' /\ PartnerStops
<1> DEFINE u == FreeAggregator(DetachLinks(DeleteAtNsm(State, k), k, FALSE), k)
<1>1. Runs(u) BY DEF AggregatorInterfaceDelete
<1>2. Inv(State) /\ Tidy(State) BY LInvState
<1>3. Spares(State, u) BY <1>2, AggregatorDeleteSpares
<1> HIDE DEF u
<1>4. Serves(State, u) BY <1>2, <1>3, TidyServes, ServesSpares
<1> QED BY <1>1, <1>4, RunsServe

LEMMA StaticStepServes ==
  ASSUME LInv, NEW more \in BOOLEAN, StaticAggregatorCount(more)
  PROVE  Tidy(State)' /\ PartnerStops
<1> DEFINE x == IF more THEN State.static + 1 ELSE State.static - 1
           n == CASE more -> State.agg_cnt + 1
                  [] ~more /\ State.agg_cnt > 0 -> State.agg_cnt - 1
                  [] OTHER -> State.agg_cnt
           u == [State EXCEPT !.static = x, !.agg_cnt = n]
<1>1. State \in DaemonState /\ Tidy(State) BY LInvState
<1>2. Runs(u) BY Zenon DEF StaticAggregatorCount
<1> HIDE DEF State, x, n
<1>3. u.link = State.link /\ u.links = State.links /\ u.ifg = State.ifg
  BY <1>1, Zenon DEF DaemonState
<1> HIDE DEF u
<1>4. Spares(State, u) BY <1>3, SameSpares DEF SameTables
<1>5. Serves(State, u) BY <1>1, <1>4, TidyServes, ServesSpares
<1> QED BY <1>2, <1>5, RunsServe

LEMMA DisconnectStepServes == ASSUME LInv, NsmDisconnect PROVE Tidy(State)' /\ PartnerStops
<1>0. PICK kept \in {0, static} :
        IF \E k \in {j \in Key : agg[j].alive} :
              agg[k].installed /\ agg[k].refCnt \notin 1..Cardinality(Occupied(agg[k]))
        THEN Runs([State EXCEPT !.crashed = TRUE, !.static = kept])
        ELSE Runs([State EXCEPT
                !.link = [p \in Port |-> Detach(link[p])],
                !.agg = [k \in Key |-> FreeAgg],
                !.agg_cnt = IF State.agg_cnt >= Cardinality({j \in Key : agg[j].alive})
                            THEN State.agg_cnt - Cardinality({j \in Key : agg[j].alive}) ELSE 0,
                !.links = IF EnabledLinks(State) = {} THEN State.links ELSE {},
                !.ifg = [p \in Port |-> [State.ifg[p] EXCEPT !.present = FALSE, !.up = FALSE]],
                !.nsm = [k \in Key |-> {}],
                !.static = kept])
  BY Zenon DEF NsmDisconnect, Detach
<1> DEFINE left == Cardinality({j \in Key : agg[j].alive})
           f == [p \in Port |-> Detach(link[p])]
           h == [k \in Key |-> FreeAgg]
           n == IF State.agg_cnt >= left THEN State.agg_cnt - left ELSE 0
           L == IF EnabledLinks(State) = {} THEN State.links ELSE {}
           g == [p \in Port |-> [State.ifg[p] EXCEPT !.present = FALSE, !.up = FALSE]]
           m == [k \in Key |-> {}]
           crash == [State EXCEPT !.crashed = TRUE, !.static = kept]
           u == [State EXCEPT !.link = f, !.agg = h, !.agg_cnt = n, !.links = L, !.ifg = g,
                              !.nsm = m, !.static = kept]
<1>1. Inv(State) /\ Tidy(State) /\ State \in DaemonState /\ State.link = link BY LInvState
<1>2. Runs(crash) \/ Runs(u) BY <1>0, Zenon
<1>3. \A q \in Port : f[q] = Detach(State.link[q]) BY <1>1
<1> HIDE DEF State, f, h, n, g, m
<1>4. CASE Runs(crash)
  <2>1. crash.link = State.link /\ crash.links = State.links /\ crash.ifg = State.ifg
    BY <1>1, Zenon DEF DaemonState
  <2> HIDE DEF crash
  <2>2. Spares(State, crash) BY <2>1, SameSpares DEF SameTables
  <2>3. Serves(State, crash) BY <1>1, <2>2, TidyServes, ServesSpares
  <2> QED BY <1>4, <2>3, RunsServe
<1>5. CASE Runs(u)
  <2>1. u.link = f /\ u.links = L
    <3> HIDE DEF L
    <3> QED BY <1>1, ZenonT(40) DEF DaemonState
  <2> HIDE DEF u
  <2>2. Serves(State, u) BY <1>1, <1>3, <2>1, DisconnectedServes
  <2> QED BY <1>5, <2>2, RunsServe
<1> QED BY <1>2, <1>4, <1>5

LEMMA CommandStepServes == ASSUME LInv, CommandStep PROVE Tidy(State)' /\ PartnerStops
<1>0. /\ Inv(State) /\ Tidy(State) /\ State \in DaemonState /\ State.link = link
      /\ (Defined => Live(State))
  BY LInvState
<1>1. ASSUME NEW p \in Port, NEW v \in Prio, SetLinkPriority(p, v)
      PROVE  Tidy(State)' /\ PartnerStops
  <2> DEFINE l == [link[p] EXCEPT !.prio = v, !.ntt = TRUE]
             s == SetLink(State, p, l)
             t == UpdateSelection(s)
             u == Refresh(s, IsEnabled(link[p]))
  <2>1. Runs(u) BY <1>1, Zenon DEF SetLinkPriority
  <2>2. l \in Link /\ Rests(l, link[p])
    <3>1. link[p] \in Link BY <1>0, LinkType
    <3>2. l \in Link BY <3>1, ZenonT(40) DEF Link
    <3>3. Rests(l, link[p])
      BY <3>1, ZenonT(40) DEF Link, Rests, SameFace, SameRcv, SamePeriodic, SameChurn, SameMux,
                              SameSystem, Owed
    <3> QED BY <3>2, <3>3
  <2> HIDE DEF l, State
  <2>3. Spares(State, s) BY <1>0, <2>2, ShapedState, SetLinkSpares
  <2>4. s \in DaemonState BY <1>0, <2>2, SetLinkIs
  <2> HIDE DEF s
  <2>5. Serves(State, s) BY <1>0, <2>3, TidyServes, ServesSpares
  <2>6. Relists(s, t) /\ Listed(t) BY <2>4, UpdateSelectionLists
  <2>7. u \in {s, t} BY DEF Refresh
  <2> HIDE DEF t, u
  <2>8. Serves(State, u) BY <2>5, <2>6, <2>7, ServesRelists
  <2> QED BY <2>1, <2>8, RunsServe
<1>2. ASSUME NEW p \in Port, NEW short \in Timeouts, SetLinkTimeout(p, short)
      PROVE  Tidy(State)' /\ PartnerStops
  <2> DEFINE l == [link[p] EXCEPT !.short = short]
             u == RunSm(SetLink(State, p, l), p, NoEvent)
  <2>1. Runs(u) BY <1>2 DEF SetLinkTimeout
  <2>2. Live(State) BY <1>0, <2>1 DEF Runs
  <2>3. short \in BOOLEAN BY InputAssumption
  <2>4. link[p] \in Link BY <1>0, LinkType
  <2>5. l \in Link BY <2>3, <2>4, ZenonT(40) DEF Link
  <2>6. SameLink(l, link[p]) BY <2>4, ZenonT(40) DEF Link, SameLink
  <2>7. Rests(l, link[p])
    BY <2>4, ZenonT(40) DEF Link, Rests, SameFace, SameRcv, SamePeriodic, SameChurn, SameMux,
                            SameSystem, Owed
  <2> HIDE DEF l, State
  <2>8. Expires(l, link[p], NoEvent) BY <2>5, <2>6, <2>7, RestingExpires
  <2>9. Serves(State, u) BY <1>0, <2>2, <2>8, ExpiryServes, EventType
  <2> HIDE DEF u
  <2> QED BY <2>1, <2>9, RunsServe
<1>3. ASSUME NEW v \in Prio, SetSystemPriority(v) PROVE Tidy(State)' /\ PartnerStops
  <2> DEFINE u == [State EXCEPT !.system_priority = v]
  <2>1. Runs(u) BY <1>3 DEF SetSystemPriority
  <2> HIDE DEF State
  <2>2. u.link = State.link /\ u.links = State.links /\ u.ifg = State.ifg
    BY <1>0, Zenon DEF DaemonState
  <2> HIDE DEF u
  <2>3. Spares(State, u) BY <2>2, SameSpares DEF SameTables
  <2>4. Serves(State, u) BY <1>0, <2>3, TidyServes, ServesSpares
  <2> QED BY <2>1, <2>4, RunsServe
<1> QED BY <1>1, <1>2, <1>3 DEF CommandStep

LEMMA NextServes == ASSUME LInv, [Next]_vars PROVE LInv' /\ PartnerStops
<1>1. IInv' BY NextInv DEF LInv
<1>2. Tidy(State)' /\ PartnerStops
  <2>1. CASE SettlingStep BY <2>1, WalkStepServes, TimerStepServes DEF SettlingStep
  <2>2. CASE WatchingStep BY <2>2, TimerStepServes DEF WatchingStep
  <2>3. CASE PartnerStep BY <2>3, PartnerStepServes
  <2>4. CASE NsmStep
    BY <2>4, InterfaceStepServes, DeleteStepServes, ConfigStepServes, AggregatorStepServes,
       StaticStepServes, DisconnectStepServes DEF NsmStep
  <2>5. CASE CommandStep BY <2>5, CommandStepServes
  <2>6. CASE UNCHANGED vars
    <3>1. Becomes(State) BY <2>6, StateIs DEF Becomes, vars
    <3>2. Serves(State, State) BY TidyServes DEF LInv
    <3> QED BY <3>1, <3>2, ServesLands
  <2> QED BY <2>1, <2>2, <2>3, <2>4, <2>5, <2>6 DEF Next
<1> QED BY <1>1, <1>2 DEF LInv

LEMMA InitTidy == ASSUME Init PROVE LInv
<1>1. /\ State.link = [p \in Port |-> NoLinkRec] /\ State.links = {}
  BY DEF Init, State
<1> HIDE DEF State
<1>2. \A q \in Port : State.link[q] = NoLinkRec BY <1>1
<1>3. ~NoLinkRec.ifp /\ ~NoLinkRec.exists BY DEF NoLinkRec
<1>4. EnabledLinks(State) = {} BY <1>2, <1>3 DEF EnabledLinks
<1>5. Listed(State) BY <1>1, <1>4 DEF Listed
<1>6. Tidy(State) BY <1>2, <1>3, <1>5 DEF Tidy, Bound, Timed
<1> QED BY <1>6, InitInv DEF LInv

----------------------------------------------------------------------------

\* Every handler leaves the list current, the links bound to interfaces that are there, and the
\* timers of every enabled link running; and a link that hears a new partner carries no traffic
\* after it (lacp_run_sm, lacp_selection_logic_add_link, lacp_update_selection_logic).
THEOREM Maintained == Spec => []LInv /\ [][PartnerStops]_vars
<1>1. Init => LInv BY InitTidy
<1>2. LInv /\ [Next]_vars => LInv' /\ PartnerStops BY NextServes
<1> QED BY <1>1, <1>2, PTL DEF Spec

LEMMA LInvListed == ASSUME LInv PROVE SelectionListCurrent
<1>1. State.links = links /\ Listed(State) BY StateIs DEF LInv, Tidy
<1> HIDE DEF State
<1> QED BY <1>1 DEF Listed, SelectionListCurrent

LEMMA LInvTimers == ASSUME LInv PROVE NoLostTimer
<1>1. ASSUME NEW p \in Port, link[p].exists, IsEnabled(link[p]) PROVE Ticks(link[p])
  <2>1. State.link = link /\ Timed(State.link[p]) BY StateIs DEF LInv, Tidy
  <2> QED BY <1>1, <2>1 DEF Timed
<1> QED BY <1>1 DEF NoLostTimer, Ticks, RcvTick, PeriodicTick, ActorTick, PartnerTick, WaitTick,
                    Owed

\* Whatever interfaces and aggregators come and go, the list the selection logic walks holds
\* enabled links only, and forgets one only while it is full (lacp_update_selection_logic).
THEOREM ListCurrent == Spec => []SelectionListCurrent
<1>1. LInv => SelectionListCurrent BY LInvListed
<1> QED BY <1>1, Maintained, PTL

\* No enabled link ever waits for a timer that nobody armed, whichever handler took it to
\* the state it is in (lacp_rcv_sm, lacp_periodic_tx_sm, lacp_mux_sm, lacp_churn_sm).
THEOREM TimersRun == Spec => []NoLostTimer
<1>1. LInv => NoLostTimer BY LInvTimers
<1> QED BY <1>1, Maintained, PTL

\* A handler after which a link knows another partner leaves the link without traffic: the
\* link is UNSELECTED before the mux runs (lacp_update_selected, lacp_mux_sm).
THEOREM PartnerChange == Spec => PartnerChangeStopsTraffic
<1>1. PartnerStops <=>
        \A p \in Port :
          /\ link[p].exists /\ link'[p].exists
          /\ link[p].partner.sys # link'[p].partner.sys
          => link'[p].mux # "COLLECTING_DISTRIBUTING"
  BY DEF PartnerStops
<1> QED BY <1>1, Maintained, PTL DEF PartnerChangeStopsTraffic
=============================================================================
