------------------------- MODULE LacpSelectionProofs -------------------------
(***************************************************************************)
(* What the operators of LacpSelection keep: the type of the daemon's       *)
(* state, the agreement of `selected' with link->aggregator, and the        *)
(* agreement of link->aggregator with agg->link[].  From "What the           *)
(* operators leave alone" on: what they leave alone of a link for its state *)
(* machines, and what they do to the list the selection logic walks.        *)
(***************************************************************************)
EXTENDS LacpSelection, TLAPS, FiniteSetTheorems, WellFoundedInduction

\* A link is SELECTED exactly when it points to an aggregator.
Sel(s) == \A p \in Port : s.link[p].selected = "SELECTED" <=> s.link[p].agg # NoAgg

\* An occupied slot holds a link that points back, and no other slot does.
Backed(s) ==
    \A k \in Key : \A i \in Slot : s.agg[k].slot[i] # NoLink =>
        /\ s.link[s.agg[k].slot[i]].agg = k
        /\ \A j \in Slot : s.agg[k].slot[j] = s.agg[k].slot[i] => j = i

\* A live aggregator holds every link that points to it.
Held(s) ==
    \A k \in Key : s.agg[k].alive =>
        \A p \in Port : s.link[p].agg = k => Holds(s.agg[k], p)

\* A link that is not in the hash table has no aggregator and no interface.
Absent(s) ==
    \A p \in Port : ~s.link[p].exists => s.link[p].agg = NoAgg /\ ~s.link[p].ifp

\* The aggregators counted cover the live ones and the static ones.
Alive(s) == {k \in Key : s.agg[k].alive}
Covered(s) == Cardinality(Alive(s)) + s.static <= s.agg_cnt

Inv(s) ==
    s \in DaemonState /\ Sel(s) /\ Backed(s) /\ Held(s) /\ Absent(s) /\ Covered(s)

\* No link points to a freed aggregator.
Live(s) == \A p \in Port : ~Dangling(s, p)

Keeps(s, t) == Inv(t) /\ (Live(s) => Live(t))

\* A step that changes none of the fields Inv and Live speak of.
SameLink(l, m) ==
    /\ l.agg = m.agg /\ l.selected = m.selected /\ l.exists = m.exists
    /\ l.ifp => m.ifp \/ m.exists
SameAgg(a, b)  == a.slot = b.slot /\ a.alive = b.alive
SameCounts(s, t) == t.agg_cnt = s.agg_cnt /\ t.static = s.static
Calm(s, t) ==
    /\ t \in DaemonState
    /\ \A p \in Port : SameLink(t.link[p], s.link[p])
    /\ \A k \in Key : SameAgg(t.agg[k], s.agg[k])
Quiet(s, t) == Calm(s, t) /\ SameCounts(s, t)

----------------------------------------------------------------------------
(* Numbers.                                                                *)

LEMMA ShortType == MaxShort \in Nat
  BY SMT DEF MaxShort

LEMMA OctetType ==
  /\ 0 \in Octet
  /\ \A n \in Octet : n \in Nat /\ Incr(n) \in Octet /\ Decr(n) \in Octet
  /\ \A n \in Octet : n > 0 => n - 1 \in Octet
  /\ \A n \in Int : n % 256 \in Octet
  BY SMT DEF Octet, Incr, Decr

LEMMA ZeroNotPort == NoLink \notin Port
  BY PortAssumption, ShortType, SMT DEF NoLink

LEMMA ZeroNotKey == NoAgg \notin Key
  BY KeyAssumption, SMT DEF NoAgg

----------------------------------------------------------------------------
(* Types.                                                                  *)

LEMMA LinkType ==
  ASSUME NEW s \in DaemonState, NEW p \in Port
  PROVE  /\ s.link[p] \in Link
         /\ s.link[p].agg \in Key \cup {NoAgg}
         /\ s.link[p].key \in Key \cup {0}
         /\ s.link[p].partner \in Info
  BY SMT DEF DaemonState, Link

LEMMA AggType ==
  ASSUME NEW s \in DaemonState, NEW k \in Key
  PROVE  /\ s.agg[k] \in Aggregator
         /\ \A i \in Slot : s.agg[k].slot[i] \in Port \cup {NoLink}
         /\ s.agg[k].alive \in BOOLEAN
  BY SMT DEF DaemonState, Aggregator

LEMMA SetLinkIs ==
  ASSUME NEW s \in DaemonState, NEW p \in Port, NEW l \in Link
  PROVE  /\ SetLink(s, p, l) \in DaemonState
         /\ SetLink(s, p, l).link[p] = l
         /\ SetLink(s, p, l).agg = s.agg
         /\ SameCounts(s, SetLink(s, p, l))
<1>1. SetLink(s, p, l) \in DaemonState BY SMT DEF SetLink, DaemonState
<1>2. SetLink(s, p, l).link[p] = l BY SMT DEF SetLink, DaemonState
<1>3. SetLink(s, p, l).agg = s.agg BY SMT DEF SetLink, DaemonState
<1>4. SameCounts(s, SetLink(s, p, l)) BY SMT DEF SetLink, DaemonState, SameCounts
<1> QED BY <1>1, <1>2, <1>3, <1>4

LEMMA SetLinkOthers ==
  ASSUME NEW s \in DaemonState, NEW p \in Port, NEW l \in Link, NEW q \in Port, q # p
  PROVE  SetLink(s, p, l).link[q] = s.link[q]
  BY SMT DEF SetLink, DaemonState

LEMMA SetAggIs ==
  ASSUME NEW s \in DaemonState, NEW k \in Key, NEW a \in Aggregator
  PROVE  /\ SetAgg(s, k, a) \in DaemonState
         /\ SetAgg(s, k, a).agg[k] = a
         /\ SetAgg(s, k, a).link = s.link
         /\ SameCounts(s, SetAgg(s, k, a))
<1>1. SetAgg(s, k, a) \in DaemonState BY SMT DEF SetAgg, DaemonState
<1>2. SetAgg(s, k, a).agg[k] = a BY SMT DEF SetAgg, DaemonState
<1>3. SetAgg(s, k, a).link = s.link BY SMT DEF SetAgg, DaemonState
<1>4. SameCounts(s, SetAgg(s, k, a)) BY SMT DEF SetAgg, DaemonState, SameCounts
<1> QED BY <1>1, <1>2, <1>3, <1>4

LEMMA SetAggOthers ==
  ASSUME NEW s \in DaemonState, NEW k \in Key, NEW a \in Aggregator, NEW j \in Key, j # k
  PROVE  SetAgg(s, k, a).agg[j] = s.agg[j]
  BY SMT DEF SetAgg, DaemonState

LEMMA DefaultPartnerType == DefaultPartner \in Info
  BY SystemAssumption, PrioAssumption, SMT DEF DefaultPartner, Info

LEMMA NoLinkRecType == NoLinkRec \in Link
<1>1. 0 \in Short BY ShortType, SMT DEF Short
<1> QED BY <1>1, DefaultPartnerType, PrioAssumption, SMT DEF NoLinkRec, Link, Churn, NoAgg

LEMMA FreeAggType == FreeAgg \in Aggregator
  BY OctetType, SMT DEF FreeAgg, Aggregator

----------------------------------------------------------------------------
(* Counting.                                                               *)

LEMMA CountType ==
  ASSUME NEW s \in DaemonState PROVE s.agg_cnt \in Nat /\ s.static \in Nat
  BY SMT DEF DaemonState

LEMMA AliveFinite ==
  ASSUME NEW s PROVE IsFiniteSet(Alive(s)) /\ Cardinality(Alive(s)) \in Nat
<1>1. IsFiniteSet(Key) /\ Alive(s) \subseteq Key BY KeyAssumption DEF Alive
<1>2. IsFiniteSet(Alive(s)) BY <1>1, FS_Subset
<1> QED BY <1>2, FS_CardinalityType

LEMMA SameCovered ==
  ASSUME NEW s, NEW t, SameCounts(s, t),
         \A k \in Key : t.agg[k].alive <=> s.agg[k].alive
  PROVE  Covered(s) => Covered(t)
<1>1. Alive(t) = Alive(s) BY DEF Alive
<1> QED BY <1>1 DEF Covered, SameCounts

\* Aggregators that go uncounted leave room to spare.
LEMMA FewerCovered ==
  ASSUME NEW s, NEW t \in DaemonState, SameCounts(s, t),
         \A k \in Key : t.agg[k].alive => s.agg[k].alive
  PROVE  Covered(s) => Covered(t)
<1>1. Alive(t) \subseteq Alive(s) BY DEF Alive
<1>2. Cardinality(Alive(t)) <= Cardinality(Alive(s)) BY <1>1, AliveFinite, FS_Subset
<1>3. /\ Cardinality(Alive(t)) \in Nat /\ Cardinality(Alive(s)) \in Nat
      /\ t.agg_cnt \in Nat /\ t.static \in Nat
  BY AliveFinite, CountType
<1>4. t.agg_cnt = s.agg_cnt /\ t.static = s.static BY DEF SameCounts
<1> DEFINE a == Cardinality(Alive(t))
           b == Cardinality(Alive(s))
<1> HIDE DEF a, b
<1>5. b + t.static <= t.agg_cnt => a + t.static <= t.agg_cnt BY <1>2, <1>3, SMT DEF a, b
<1> QED BY <1>4, <1>5 DEF Covered, a, b

----------------------------------------------------------------------------
(* Quiet steps.                                                            *)

LEMMA QuietRefl == ASSUME NEW s \in DaemonState PROVE Quiet(s, s)
  BY SMT DEF Quiet, Calm, SameCounts, SameLink, SameAgg

LEMMA QuietTrans ==
  ASSUME NEW s, NEW t, NEW u, Quiet(s, t), Quiet(t, u)
  PROVE  Quiet(s, u)
  BY SMT DEF Quiet, Calm, SameCounts, SameLink, SameAgg

LEMMA CalmKeeps ==
  ASSUME NEW s, NEW t, Inv(s), Calm(s, t), Covered(t)
  PROVE  Keeps(s, t)
<1> USE DEF Inv, Calm, SameLink, SameAgg
<1>1. Sel(t) BY SMT DEF Sel
<1>2. Backed(t)
  <2>1. \A k \in Key, i \in Slot : s.agg[k].slot[i] \in Port \cup {NoLink} BY AggType
  <2> QED BY <2>1, SMTT(40) DEF Backed
<1>3. Held(t) BY SMT DEF Held, Holds
<1>4. Live(s) => Live(t)
  <2>1. \A p \in Port : s.link[p].agg \in Key \cup {NoAgg} BY LinkType
  <2> QED BY <2>1, SMT DEF Live, Dangling
<1>5. Absent(t) BY SMT DEF Absent
<1> QED BY <1>1, <1>2, <1>3, <1>4, <1>5 DEF Keeps

LEMMA QuietKeeps ==
  ASSUME NEW s, NEW t, Inv(s), Quiet(s, t)
  PROVE  Keeps(s, t)
<1>1. Calm(s, t) /\ SameCounts(s, t) BY DEF Quiet
<1>2. \A k \in Key : t.agg[k].alive = s.agg[k].alive BY <1>1 DEF Calm, SameAgg
<1>3. Covered(t) BY <1>1, <1>2, SameCovered DEF Inv
<1> QED BY <1>1, <1>3, CalmKeeps

LEMMA PatchLink ==
  ASSUME NEW s \in DaemonState, NEW p \in Port, NEW l \in Link, SameLink(l, s.link[p])
  PROVE  Quiet(s, SetLink(s, p, l))
<1> DEFINE t == SetLink(s, p, l)
<1>1. t \in DaemonState /\ t.link[p] = l /\ t.agg = s.agg /\ SameCounts(s, t) BY SetLinkIs
<1>5. \A q \in Port : q # p => t.link[q] = s.link[q] BY SetLinkOthers
<1> HIDE DEF t
<1>2. \A q \in Port : SameLink(t.link[q], s.link[q]) BY <1>1, <1>5, SMT DEF SameLink
<1>3. \A k \in Key : SameAgg(t.agg[k], s.agg[k]) BY <1>1, SMT DEF SameAgg
<1>4. Quiet(s, t) BY <1>1, <1>2, <1>3 DEF Quiet, Calm
<1> QED BY <1>4 DEF t

LEMMA PatchAgg ==
  ASSUME NEW s \in DaemonState, NEW k \in Key, NEW a \in Aggregator, SameAgg(a, s.agg[k])
  PROVE  Quiet(s, SetAgg(s, k, a))
<1> DEFINE t == SetAgg(s, k, a)
<1>1. t \in DaemonState /\ t.agg[k] = a /\ t.link = s.link /\ SameCounts(s, t) BY SetAggIs
<1>5. \A j \in Key : j # k => t.agg[j] = s.agg[j] BY SetAggOthers
<1> HIDE DEF t
<1>2. \A q \in Port : SameLink(t.link[q], s.link[q]) BY <1>1, SMT DEF SameLink
<1>3. \A j \in Key : SameAgg(t.agg[j], s.agg[j]) BY <1>1, <1>5, SMT DEF SameAgg
<1>4. Quiet(s, t) BY <1>1, <1>2, <1>3 DEF Quiet, Calm
<1> QED BY <1>4 DEF t

LEMMA PatchBoth ==
  ASSUME NEW s \in DaemonState, NEW p \in Port, NEW l \in Link, SameLink(l, s.link[p]),
         NEW k \in Key, NEW a \in Aggregator, SameAgg(a, s.agg[k])
  PROVE  Quiet(s, SetLink(SetAgg(s, k, a), p, l))
<1> DEFINE t == SetAgg(s, k, a)
<1>1. Quiet(s, t) BY PatchAgg
<1>2. t \in DaemonState /\ t.link = s.link BY SetAggIs
<1> HIDE DEF t
<1>3. SameLink(l, t.link[p]) BY <1>2, Zenon
<1>4. Quiet(t, SetLink(t, p, l)) BY <1>2, <1>3, PatchLink
<1>5. Quiet(s, SetLink(t, p, l)) BY <1>1, <1>4, QuietTrans
<1> QED BY <1>5 DEF t

----------------------------------------------------------------------------
(* The quiet operators.                                                    *)

LEMMA NttType ==
  ASSUME NEW l \in Link PROVE Ntt(l) \in Link /\ SameLink(Ntt(l), l)
<1>1. Ntt(l) \in Link BY ZenonT(40) DEF Ntt, Link
<1>2. SameLink(Ntt(l), l) BY ZenonT(40) DEF Ntt, Link, SameLink
<1> QED BY <1>1, <1>2

LEMMA CounterType ==
  ASSUME NEW a \in Aggregator, NEW n \in Octet
  PROVE  /\ [a EXCEPT !.receive_state = n] \in Aggregator
         /\ SameAgg([a EXCEPT !.receive_state = n], a)
         /\ [a EXCEPT !.refCnt = n] \in Aggregator
         /\ SameAgg([a EXCEPT !.refCnt = n], a)
  BY SMT DEF Aggregator, SameAgg

LEMMA InstalledType ==
  ASSUME NEW a \in Aggregator, NEW b \in BOOLEAN
  PROVE  /\ [a EXCEPT !.installed = b] \in Aggregator
         /\ SameAgg([a EXCEPT !.installed = b], a)
  BY SMT DEF Aggregator, SameAgg

LEMMA DisableQuiet ==
  ASSUME NEW s \in DaemonState, NEW p \in Port
  PROVE  Quiet(s, DisableCollectingDistributing(s, p))
<1> DEFINE k == s.link[p].agg
           a == [s.agg[k] EXCEPT !.receive_state = s.agg[k].receive_state - 1]
           l == Ntt(s.link[p])
<1>1. l \in Link /\ SameLink(l, s.link[p]) /\ k \in Key \cup {NoAgg} BY LinkType, NttType
<1>2. CASE k # NoAgg /\ s.agg[k].receive_state > 0
  <2>1. k \in Key /\ s.agg[k] \in Aggregator BY <1>1, <1>2, AggType
  <2>2. s.agg[k].receive_state \in Octet BY <2>1, SMT DEF Aggregator
  <2>3. s.agg[k].receive_state - 1 \in Octet BY <1>2, <2>2, OctetType
  <2>4. a \in Aggregator /\ SameAgg(a, s.agg[k]) BY <2>1, <2>3, CounterType
  <2>5. Quiet(s, SetLink(SetAgg(s, k, a), p, l)) BY <1>1, <2>1, <2>4, PatchBoth
  <2> QED BY <1>2, <2>5 DEF DisableCollectingDistributing
<1>3. CASE ~(k # NoAgg /\ s.agg[k].receive_state > 0)
  BY <1>3, QuietRefl DEF DisableCollectingDistributing
<1> QED BY <1>2, <1>3

LEMMA EnableQuiet ==
  ASSUME NEW s \in DaemonState, NEW p \in Port
  PROVE  Quiet(s, EnableCollectingDistributing(s, p))
<1> DEFINE k == s.link[p].agg
           a == [s.agg[k] EXCEPT !.receive_state = Incr(s.agg[k].receive_state)]
           l == Ntt(s.link[p])
<1>1. l \in Link /\ SameLink(l, s.link[p]) /\ k \in Key \cup {NoAgg} BY LinkType, NttType
<1>2. CASE k # NoAgg
  <2>1. k \in Key /\ s.agg[k] \in Aggregator BY <1>1, <1>2, AggType
  <2>2. s.agg[k].receive_state \in Octet BY <2>1, SMT DEF Aggregator
  <2>3. Incr(s.agg[k].receive_state) \in Octet BY <1>2, <2>2, OctetType
  <2>4. a \in Aggregator /\ SameAgg(a, s.agg[k]) BY <2>1, <2>3, CounterType
  <2>5. Quiet(s, SetLink(SetAgg(s, k, a), p, l)) BY <1>1, <2>1, <2>4, PatchBoth
  <2> QED BY <1>2, <2>5 DEF EnableCollectingDistributing
<1>3. CASE k = NoAgg
  BY <1>3, QuietRefl DEF EnableCollectingDistributing
<1> QED BY <1>2, <1>3

LEMMA SetNsmQuiet ==
  ASSUME NEW s \in DaemonState, NEW k \in Key, NEW P \in SUBSET Port
  PROVE  Quiet(s, [s EXCEPT !.nsm[k] = P])
<1> DEFINE t == [s EXCEPT !.nsm[k] = P]
<1>1. t \in DaemonState BY SMTT(40) DEF DaemonState
<1>2. t.link = s.link /\ t.agg = s.agg BY SMTT(40) DEF DaemonState
<1>4. SameCounts(s, t) BY SMTT(40) DEF DaemonState, SameCounts
<1> HIDE DEF t
<1>3. Quiet(s, t) BY <1>1, <1>2, <1>4 DEF Quiet, Calm, SameLink, SameAgg
<1> QED BY <1>3 DEF t

LEMMA SetInstalledQuiet ==
  ASSUME NEW s \in DaemonState, NEW k \in Key, NEW b \in BOOLEAN, NEW P \in SUBSET Port
  PROVE  Quiet(s, [SetAgg(s, k, [s.agg[k] EXCEPT !.installed = b]) EXCEPT !.nsm[k] = P])
<1> DEFINE a == [s.agg[k] EXCEPT !.installed = b]
           t == SetAgg(s, k, a)
<1>1. a \in Aggregator /\ SameAgg(a, s.agg[k]) BY AggType, InstalledType
<1> HIDE DEF a
<1>2. Quiet(s, t) BY <1>1, PatchAgg
<1>3. t \in DaemonState BY <1>1, SetAggIs
<1> HIDE DEF t
<1>4. Quiet(t, [t EXCEPT !.nsm[k] = P]) BY <1>3, SetNsmQuiet
<1>5. Quiet(s, [t EXCEPT !.nsm[k] = P]) BY <1>2, <1>4, QuietTrans
<1> QED BY <1>5 DEF t, a

LEMMA NsmType ==
  ASSUME NEW s \in DaemonState, NEW k \in Key, NEW a \in Aggregator
  PROVE  SetAgg(s, k, a).nsm[k] \in SUBSET Port
<1>1. SetAgg(s, k, a) \in DaemonState BY SetAggIs
<1> QED BY <1>1, SMT DEF DaemonState

LEMMA AttachQuiet ==
  ASSUME NEW s \in DaemonState, NEW p \in Port
  PROVE  Quiet(s, AttachMux(s, p))
<1> DEFINE k == s.link[p].agg
           t == SetAgg(s, k, [s.agg[k] EXCEPT !.installed = TRUE])
<1>1. CASE k # NoAgg
  <2>1. k \in Key BY <1>1, LinkType
  <2>2. t.nsm[k] \cup {p} \in SUBSET Port BY <2>1, AggType, InstalledType, NsmType
  <2>3. Quiet(s, [t EXCEPT !.nsm[k] = t.nsm[k] \cup {p}]) BY <2>1, <2>2, SetInstalledQuiet
  <2> QED BY <1>1, <2>3 DEF AttachMux
<1>2. CASE k = NoAgg BY <1>2, QuietRefl DEF AttachMux
<1> QED BY <1>1, <1>2

LEMMA DetachQuiet ==
  ASSUME NEW s \in DaemonState, NEW p \in Port, NEW notify \in BOOLEAN
  PROVE  Quiet(s, DetachMux(s, p, notify))
<1> DEFINE k == s.link[p].agg
           b == s.agg[k].installed /\ s.agg[k].refCnt # 0
           a == [s.agg[k] EXCEPT !.installed = b]
           t == SetAgg(s, k, a)
           P == IF notify THEN t.nsm[k] \ {p} ELSE t.nsm[k]
<1>1. CASE k # NoAgg
  <2>1. k \in Key BY <1>1, LinkType
  <2>2. s.agg[k] \in Aggregator BY <2>1, AggType
  <2>3. b \in BOOLEAN BY Zenon
  <2>4. a \in Aggregator
    <3> HIDE DEF b
    <3> QED BY <2>2, <2>3, InstalledType
  <2>5. t.nsm[k] \in SUBSET Port
    <3> HIDE DEF a
    <3> QED BY <2>1, <2>4, NsmType
  <2>6. P \in SUBSET Port BY <2>5, ZenonT(40)
  <2>7. Quiet(s, [t EXCEPT !.nsm[k] = P])
    <3> HIDE DEF b, P
    <3> QED BY <2>1, <2>3, <2>6, SetInstalledQuiet
  <2> QED BY <1>1, <2>7, Zenon DEF DetachMux
<1>2. CASE k = NoAgg BY <1>2, QuietRefl DEF DetachMux
<1> QED BY <1>1, <1>2, Zenon

----------------------------------------------------------------------------
(* Links leave aggregators.                                                *)

\* In u every link of P points to no aggregator, its slots are empty, and some
\* aggregators may be gone; nothing else that Inv speaks of changes.
Dropping(s, u, P) ==
    /\ u \in DaemonState
    /\ \A p \in P : /\ u.link[p].agg = NoAgg /\ u.link[p].selected # "SELECTED"
                    /\ ~u.link[p].exists => ~u.link[p].ifp
    /\ \A p \in Port \ P : SameLink(u.link[p], s.link[p])
    /\ \A k \in Key : u.agg[k].alive => s.agg[k].alive
    /\ Covered(u)
    /\ \A k \in Key, i \in Slot :
          /\ u.agg[k].slot[i] \in {NoLink, s.agg[k].slot[i]}
          /\ u.agg[k].slot[i] \notin P
          /\ u.agg[k].alive /\ s.agg[k].slot[i] \notin P => u.agg[k].slot[i] = s.agg[k].slot[i]

\* The links a Dropping step leaves alone, and those it takes away.
LEMMA DropLinks ==
  ASSUME NEW s, NEW u, NEW P \in SUBSET Port, Dropping(s, u, P)
  PROVE  /\ \A p \in P : u.link[p].agg = NoAgg /\ u.link[p].selected # "SELECTED"
         /\ \A p \in P : ~u.link[p].exists => ~u.link[p].ifp
         /\ \A p \in Port \ P : SameLink(u.link[p], s.link[p])
<1>1. \A p \in P : u.link[p].agg = NoAgg /\ u.link[p].selected # "SELECTED" BY DEF Dropping
<1>2. \A p \in P : ~u.link[p].exists => ~u.link[p].ifp BY DEF Dropping
<1>3. \A p \in Port \ P : SameLink(u.link[p], s.link[p]) BY DEF Dropping
<1> QED BY <1>1, <1>2, <1>3

LEMMA DropInv ==
  ASSUME NEW s, NEW u, NEW P \in SUBSET Port, Inv(s), Dropping(s, u, P)
  PROVE  Inv(u)
<1>1. u \in DaemonState BY DEF Dropping
<1>2. Sel(u)
  <2> SUFFICES ASSUME NEW p \in Port PROVE u.link[p].selected = "SELECTED" <=> u.link[p].agg # NoAgg
    BY DEF Sel
  <2>1. CASE p \in P BY <2>1, DropLinks
  <2>2. CASE p \notin P BY <2>2, DropLinks, SMT DEF SameLink, Inv, Sel
  <2> QED BY <2>1, <2>2
<1>3. Backed(u)
  <2> SUFFICES ASSUME NEW k \in Key, NEW i \in Slot, u.agg[k].slot[i] # NoLink
               PROVE  /\ u.link[u.agg[k].slot[i]].agg = k
                      /\ \A j \in Slot : u.agg[k].slot[j] = u.agg[k].slot[i] => j = i
    BY DEF Backed
  <2> DEFINE q == s.agg[k].slot[i]
  <2>1. u.agg[k].slot[i] = q /\ q \notin P /\ q # NoLink BY SMT DEF Dropping
  <2>2. q \in Port BY <2>1, AggType DEF Inv
  <2>3. s.link[q].agg = k /\ \A j \in Slot : s.agg[k].slot[j] = q => j = i
    BY <2>1 DEF Inv, Backed
  <2>4. u.link[q].agg = k BY <2>1, <2>2, <2>3, SMT DEF Dropping, SameLink
  <2>5. \A j \in Slot : u.agg[k].slot[j] = q => s.agg[k].slot[j] = q
    BY <2>1, SMT DEF Dropping
  <2> QED BY <2>1, <2>3, <2>4, <2>5
<1>4. Held(u)
  <2> SUFFICES ASSUME NEW k \in Key, u.agg[k].alive, NEW p \in Port, u.link[p].agg = k
               PROVE  Holds(u.agg[k], p)
    BY DEF Held
  <2>1. p \notin P BY ZeroNotKey, DropLinks
  <2>2. s.agg[k].alive /\ s.link[p].agg = k BY <2>1, SMT DEF Dropping, SameLink
  <2>3. PICK i \in Slot : s.agg[k].slot[i] = p BY <2>2 DEF Inv, Held, Holds
  <2>4. u.agg[k].slot[i] = p BY <2>1, <2>3 DEF Dropping
  <2> QED BY <2>4 DEF Holds
<1>5. Absent(u)
  <2> SUFFICES ASSUME NEW p \in Port, ~u.link[p].exists
               PROVE  u.link[p].agg = NoAgg /\ ~u.link[p].ifp
    BY DEF Absent
  <2>1. CASE p \in P BY <2>1, DropLinks
  <2>2. CASE p \notin P BY <2>2, DropLinks, SMT DEF SameLink, Inv, Absent
  <2> QED BY <2>1, <2>2
<1>6. Covered(u) BY DEF Dropping
<1> QED BY <1>1, <1>2, <1>3, <1>4, <1>5, <1>6 DEF Inv

LEMMA DropLive ==
  ASSUME NEW s, NEW u, NEW P \in SUBSET Port, Inv(s), Dropping(s, u, P), Live(s),
         \A k \in Key : u.agg[k].alive = s.agg[k].alive
  PROVE  Live(u)
<1> SUFFICES ASSUME NEW p \in Port, u.link[p].agg # NoAgg PROVE u.agg[u.link[p].agg].alive
  BY DEF Live, Dangling
<1>1. p \notin P BY DropLinks
<1>2. u.link[p].agg = s.link[p].agg BY <1>1, SMT DEF Dropping, SameLink
<1>3. s.link[p].agg \in Key BY <1>2, LinkType DEF Inv
<1>4. s.agg[s.link[p].agg].alive BY <1>2 DEF Live, Dangling
<1> QED BY <1>2, <1>3, <1>4

\* No slot holds a link that points to no aggregator.
LEMMA NoSlot ==
  ASSUME NEW s, Inv(s), NEW p \in Port, s.link[p].agg \notin Key, NEW k \in Key, NEW i \in Slot
  PROVE  s.agg[k].slot[i] # p
<1> SUFFICES ASSUME s.agg[k].slot[i] = p PROVE FALSE OBVIOUS
<1>1. s.agg[k].slot[i] # NoLink BY ZeroNotPort
<1> QED BY <1>1 DEF Inv, Backed

\* A link outside every slot may become any link that points to no aggregator.
LEMMA LooseKeeps ==
  ASSUME NEW s, Inv(s), NEW p \in Port, NEW l \in Link, l.agg = NoAgg, l.selected # "SELECTED",
         ~l.exists => ~l.ifp,
         \A k \in Key, i \in Slot : s.agg[k].slot[i] # p
  PROVE  Keeps(s, SetLink(s, p, l))
<1> DEFINE u == SetLink(s, p, l)
<1>1. u \in DaemonState /\ u.link[p] = l /\ u.agg = s.agg /\ SameCounts(s, u)
  BY SetLinkIs DEF Inv
<1>2. \A q \in Port : q # p => u.link[q] = s.link[q] BY SetLinkOthers DEF Inv
<1> HIDE DEF u
<1>3. Dropping(s, u, {p})
  <2>1. \A q \in {p} : /\ u.link[q].agg = NoAgg /\ u.link[q].selected # "SELECTED"
                       /\ ~u.link[q].exists => ~u.link[q].ifp
    BY <1>1
  <2>2. \A q \in Port \ {p} : SameLink(u.link[q], s.link[q]) BY <1>2, SMT DEF SameLink
  <2>3. \A k \in Key : u.agg[k].alive => s.agg[k].alive BY <1>1
  <2>4. \A k \in Key, i \in Slot :
          /\ u.agg[k].slot[i] \in {NoLink, s.agg[k].slot[i]}
          /\ u.agg[k].slot[i] \notin {p}
          /\ u.agg[k].alive /\ s.agg[k].slot[i] \notin {p} => u.agg[k].slot[i] = s.agg[k].slot[i]
    BY <1>1
  <2>5. Covered(u) BY <1>1, SameCovered DEF Inv
  <2> QED BY <1>1, <2>1, <2>2, <2>3, <2>4, <2>5 DEF Dropping
<1>4. Inv(u) BY <1>3, DropInv
<1>5. Live(s) => Live(u) BY <1>1, <1>3, DropLive
<1> QED BY <1>4, <1>5 DEF Keeps, u

LEMMA SlotType == Slot \subseteq Nat
  BY LimitAssumption, SMT DEF Slot

LEMMA VacateIs ==
  ASSUME NEW a \in Aggregator, NEW p \in Port, Holds(a, p),
         \A i, j \in Slot : a.slot[i] = p /\ a.slot[j] = p => i = j
  PROVE  /\ Vacate(a, p) \in Aggregator
         /\ Vacate(a, p).alive = a.alive
         /\ \A i \in Slot : Vacate(a, p).slot[i] = IF a.slot[i] = p THEN NoLink ELSE a.slot[i]
<1> DEFINE i == FirstSlot(a, p)
           left == [a.slot EXCEPT ![i] = NoLink]
           n == IF \A j \in Slot : left[j] = NoLink THEN 0 ELSE a.receive_state
<1>1. PICK x \in Slot : a.slot[x] = p BY DEF Holds
<1>2. \A j \in Slot : a.slot[j] = p => x <= j BY <1>1, SlotType, SMT
<1>3. i \in Slot /\ a.slot[i] = p BY <1>1, <1>2 DEF FirstSlot
<1>4. a.slot \in [Slot -> Port \cup {NoLink}] /\ a.receive_state \in Octet BY SMT DEF Aggregator
<1>5. left \in [Slot -> Port \cup {NoLink}] BY <1>3, <1>4, Zenon
<1>6. n \in Octet BY <1>4, OctetType
<1>7. Vacate(a, p) = [a EXCEPT !.slot = left, !.receive_state = n] BY DEF Vacate
<1>8. \A j \in Slot : left[j] = IF a.slot[j] = p THEN NoLink ELSE a.slot[j] BY <1>3, <1>4, SMT
<1> HIDE DEF left, n, i
<1>9. [a EXCEPT !.slot = left, !.receive_state = n] \in Aggregator BY <1>5, <1>6, Zenon DEF Aggregator
<1>10. /\ [a EXCEPT !.slot = left, !.receive_state = n].alive = a.alive
       /\ [a EXCEPT !.slot = left, !.receive_state = n].slot = left
  BY Zenon DEF Aggregator
<1> QED BY <1>7, <1>8, <1>9, <1>10

LEMMA UnselectedType ==
  ASSUME NEW l \in Link
  PROVE  /\ Unselected(l) \in Link
         /\ Unselected(l).agg = NoAgg
         /\ Unselected(l).selected = "UNSELECTED"
         /\ Unselected(l).exists = l.exists /\ Unselected(l).ifp = l.ifp
<1> DEFINE i == [l.partner EXCEPT !.sprio = DefaultPrio]
           m == [l EXCEPT !.agg = NoAgg, !.selected = "UNSELECTED", !.ntt = TRUE, !.partner = i]
<1>1. l.partner \in Info BY ZenonT(40) DEF Link
<1>2. i \in Info BY <1>1, PrioAssumption, Zenon DEF Info
<1>3. Unselected(l) = m BY DEF Unselected
<1> HIDE DEF i
<1>4. m \in Link BY <1>2, ZenonT(40) DEF Link
<1>5. m.agg = NoAgg /\ m.selected = "UNSELECTED" BY ZenonT(40) DEF Link
<1>6. m.exists = l.exists /\ m.ifp = l.ifp BY ZenonT(40) DEF Link
<1> QED BY <1>3, <1>4, <1>5, <1>6

\* lacp_disaggregate_link keeps the invariant whatever link it is given.
LEMMA DisaggregateKeeps ==
  ASSUME NEW s, Inv(s), NEW p \in Port, NEW notify \in BOOLEAN
  PROVE  LET u == Disaggregate(s, p, notify) IN
         /\ Inv(u)
         /\ \A k \in Key : u.agg[k].alive = s.agg[k].alive
         /\ \A q \in Port \ {p} : SameLink(u.link[q], s.link[q])
         /\ u.link[p].exists = s.link[p].exists
         /\ Live(s) => Live(u) /\ u.link[p].agg = NoAgg
         /\ u.link[p].agg = NoAgg => u.link[p].selected # "SELECTED"
<1> DEFINE k == s.link[p].agg
           t == DetachMux(DisableCollectingDistributing(s, p), p, notify)
           a == Vacate(t.agg[k], p)
           l == Unselected(t.link[p])
           v == SetAgg(t, k, a)
           u == SetLink(v, p, l)
<1>1. CASE k = NoAgg \/ ~Holds(s.agg[k], p)
  <2>1. Disaggregate(s, p, notify) = s BY <1>1 DEF Disaggregate
  <2>2. Live(s) => k = NoAgg
    <3> SUFFICES ASSUME Live(s), k # NoAgg PROVE FALSE OBVIOUS
    <3>1. k \in Key BY LinkType DEF Inv
    <3>2. s.agg[k].alive BY DEF Live, Dangling
    <3> QED BY <1>1, <3>1, <3>2 DEF Inv, Held
  <2>3. k = NoAgg => s.link[p].selected # "SELECTED" BY DEF Inv, Sel
  <2> QED BY <2>1, <2>2, <2>3, QuietRefl DEF Inv, SameLink
<1>2. CASE k # NoAgg /\ Holds(s.agg[k], p)
  <2>1. k \in Key BY <1>2, LinkType DEF Inv
  <2>2. Quiet(s, t)
    <3> DEFINE w == DisableCollectingDistributing(s, p)
    <3>1. Quiet(s, w) /\ w \in DaemonState BY DisableQuiet DEF Inv, Quiet, Calm
    <3> HIDE DEF w
    <3>2. Quiet(w, DetachMux(w, p, notify)) BY <3>1, DetachQuiet
    <3>3. Quiet(s, DetachMux(w, p, notify)) BY <3>1, <3>2, QuietTrans
    <3> QED BY <3>3 DEF w
  <2> HIDE DEF t
  <2>3. Inv(t) /\ (Live(s) => Live(t)) BY <2>2, QuietKeeps DEF Keeps
  <2>4. t.agg[k] \in Aggregator /\ t.link[p] \in Link BY <2>1, <2>3, AggType, LinkType DEF Inv
  <2>5. Holds(t.agg[k], p) BY <1>2, <2>1, <2>2 DEF Quiet, Calm, SameAgg, Holds
  <2>6. t.link[p].agg = k /\ t.link[p].exists = s.link[p].exists BY <2>2 DEF Quiet, Calm, SameLink
  <2>7. \A i, j \in Slot : t.agg[k].slot[i] = p /\ t.agg[k].slot[j] = p => i = j
    BY <2>1, <2>3, ZeroNotPort, SMTT(40) DEF Inv, Backed
  <2>8. /\ a \in Aggregator /\ a.alive = t.agg[k].alive
        /\ \A i \in Slot : a.slot[i] = IF t.agg[k].slot[i] = p THEN NoLink ELSE t.agg[k].slot[i]
    BY <2>4, <2>5, <2>7, VacateIs
  <2>9. l \in Link /\ l.agg = NoAgg /\ l.selected = "UNSELECTED" BY <2>4, UnselectedType
  <2>24. l.exists = t.link[p].exists /\ l.ifp = t.link[p].ifp BY <2>4, UnselectedType
  <2>25. ~l.exists => ~l.ifp BY <2>3, <2>24 DEF Inv, Absent
  <2> HIDE DEF a, l
  <2>10. v \in DaemonState /\ v.link = t.link /\ v.agg[k] = a /\ SameCounts(t, v)
    BY <2>1, <2>3, <2>8, SetAggIs DEF Inv
  <2>11. \A j \in Key : j # k => v.agg[j] = t.agg[j] BY <2>1, <2>3, <2>8, SetAggOthers DEF Inv
  <2> HIDE DEF v
  <2>12. u \in DaemonState /\ u.link[p] = l /\ u.agg = v.agg /\ SameCounts(v, u)
    BY <2>9, <2>10, SetLinkIs
  <2>13. \A q \in Port : q # p => u.link[q] = v.link[q] BY <2>9, <2>10, SetLinkOthers
  <2> HIDE DEF u
  <2>14. \A q \in Port \ {p} : SameLink(u.link[q], t.link[q]) BY <2>10, <2>13 DEF SameLink
  <2>15. \A j \in Key : u.agg[j].alive = t.agg[j].alive
    BY <2>8, <2>10, <2>11, <2>12
  <2>16. \A j \in Key, i \in Slot :
           /\ u.agg[j].slot[i] \in {NoLink, t.agg[j].slot[i]}
           /\ u.agg[j].slot[i] # p
           /\ t.agg[j].slot[i] # p => u.agg[j].slot[i] = t.agg[j].slot[i]
    <3> SUFFICES ASSUME NEW j \in Key, NEW i \in Slot
                 PROVE  /\ u.agg[j].slot[i] \in {NoLink, t.agg[j].slot[i]}
                        /\ u.agg[j].slot[i] # p
                        /\ t.agg[j].slot[i] # p => u.agg[j].slot[i] = t.agg[j].slot[i]
      OBVIOUS
    <3>1. CASE j = k BY <3>1, <2>8, <2>10, <2>12, ZeroNotPort
    <3>2. CASE j # k
      <4>1. u.agg[j].slot[i] = t.agg[j].slot[i] BY <3>2, <2>11, <2>12
      <4>2. t.agg[j].slot[i] # p BY <3>2, <2>3, <2>6, ZeroNotPort DEF Inv, Backed
      <4> QED BY <4>1, <4>2
    <3> QED BY <3>1, <3>2
  <2>27. SameCounts(t, u) BY <2>10, <2>12 DEF SameCounts
  <2>28. Covered(u) BY <2>3, <2>15, <2>27, SameCovered DEF Inv
  <2>17. Dropping(t, u, {p}) BY <2>9, <2>12, <2>14, <2>15, <2>16, <2>25, <2>28 DEF Dropping
  <2>18. Inv(u) BY <2>3, <2>17, DropInv
  <2>19. Live(s) => Live(u) BY <2>3, <2>15, <2>17, DropLive
  <2>20. Disaggregate(s, p, notify) = u BY <1>2 DEF Disaggregate, u, v, a, l, t
  <2>21. \A j \in Key : u.agg[j].alive = s.agg[j].alive BY <2>2, <2>15 DEF Quiet, Calm, SameAgg
  <2>22. \A q \in Port \ {p} : SameLink(u.link[q], s.link[q])
    BY <2>2, <2>14, SMT DEF Quiet, Calm, SameLink
  <2>23. u.link[p].agg = NoAgg /\ u.link[p].selected # "SELECTED" BY <2>9, <2>12
  <2>26. u.link[p].exists = s.link[p].exists BY <2>6, <2>12, <2>24
  <2> QED BY <2>18, <2>19, <2>20, <2>21, <2>22, <2>23, <2>26, Zenon
<1> QED BY <1>1, <1>2

\* A link that leaves, or never was in, an aggregator is held in no slot.
LEMMA StandbyKeeps ==
  ASSUME NEW s, Inv(s), Live(s), NEW p \in Port
  PROVE  Inv(Standby(s, p)) /\ Live(Standby(s, p))
<1> DEFINE t == Disaggregate(s, p, TRUE)
           l == [t.link[p] EXCEPT !.selected = "STANDBY"]
<1>1. Inv(t) /\ Live(t) /\ t.link[p].agg = NoAgg BY DisaggregateKeeps
<1> HIDE DEF t
<1>2. t.link[p] \in Link BY <1>1, LinkType DEF Inv
<1>3. l \in Link BY <1>2, ZenonT(40) DEF Link
<1>4. l.agg = NoAgg /\ l.selected = "STANDBY" BY <1>1, <1>2, ZenonT(40) DEF Link
<1>8. l.exists = t.link[p].exists /\ l.ifp = t.link[p].ifp BY <1>2, ZenonT(40) DEF Link
<1>9. ~l.exists => ~l.ifp BY <1>1, <1>8 DEF Inv, Absent
<1>5. \A k \in Key, i \in Slot : t.agg[k].slot[i] # p BY <1>1, ZeroNotKey, NoSlot
<1> HIDE DEF l
<1>6. Keeps(t, SetLink(t, p, l)) BY <1>1, <1>3, <1>4, <1>5, <1>9, LooseKeeps
<1>7. Standby(s, p) = SetLink(t, p, l) BY DEF Standby, t, l
<1> QED BY <1>1, <1>6, <1>7 DEF Keeps

----------------------------------------------------------------------------
(* A link joins an aggregator.                                             *)

LEMMA LeastNat ==
  ASSUME NEW T, T \subseteq Nat, T # {}
  PROVE  \E x \in T : \A y \in T : x <= y
<1>1. PICK x \in T : \A y \in T : ~(<<y, x>> \in OpToRel(<, Nat))
  BY NatLessThanWellFounded, WFMin
<1>2. ASSUME NEW y \in T PROVE x <= y
  <2>1. y \in Nat /\ x \in Nat BY SMT
  <2>2. y < x => <<y, x>> \in OpToRel(<, Nat) BY <2>1 DEF OpToRel
  <2>3. ~(y < x) BY <1>1, <2>2, Zenon
  <2> QED BY <2>1, <2>3, SMT
<1> QED BY <1>2

LEMMA GreatestNat ==
  ASSUME NEW T, T \subseteq Nat, T # {}, NEW b \in Nat, \A x \in T : x <= b
  PROVE  \E x \in T : \A y \in T : y <= x
<1> DEFINE D == {n \in Nat : b - n \in T}
<1>1. PICK z \in T : TRUE OBVIOUS
<1>2. D # {} /\ D \subseteq Nat
  <2>1. b - z \in Nat /\ b - (b - z) = z BY <1>1, SMT
  <2> QED BY <1>1, <2>1
<1>3. PICK n \in D : \A m \in D : n <= m BY <1>2, LeastNat
<1>4. \A y \in T : b - y \in D
  <2> SUFFICES ASSUME NEW y \in T PROVE b - y \in D OBVIOUS
  <2>1. b - y \in Nat /\ b - (b - y) = y BY SMT
  <2> QED BY <2>1
<1>5. \A y \in T : y <= b - n
  <2> SUFFICES ASSUME NEW y \in T PROVE y <= b - n OBVIOUS
  <2>1. n <= b - y BY <1>3, <1>4
  <2> QED BY <1>3, <2>1, SMT
<1>6. b - n \in T BY <1>3
<1> QED BY <1>5, <1>6

LEMMA OccupyIs ==
  ASSUME NEW a \in Aggregator, NEW p \in Port, HasRoom(a)
  PROVE  /\ Occupy(a, p) \in Aggregator
         /\ Occupy(a, p).alive = a.alive
         /\ \E f \in Slot : /\ a.slot[f] = NoLink /\ Occupy(a, p).slot[f] = p
                            /\ \A i \in Slot \ {f} : Occupy(a, p).slot[i] = a.slot[i]
<1> DEFINE f == FirstSlot(a, NoLink)
           sl == [a.slot EXCEPT ![f] = p]
           F == {i \in Slot : a.slot[i] = NoLink}
<1>1. F # {} /\ F \subseteq Nat BY SlotType DEF HasRoom, Holds
<1>2. PICK x \in F : \A y \in F : x <= y BY <1>1, LeastNat
<1>3. f \in Slot /\ a.slot[f] = NoLink BY <1>2 DEF FirstSlot
<1>4. a.slot \in [Slot -> Port \cup {NoLink}] BY SMT DEF Aggregator
<1>5. sl \in [Slot -> Port \cup {NoLink}] BY <1>3, <1>4, Zenon
<1>6. sl[f] = p /\ \A i \in Slot \ {f} : sl[i] = a.slot[i] BY <1>3, <1>4
<1>7. Occupy(a, p) = [a EXCEPT !.slot = sl] BY DEF Occupy
<1> HIDE DEF sl, f
<1>8. [a EXCEPT !.slot = sl] \in Aggregator BY <1>5, Zenon DEF Aggregator
<1>9. [a EXCEPT !.slot = sl].alive = a.alive /\ [a EXCEPT !.slot = sl].slot = sl
  BY Zenon DEF Aggregator
<1> QED BY <1>3, <1>6, <1>7, <1>8, <1>9, ZenonT(40)

LEMMA SelectedType ==
  ASSUME NEW l \in Link, NEW k \in Key
  PROVE  /\ Selected(l, k) \in Link
         /\ Selected(l, k).agg = k
         /\ Selected(l, k).selected = "SELECTED"
         /\ Selected(l, k).exists = l.exists /\ Selected(l, k).ifp = l.ifp
<1> DEFINE b == l.ready_n \/ l.selected = "STANDBY"
           m == [l EXCEPT !.agg = k, !.selected = "SELECTED", !.ntt = TRUE, !.ready_n = b]
<1>1. Selected(l, k) = m BY DEF Selected
<1>2. b \in BOOLEAN BY Zenon
<1> HIDE DEF b
<1>3. m \in Link BY <1>2, ZenonT(40) DEF Link
<1>4. m.agg = k /\ m.selected = "SELECTED" BY ZenonT(40) DEF Link
<1>5. m.exists = l.exists /\ m.ifp = l.ifp BY ZenonT(40) DEF Link
<1> QED BY <1>1, <1>3, <1>4, <1>5

\* The link is put into a free slot of a live aggregator.
LEMMA JoinKeeps ==
  ASSUME NEW t, Inv(t), Live(t), NEW k \in Key, NEW p \in Port,
         t.link[p].agg = NoAgg, t.link[p].exists, t.agg[k].alive, HasRoom(t.agg[k])
  PROVE  LET u == SetAgg(SetLink(t, p, Selected(t.link[p], k)), k, Occupy(t.agg[k], p))
         IN  Inv(u) /\ Live(u)
<1> DEFINE l == Selected(t.link[p], k)
           a == Occupy(t.agg[k], p)
           v == SetLink(t, p, l)
           u == SetAgg(v, k, a)
<1>1. t.link[p] \in Link /\ t.agg[k] \in Aggregator BY LinkType, AggType DEF Inv
<1>2. l \in Link /\ l.agg = k /\ l.selected = "SELECTED" BY <1>1, SelectedType
<1>15. l.exists BY <1>1, SelectedType
<1>3. a \in Aggregator /\ a.alive BY <1>1, OccupyIs
<1>4. PICK f \in Slot : /\ t.agg[k].slot[f] = NoLink /\ a.slot[f] = p
                        /\ \A i \in Slot \ {f} : a.slot[i] = t.agg[k].slot[i]
  BY <1>1, OccupyIs
<1> HIDE DEF l, a
<1>5. v \in DaemonState /\ v.link[p] = l /\ v.agg = t.agg /\ SameCounts(t, v)
  BY <1>2, SetLinkIs DEF Inv
<1>6. \A q \in Port : q # p => v.link[q] = t.link[q] BY <1>2, SetLinkOthers DEF Inv
<1> HIDE DEF v
<1>7. u \in DaemonState /\ u.agg[k] = a /\ u.link = v.link /\ SameCounts(v, u)
  BY <1>3, <1>5, SetAggIs
<1>8. \A j \in Key : j # k => u.agg[j] = t.agg[j] BY <1>3, <1>5, SetAggOthers
<1> HIDE DEF u
<1>9. u.link[p] = l /\ \A q \in Port : q # p => u.link[q] = t.link[q] BY <1>5, <1>6, <1>7
<1>10. \A j \in Key, i \in Slot : t.agg[j].slot[i] # p BY ZeroNotKey, NoSlot
<1>11. Sel(u)
  <2>1. \A q \in Port : q # p => (u.link[q].selected = "SELECTED" <=> u.link[q].agg # NoAgg)
    BY <1>9 DEF Inv, Sel
  <2>2. u.link[p].selected = "SELECTED" /\ u.link[p].agg # NoAgg BY <1>2, <1>9, ZeroNotKey
  <2> QED BY <2>1, <2>2 DEF Sel
<1>12. Backed(u)
  <2> SUFFICES ASSUME NEW j \in Key, NEW i \in Slot, u.agg[j].slot[i] # NoLink
               PROVE  /\ u.link[u.agg[j].slot[i]].agg = j
                      /\ \A x \in Slot : u.agg[j].slot[x] = u.agg[j].slot[i] => x = i
    BY DEF Backed
  <2>1. CASE j = k /\ i = f
    <3>1. u.agg[j].slot[i] = p BY <1>4, <1>7, <2>1
    <3>2. \A x \in Slot : u.agg[j].slot[x] = p => x = f BY <1>4, <1>7, <1>10, <2>1
    <3> QED BY <1>2, <1>9, <2>1, <3>1, <3>2
  <2>2. CASE ~(j = k /\ i = f)
    <3> DEFINE q == t.agg[j].slot[i]
    <3>1. u.agg[j].slot[i] = q BY <1>4, <1>7, <1>8, <2>2
    <3>2. q # p /\ q \in Port BY <1>10, <3>1, AggType DEF Inv
    <3>3. t.link[q].agg = j /\ \A x \in Slot : t.agg[j].slot[x] = q => x = i
      BY <3>1 DEF Inv, Backed
    <3>4. \A x \in Slot : u.agg[j].slot[x] = q => t.agg[j].slot[x] = q
      BY <1>4, <1>7, <1>8, <3>2
    <3> QED BY <1>9, <3>1, <3>2, <3>3, <3>4
  <2> QED BY <2>1, <2>2
<1>13. Held(u)
  <2> SUFFICES ASSUME NEW j \in Key, u.agg[j].alive, NEW q \in Port, u.link[q].agg = j
               PROVE  Holds(u.agg[j], q)
    BY DEF Held
  <2>1. CASE q = p
    <3>1. j = k BY <1>2, <1>9, <2>1
    <3> QED BY <1>4, <1>7, <2>1, <3>1 DEF Holds
  <2>2. CASE q # p
    <3>1. t.agg[j].alive /\ t.link[q].agg = j BY <1>8, <1>9, <2>2
    <3>2. PICK i \in Slot : t.agg[j].slot[i] = q BY <3>1 DEF Inv, Held, Holds
    <3>3. ~(j = k /\ i = f) BY <1>4, <3>2, ZeroNotPort
    <3>4. u.agg[j].slot[i] = q BY <1>4, <1>7, <1>8, <3>2, <3>3
    <3> QED BY <3>4 DEF Holds
  <2> QED BY <2>1, <2>2
<1>14. Live(u)
  <2> SUFFICES ASSUME NEW q \in Port, u.link[q].agg # NoAgg PROVE u.agg[u.link[q].agg].alive
    BY DEF Live, Dangling
  <2>1. CASE q = p BY <1>2, <1>3, <1>7, <1>9, <2>1
  <2>2. CASE q # p
    <3>1. u.link[q] = t.link[q] BY <1>9, <2>2
    <3>2. t.link[q].agg \in Key BY <3>1, LinkType DEF Inv
    <3>3. t.agg[t.link[q].agg].alive BY <3>1 DEF Live, Dangling
    <3> QED BY <1>3, <1>7, <1>8, <3>1, <3>2, <3>3
  <2> QED BY <2>1, <2>2
<1>16. Absent(u) BY <1>9, <1>15 DEF Inv, Absent
<1>17. Covered(u)
  <2>1. SameCounts(t, u) BY <1>5, <1>7 DEF SameCounts
  <2>2. \A j \in Key : u.agg[j].alive <=> t.agg[j].alive
    BY <1>3, <1>7, <1>8
  <2> QED BY <2>1, <2>2, SameCovered DEF Inv
<1> QED BY <1>7, <1>11, <1>12, <1>13, <1>14, <1>16, <1>17 DEF Inv, u, v, l, a

LEMMA AggregateKeeps ==
  ASSUME NEW s, Inv(s), Live(s), NEW k \in Key, NEW p \in Port, s.agg[k].alive, s.link[p].exists
  PROVE  Inv(Aggregate(s, k, p)) /\ Live(Aggregate(s, k, p))
<1> DEFINE t == LeaveOther(s, k, p)
           l == Selected(t.link[p], k)
           u == SetLink(t, p, l)
<1>1. /\ Inv(t) /\ Live(t) /\ t.agg[k].alive /\ t.link[p].agg \in {NoAgg, k}
      /\ t.link[p].exists
  <2>1. CASE s.link[p].agg \in {NoAgg, k} BY <2>1 DEF LeaveOther
  <2>2. CASE s.link[p].agg \notin {NoAgg, k}
    <3>1. t = Disaggregate(s, p, TRUE) BY <2>2, Zenon DEF LeaveOther
    <3> HIDE DEF t
    <3> QED BY <2>2, <3>1, DisaggregateKeeps
  <2> QED BY <2>1, <2>2
<1>5. Aggregate(s, k, p) = TakeSlot(t, k, p) BY DEF Aggregate
<1> HIDE DEF t
<1>2. CASE t.link[p].agg = k
  <2>1. t.link[p] \in Link /\ t.link[p].selected = "SELECTED"
    BY <1>1, <1>2, LinkType, ZeroNotKey DEF Inv, Sel
  <2>3. /\ l \in Link /\ l.agg = k /\ l.selected = "SELECTED"
        /\ l.exists = t.link[p].exists /\ l.ifp = t.link[p].ifp
    BY <2>1, SelectedType
  <2>2. SameLink(l, t.link[p]) BY <1>2, <2>1, <2>3 DEF SameLink
  <2> HIDE DEF l
  <2>4. Quiet(t, u) BY <1>1, <2>2, <2>3, PatchLink DEF Inv
  <2>5. Inv(u) /\ Live(u) BY <1>1, <2>4, QuietKeeps DEF Keeps
  <2> QED BY <1>2, <1>5, <2>5 DEF TakeSlot, l
<1>3. CASE t.link[p].agg # k /\ HasRoom(t.agg[k])
  <2>1. t.link[p].agg = NoAgg BY <1>1, <1>3
  <2>2. LET v == SetAgg(SetLink(t, p, Selected(t.link[p], k)), k, Occupy(t.agg[k], p))
        IN  Inv(v) /\ Live(v)
    BY <1>1, <1>3, <2>1, JoinKeeps
  <2> QED BY <1>3, <1>5, <2>2 DEF TakeSlot
<1>4. CASE t.link[p].agg # k /\ ~HasRoom(t.agg[k])
  BY <1>1, <1>4, <1>5 DEF TakeSlot
<1> QED BY <1>2, <1>3, <1>4

LEMMA SearchType ==
  ASSUME NEW s, Inv(s), NEW p \in Port
  PROVE  SearchForAggregator(s, p) \in Key \cup {NoAgg}
<1>1. IsEnabled(s.link[p]) => s.link[p].key \in Key
  BY LinkType, SMT DEF IsEnabled, Inv
<1>2. LookupByKey(s, s.link[p].key) \in Key \cup {NoAgg} BY DEF LookupByKey
<1> QED BY <1>1, <1>2, Zenon DEF SearchForAggregator

LEMMA SearchEnabled ==
  ASSUME NEW s, Inv(s), NEW p \in Port, ~IsEnabled(s.link[p])
  PROVE  SearchForAggregator(s, p) = NoAgg
  BY Zenon DEF SearchForAggregator

LEMMA SetCountCalm ==
  ASSUME NEW s \in DaemonState, NEW n \in Nat
  PROVE  LET t == [s EXCEPT !.agg_cnt = n] IN
         Calm(s, t) /\ t.agg_cnt = n /\ t.static = s.static /\ t.link = s.link /\ t.agg = s.agg
<1> DEFINE t == [s EXCEPT !.agg_cnt = n]
<1>1. t \in DaemonState BY SMTT(40) DEF DaemonState
<1>2. t.link = s.link /\ t.agg = s.agg BY SMTT(40) DEF DaemonState
<1>4. t.agg_cnt = n /\ t.static = s.static BY SMTT(40) DEF DaemonState
<1> HIDE DEF t
<1>3. Calm(s, t) BY <1>1, <1>2 DEF Calm, SameLink, SameAgg
<1> QED BY <1>2, <1>3, <1>4 DEF t

\* A fresh aggregator is held by no link: no pointer to it is left from before.
LEMMA CreateKeeps ==
  ASSUME NEW s, Inv(s), Live(s), NEW k \in Key \cup {NoAgg}
  PROVE  LET u == CreateAggregator(s, k) IN
         Inv(u) /\ Live(u) /\ (k \in Key => u.agg[k].alive) /\ u.link = s.link
<1>1. CASE k = NoAgg \/ s.agg[k].alive BY <1>1, ZeroNotKey DEF CreateAggregator
<1>2. CASE k # NoAgg /\ ~s.agg[k].alive
  <2> DEFINE a == [FreeAgg EXCEPT !.alive = TRUE]
             t == SetAgg(s, k, a)
             u == [t EXCEPT !.agg_cnt = t.agg_cnt + 1]
  <2>1. k \in Key BY <1>2
  <2>2. a \in Aggregator BY FreeAggType, Zenon DEF Aggregator
  <2>3. a.alive /\ \A i \in Slot : a.slot[i] = NoLink BY Zenon DEF FreeAgg
  <2> HIDE DEF a
  <2>4. t \in DaemonState /\ t.agg[k] = a /\ t.link = s.link /\ SameCounts(s, t)
    BY <2>1, <2>2, SetAggIs DEF Inv
  <2>5. \A j \in Key : j # k => t.agg[j] = s.agg[j] BY <2>1, <2>2, SetAggOthers DEF Inv
  <2> HIDE DEF t
  <2>6. \A p \in Port : s.link[p].agg # k BY <1>2, ZeroNotKey DEF Live, Dangling
  <2>7. t.agg_cnt + 1 \in Nat BY <2>4, CountType
  <2>8. /\ u \in DaemonState /\ u.agg_cnt = t.agg_cnt + 1 /\ u.static = t.static
        /\ u.link = t.link /\ u.agg = t.agg
    BY <2>4, <2>7, SetCountCalm DEF Calm
  <2>9. CreateAggregator(s, k) = u BY <1>2 DEF CreateAggregator, t, a
  <2> HIDE DEF u
  <2>10. Sel(u) BY <2>4, <2>8 DEF Inv, Sel
  <2>11. Backed(u) BY <2>3, <2>4, <2>5, <2>8 DEF Inv, Backed
  <2>12. Held(u) BY <2>4, <2>5, <2>6, <2>8 DEF Inv, Held
  <2>13. Absent(u) BY <2>4, <2>8 DEF Inv, Absent
  <2>14. Covered(u)
    <3>1. k \notin Alive(s) BY <1>2 DEF Alive
    <3>2. Alive(u) = Alive(s) \cup {k} BY <2>1, <2>3, <2>4, <2>5, <2>8 DEF Alive
    <3>3. Cardinality(Alive(u)) = Cardinality(Alive(s)) + 1
      BY <3>1, <3>2, AliveFinite, FS_AddElement
    <3>4. u.agg_cnt = s.agg_cnt + 1 /\ u.static = s.static BY <2>4, <2>8 DEF SameCounts
    <3>5. Cardinality(Alive(s)) \in Nat /\ s.agg_cnt \in Nat /\ s.static \in Nat
      BY AliveFinite, CountType DEF Inv
    <3>6. Cardinality(Alive(s)) + s.static <= s.agg_cnt BY DEF Inv, Covered
    <3> QED BY <3>3, <3>4, <3>5, <3>6, SMT DEF Covered
  <2>15. Inv(u) BY <2>8, <2>10, <2>11, <2>12, <2>13, <2>14 DEF Inv
  <2>16. Live(u)
    <3> SUFFICES ASSUME NEW p \in Port, u.link[p].agg # NoAgg PROVE u.agg[u.link[p].agg].alive
      BY DEF Live, Dangling
    <3>1. s.link[p].agg \in Key /\ s.link[p].agg # k /\ s.agg[s.link[p].agg].alive
      BY <2>4, <2>6, <2>8, LinkType DEF Live, Dangling, Inv
    <3> QED BY <2>4, <2>5, <2>8, <3>1
  <2> QED BY <2>3, <2>4, <2>8, <2>9, <2>15, <2>16
<1> QED BY <1>1, <1>2

LEMMA MatchType ==
  ASSUME NEW l \in Link, NEW b \in BOOLEAN
  PROVE  [l EXCEPT !.match = b] \in Link /\ SameLink([l EXCEPT !.match = b], l)
<1>1. [l EXCEPT !.match = b] \in Link BY ZenonT(40) DEF Link
<1>2. SameLink([l EXCEPT !.match = b], l) BY ZenonT(40) DEF Link, SameLink
<1> QED BY <1>1, <1>2

\* The reference count and the flag that says who has counted.
LEMMA SetReferenceQuiet ==
  ASSUME NEW s \in DaemonState, NEW k \in Key, NEW p \in Port, NEW n \in Octet, NEW b \in BOOLEAN
  PROVE  Quiet(s, SetLink(SetAgg(s, k, [s.agg[k] EXCEPT !.refCnt = n]),
                          p, [s.link[p] EXCEPT !.match = b]))
<1> DEFINE a == [s.agg[k] EXCEPT !.refCnt = n]
           l == [s.link[p] EXCEPT !.match = b]
<1>1. s.agg[k] \in Aggregator /\ s.link[p] \in Link BY AggType, LinkType
<1>2. a \in Aggregator /\ SameAgg(a, s.agg[k]) BY <1>1, CounterType
<1>3. l \in Link /\ SameLink(l, s.link[p]) BY <1>1, MatchType
<1> HIDE DEF a, l
<1>4. Quiet(s, SetLink(SetAgg(s, k, a), p, l)) BY <1>2, <1>3, PatchBoth
<1> QED BY <1>4 DEF a, l

LEMMA CountReferenceQuiet ==
  ASSUME NEW s \in DaemonState, NEW k \in Key \cup {NoAgg}, NEW p \in Port
  PROVE  Quiet(s, CountReference(s, k, p))
<1>1. CASE k = NoAgg \/ s.link[p].match BY <1>1, QuietRefl DEF CountReference
<1>2. CASE ~(k = NoAgg \/ s.link[p].match)
  <2>1. k \in Key BY <1>2
  <2>2. s.agg[k].refCnt \in Octet BY <2>1, AggType, SMT DEF Aggregator
  <2>3. Incr(s.agg[k].refCnt) \in Octet BY <2>2, OctetType
  <2>4. Quiet(s, SetLink(SetAgg(s, k, [s.agg[k] EXCEPT !.refCnt = Incr(s.agg[k].refCnt)]),
                         p, [s.link[p] EXCEPT !.match = TRUE]))
    BY <2>1, <2>3, SetReferenceQuiet
  <2> QED BY <1>2, <2>4 DEF CountReference
<1> QED BY <1>1, <1>2

MaxPriority == 4294967295

LEMMA PriorityBound ==
  ASSUME NEW a \in Nat, NEW b \in Nat, a <= MaxShort, b <= MaxShort
  PROVE  /\ (MaxShort + 1) * a + b \in Nat
         /\ (MaxShort + 1) * a + b <= MaxPriority
         /\ MaxPriority \in Nat
  BY SMT DEF MaxShort, MaxPriority

LEMMA LinkPriorityType ==
  ASSUME NEW s \in DaemonState, NEW p \in Port
  PROVE  LinkPriority(s, p) \in Nat /\ LinkPriority(s, p) <= MaxPriority /\ MaxPriority \in Nat
<1>1. s.link[p].prio \in Prio BY SMT DEF DaemonState, Link
<1>2. s.link[p].prio \in Nat /\ s.link[p].prio <= MaxShort
  BY <1>1, PrioAssumption, ShortType, SMT
<1>3. p \in Nat /\ p <= MaxShort BY PortAssumption, ShortType, SMT
<1> QED BY <1>2, <1>3, PriorityBound DEF LinkPriority

LEMMA VictimIs ==
  ASSUME NEW s \in DaemonState, NEW k \in Key, NEW p \in Port, Replaceable(s, k, p) # {}
  PROVE  Victim(s, k, p) \in Port /\ Victim(s, k, p) # p
<1> DEFINE R == Replaceable(s, k, p)
           T == {LinkPriority(s, q) : q \in R}
<1>1. R \subseteq Port BY AggType DEF Replaceable, Members, Occupied
<1>2. T # {} /\ T \subseteq Nat /\ \A n \in T : n <= MaxPriority
  BY <1>1, LinkPriorityType
<1>3. PICK n \in T : \A m \in T : m <= n
  <2>1. MaxPriority \in Nat BY LinkPriorityType
  <2> HIDE DEF T
  <2> QED BY <1>2, <2>1, GreatestNat
<1>4. PICK q \in R : n = LinkPriority(s, q) BY <1>3
<1>5. \A r \in R : LinkPriority(s, r) <= LinkPriority(s, q) BY <1>3, <1>4
<1>6. Victim(s, k, p) \in R BY <1>4, <1>5, Zenon DEF Victim
<1>7. LinkPriority(s, p) < LinkPriority(s, Victim(s, k, p)) BY <1>6 DEF Replaceable, Outranks
<1>8. Victim(s, k, p) # p BY <1>7, LinkPriorityType, SMT
<1> QED BY <1>1, <1>6, <1>8

\* lacp_attempt_to_aggregate_link, in a state where no pointer dangles.
LEMMA AttemptKeeps ==
  ASSUME NEW s, Inv(s), Live(s), NEW p \in Port
  PROVE  Inv(AttemptToAggregate(s, p)) /\ Live(AttemptToAggregate(s, p))
<1> DEFINE k == SearchForAggregator(s, p)
           c == CreateAggregator(s, k)
           t == CountReference(c, k, p)
<1>1. k \in Key \cup {NoAgg} BY SearchType
<1>2. CASE ~IsEnabled(s.link[p]) BY <1>2, Zenon DEF AttemptToAggregate
<1>3. CASE IsEnabled(s.link[p]) /\ k = NoAgg
  <2>1. Inv(Standby(s, p)) /\ Live(Standby(s, p)) BY StandbyKeeps
  <2> QED BY <1>3, <2>1, Zenon DEF AttemptToAggregate
<1>4. CASE IsEnabled(s.link[p]) /\ k # NoAgg
  <2>1. k \in Key BY <1>1, <1>4
  <2> HIDE DEF k
  <2>2. Inv(c) /\ Live(c) /\ c.agg[k].alive /\ c.link = s.link BY <1>1, <2>1, CreateKeeps
  <2>11. s.link[p].exists BY <1>4 DEF IsEnabled, Inv, Absent
  <2> HIDE DEF c
  <2>3. Quiet(c, t) BY <1>1, <2>2, CountReferenceQuiet DEF Inv
  <2> HIDE DEF t
  <2>4. Inv(t) /\ Live(t) BY <2>2, <2>3, QuietKeeps DEF Keeps
  <2>5. t.agg[k].alive BY <2>1, <2>2, <2>3 DEF Quiet, Calm, SameAgg
  <2>12. t.link[p].exists BY <2>2, <2>3, <2>11 DEF Quiet, Calm, SameLink
  <2> DEFINE d == Disaggregate(t, Victim(t, k, p), TRUE)
             r == CASE t.link[p].agg = k -> t
                    [] t.link[p].agg # k /\ HasRoom(t.agg[k]) -> Aggregate(t, k, p)
                    [] OTHER -> IF Replaceable(t, k, p) = {} THEN Standby(t, p)
                                ELSE Aggregate(d, k, p)
  <2>6. AttemptToAggregate(s, p) = r BY <1>4, Zenon DEF AttemptToAggregate, t, c, k
  <2>7. Inv(Aggregate(t, k, p)) /\ Live(Aggregate(t, k, p)) BY <2>1, <2>4, <2>5, <2>12, AggregateKeeps
  <2>8. Inv(Standby(t, p)) /\ Live(Standby(t, p)) BY <2>4, StandbyKeeps
  <2>9. ASSUME Replaceable(t, k, p) # {}
        PROVE  Inv(Aggregate(d, k, p)) /\ Live(Aggregate(d, k, p))
    <3>1. Victim(t, k, p) \in Port BY <2>1, <2>4, <2>9, VictimIs DEF Inv
    <3>2. Inv(d) /\ Live(d) /\ d.agg[k].alive
      BY <2>1, <2>4, <2>5, <3>1, DisaggregateKeeps, ZenonT(40)
    <3>3. d.link[p].exists
      <4>1. CASE Victim(t, k, p) = p BY <2>4, <2>12, <3>1, <4>1, DisaggregateKeeps
      <4>2. CASE Victim(t, k, p) # p
        <5>1. SameLink(d.link[p], t.link[p]) BY <2>4, <3>1, <4>2, DisaggregateKeeps
        <5> QED BY <2>12, <5>1 DEF SameLink
      <4> QED BY <4>1, <4>2
    <3> HIDE DEF d
    <3> QED BY <2>1, <3>2, <3>3, AggregateKeeps
  <2>10. Inv(r) /\ Live(r) BY <2>4, <2>7, <2>8, <2>9, Zenon
  <2> QED BY <2>6, <2>10
<1> QED BY <1>2, <1>3, <1>4
----------------------------------------------------------------------------
(* The list of the selection logic, and the readiness of aggregators.      *)

LEMMA ListQuiet ==
  ASSUME NEW s \in DaemonState, NEW L \in SUBSET Port
  PROVE  Quiet(s, [s EXCEPT !.links = L])
<1> DEFINE t == [s EXCEPT !.links = L]
<1>1. t \in DaemonState BY Zenon DEF DaemonState
<1>2. t.link = s.link /\ t.agg = s.agg BY Zenon DEF DaemonState
<1>4. SameCounts(s, t) BY Zenon DEF DaemonState, SameCounts
<1> HIDE DEF t
<1>3. Quiet(s, t) BY <1>1, <1>2, <1>4 DEF Quiet, Calm, SameLink, SameAgg
<1> QED BY <1>3 DEF t

LEMMA UpdateSelectionQuiet == ASSUME NEW s \in DaemonState PROVE Quiet(s, UpdateSelection(s))
<1> DEFINE L == {p \in EnabledLinks(s) :
                    Cardinality({q \in EnabledLinks(s) : q < p}) < MaxLinks}
<1>1. L \in SUBSET Port BY Zenon DEF EnabledLinks
<1> HIDE DEF L
<1>2. Quiet(s, [s EXCEPT !.links = L]) BY <1>1, ListQuiet
<1> QED BY <1>2 DEF UpdateSelection, L

LEMMA SelectionAddLinkQuiet ==
  ASSUME NEW s \in DaemonState, NEW p \in Port
  PROVE  Quiet(s, SelectionAddLink(s, p))
<1>1. s.links \cup {p} \in SUBSET Port BY SMT DEF DaemonState
<1>2. Quiet(s, [s EXCEPT !.links = s.links \cup {p}]) BY <1>1, ListQuiet
<1>3. Quiet(s, s) BY QuietRefl
<1> QED BY <1>2, <1>3 DEF SelectionAddLink

LEMMA ReadiedType ==
  ASSUME NEW s \in DaemonState, NEW a \in Aggregator
  PROVE  Readied(s, a) \in Aggregator /\ SameAgg(Readied(s, a), a)
<1> DEFINE b == \A q \in Members(a) : s.link[q].ready_n
<1>1. b \in BOOLEAN BY Zenon
<1>2. [a EXCEPT !.ready = b] \in Aggregator /\ SameAgg([a EXCEPT !.ready = b], a)
  <2> HIDE DEF b
  <2> QED BY <1>1, Zenon DEF Aggregator, SameAgg
<1>3. SameAgg(a, a) BY DEF SameAgg
<1> QED BY <1>2, <1>3 DEF Readied

LEMMA ReadyLogicQuiet == ASSUME NEW s \in DaemonState PROVE Quiet(s, ReadyLogic(s))
<1> DEFINE f == [k \in Key |-> Readied(s, s.agg[k])]
           t == [s EXCEPT !.agg = f]
<1>1. \A k \in Key : f[k] \in Aggregator /\ SameAgg(f[k], s.agg[k]) BY AggType, ReadiedType
<1>2. f \in [Key -> Aggregator] BY <1>1
<1> HIDE DEF f
<1>3. t \in DaemonState BY <1>2, Zenon DEF DaemonState
<1>4. t.link = s.link /\ t.agg = f BY <1>2, Zenon DEF DaemonState
<1>6. SameCounts(s, t) BY <1>2, Zenon DEF DaemonState, SameCounts
<1> HIDE DEF t
<1>5. Quiet(s, t) BY <1>1, <1>3, <1>4, <1>6, SMT DEF Quiet, Calm, SameLink
<1> QED BY <1>5 DEF ReadyLogic, t, f

----------------------------------------------------------------------------
(* Aggregators are freed, links are deleted.                               *)

LEMMA FreeKeeps ==
  ASSUME NEW s, Inv(s), NEW k \in Key, s.agg[k].alive
  PROVE  Inv(FreeAggregator(s, k)) /\ FreeAggregator(s, k).link = s.link
<1> DEFINE u == SetAgg(s, k, FreeAgg)
           n == IF u.agg_cnt > 0 THEN u.agg_cnt - 1 ELSE 0
           v == [u EXCEPT !.agg_cnt = n]
<1>0. s \in DaemonState BY DEF Inv
<1>1. u \in DaemonState /\ u.agg[k] = FreeAgg /\ u.link = s.link /\ SameCounts(s, u)
  BY <1>0, FreeAggType, SetAggIs
<1>2. \A j \in Key : j # k => u.agg[j] = s.agg[j] BY <1>0, FreeAggType, SetAggOthers
<1>3. ~FreeAgg.alive /\ \A i \in Slot : FreeAgg.slot[i] = NoLink BY DEF FreeAgg
<1> HIDE DEF u
<1>4. Dropping(s, u, {})
  <2>1. \A p \in Port : SameLink(u.link[p], s.link[p]) BY <1>1, SMT DEF SameLink
  <2>2. \A j \in Key : u.agg[j].alive => s.agg[j].alive BY <1>1, <1>2, <1>3
  <2>3. ASSUME NEW j \in Key, NEW i \in Slot
        PROVE  /\ u.agg[j].slot[i] \in {NoLink, s.agg[j].slot[i]}
               /\ u.agg[j].alive => u.agg[j].slot[i] = s.agg[j].slot[i]
    BY <1>1, <1>2, <1>3
  <2>4. Covered(u) BY <1>1, <2>2, FewerCovered DEF Inv
  <2> QED BY <1>1, <2>1, <2>2, <2>3, <2>4, Zenon DEF Dropping
<1>5. Inv(u) BY <1>4, DropInv
<1>6. u.agg_cnt \in Nat /\ u.static \in Nat BY <1>1, CountType
<1>7. n \in Nat BY <1>6, SMT
<1>8. v = FreeAggregator(s, k) BY DEF v, n, u, FreeAggregator
<1> HIDE DEF n
<1>9. Calm(u, v) /\ v.agg_cnt = n /\ v.static = u.static /\ v.link = u.link /\ v.agg = u.agg
  BY <1>1, <1>7, SetCountCalm
<1> HIDE DEF v
<1>10. Covered(v)
  <2>1. k \in Alive(s) BY DEF Alive
  <2>2. Alive(v) = Alive(s) \ {k} BY <1>1, <1>2, <1>3, <1>9 DEF Alive
  <2>3. Cardinality(Alive(v)) = Cardinality(Alive(s)) - 1
    BY <2>1, <2>2, AliveFinite, FS_RemoveElement
  <2>4. Cardinality(Alive(s)) + u.static <= u.agg_cnt BY <1>1 DEF Inv, Covered, SameCounts
  <2>5. Cardinality(Alive(s)) \in Nat /\ Cardinality(Alive(v)) \in Nat BY AliveFinite
  <2>6. n = u.agg_cnt - 1 BY <1>6, <2>3, <2>4, <2>5, SMT DEF n
  <2> QED BY <1>6, <1>9, <2>3, <2>4, <2>5, <2>6, SMT DEF Covered
<1>11. Inv(v) BY <1>5, <1>9, <1>10, CalmKeeps DEF Keeps
<1> QED BY <1>1, <1>8, <1>9, <1>11

LEMMA DeleteAtNsmQuiet ==
  ASSUME NEW s \in DaemonState, NEW k \in Key
  PROVE  Quiet(s, DeleteAtNsm(s, k))
<1>1. Quiet(s, [SetAgg(s, k, [s.agg[k] EXCEPT !.installed = FALSE]) EXCEPT !.nsm[k] = {}])
  BY SetInstalledQuiet
<1>2. Quiet(s, s) BY QuietRefl
<1> QED BY <1>1, <1>2 DEF DeleteAtNsm

LEMMA AggregatorOfType ==
  ASSUME NEW s \in DaemonState, NEW p \in Port
  PROVE  AggregatorOf(s, p) \in Key \cup {NoAgg}
  BY LinkType DEF AggregatorOf, LookupByKey

LEMMA RefCntType == ASSUME NEW s \in DaemonState, NEW k \in Key PROVE s.agg[k].refCnt \in Octet
  BY AggType, Zenon DEF Aggregator

LEMMA ReleaseReferenceQuiet ==
  ASSUME NEW s \in DaemonState, NEW p \in Port
  PROVE  Quiet(s, ReleaseReference(s, p))
<1> DEFINE k == AggregatorOf(s, p)
<1>1. CASE k = NoAgg BY <1>1, QuietRefl DEF ReleaseReference
<1>2. CASE k # NoAgg
  <2>1. k \in Key BY <1>2, AggregatorOfType
  <2>2. Decr(s.agg[k].refCnt) \in Octet BY <2>1, RefCntType, OctetType
  <2>3. Quiet(s, SetLink(SetAgg(s, k, [s.agg[k] EXCEPT !.refCnt = Decr(s.agg[k].refCnt)]),
                         p, [s.link[p] EXCEPT !.match = FALSE]))
    BY <2>1, <2>2, SetReferenceQuiet
  <2> QED BY <1>2, <2>3 DEF ReleaseReference
<1> QED BY <1>1, <1>2

\* A link that leaves points to no aggregator, even if the one it left is freed.
LEMMA LeaveKeeps ==
  ASSUME NEW s, Inv(s), Live(s), NEW p \in Port, NEW notify \in BOOLEAN
  PROVE  LET u == LeaveAggregator(s, p, notify) IN
         Inv(u) /\ u.link[p].agg = NoAgg /\ u.link[p].exists = s.link[p].exists
<1> DEFINE k == AggregatorOf(s, p)
           t == CASE s.link[p].agg # NoAgg -> Disaggregate(s, p, notify)
                  [] s.link[p].agg = NoAgg /\ k # NoAgg /\ s.agg[k].refCnt = 0 -> DeleteAtNsm(s, k)
                  [] OTHER -> s
<1>0. s \in DaemonState BY DEF Inv
<1>1. k \in Key \cup {NoAgg} BY <1>0, AggregatorOfType
<1>6. k # NoAgg => s.agg[k].alive BY DEF AggregatorOf, LookupByKey, Live, Dangling
<1>2. /\ Inv(t) /\ t.link[p].agg = NoAgg /\ t.link[p].exists = s.link[p].exists
      /\ k # NoAgg => t.agg[k].alive
  <2>1. CASE s.link[p].agg # NoAgg
    <3>1. t = Disaggregate(s, p, notify) BY <2>1
    <3>2. LET u == Disaggregate(s, p, notify) IN
          /\ Inv(u) /\ u.link[p].agg = NoAgg /\ u.link[p].exists = s.link[p].exists
          /\ \A j \in Key : u.agg[j].alive = s.agg[j].alive
      BY DisaggregateKeeps
    <3> HIDE DEF t, k
    <3> QED BY <1>1, <1>6, <3>1, <3>2
  <2>2. CASE s.link[p].agg = NoAgg /\ k # NoAgg /\ s.agg[k].refCnt = 0
    <3>1. t = DeleteAtNsm(s, k) BY <2>2
    <3>2. Quiet(s, DeleteAtNsm(s, k)) BY <1>0, <1>1, <2>2, DeleteAtNsmQuiet
    <3> HIDE DEF t, k
    <3>3. Inv(t) BY <3>1, <3>2, QuietKeeps DEF Keeps
    <3>4. SameLink(t.link[p], s.link[p]) BY <3>1, <3>2 DEF Quiet, Calm
    <3>5. t.agg[k].alive BY <1>1, <1>6, <2>2, <3>1, <3>2 DEF Quiet, Calm, SameAgg
    <3> QED BY <2>2, <3>3, <3>4, <3>5 DEF SameLink
  <2>3. CASE s.link[p].agg = NoAgg /\ ~(k # NoAgg /\ s.agg[k].refCnt = 0)
    <3>1. t = s BY <2>3
    <3> HIDE DEF t, k
    <3> QED BY <1>6, <2>3, <3>1
  <2> HIDE DEF t, k
  <2> QED BY <2>1, <2>2, <2>3
<1>3. LeaveAggregator(s, p, notify) =
        IF k # NoAgg /\ t.agg[k].refCnt = 0 THEN FreeAggregator(t, k) ELSE t
  BY Zenon DEF LeaveAggregator
<1> HIDE DEF t, k
<1>4. CASE k # NoAgg /\ t.agg[k].refCnt = 0
  <2>1. Inv(FreeAggregator(t, k)) /\ FreeAggregator(t, k).link = t.link
    BY <1>1, <1>2, <1>4, FreeKeeps
  <2> QED BY <1>2, <1>3, <1>4, <2>1
<1>5. CASE ~(k # NoAgg /\ t.agg[k].refCnt = 0) BY <1>2, <1>3, <1>5
<1> QED BY <1>4, <1>5

LEMMA TimersOffType ==
  ASSUME NEW l \in Link
  PROVE  TimersOff(l) \in Link /\ SameLink(TimersOff(l), l)
<1>1. TimersOff(l) \in Link BY ZenonT(40) DEF TimersOff, Link
<1>2. SameLink(TimersOff(l), l) BY ZenonT(40) DEF TimersOff, Link, SameLink
<1> QED BY <1>1, <1>2

LEMMA CleanupKeeps ==
  ASSUME NEW s, Inv(s), Live(s), NEW p \in Port, NEW notify \in BOOLEAN
  PROVE  LET u == LinkCleanup(s, p, notify) IN
         Inv(u) /\ u.link[p].agg = NoAgg /\ u.link[p].exists = s.link[p].exists
<1> DEFINE t == LeaveAggregator(s, p, notify)
           u == SetLink(t, p, TimersOff(t.link[p]))
<1>1. Inv(t) /\ t.link[p].agg = NoAgg /\ t.link[p].exists = s.link[p].exists BY LeaveKeeps
<1> HIDE DEF t
<1>2. t \in DaemonState BY <1>1 DEF Inv
<1>3. TimersOff(t.link[p]) \in Link /\ SameLink(TimersOff(t.link[p]), t.link[p])
  BY <1>2, LinkType, TimersOffType
<1>4. Quiet(t, u) BY <1>2, <1>3, PatchLink
<1>5. u = LinkCleanup(s, p, notify) BY DEF u, t, LinkCleanup
<1> HIDE DEF u
<1>6. Inv(u) BY <1>1, <1>4, QuietKeeps DEF Keeps
<1>7. SameLink(u.link[p], t.link[p]) BY <1>4 DEF Quiet, Calm
<1> QED BY <1>1, <1>5, <1>6, <1>7 DEF SameLink

LEMMA DeleteLinkKeeps ==
  ASSUME NEW s, Inv(s), Live(s), NEW p \in Port, NEW notify \in BOOLEAN
  PROVE  Inv(DeleteLink(s, p, notify))
<1> DEFINE r == ReleaseReference(s, p)
           t == LinkCleanup(r, p, notify)
           u == SetLink(t, p, NoLinkRec)
<1>1. Quiet(s, r) BY ReleaseReferenceQuiet DEF Inv
<1>2. Inv(r) /\ Live(r)
  <2> HIDE DEF r
  <2> QED BY <1>1, QuietKeeps DEF Keeps
<1>3. Inv(t) /\ t.link[p].agg = NoAgg
  <2> HIDE DEF r
  <2> QED BY <1>2, CleanupKeeps
<1> HIDE DEF t
<1>4. \A k \in Key, i \in Slot : t.agg[k].slot[i] # p BY <1>3, NoSlot, ZeroNotKey
<1>5. NoLinkRec.agg = NoAgg /\ NoLinkRec.selected # "SELECTED" /\ ~NoLinkRec.ifp
  BY DEF NoLinkRec
<1>6. Inv(u) BY <1>3, <1>4, <1>5, NoLinkRecType, LooseKeeps DEF Keeps
<1> HIDE DEF u
<1>7. Quiet(u, UpdateSelection(u)) BY <1>6, UpdateSelectionQuiet DEF Inv
<1>8. Inv(UpdateSelection(u)) BY <1>6, <1>7, QuietKeeps DEF Keeps
<1> QED BY <1>6, <1>8 DEF DeleteLink, Refresh, u, t

LEMMA DroppedType ==
  ASSUME NEW l \in Link
  PROVE  /\ Dropped(l) \in Link
         /\ Dropped(l).agg = NoAgg /\ Dropped(l).selected = "UNSELECTED"
         /\ Dropped(l).exists = l.exists /\ Dropped(l).ifp = l.ifp
<1> DEFINE m == Unselected(l)
<1>1. m \in Link /\ m.agg = NoAgg /\ m.selected = "UNSELECTED" /\ m.exists = l.exists
      /\ m.ifp = l.ifp
  BY UnselectedType
<1>2. Dropped(l) = [m EXCEPT !.match = FALSE] BY DEF Dropped
<1> HIDE DEF m
<1>3. Dropped(l) \in Link BY <1>1, <1>2, MatchType
<1>4. SameLink(Dropped(l), m) BY <1>1, <1>2, MatchType
<1>5. Dropped(l).ifp = m.ifp BY <1>1, <1>2, ZenonT(40) DEF Link
<1> QED BY <1>1, <1>3, <1>4, <1>5 DEF SameLink

LEMMA OccupiedCount ==
  ASSUME NEW a \in Aggregator
  PROVE  Cardinality(Occupied(a)) \in Nat
<1>1. IsFiniteSet(Slot) BY LimitAssumption, FS_Interval, SMT DEF Slot
<1>2. Occupied(a) \subseteq Slot BY DEF Occupied
<1>3. IsFiniteSet(Occupied(a)) BY <1>1, <1>2, FS_Subset
<1> QED BY <1>3, FS_CardinalityType

\* The slots of an aggregator are cleared at once.
LEMMA DetachLinksKeeps ==
  ASSUME NEW s, Inv(s), NEW k \in Key, NEW notify \in BOOLEAN
  PROVE  LET u == DetachLinks(s, k, notify) IN
         Inv(u) /\ \A j \in Key : u.agg[j].alive = s.agg[j].alive
<1> DEFINE a == s.agg[k]
           gone == Members(a)
           linkCnt == Cardinality(Occupied(a))
           n == (a.refCnt + 256 - linkCnt) % 256
           b == a.installed /\ a.refCnt \notin 1..linkCnt
           c == [i \in Slot |-> NoLink]
           left == [a EXCEPT !.slot = c, !.receive_state = 0, !.refCnt = n, !.installed = b]
           f == [p \in Port |-> IF p \in gone THEN Dropped(s.link[p]) ELSE s.link[p]]
           P == IF notify THEN s.nsm[k] \ gone ELSE s.nsm[k]
           t == SetAgg(s, k, left)
           u == [t EXCEPT !.link = f]
           v == [u EXCEPT !.nsm[k] = P]
<1>0. s \in DaemonState BY DEF Inv
<1>1. a \in Aggregator BY <1>0, AggType
<1>2. linkCnt \in Nat BY <1>1, OccupiedCount
<1>3. a.refCnt \in Octet BY <1>0, RefCntType
<1>4. n \in Octet
  <2>1. a.refCnt \in Nat BY <1>3, OctetType
  <2>2. a.refCnt + 256 - linkCnt \in Int
    <3> HIDE DEF a, linkCnt
    <3> QED BY <1>2, <2>1, SMT
  <2> QED BY <2>2, OctetType
<1>5. b \in BOOLEAN BY Zenon
<1>6. c \in [Slot -> Port \cup {NoLink}] /\ \A i \in Slot : c[i] = NoLink OBVIOUS
<1>7. left \in Aggregator /\ left.slot = c /\ left.alive = a.alive
  <2> HIDE DEF a, b, n, c
  <2>1. 0 \in Octet BY OctetType
  <2> QED BY <1>1, <1>4, <1>5, <1>6, <2>1, Zenon DEF Aggregator
<1>8. \A p \in gone : p \in Port /\ s.link[p].agg = k
  <2> TAKE p \in gone
  <2>1. PICK i \in Slot : a.slot[i] = p /\ a.slot[i] # NoLink BY DEF Members, Occupied
  <2>2. p \in Port BY <1>0, <2>1, AggType
  <2> QED BY <2>1, <2>2 DEF Inv, Backed
<1>9. f \in [Port -> Link]
  <2>1. \A p \in Port : f[p] \in Link BY <1>0, LinkType, DroppedType
  <2> QED BY <2>1
<1>10. t \in DaemonState /\ t.agg[k] = left /\ t.link = s.link /\ SameCounts(s, t)
  <2> HIDE DEF left
  <2> QED BY <1>0, <1>7, SetAggIs
<1>11. \A j \in Key : j # k => t.agg[j] = s.agg[j]
  <2> HIDE DEF left
  <2> QED BY <1>0, <1>7, SetAggOthers
<1>12. u \in DaemonState /\ u.link = f /\ u.agg = t.agg /\ SameCounts(t, u)
  <2> HIDE DEF t, f
  <2>1. u \in DaemonState /\ u.link = f /\ u.agg = t.agg
    BY <1>9, <1>10, ZenonT(40) DEF DaemonState
  <2>2. u.agg_cnt = t.agg_cnt /\ u.static = t.static BY <1>10, ZenonT(40) DEF DaemonState
  <2> QED BY <2>1, <2>2 DEF SameCounts
<1>20. \A j \in Key : u.agg[j].alive = s.agg[j].alive
  <2> HIDE DEF t, u, left
  <2> QED BY <1>7, <1>10, <1>11, <1>12
<1>21. Covered(u)
  <2>1. SameCounts(s, u) BY <1>10, <1>12 DEF SameCounts
  <2> HIDE DEF u
  <2> QED BY <1>20, <2>1, SameCovered DEF Inv
<1>13. P \in SUBSET Port
  <2>1. s.nsm[k] \in SUBSET Port BY <1>0, SMT DEF DaemonState
  <2> QED BY <2>1, Zenon
<1>14. Dropping(s, u, gone)
  <2>1. \A p \in gone : f[p] = Dropped(s.link[p]) BY <1>8
  <2>2. \A p \in Port \ gone : f[p] = s.link[p] OBVIOUS
  <2>3. gone \subseteq Port BY <1>8
  <2>4. \A p \in Port : ~s.link[p].exists => ~s.link[p].ifp BY DEF Inv, Absent
  <2> HIDE DEF f, u, t, left, n, b, P
  <2>5. \A p \in gone : /\ u.link[p].agg = NoAgg /\ u.link[p].selected # "SELECTED"
                        /\ ~u.link[p].exists => ~u.link[p].ifp
    <3> TAKE p \in gone
    <3>1. p \in Port /\ s.link[p] \in Link BY <1>0, <1>8, LinkType
    <3> QED BY <1>12, <2>1, <2>4, <3>1, DroppedType
  <2>6. \A p \in Port \ gone : SameLink(u.link[p], s.link[p])
    BY <1>12, <2>2, SMT DEF SameLink
  <2>7. \A j \in Key : u.agg[j].alive => s.agg[j].alive
    BY <1>7, <1>10, <1>11, <1>12
  <2>8. ASSUME NEW j \in Key, NEW i \in Slot
        PROVE  /\ u.agg[j].slot[i] \in {NoLink, s.agg[j].slot[i]}
               /\ u.agg[j].slot[i] \notin gone
               /\ u.agg[j].alive /\ s.agg[j].slot[i] \notin gone
                     => u.agg[j].slot[i] = s.agg[j].slot[i]
    <3>1. CASE j = k
      <4>1. u.agg[j].slot[i] = NoLink BY <1>6, <1>7, <1>10, <1>12, <3>1
      <4>2. s.agg[j].slot[i] \notin gone => s.agg[j].slot[i] = NoLink
        BY <3>1 DEF Members, Occupied
      <4>3. NoLink \notin gone BY <2>3, ZeroNotPort
      <4> HIDE DEF gone
      <4> QED BY <4>1, <4>2, <4>3
    <3>2. CASE j # k
      <4>1. u.agg[j].slot[i] = s.agg[j].slot[i] BY <1>11, <1>12, <3>2
      <4>2. s.agg[j].slot[i] \notin gone
        <5> SUFFICES ASSUME s.agg[j].slot[i] \in gone PROVE FALSE OBVIOUS
        <5>1. s.agg[j].slot[i] # NoLink BY <1>8, ZeroNotPort
        <5>2. s.link[s.agg[j].slot[i]].agg = j BY <5>1 DEF Inv, Backed
        <5> QED BY <1>8, <3>2, <5>2
      <4> HIDE DEF gone
      <4> QED BY <4>1, <4>2
    <3> QED BY <3>1, <3>2
  <2> HIDE DEF gone
  <2> QED BY <1>12, <1>21, <2>5, <2>6, <2>7, <2>8, Zenon DEF Dropping
<1>15. gone \subseteq Port BY <1>8
<1>16. DetachLinks(s, k, notify) = IF gone = {} THEN s ELSE v
  <2>1. DetachLinks(s, k, notify) =
          IF gone = {} THEN s
          ELSE [t EXCEPT !.link = f, !.nsm[k] = IF notify THEN t.nsm[k] \ gone ELSE t.nsm[k]]
    BY ZenonT(40) DEF DetachLinks
  <2>2. t.nsm = s.nsm
    <3> HIDE DEF left
    <3> QED BY <1>0, Zenon DEF SetAgg, DaemonState
  <2>3. [t EXCEPT !.link = f, !.nsm[k] = P] = v OBVIOUS
  <2> HIDE DEF t, f, gone
  <2> QED BY <2>1, <2>2, <2>3
<1> HIDE DEF P, u, gone
<1>17. Inv(u) BY <1>14, <1>15, DropInv
<1>18. Quiet(u, v) BY <1>12, <1>13, SetNsmQuiet
<1> HIDE DEF v
<1>19. Inv(v) BY <1>17, <1>18, QuietKeeps DEF Keeps
<1>22. \A j \in Key : v.agg[j].alive = s.agg[j].alive
  BY <1>18, <1>20 DEF Quiet, Calm, SameAgg
<1> QED BY <1>16, <1>19, <1>22

----------------------------------------------------------------------------
(* What the operators leave alone.                                         *)

\* Of a link: its place in the hash table, its interface and its key ...
SameFace(m, l) == m.exists = l.exists /\ m.ifp = l.ifp /\ m.up = l.up /\ m.key = l.key

\* ... the states of its machines, with their timers ...
SameRcv(m, l) == m.rcv = l.rcv /\ m.current_while = l.current_while
SamePeriodic(m, l) == m.periodic = l.periodic /\ m.periodic_timer = l.periodic_timer
SameChurn(m, l) ==
    /\ m.actor_churn = l.actor_churn /\ m.actor_churn_timer = l.actor_churn_timer
    /\ m.partner_churn = l.partner_churn /\ m.partner_churn_timer = l.partner_churn_timer

\* ... where the mux machine must not come to owe the link a timer ...
Owed(l) == l.mux = "WAITING" /\ l.selected = "SELECTED" /\ ~l.ready_n
SameMux(m, l) == m.mux = l.mux /\ m.wait_while = l.wait_while /\ (Owed(m) => Owed(l))

\* ... and the system it takes for its partner.
SameSystem(m, l) == m.partner.sys = l.partner.sys

\* What an operator that is no state machine does to a link at most.
Rests(m, l) ==
    /\ SameFace(m, l) /\ SameRcv(m, l) /\ SamePeriodic(m, l)
    /\ SameChurn(m, l) /\ SameMux(m, l) /\ SameSystem(m, l)

LEMMA NttRests == ASSUME NEW l \in Link PROVE Rests(Ntt(l), l) /\ Ntt(l).ready_n = l.ready_n
<1>1. Rests(Ntt(l), l)
  BY ZenonT(40) DEF Ntt, Link, Rests, SameFace, SameRcv, SamePeriodic, SameChurn, SameMux,
                    SameSystem, Owed
<1>2. Ntt(l).ready_n = l.ready_n BY ZenonT(40) DEF Ntt, Link
<1> QED BY <1>1, <1>2

LEMMA UnselectedRests ==
  ASSUME NEW l \in Link
  PROVE  Rests(Unselected(l), l) /\ Unselected(l).ready_n = l.ready_n
<1> DEFINE i == [l.partner EXCEPT !.sprio = DefaultPrio]
           m == [l EXCEPT !.agg = NoAgg, !.selected = "UNSELECTED", !.ntt = TRUE, !.partner = i]
<1>1. l.partner \in Info BY ZenonT(40) DEF Link
<1>2. i.sys = l.partner.sys BY <1>1, Zenon DEF Info
<1>3. Unselected(l) = m BY DEF Unselected
<1> HIDE DEF i
<1>4. SameFace(m, l) BY ZenonT(40) DEF Link, SameFace
<1>5. SameRcv(m, l) BY ZenonT(40) DEF Link, SameRcv
<1>6. SamePeriodic(m, l) BY ZenonT(40) DEF Link, SamePeriodic
<1>7. SameChurn(m, l) BY ZenonT(40) DEF Link, SameChurn
<1>8. SameMux(m, l) BY ZenonT(40) DEF Link, SameMux, Owed
<1>9. SameSystem(m, l) BY <1>2, ZenonT(40) DEF Link, SameSystem
<1>10. m.ready_n = l.ready_n BY ZenonT(40) DEF Link
<1> QED BY <1>3, <1>4, <1>5, <1>6, <1>7, <1>8, <1>9, <1>10 DEF Rests

\* The list of the selection logic and the interface table.
SameTables(s, t) == t.links = s.links /\ t.ifg = s.ifg
\* Every link rests.
Spares(s, t) == SameTables(s, t) /\ \A q \in Port : Rests(t.link[q], s.link[q])
\* The state is a record with these fields.
Shaped(s) ==
    /\ {"link", "agg", "links", "ifg", "nsm", "agg_cnt", "sent", "crashed"} \subseteq DOMAIN s
    /\ DOMAIN s.link = Port

LEMMA ShapedState == ASSUME NEW s \in DaemonState PROVE Shaped(s)
  BY Zenon DEF DaemonState, Shaped

LEMMA SetLinkFrame ==
  ASSUME NEW s, Shaped(s), NEW p \in Port, NEW l
  PROVE  LET t == SetLink(s, p, l) IN
         /\ Shaped(t) /\ SameTables(s, t)
         /\ t.link[p] = l
         /\ \A q \in Port \ {p} : t.link[q] = s.link[q]
  BY SMT DEF SetLink, Shaped, SameTables

LEMMA SetAggFrame ==
  ASSUME NEW s, Shaped(s), NEW k, NEW a
  PROVE  LET t == SetAgg(s, k, a) IN
         Shaped(t) /\ SameTables(s, t) /\ t.link = s.link
  BY SMT DEF SetAgg, Shaped, SameTables

LEMMA RestsRefl == \A l : Rests(l, l)
  BY DEF Rests, SameFace, SameRcv, SamePeriodic, SameChurn, SameMux, SameSystem

LEMMA RestsTrans == ASSUME NEW l, NEW m, NEW n, Rests(m, l), Rests(n, m) PROVE Rests(n, l)
  BY DEF Rests, SameFace, SameRcv, SamePeriodic, SameChurn, SameMux, SameSystem

LEMMA SparesRefl == \A s : Spares(s, s)
  BY RestsRefl DEF Spares, SameTables

LEMMA SparesTrans == ASSUME NEW s, NEW t, NEW u, Spares(s, t), Spares(t, u) PROVE Spares(s, u)
  BY RestsTrans DEF Spares, SameTables

LEMMA SetLinkSpares ==
  ASSUME NEW s, Shaped(s), NEW p \in Port, NEW l, Rests(l, s.link[p])
  PROVE  Spares(s, SetLink(s, p, l))
<1> DEFINE t == SetLink(s, p, l)
<1>1. SameTables(s, t) /\ t.link[p] = l /\ \A q \in Port \ {p} : t.link[q] = s.link[q]
  BY SetLinkFrame
<1> HIDE DEF t
<1>2. Spares(s, t) BY <1>1, RestsRefl DEF Spares
<1> QED BY <1>2 DEF t

LEMMA SameSpares ==
  ASSUME NEW s, NEW t, SameTables(s, t), t.link = s.link
  PROVE  Spares(s, t)
  BY RestsRefl DEF Spares

LEMMA NsmFrame ==
  ASSUME NEW s, Shaped(s), NEW k, NEW P
  PROVE  LET t == [s EXCEPT !.nsm[k] = P] IN SameTables(s, t) /\ t.link = s.link /\ Shaped(t)
  BY SMT DEF Shaped, SameTables

LEMMA CountFrame ==
  ASSUME NEW s, Shaped(s), NEW n
  PROVE  LET t == [s EXCEPT !.agg_cnt = n] IN SameTables(s, t) /\ t.link = s.link
  BY SMT DEF Shaped, SameTables

----------------------------------------------------------------------------
(* What the routines of lacp_link.c leave alone.                           *)

\* The collecting count of an aggregator changes, and the link asks to transmit.
LEMMA CountingSpares ==
  ASSUME NEW s \in DaemonState, NEW p \in Port, NEW k, NEW a
  PROVE  Spares(s, SetLink(SetAgg(s, k, a), p, Ntt(s.link[p])))
<1> DEFINE t == SetAgg(s, k, a)
<1>1. Shaped(t) /\ SameTables(s, t) /\ t.link = s.link BY ShapedState, SetAggFrame
<1> HIDE DEF t
<1>2. Rests(Ntt(s.link[p]), t.link[p]) BY <1>1, LinkType, NttRests
<1>3. Spares(t, SetLink(t, p, Ntt(s.link[p]))) BY <1>1, <1>2, SetLinkSpares
<1>4. Spares(s, t) BY <1>1, SameSpares
<1>5. Spares(s, SetLink(t, p, Ntt(s.link[p]))) BY <1>3, <1>4, SparesTrans
<1> QED BY <1>5 DEF t

LEMMA DisableSpares ==
  ASSUME NEW s \in DaemonState, NEW p \in Port
  PROVE  Spares(s, DisableCollectingDistributing(s, p))
  BY CountingSpares, SparesRefl DEF DisableCollectingDistributing

LEMMA EnableSpares ==
  ASSUME NEW s \in DaemonState, NEW p \in Port
  PROVE  Spares(s, EnableCollectingDistributing(s, p))
  BY CountingSpares, SparesRefl DEF EnableCollectingDistributing

\* The tables and the links are the same.
Untouched(s, t) == SameTables(s, t) /\ t.link = s.link

LEMMA InstallFrame ==
  ASSUME NEW s \in DaemonState, NEW k, NEW a, NEW P
  PROVE  Untouched(s, [SetAgg(s, k, a) EXCEPT !.nsm[k] = P])
<1> DEFINE u == SetAgg(s, k, a)
           t == [u EXCEPT !.nsm[k] = P]
<1>1. Shaped(u) /\ SameTables(s, u) /\ u.link = s.link BY ShapedState, SetAggFrame
<1> HIDE DEF u
<1>2. SameTables(u, t) /\ t.link = u.link BY <1>1, NsmFrame
<1> HIDE DEF t
<1>3. Untouched(s, t) BY <1>1, <1>2 DEF SameTables, Untouched
<1> QED BY <1>3 DEF t, u

LEMMA AttachMuxFrame ==
  ASSUME NEW s \in DaemonState, NEW p \in Port
  PROVE  Untouched(s, AttachMux(s, p))
<1> DEFINE k == s.link[p].agg
           a == [s.agg[k] EXCEPT !.installed = TRUE]
           P == SetAgg(s, k, a).nsm[k] \cup {p}
           t == [SetAgg(s, k, a) EXCEPT !.nsm[k] = P]
<1>1. AttachMux(s, p) \in {s, t} BY DEF AttachMux
<1> HIDE DEF k, a, P
<1>2. Untouched(s, t) BY InstallFrame
<1> HIDE DEF t
<1> QED BY <1>1, <1>2 DEF SameTables, Untouched

LEMMA DetachMuxFrame ==
  ASSUME NEW s \in DaemonState, NEW p \in Port, NEW notify
  PROVE  Untouched(s, DetachMux(s, p, notify))
<1> DEFINE k == s.link[p].agg
           a == [s.agg[k] EXCEPT !.installed = s.agg[k].installed /\ s.agg[k].refCnt # 0]
           d == SetAgg(s, k, a)
           P == IF notify THEN d.nsm[k] \ {p} ELSE d.nsm[k]
           t == [SetAgg(s, k, a) EXCEPT !.nsm[k] = P]
<1>1. DetachMux(s, p, notify) \in {s, t} BY Zenon DEF DetachMux
<1> HIDE DEF k, a, P
<1>2. Untouched(s, t) BY InstallFrame
<1> HIDE DEF t
<1> QED BY <1>1, <1>2 DEF SameTables, Untouched

\* The links other than p do not change at all, and p keeps its ready_n.
Quits(s, u, p) ==
    /\ Spares(s, u)
    /\ \A q \in Port \ {p} : u.link[q] = s.link[q]
    /\ u.link[p].ready_n = s.link[p].ready_n

LEMMA DisaggregateQuits ==
  ASSUME NEW s, Inv(s), NEW p \in Port, NEW notify \in BOOLEAN
  PROVE  Quits(s, Disaggregate(s, p, notify), p)
<1> DEFINE k == s.link[p].agg
           w == DisableCollectingDistributing(s, p)
           t == DetachMux(w, p, notify)
           v == SetAgg(t, k, Vacate(t.agg[k], p))
           l == Unselected(t.link[p])
           u == SetLink(v, p, l)
<1>0. s \in DaemonState BY DEF Inv
<1>1. Disaggregate(s, p, notify) \in {s, u} BY DEF Disaggregate
<1>2. w \in DaemonState BY <1>0, DisableQuiet DEF Quiet, Calm
<1>3. Spares(s, w) BY <1>0, DisableSpares
<1>4. /\ w.link[p].ready_n = s.link[p].ready_n
      /\ \A q \in Port \ {p} : w.link[q] = s.link[q]
  <2> DEFINE b == SetAgg(s, k, [s.agg[k] EXCEPT !.receive_state = @ - 1])
             n == Ntt(s.link[p])
             x == SetLink(b, p, n)
  <2>1. w \in {s, x} BY DEF DisableCollectingDistributing
  <2>2. Shaped(b) /\ b.link = s.link BY <1>0, ShapedState, SetAggFrame
  <2>3. n.ready_n = s.link[p].ready_n BY <1>0, LinkType, NttRests
  <2> HIDE DEF b, n, w
  <2>4. x.link[p] = n /\ \A q \in Port \ {p} : x.link[q] = b.link[q] BY <2>2, SetLinkFrame
  <2> HIDE DEF x
  <2> QED BY <2>1, <2>2, <2>3, <2>4
<1> HIDE DEF w
<1>5. t \in DaemonState BY <1>2, DetachQuiet DEF Quiet, Calm
<1>6. SameTables(w, t) /\ t.link = w.link BY <1>2, DetachMuxFrame DEF Untouched
<1> HIDE DEF t
<1>7. Shaped(v) /\ SameTables(t, v) /\ v.link = t.link BY <1>5, ShapedState, SetAggFrame
<1>8. Rests(l, t.link[p]) /\ l.ready_n = t.link[p].ready_n BY <1>5, LinkType, UnselectedRests
<1> HIDE DEF v, l
<1>9. Spares(v, u) /\ u.link[p] = l /\ \A q \in Port \ {p} : u.link[q] = v.link[q]
  BY <1>7, <1>8, SetLinkFrame, SetLinkSpares
<1> HIDE DEF u
<1>10. Spares(s, u)
  <2>1. Spares(w, t) /\ Spares(t, v) BY <1>6, <1>7, SameSpares
  <2> QED BY <1>3, <1>9, <2>1, SparesTrans
<1>11. u.link[p].ready_n = s.link[p].ready_n BY <1>4, <1>6, <1>8, <1>9
<1>12. \A q \in Port \ {p} : u.link[q] = s.link[q] BY <1>4, <1>6, <1>7, <1>9
<1>13. Quits(s, u, p) BY <1>10, <1>11, <1>12 DEF Quits
<1>14. Quits(s, s, p) BY SparesRefl DEF Quits
<1> QED BY <1>1, <1>13, <1>14

----------------------------------------------------------------------------
(* What the selection logic leaves alone.                                  *)

LEMMA StandbyRests ==
  ASSUME NEW l \in Link PROVE Rests([l EXCEPT !.selected = "STANDBY"], l)
  BY ZenonT(40) DEF Link, Rests, SameFace, SameRcv, SamePeriodic, SameChurn, SameMux,
                    SameSystem, Owed

LEMMA MatchRests ==
  ASSUME NEW l \in Link, NEW b \in BOOLEAN
  PROVE  LET m == [l EXCEPT !.match = b] IN
         Rests(m, l) /\ m.ready_n = l.ready_n /\ m.selected = l.selected
<1> DEFINE m == [l EXCEPT !.match = b]
<1>1. Rests(m, l)
  BY ZenonT(40) DEF Link, Rests, SameFace, SameRcv, SamePeriodic, SameChurn, SameMux,
                    SameSystem, Owed
<1>2. m.ready_n = l.ready_n BY ZenonT(40) DEF Link
<1>3. m.selected = l.selected BY ZenonT(40) DEF Link
<1> QED BY <1>1, <1>2, <1>3

LEMMA StandbySpares ==
  ASSUME NEW s, Inv(s), NEW p \in Port
  PROVE  Spares(s, Standby(s, p))
<1> DEFINE t == Disaggregate(s, p, TRUE)
           l == [t.link[p] EXCEPT !.selected = "STANDBY"]
<1>1. Spares(s, t) BY DisaggregateQuits DEF Quits
<1>2. t \in DaemonState BY DisaggregateKeeps DEF Inv
<1>3. Standby(s, p) = SetLink(t, p, l) BY DEF Standby
<1> HIDE DEF t
<1>4. Rests(l, t.link[p]) BY <1>2, LinkType, StandbyRests
<1>5. Spares(t, SetLink(t, p, l)) BY <1>2, <1>4, ShapedState, SetLinkSpares
<1> QED BY <1>1, <1>3, <1>5, SparesTrans

\* The mux machine waits for a link only if the link has been offered a place.
Willing(l) == l.mux = "WAITING" => l.selected # "UNSELECTED"

\* A link that was in standby is ready at once, so that nothing is owed to it.
LEMMA SelectedRests ==
  ASSUME NEW l \in Link, NEW m \in Link, NEW k \in Key, Rests(m, l), m.ready_n = l.ready_n,
         Willing(l), m = l \/ l.selected = "SELECTED"
  PROVE  Rests(Selected(m, k), l)
<1> DEFINE b == m.ready_n \/ m.selected = "STANDBY"
           n == [m EXCEPT !.agg = k, !.selected = "SELECTED", !.ntt = TRUE, !.ready_n = b]
<1>1. Selected(m, k) = n BY DEF Selected
<1>2. n.ready_n = b BY ZenonT(40) DEF Link
<1>3. /\ SameFace(n, m) /\ SameRcv(n, m) /\ SamePeriodic(n, m) /\ SameChurn(n, m)
      /\ SameSystem(n, m) /\ n.mux = m.mux /\ n.wait_while = m.wait_while
  BY ZenonT(40) DEF Link, SameFace, SameRcv, SamePeriodic, SameChurn, SameSystem
<1> HIDE DEF n
<1>4. l.selected \in {"UNSELECTED", "SELECTED", "STANDBY"} BY ZenonT(40) DEF Link
<1>5. m.mux = l.mux /\ m.wait_while = l.wait_while BY DEF Rests, SameMux
<1>6. Owed(n) => Owed(l) BY <1>2, <1>3, <1>4, <1>5 DEF Owed, Willing
<1>7. SameMux(n, l) BY <1>3, <1>5, <1>6 DEF SameMux
<1>8. Rests(n, l)
  BY <1>3, <1>7 DEF Rests, SameFace, SameRcv, SamePeriodic, SameChurn, SameSystem
<1> QED BY <1>1, <1>8

LEMMA AggregateSpares ==
  ASSUME NEW s, Inv(s), NEW k \in Key, NEW p \in Port, Willing(s.link[p])
  PROVE  Spares(s, Aggregate(s, k, p))
<1> DEFINE t == LeaveOther(s, k, p)
           l == Selected(t.link[p], k)
           u == SetLink(t, p, l)
           a == Occupy(t.agg[k], p)
           v == SetAgg(u, k, a)
<1>1. /\ t \in DaemonState /\ Spares(s, t) /\ t.link[p].ready_n = s.link[p].ready_n
      /\ t.link[p] = s.link[p] \/ s.link[p].selected = "SELECTED"
  <2>1. CASE s.link[p].agg \in {NoAgg, k}
    <3>1. t = s BY <2>1 DEF LeaveOther
    <3> QED BY <3>1, SparesRefl DEF Inv
  <2>2. CASE s.link[p].agg \notin {NoAgg, k}
    <3>1. t = Disaggregate(s, p, TRUE) BY <2>2 DEF LeaveOther
    <3>2. s.link[p].selected = "SELECTED" BY <2>2 DEF Inv, Sel
    <3>3. t \in DaemonState BY <3>1, DisaggregateKeeps DEF Inv
    <3>4. Quits(s, t, p) BY <3>1, DisaggregateQuits
    <3> QED BY <3>2, <3>3, <3>4 DEF Quits
  <2> QED BY <2>1, <2>2
<1>2. Aggregate(s, k, p) \in {t, u, v} BY ZenonT(40) DEF Aggregate, TakeSlot
<1> HIDE DEF t
<1>3. Rests(l, s.link[p])
  <2>1. s.link[p] \in Link /\ t.link[p] \in Link BY <1>1, LinkType DEF Inv
  <2>2. Rests(t.link[p], s.link[p]) BY <1>1 DEF Spares
  <2> QED BY <1>1, <2>1, <2>2, SelectedRests
<1> HIDE DEF l
<1>4. /\ Shaped(u) /\ SameTables(t, u) /\ u.link[p] = l
      /\ \A q \in Port \ {p} : u.link[q] = t.link[q]
  BY <1>1, ShapedState, SetLinkFrame
<1> HIDE DEF u
<1>5. Spares(s, u)
  <2>1. \A q \in Port : Rests(u.link[q], s.link[q]) BY <1>1, <1>3, <1>4 DEF Spares
  <2> QED BY <1>1, <1>4, <2>1 DEF Spares, SameTables
<1>6. SameTables(u, v) /\ v.link = u.link BY <1>4, SetAggFrame
<1> HIDE DEF v
<1>7. Spares(s, v) BY <1>5, <1>6, SameSpares, SparesTrans
<1> QED BY <1>1, <1>2, <1>5, <1>7

LEMMA CreateFrame ==
  ASSUME NEW s \in DaemonState, NEW k
  PROVE  Untouched(s, CreateAggregator(s, k))
<1> DEFINE a == [FreeAgg EXCEPT !.alive = TRUE]
           t == SetAgg(s, k, a)
           u == [t EXCEPT !.agg_cnt = t.agg_cnt + 1]
<1>1. CreateAggregator(s, k) \in {s, u} BY DEF CreateAggregator
<1> HIDE DEF a
<1>2. Shaped(t) /\ SameTables(s, t) /\ t.link = s.link BY ShapedState, SetAggFrame
<1> HIDE DEF t
<1>3. SameTables(t, u) /\ u.link = t.link BY <1>2, CountFrame
<1> HIDE DEF u
<1> QED BY <1>1, <1>2, <1>3 DEF SameTables, Untouched

\* The reference of p is counted, or released: nothing but its flag changes.
Flags(s, u, p) ==
    /\ Spares(s, u) /\ u.link[p].selected = s.link[p].selected
    /\ \A q \in Port \ {p} : u.link[q] = s.link[q]

LEMMA MatchFlags ==
  ASSUME NEW s \in DaemonState, NEW k, NEW p \in Port, NEW n, NEW b \in BOOLEAN
  PROVE  Flags(s, SetLink(SetAgg(s, k, [s.agg[k] EXCEPT !.refCnt = n]),
                          p, [s.link[p] EXCEPT !.match = b]), p)
<1> DEFINE a == [s.agg[k] EXCEPT !.refCnt = n]
           l == [s.link[p] EXCEPT !.match = b]
           t == SetAgg(s, k, a)
           u == SetLink(t, p, l)
<1> HIDE DEF a
<1>1. Shaped(t) /\ SameTables(s, t) /\ t.link = s.link BY ShapedState, SetAggFrame
<1>2. Rests(l, s.link[p]) /\ l.selected = s.link[p].selected BY LinkType, MatchRests
<1> HIDE DEF t, l
<1>3. Spares(t, u) /\ u.link[p] = l /\ \A q \in Port \ {p} : u.link[q] = t.link[q]
  BY <1>1, <1>2, SetLinkFrame, SetLinkSpares
<1> HIDE DEF u
<1>4. Spares(s, u) BY <1>1, <1>3, SameSpares, SparesTrans
<1>5. Flags(s, u, p) BY <1>1, <1>2, <1>3, <1>4 DEF Flags
<1> QED BY <1>5 DEF u, t, l, a

\* Another link gives up its place at most; p itself has the readiness it had.
LEMMA AttemptSpares ==
  ASSUME NEW s, Inv(s), NEW p \in Port, Live(s) \/ ~IsEnabled(s.link[p]), Willing(s.link[p])
  PROVE  Spares(s, AttemptToAggregate(s, p))
<1> DEFINE k == SearchForAggregator(s, p)
           c == CreateAggregator(s, k)
           t == CountReference(c, k, p)
<1>1. k \in Key \cup {NoAgg} BY SearchType
<1>2. CASE ~IsEnabled(s.link[p])
  <2>1. AttemptToAggregate(s, p) = s BY <1>2, Zenon DEF AttemptToAggregate
  <2> QED BY <2>1, SparesRefl
<1>3. CASE IsEnabled(s.link[p]) /\ k = NoAgg
  <2>1. AttemptToAggregate(s, p) = Standby(s, p) BY <1>3, Zenon DEF AttemptToAggregate
  <2> QED BY <2>1, StandbySpares
<1>4. CASE IsEnabled(s.link[p]) /\ k # NoAgg
  <2>1. k \in Key /\ Live(s) BY <1>1, <1>4
  <2> DEFINE d == Disaggregate(t, Victim(t, k, p), TRUE)
             r == CASE t.link[p].agg = k -> t
                    [] t.link[p].agg # k /\ HasRoom(t.agg[k]) -> Aggregate(t, k, p)
                    [] OTHER -> IF Replaceable(t, k, p) = {} THEN Standby(t, p)
                                ELSE Aggregate(d, k, p)
  <2>6. AttemptToAggregate(s, p) = r BY <1>4, Zenon DEF AttemptToAggregate
  <2> HIDE DEF k
  <2>2. Inv(c) /\ Live(c) BY <1>1, <2>1, CreateKeeps
  <2>3. Spares(s, c) /\ c.link = s.link BY CreateFrame, SameSpares DEF Inv, Untouched
  <2> DEFINE x == SetLink(SetAgg(c, k, [c.agg[k] EXCEPT !.refCnt = Incr(c.agg[k].refCnt)]),
                          p, [c.link[p] EXCEPT !.match = TRUE])
  <2>4. t \in {c, x} BY DEF CountReference
  <2> HIDE DEF c
  <2>5. Flags(c, x, p) BY <2>2, MatchFlags DEF Inv
  <2> HIDE DEF x
  <2>7. Spares(c, t) /\ t.link[p].selected = c.link[p].selected BY <2>4, <2>5, SparesRefl DEF Flags
  <2>8. Quiet(c, t) BY <1>1, <2>2, CountReferenceQuiet DEF Inv
  <2> HIDE DEF t
  <2>9. Inv(t) BY <2>2, <2>8, QuietKeeps DEF Keeps
  <2>10. Spares(s, t) BY <2>3, <2>7, SparesTrans
  <2>11. Willing(t.link[p])
    <3>1. t.link[p].mux = s.link[p].mux BY <2>10 DEF Spares, Rests, SameMux
    <3> QED BY <2>3, <2>7, <3>1 DEF Willing
  <2>12. Spares(t, Aggregate(t, k, p)) BY <2>1, <2>9, <2>11, AggregateSpares
  <2>13. Spares(t, Standby(t, p)) BY <2>9, StandbySpares
  <2>14. ASSUME Replaceable(t, k, p) # {} PROVE Spares(t, Aggregate(d, k, p))
    <3>1. PICK v \in Port : v = Victim(t, k, p) /\ v # p BY <2>1, <2>9, <2>14, VictimIs DEF Inv
    <3>2. d = Disaggregate(t, v, TRUE) BY <3>1
    <3> HIDE DEF d
    <3>3. Inv(d) BY <2>9, <3>2, DisaggregateKeeps
    <3>6. Quits(t, d, v) BY <2>9, <3>2, DisaggregateQuits
    <3>4. Spares(t, d) /\ d.link[p] = t.link[p] BY <3>1, <3>6 DEF Quits
    <3>5. Spares(d, Aggregate(d, k, p)) BY <2>1, <2>11, <3>3, <3>4, AggregateSpares
    <3> QED BY <3>4, <3>5, SparesTrans
  <2>15. Spares(t, r) BY <2>12, <2>13, <2>14, SparesRefl, Zenon
  <2> HIDE DEF r
  <2> QED BY <2>6, <2>10, <2>15, SparesTrans
<1> QED BY <1>2, <1>3, <1>4

LEMMA ReadyLogicFrame == ASSUME NEW s \in DaemonState PROVE Untouched(s, ReadyLogic(s))
<1> DEFINE f == [k \in Key |-> Readied(s, s.agg[k])]
           t == [s EXCEPT !.agg = f]
<1> HIDE DEF f
<1>1. t.link = s.link /\ t.links = s.links /\ t.ifg = s.ifg BY Zenon DEF DaemonState
<1> HIDE DEF t
<1>2. Untouched(s, t) BY <1>1 DEF Untouched, SameTables
<1> QED BY <1>2 DEF t, f, ReadyLogic
----------------------------------------------------------------------------
(* What the release of links and aggregators leaves alone.                 *)

LEMMA FreeFrame == ASSUME NEW s \in DaemonState, NEW k PROVE Untouched(s, FreeAggregator(s, k))
<1> DEFINE t == SetAgg(s, k, FreeAgg)
           n == IF t.agg_cnt > 0 THEN t.agg_cnt - 1 ELSE 0
           u == [t EXCEPT !.agg_cnt = n]
<1>1. Shaped(t) /\ SameTables(s, t) /\ t.link = s.link BY ShapedState, SetAggFrame
<1>2. FreeAggregator(s, k) = u BY DEF FreeAggregator
<1> HIDE DEF t, n
<1>3. SameTables(t, u) /\ u.link = t.link BY <1>1, CountFrame
<1> HIDE DEF u
<1> QED BY <1>1, <1>2, <1>3 DEF SameTables, Untouched

LEMMA DeleteAtNsmFrame ==
  ASSUME NEW s \in DaemonState, NEW k PROVE Untouched(s, DeleteAtNsm(s, k))
<1> DEFINE a == [s.agg[k] EXCEPT !.installed = FALSE]
           t == [SetAgg(s, k, a) EXCEPT !.nsm[k] = {}]
<1>1. DeleteAtNsm(s, k) \in {s, t} BY DEF DeleteAtNsm
<1> HIDE DEF a
<1>2. Untouched(s, t) BY InstallFrame
<1> HIDE DEF t
<1> QED BY <1>1, <1>2 DEF Untouched, SameTables

LEMMA ReleaseFlags ==
  ASSUME NEW s \in DaemonState, NEW p \in Port
  PROVE  Flags(s, ReleaseReference(s, p), p)
<1> DEFINE k == AggregatorOf(s, p)
           n == Decr(s.agg[k].refCnt)
           t == SetLink(SetAgg(s, k, [s.agg[k] EXCEPT !.refCnt = n]),
                        p, [s.link[p] EXCEPT !.match = FALSE])
<1>1. ReleaseReference(s, p) \in {s, t} BY DEF ReleaseReference
<1> HIDE DEF k, n
<1>2. Flags(s, t, p) BY MatchFlags
<1> HIDE DEF t
<1>3. Flags(s, s, p) BY SparesRefl DEF Flags
<1> QED BY <1>1, <1>2, <1>3

LEMMA LeaveSpares ==
  ASSUME NEW s, Inv(s), NEW p \in Port, NEW notify \in BOOLEAN
  PROVE  Spares(s, LeaveAggregator(s, p, notify)) /\ LeaveAggregator(s, p, notify) \in DaemonState
<1> DEFINE k == AggregatorOf(s, p)
           d == Disaggregate(s, p, notify)
           t == CASE s.link[p].agg # NoAgg -> d
                  [] s.link[p].agg = NoAgg /\ k # NoAgg /\ s.agg[k].refCnt = 0 -> DeleteAtNsm(s, k)
                  [] OTHER -> s
           u == FreeAggregator(t, k)
<1>0. s \in DaemonState BY DEF Inv
<1>1. k \in Key \cup {NoAgg} BY <1>0, AggregatorOfType
<1>2. d \in DaemonState /\ Spares(s, d) BY DisaggregateKeeps, DisaggregateQuits DEF Inv, Quits
<1>3. ASSUME k # NoAgg PROVE DeleteAtNsm(s, k) \in DaemonState /\ Spares(s, DeleteAtNsm(s, k))
  <2> HIDE DEF k
  <2>1. k \in Key BY <1>1, <1>3
  <2>2. Quiet(s, DeleteAtNsm(s, k)) BY <1>0, <2>1, DeleteAtNsmQuiet
  <2>3. Untouched(s, DeleteAtNsm(s, k)) BY <1>0, DeleteAtNsmFrame
  <2> QED BY <2>2, <2>3, SameSpares DEF Quiet, Calm, Untouched
<1>4. \/ LeaveAggregator(s, p, notify) = t
      \/ LeaveAggregator(s, p, notify) = u /\ k # NoAgg
  BY Zenon DEF LeaveAggregator
<1>5. t \in DaemonState /\ Spares(s, t)
  <2> HIDE DEF d, k
  <2>1. Spares(s, s) BY SparesRefl
  <2> QED BY <1>0, <1>2, <1>3, <2>1, Zenon
<1> HIDE DEF t
<1>6. Spares(s, u)
  <2>1. Untouched(t, u) BY <1>5, FreeFrame
  <2> HIDE DEF u
  <2> QED BY <1>5, <2>1, SameSpares, SparesTrans DEF Untouched
<1>7. k # NoAgg => u \in DaemonState
  <2> SUFFICES ASSUME k # NoAgg PROVE u \in DaemonState OBVIOUS
  <2> DEFINE v == SetAgg(t, k, FreeAgg)
             n == IF v.agg_cnt > 0 THEN v.agg_cnt - 1 ELSE 0
  <2> HIDE DEF k
  <2>1. v \in DaemonState BY <1>1, <1>5, FreeAggType, SetAggIs
  <2>2. n \in Nat BY <2>1, CountType, SMT
  <2>3. u = [v EXCEPT !.agg_cnt = n] BY DEF FreeAggregator
  <2> HIDE DEF u, v, n
  <2> QED BY <2>1, <2>2, <2>3, SetCountCalm DEF Calm
<1> HIDE DEF u, k
<1> QED BY <1>4, <1>5, <1>6, <1>7

\* Only link p changes in what the machines see; its keeper and key stay.
Only(s, t, p) ==
    /\ SameTables(s, t) /\ SameFace(t.link[p], s.link[p])
    /\ \A q \in Port \ {p} : Rests(t.link[q], s.link[q])
Tidies(s, t, p) == Only(s, t, p) /\ SameSystem(t.link[p], s.link[p])

LEMMA OnlyRefl == ASSUME NEW s, NEW p \in Port PROVE Only(s, s, p)
  BY RestsRefl DEF Only, SameTables, SameFace

LEMMA OnlyTrans ==
  ASSUME NEW s, NEW t, NEW u, NEW p \in Port, Only(s, t, p), Only(t, u, p)
  PROVE  Only(s, u, p)
<1>1. SameTables(s, u) /\ SameFace(u.link[p], s.link[p]) BY DEF Only, SameTables, SameFace
<1>2. \A q \in Port \ {p} : Rests(u.link[q], s.link[q]) BY RestsTrans DEF Only
<1> QED BY <1>1, <1>2 DEF Only

LEMMA SparesOnly ==
  ASSUME NEW s, NEW t, NEW p \in Port, Spares(s, t)
  PROVE  Only(s, t, p)
  BY DEF Spares, Only, Rests

LEMMA SetLinkOnly ==
  ASSUME NEW s, Shaped(s), NEW p \in Port, NEW l, SameFace(l, s.link[p])
  PROVE  Only(s, SetLink(s, p, l), p)
<1> DEFINE t == SetLink(s, p, l)
<1>1. SameTables(s, t) /\ t.link[p] = l /\ \A q \in Port \ {p} : t.link[q] = s.link[q]
  BY SetLinkFrame
<1> HIDE DEF t
<1>2. Only(s, t, p) BY <1>1, RestsRefl DEF Only
<1> QED BY <1>2 DEF t

LEMMA TimersOffFace ==
  ASSUME NEW l \in Link
  PROVE  SameFace(TimersOff(l), l) /\ SameSystem(TimersOff(l), l)
  BY ZenonT(40) DEF TimersOff, Link, SameFace, SameSystem

LEMMA CleanupTidies ==
  ASSUME NEW s, Inv(s), NEW p \in Port, NEW notify \in BOOLEAN
  PROVE  Tidies(s, LinkCleanup(s, p, notify), p)
<1> DEFINE t == LeaveAggregator(s, p, notify)
           l == TimersOff(t.link[p])
           u == SetLink(t, p, l)
<1>1. Spares(s, t) /\ t \in DaemonState BY LeaveSpares
<1>2. LinkCleanup(s, p, notify) = u BY DEF LinkCleanup
<1> HIDE DEF t
<1>3. SameFace(l, t.link[p]) /\ SameSystem(l, t.link[p]) BY <1>1, LinkType, TimersOffFace
<1> HIDE DEF l
<1>4. Only(t, u, p) /\ u.link[p] = l BY <1>1, <1>3, ShapedState, SetLinkOnly, SetLinkFrame
<1> HIDE DEF u
<1>5. Only(s, u, p) BY <1>1, <1>4, SparesOnly, OnlyTrans
<1>6. SameSystem(u.link[p], s.link[p]) BY <1>1, <1>3, <1>4 DEF Spares, Rests, SameSystem
<1> QED BY <1>2, <1>5, <1>6 DEF Tidies

LEMMA DroppedRests == ASSUME NEW l \in Link PROVE Rests(Dropped(l), l)
<1> DEFINE m == Unselected(l)
<1>1. m \in Link BY UnselectedType
<1>2. Rests(m, l) BY UnselectedRests
<1>3. Dropped(l) = [m EXCEPT !.match = FALSE] BY DEF Dropped
<1> HIDE DEF m
<1>4. Rests(Dropped(l), m) BY <1>1, <1>3, MatchRests
<1> QED BY <1>2, <1>4, RestsTrans

\* The links change, the tables do not.
Relinks(s, t, f) == SameTables(s, t) /\ t.link = f

LEMMA RelinkFrame ==
  ASSUME NEW s, Shaped(s), NEW f, NEW k, NEW P
  PROVE  Relinks(s, [s EXCEPT !.link = f, !.nsm[k] = P], f)
  BY SMT DEF Shaped, SameTables, Relinks

LEMMA DetachLinksSpares ==
  ASSUME NEW s \in DaemonState, NEW k, NEW notify
  PROVE  Spares(s, DetachLinks(s, k, notify))
<1> DEFINE a == s.agg[k]
           gone == Members(a)
           linkCnt == Cardinality(Occupied(a))
           left == [a EXCEPT !.slot = [i \in Slot |-> NoLink], !.receive_state = 0,
                             !.refCnt = (a.refCnt + 256 - linkCnt) % 256,
                             !.installed = a.installed /\ a.refCnt \notin 1..linkCnt]
           b == SetAgg(s, k, left)
           f == [p \in Port |-> IF p \in gone THEN Dropped(s.link[p]) ELSE s.link[p]]
           P == IF notify THEN b.nsm[k] \ gone ELSE b.nsm[k]
           t == [b EXCEPT !.link = f, !.nsm[k] = P]
<1>1. DetachLinks(s, k, notify) \in {s, t} BY Zenon DEF DetachLinks
<1> HIDE DEF left
<1>2. Shaped(b) /\ SameTables(s, b) BY ShapedState, SetAggFrame
<1> HIDE DEF b, P
<1>3. \A q \in Port : Rests(f[q], s.link[q])
  <2> HIDE DEF gone
  <2> QED BY LinkType, DroppedRests, RestsRefl
<1> HIDE DEF f
<1>4. Relinks(b, t, f) BY <1>2, RelinkFrame
<1> HIDE DEF t
<1>5. Spares(s, t) BY <1>2, <1>3, <1>4 DEF Spares, SameTables, Relinks
<1> QED BY <1>1, <1>5, SparesRefl
----------------------------------------------------------------------------
(* The list of the selection logic.                                        *)

\* The list holds enabled links only, and all of them unless it is full.
Listed(s) ==
    /\ s.links \subseteq EnabledLinks(s)
    /\ s.links = EnabledLinks(s) \/ Cardinality(s.links) = MaxLinks

\* A link that has an interface has one that is there.
Bound(s) == \A p \in Port : s.link[p].ifp => s.ifg[p].present

LEMMA OnlyEnabled ==
  ASSUME NEW s, NEW t, NEW p \in Port, Only(s, t, p)
  PROVE  EnabledLinks(t) = EnabledLinks(s) /\ (Listed(s) => Listed(t)) /\ (Bound(s) => Bound(t))
<1>1. \A q \in Port : SameFace(t.link[q], s.link[q]) BY DEF Only, Rests
<1>2. EnabledLinks(t) = EnabledLinks(s) BY <1>1 DEF EnabledLinks, IsEnabled, SameFace
<1>3. t.links = s.links /\ t.ifg = s.ifg BY DEF Only, SameTables
<1>4. Bound(s) => Bound(t) BY <1>1, <1>3 DEF Bound, SameFace
<1> QED BY <1>2, <1>3, <1>4 DEF Listed

LEMMA PortFinite == IsFiniteSet(Port) /\ Port \subseteq Nat
<1>1. IsFiniteSet(1..MaxShort) BY ShortType, FS_Interval, SMT
<1>2. IsFiniteSet(Port) BY <1>1, PortAssumption, FS_Subset
<1> QED BY <1>2, PortAssumption, ShortType, SMT

LEMMA BelowCount ==
  ASSUME NEW E \in SUBSET Port, NEW e
  PROVE  LET F == {q \in E : q < e} IN IsFiniteSet(F) /\ Cardinality(F) \in Nat
<1> DEFINE F == {q \in E : q < e}
<1>1. F \subseteq Port OBVIOUS
<1> HIDE DEF F
<1>2. IsFiniteSet(F) BY <1>1, PortFinite, FS_Subset
<1>3. Cardinality(F) \in Nat BY <1>2, FS_CardinalityType
<1> QED BY <1>2, <1>3 DEF F

LEMMA NatOrder ==
  /\ \A a, b \in Nat : a < b \/ b <= a
  /\ \A a, b, c \in Nat : a < b /\ b <= c => a < c
  /\ \A a, b \in Nat : a <= b /\ a # b => a < b
  /\ \A a, b \in Nat : a < b => a <= b
  BY SMT

\* The first MaxLinks of the enabled links are MaxLinks of them, or all.
First(E) == {p \in E : Cardinality({q \in E : q < p}) < MaxLinks}

LEMMA FirstFills ==
  ASSUME NEW E \in SUBSET Port
  PROVE  First(E) = E \/ Cardinality(First(E)) = MaxLinks
<1> SUFFICES ASSUME First(E) # E PROVE Cardinality(First(E)) = MaxLinks OBVIOUS
<1> DEFINE Below(e) == {q \in E : q < e}
<1>0. E \subseteq Nat /\ First(E) \subseteq E BY PortFinite DEF First
<1>1. PICK e \in E \ First(E) : \A d \in E \ First(E) : e <= d
  <2>1. E \ First(E) # {} /\ E \ First(E) \subseteq Nat BY <1>0
  <2> QED BY <2>1, LeastNat
<1>2. \A x \in E : x \in First(E) <=> Cardinality(Below(x)) < MaxLinks BY DEF First
<1>3. \A x : IsFiniteSet(Below(x)) /\ Cardinality(Below(x)) \in Nat BY BelowCount
<1>4. MaxLinks \in Nat BY LimitAssumption
<1>5. Cardinality(Below(e)) >= MaxLinks BY <1>1, <1>2, <1>3, <1>4, SMT
<1>6. ASSUME NEW q \in Below(e) PROVE q \in First(E)
  <2>1. q \in E /\ q \in Nat /\ e \in Nat /\ ~(e <= q) BY <1>0, <1>1, <1>6, SMT
  <2> QED BY <1>1, <2>1
<1>7. ASSUME NEW q \in First(E) PROVE q \in Below(e)
  <2> SUFFICES ASSUME ~(q < e) PROVE FALSE BY <1>0, <1>7
  <2>1. q \in Nat /\ e \in Nat BY <1>0, <1>1
  <2>5. e <= q BY <2>1, NatOrder
  <2>2. Below(e) \subseteq Below(q)
    <3> SUFFICES ASSUME NEW x \in E, x < e PROVE x < q OBVIOUS
    <3>1. x \in Nat BY <1>0
    <3> QED BY <2>1, <2>5, <3>1, NatOrder
  <2> HIDE DEF Below
  <2>3. Cardinality(Below(e)) <= Cardinality(Below(q)) BY <1>3, <2>2, FS_Subset
  <2>4. Cardinality(Below(q)) < MaxLinks BY <1>0, <1>2
  <2> QED BY <1>3, <1>4, <1>5, <2>3, <2>4, SMT
<1>8. First(E) = Below(e) BY <1>6, <1>7
<1>9. ~(Cardinality(Below(e)) > MaxLinks)
  <2> SUFFICES ASSUME Cardinality(Below(e)) > MaxLinks PROVE FALSE OBVIOUS
  <2>1. Below(e) # {}
    <3> HIDE DEF Below
    <3> SUFFICES ASSUME Below(e) = {} PROVE FALSE OBVIOUS
    <3>1. Cardinality(Below(e)) = 0 BY FS_EmptySet
    <3> QED BY <1>4, <3>1, SMT
  <2>2. Below(e) \subseteq Nat /\ \A x \in Below(e) : x <= e
    <3> SUFFICES ASSUME NEW x \in E, x < e PROVE x \in Nat /\ x <= e OBVIOUS
    <3>1. x \in Nat /\ e \in Nat BY <1>0, <1>1
    <3> QED BY <3>1, NatOrder
  <2>3. PICK g \in Below(e) : \A x \in Below(e) : x <= g
    <3> HIDE DEF Below
    <3>1. e \in Nat BY <1>0, <1>1
    <3> QED BY <2>1, <2>2, <3>1, GreatestNat
  <2>4. Below(e) \ {g} \subseteq Below(g)
    <3> SUFFICES ASSUME NEW x \in Below(e), x # g PROVE x < g OBVIOUS
    <3>1. x \in Nat /\ g \in Nat /\ x <= g BY <2>2, <2>3
    <3> QED BY <3>1, NatOrder
  <2>5. Cardinality(Below(e) \ {g}) = Cardinality(Below(e)) - 1
    <3> HIDE DEF Below
    <3> QED BY <1>3, <2>3, FS_RemoveElement
  <2>6. Cardinality(Below(g)) < MaxLinks BY <1>2, <1>8, <2>3
  <2> HIDE DEF Below
  <2>7. Cardinality(Below(e) \ {g}) <= Cardinality(Below(g)) BY <1>3, <2>4, FS_Subset
  <2> QED BY <1>3, <1>4, <2>5, <2>6, <2>7, SMT
<1> HIDE DEF Below
<1> QED BY <1>3, <1>4, <1>5, <1>8, <1>9, SMT

\* The list changes, the links do not.
Relists(s, t) == t.link = s.link /\ t.ifg = s.ifg

LEMMA ListFrame ==
  ASSUME NEW s, Shaped(s), NEW L
  PROVE  Relists(s, [s EXCEPT !.links = L]) /\ [s EXCEPT !.links = L].links = L
  BY SMT DEF Shaped, Relists

LEMMA UpdateSelectionLists ==
  ASSUME NEW s \in DaemonState
  PROVE  Relists(s, UpdateSelection(s)) /\ Listed(UpdateSelection(s))
<1> DEFINE L == First(EnabledLinks(s))
           t == [s EXCEPT !.links = L]
<1>1. UpdateSelection(s) = t BY DEF UpdateSelection, First
<1>2. EnabledLinks(s) \in SUBSET Port BY DEF EnabledLinks
<1>3. L \subseteq EnabledLinks(s) /\ (L = EnabledLinks(s) \/ Cardinality(L) = MaxLinks)
  <2>1. L \subseteq EnabledLinks(s) BY DEF First
  <2> QED BY <1>2, <2>1, FirstFills
<1> HIDE DEF L
<1>4. Relists(s, t) /\ t.links = L BY ShapedState, ListFrame
<1> HIDE DEF t
<1>5. EnabledLinks(t) = EnabledLinks(s) BY <1>4 DEF Relists, EnabledLinks
<1> QED BY <1>1, <1>3, <1>4, <1>5 DEF Listed

\* A link becomes enabled: it takes a place, unless the list is full.
LEMMA AddLinkLists ==
  ASSUME NEW s \in DaemonState, NEW p \in Port, NEW r, Listed(r), s.links = r.links,
         EnabledLinks(s) = EnabledLinks(r) \cup {p}, IsEnabled(s.link[p])
  PROVE  Relists(s, SelectionAddLink(s, p)) /\ Listed(SelectionAddLink(s, p))
<1> DEFINE L == s.links \cup {p}
           t == [s EXCEPT !.links = L]
<1>1. CASE Cardinality(s.links) = MaxLinks
  <2>1. SelectionAddLink(s, p) = s BY <1>1 DEF SelectionAddLink
  <2>2. Listed(s) BY <1>1 DEF Listed
  <2> QED BY <2>1, <2>2 DEF Relists
<1>2. CASE Cardinality(s.links) # MaxLinks
  <2>1. SelectionAddLink(s, p) = t BY <1>2 DEF SelectionAddLink
  <2>2. L = EnabledLinks(s) BY <1>2 DEF Listed
  <2> HIDE DEF L
  <2>3. Relists(s, t) /\ t.links = L BY ShapedState, ListFrame
  <2> HIDE DEF t
  <2>4. EnabledLinks(t) = EnabledLinks(s) BY <2>3 DEF Relists, EnabledLinks
  <2> QED BY <2>1, <2>2, <2>3, <2>4 DEF Listed
<1> QED BY <1>1, <1>2
=============================================================================
