------------------------------ MODULE GarpProofs ------------------------------
(***************************************************************************)
(* Garp.Spec keeps TypeOK, NothingStalls and DeclaresForOthers, for any       *)
(* number of ports.  A step is one port's own, or one in which a port comes   *)
(* to register the VLAN or stops: SameDeclared, JoinCounted and LeaveCounted   *)
(* say what each does to the count and to who declares, and the lemmas on      *)
(* the machines say which of them a handler is.                              *)
(***************************************************************************)
EXTENDS Garp, FiniteSetTheorems, TLAPS

Event == RcvEvent \cup {"JOIN", "LEAVE"}

\* A machine that may still ask for timers.
Owed(g) ==
    /\ g \in Gid
    /\ Speaks(g.applicant) => g.join_running \/ g.tx_pending \/ g.cstart_join \/ g.countdown = 0
    /\ g.registrar \in Leaving => g.leave_running \/ g.cstart_leave
    /\ ~g.known => g.applicant = "VO" /\ g.registrar = "MT"

\* One that has them.
Settled(g) ==
    /\ g \in Gid
    /\ Speaks(g.applicant) => g.join_running
    /\ g.registrar \in Leaving => g.leave_running
    /\ ~g.cstart_join /\ ~g.cstart_leave
    /\ ~g.known => g.applicant = "VO" /\ g.registrar = "MT"

----------------------------------------------------------------------------

LEMMA Fields ==
    ASSUME NEW g \in Gid
    PROVE  /\ g.on = TRUE /\ g.applicant \in Applicant /\ g.registrar \in Registrar
           /\ g.known \in BOOLEAN /\ g.cstart_join \in BOOLEAN /\ g.cstart_leave \in BOOLEAN
           /\ g.tx_pending \in BOOLEAN /\ g.join_running \in BOOLEAN
           /\ g.leave_running \in BOOLEAN /\ g.leave_all_running \in BOOLEAN
           /\ g.countdown \in 0..GID_LEAVE_ALL_COUNT
BY DEF Gid

\* A machine stays one when a field is set to a value of it.
LEMMA Setting ==
    ASSUME NEW g \in Gid
    PROVE  /\ \A x \in Applicant : [g EXCEPT !.applicant = x] \in Gid
           /\ \A x \in Registrar : [g EXCEPT !.registrar = x] \in Gid
           /\ \A x \in BOOLEAN :
                /\ [g EXCEPT !.known = x] \in Gid
                /\ [g EXCEPT !.cstart_join = x] \in Gid
                /\ [g EXCEPT !.cstart_leave = x] \in Gid
                /\ [g EXCEPT !.tx_pending = x] \in Gid
                /\ [g EXCEPT !.join_running = x] \in Gid
                /\ [g EXCEPT !.leave_running = x] \in Gid
                /\ [g EXCEPT !.leave_all_running = x] \in Gid
           /\ \A x \in 0..GID_LEAVE_ALL_COUNT : [g EXCEPT !.countdown = x] \in Gid
BY DEF Gid

\* The applicant's table: who speaks afterwards spoke before or asks for the timer, a
\* message changes no membership, a join makes a member and a leave ends it.
LEMMA Tables ==
    ASSUME NEW a \in Applicant, NEW e \in Event
    PROVE  /\ applicant_garp_tt[e][a] \in Applicant
           /\ Speaks(applicant_garp_tt[e][a]) => Speaks(a) \/ StartsJoin(e, a)
           /\ e \in RcvEvent => (applicant_garp_tt[e][a] \in Member <=> a \in Member)
           /\ e = "JOIN" => applicant_garp_tt[e][a] \in Member
           /\ e = "LEAVE" => applicant_garp_tt[e][a] \notin Member
<1>1. CASE e = "RCV_LEAVE_EMPTY"
    BY <1>1 DEF applicant_garp_tt, Applicant, Member, Speaks, applicant_garp_txtt, StartsJoin, RcvEvent
<1>2. CASE e = "RCV_LEAVE_IN"
    BY <1>2 DEF applicant_garp_tt, Applicant, Member, Speaks, applicant_garp_txtt, StartsJoin, RcvEvent
<1>3. CASE e = "RCV_EMPTY"
    BY <1>3 DEF applicant_garp_tt, Applicant, Member, Speaks, applicant_garp_txtt, StartsJoin, RcvEvent
<1>4. CASE e = "RCV_JOIN_EMPTY"
    BY <1>4 DEF applicant_garp_tt, Applicant, Member, Speaks, applicant_garp_txtt, StartsJoin, RcvEvent
<1>5. CASE e = "RCV_JOIN_IN"
    BY <1>5 DEF applicant_garp_tt, Applicant, Member, Speaks, applicant_garp_txtt, StartsJoin, RcvEvent
<1>6. CASE e = "JOIN"
    BY <1>6 DEF applicant_garp_tt, Applicant, Member, Speaks, applicant_garp_txtt, StartsJoin, RcvEvent
<1>7. CASE e = "LEAVE"
    BY <1>7 DEF applicant_garp_tt, Applicant, Member, Speaks, applicant_garp_txtt, StartsJoin, RcvEvent
<1> QED BY <1>1, <1>2, <1>3, <1>4, <1>5, <1>6, <1>7 DEF Event, RcvEvent

\* The registrar only registers, or begins to leave when it was registered.
LEMMA RegistrarTable ==
    ASSUME NEW r \in Registrar, NEW e \in Event
    PROVE  /\ RegistrarNext(e, r) \in Registrar
           /\ RegistrarNext(e, r) # r => RegistrarNext(e, r) = "INN" \/ (r = "INN" /\ RegistrarNext(e, r) = "LV")
           /\ RegistrarNext(e, r) = "LV" => r = "LV" \/ RegistrarNext(e, "INN") = "LV"
           /\ RegistrarNext(e, "INN") \in {"INN", "LV"}
           /\ RegistrarNext(e, r) = "MT" => r = "MT"
           /\ e \in {"JOIN", "LEAVE"} => RegistrarNext(e, r) = r
BY DEF RegistrarNext, Registrar, Leaving, Event, RcvEvent

LEMMA Changed ==
    ASSUME NEW g \in Gid, NEW e \in Event
    PROVE  /\ ChangeStates(g, e) \in Gid
           /\ ChangeStates(g, e).applicant = applicant_garp_tt[e][g.applicant]
           /\ ChangeStates(g, e).registrar = RegistrarNext(e, g.registrar)
           /\ ChangeStates(g, e).known
           /\ StartsJoin(e, g.applicant) => ChangeStates(g, e).cstart_join
           /\ g.join_running => ChangeStates(g, e).join_running
           /\ g.leave_running => ChangeStates(g, e).leave_running
           /\ g.registrar = "INN" /\ RegistrarNext(e, "INN") = "LV" => ChangeStates(g, e).cstart_leave
           /\ ~g.cstart_leave /\ RegistrarNext(e, "INN") # "LV" => ~ChangeStates(g, e).cstart_leave
<1> DEFINE h == ChangeStates(g, e)
           starts == StartsJoin(e, g.applicant)
           jr == g.join_running \/ (e = "JOIN" /\ starts)
           cj == g.cstart_join \/ starts
           cl == g.cstart_leave \/ (g.registrar = "INN" /\ RegistrarNext(e, "INN") = "LV")
           a == applicant_garp_tt[e][g.applicant]
           r == RegistrarNext(e, g.registrar)
           g1 == [g EXCEPT !.known = TRUE]
           g2 == [g1 EXCEPT !.applicant = a]
           g3 == [g2 EXCEPT !.registrar = r]
           g4 == [g3 EXCEPT !.join_running = jr]
           g5 == [g4 EXCEPT !.cstart_join = cj]
           g6 == [g5 EXCEPT !.cstart_leave = cl]
<1>1. jr \in BOOLEAN /\ cj \in BOOLEAN /\ cl \in BOOLEAN
    BY Zenon
<1>2. a \in Applicant /\ r \in Registrar
    BY Fields, Tables, RegistrarTable
<1> HIDE DEF jr, cj, cl, a, r
<1>3. g1 \in Gid
    BY Setting, Zenon
<1> HIDE DEF g1
<1>4. g2 \in Gid
    BY <1>2, <1>3, Setting, Zenon
<1> HIDE DEF g2
<1>5. g3 \in Gid
    BY <1>2, <1>4, Setting, Zenon
<1> HIDE DEF g3
<1>6. g4 \in Gid
    BY <1>1, <1>5, Setting, Zenon
<1> HIDE DEF g4
<1>7. g5 \in Gid
    BY <1>1, <1>6, Setting, Zenon
<1> HIDE DEF g5
<1>8. g6 \in Gid
    BY <1>1, <1>7, Setting, Zenon
<1>9. h = g6
    BY DEF g1, g2, g3, g4, g5, g6, jr, cj, cl, a, r, ChangeStates, Gid
<1>10. h.applicant = a /\ h.registrar = r /\ h.known = TRUE
       /\ h.join_running = jr /\ h.cstart_join = cj /\ h.cstart_leave = cl
       /\ h.leave_running = g.leave_running
    BY DEF jr, cj, cl, a, r, ChangeStates, Gid
<1> HIDE DEF h
<1> QED BY <1>8, <1>9, <1>10, Zenon DEF h, jr, cj, cl, a, r

\* gid_do_actions settles a machine and changes nothing but its timers.
LEMMA Done ==
    ASSUME NEW g, Owed(g)
    PROVE  /\ Settled(DoActions(g))
           /\ DoActions(g).applicant = g.applicant
           /\ DoActions(g).registrar = g.registrar
           /\ DoActions(g).known = g.known
           /\ DoActions(g).countdown = g.countdown
<1> DEFINE h == DoActions(g)
           pending == g.tx_pending \/ g.cstart_join
           jr == g.join_running \/ pending \/ g.countdown = 0
           lr == g.leave_running \/ g.cstart_leave
           g1 == [g EXCEPT !.tx_pending = pending]
           g2 == [g1 EXCEPT !.join_running = jr]
           g3 == [g2 EXCEPT !.leave_running = lr]
           g4 == [g3 EXCEPT !.cstart_join = FALSE]
           g5 == [g4 EXCEPT !.cstart_leave = FALSE]
<1>0. g \in Gid
    BY DEF Owed
<1>1. pending \in BOOLEAN /\ jr \in BOOLEAN /\ lr \in BOOLEAN /\ FALSE \in BOOLEAN
    BY Zenon
<1> HIDE DEF pending, jr, lr
<1>2. g1 \in Gid
    BY <1>0, <1>1, Setting, Zenon
<1> HIDE DEF g1
<1>3. g2 \in Gid
    BY <1>1, <1>2, Setting, Zenon
<1> HIDE DEF g2
<1>4. g3 \in Gid
    BY <1>1, <1>3, Setting, Zenon
<1> HIDE DEF g3
<1>5. g4 \in Gid
    BY <1>1, <1>4, Setting, Zenon
<1> HIDE DEF g4
<1>6. g5 \in Gid
    BY <1>1, <1>5, Setting, Zenon
<1>7. h = g5
    BY <1>0 DEF g1, g2, g3, g4, g5, pending, jr, lr, DoActions, Gid
<1>8. h.applicant = g.applicant /\ h.registrar = g.registrar /\ h.known = g.known
      /\ h.countdown = g.countdown
      /\ h.join_running = jr /\ h.leave_running = lr
      /\ h.cstart_join = FALSE /\ h.cstart_leave = FALSE
    BY <1>0 DEF pending, jr, lr, DoActions, Gid
<1> HIDE DEF h
<1>9. Settled(h)
    BY <1>6, <1>7, <1>8, Zenon DEF Settled, Owed, pending, jr, lr
<1> QED BY <1>8, <1>9, Zenon DEF h

LEMMA SettledOwed ==
    ASSUME NEW g, Settled(g)
    PROVE  Owed(g)
BY Zenon DEF Settled, Owed

\* An event leaves requests that are not lost.
LEMMA ChangedOwed ==
    ASSUME NEW g, Settled(g), NEW e \in Event
    PROVE  Owed(ChangeStates(g, e))
<1> DEFINE h == ChangeStates(g, e)
<1>1. g \in Gid /\ g.applicant \in Applicant /\ g.registrar \in Registrar
    BY Fields, Zenon DEF Settled
<1>2. Speaks(h.applicant) => h.join_running \/ h.cstart_join
    <2>1. CASE StartsJoin(e, g.applicant)
        BY <1>1, <2>1, Changed, Zenon
    <2>2. CASE ~StartsJoin(e, g.applicant)
        BY <1>1, <2>2, Changed, Tables, Zenon DEF Settled
    <2> QED BY <2>1, <2>2
<1>3. h.registrar \in Leaving => h.leave_running \/ h.cstart_leave
    <2>1. CASE h.registrar = g.registrar
        BY <1>1, <2>1, Changed, Zenon DEF Settled
    <2>2. CASE h.registrar # g.registrar
        <3>1. h.registrar = "INN" \/ (g.registrar = "INN" /\ h.registrar = "LV")
            <4>1. h.registrar = RegistrarNext(e, g.registrar)
                BY <1>1, Changed, Zenon
            <4> HIDE DEF h
            <4> QED BY <1>1, <2>2, <4>1, RegistrarTable
        <3>2. CASE h.registrar = "INN"
            BY <3>2 DEF Leaving
        <3>3. CASE g.registrar = "INN" /\ h.registrar = "LV"
            BY <1>1, <3>3, Changed, RegistrarTable
        <3> QED BY <3>1, <3>2, <3>3
    <2> QED BY <2>1, <2>2
<1> QED BY <1>1, <1>2, <1>3, Changed, Zenon DEF Owed

\* A message or a propagated event settles a machine again.
LEMMA Told ==
    ASSUME NEW g, Settled(g), NEW e \in Event
    PROVE  /\ Settled(DoActions(ChangeStates(g, e)))
           /\ DoActions(ChangeStates(g, e)).applicant = applicant_garp_tt[e][g.applicant]
           /\ DoActions(ChangeStates(g, e)).registrar = RegistrarNext(e, g.registrar)
           /\ DoActions(ChangeStates(g, e)).known
<1>1. g \in Gid
    BY DEF Settled
<1> QED BY <1>1, ChangedOwed, Done, Changed, Zenon

LEMMA TxPending ==
    ASSUME NEW g, Owed(g)
    PROVE  /\ Owed([g EXCEPT !.tx_pending = TRUE])
           /\ [g EXCEPT !.tx_pending = TRUE].applicant = g.applicant
           /\ [g EXCEPT !.tx_pending = TRUE].registrar = g.registrar
           /\ [g EXCEPT !.tx_pending = TRUE].known = g.known
           /\ [g EXCEPT !.tx_pending = TRUE].countdown = g.countdown
<1> DEFINE h == [g EXCEPT !.tx_pending = TRUE]
<1>0. g \in Gid
    BY DEF Owed
<1>1. h \in Gid
    BY <1>0, Setting, Zenon
<1>2. h.applicant = g.applicant /\ h.registrar = g.registrar /\ h.known = g.known
      /\ h.countdown = g.countdown
      /\ h.join_running = g.join_running /\ h.leave_running = g.leave_running
      /\ h.cstart_join = g.cstart_join /\ h.cstart_leave = g.cstart_leave /\ h.tx_pending = TRUE
    BY <1>0 DEF Gid
<1> HIDE DEF h
<1>3. Owed(h)
    BY <1>1, <1>2, Zenon DEF Owed
<1> QED BY <1>2, <1>3, Zenon DEF h

----------------------------------------------------------------------------

\* The count is that of the ports that register the VLAN, and a port declares for the
\* others.
Counts ==
    /\ members = Cardinality(Registering)
    /\ \A q \in Port : On(q) => (Declares(q) <=> Registering \ {q} # {})

IInv ==
    /\ gid \in [Port -> Gid \cup {NoGid}]
    /\ members \in Nat
    /\ \A p \in Port : On(p) => Settled(gid[p])
    /\ Counts

LEMMA RegisteringFinite ==
    /\ IsFiniteSet(Registering) /\ Cardinality(Registering) \in Nat
    /\ Cardinality(Registering) <= Cardinality(Port) /\ Cardinality(Port) \in Nat
    /\ Cardinality(Registering) = 0 <=> Registering = {}
<1>1. Registering \subseteq Port
    BY DEF Registering
<1> QED BY <1>1, PortAssumption, FS_Subset, FS_CardinalityType, FS_EmptySet

\* One port registers, and it is the only one exactly if the count is one.
LEMMA Single ==
    ASSUME NEW S, IsFiniteSet(S), NEW x \in S
    PROVE  Cardinality(S) >= 1 /\ (Cardinality(S) = 1 <=> S = {x})
<1>1. IsFiniteSet(S \ {x}) /\ Cardinality(S \ {x}) = Cardinality(S) - 1
    BY FS_RemoveElement
<1>2. Cardinality(S) \in Nat /\ Cardinality(S \ {x}) \in Nat
    BY <1>1, FS_CardinalityType
<1>3. Cardinality(S \ {x}) = 0 <=> S \ {x} = {}
    BY <1>1, FS_EmptySet
<1> QED BY <1>1, <1>2, <1>3

\* A step that changes neither who registers nor who declares.
LEMMA SameDeclared ==
    ASSUME IInv, gid' \in [Port -> Gid \cup {NoGid}], members' = members,
           \A q \in Port : /\ On(q)' <=> On(q)
                           /\ On(q)' => Settled(gid[q])'
                           /\ Registered(q)' <=> Registered(q)
                           /\ Declares(q)' <=> Declares(q)
    PROVE  IInv'
<1>1. Registering' = Registering
    BY DEF Registering
<1>2. Counts'
    BY <1>1 DEF IInv, Counts
<1> QED BY <1>2 DEF IInv

\* A step in which p comes to register.
LEMMA JoinCounted ==
    ASSUME IInv, gid' \in [Port -> Gid \cup {NoGid}], members' = members + 1,
           NEW p \in Port, On(p), ~Registered(p),
           \A q \in Port : /\ On(q)' <=> On(q)
                           /\ On(q)' => Settled(gid[q])'
                           /\ Registered(q)' <=> Registered(q) \/ q = p,
           Declares(p)' <=> Declares(p),
           \A q \in Port : q # p /\ On(q) =>
                (Declares(q)' <=> Declares(q) \/ Reaches(p, q, members', 1))
    PROVE  IInv'
<1>1. Registering' = Registering \cup {p} /\ p \notin Registering
    BY DEF Registering
<1>2. Cardinality(Registering') = Cardinality(Registering) + 1
    BY <1>1, RegisteringFinite, FS_AddElement
<1>3. Cardinality(Registering) \in Nat /\ members \in Nat
    BY RegisteringFinite DEF IInv
<1>4. ASSUME NEW q \in Port, On(q)'
      PROVE  Declares(q)' <=> Registering' \ {q} # {}
    <2>1. members = Cardinality(Registering) /\ On(q) /\ (Declares(q) <=> Registering \ {q} # {})
        BY <1>4 DEF IInv, Counts
    <2>2. CASE q = p
        BY <1>1, <2>1, <2>2
    <2>3. CASE q # p
        <3>1. Registering' \ {q} # {}
            BY <1>1, <2>3
        <3>2. CASE Registering \ {q} # {}
            BY <2>1, <2>3, <3>1, <3>2
        <3>3. CASE Registering = {}
            <4>1. members' = 1
                BY <1>3, <2>1, <3>3, RegisteringFinite
            <4> QED BY <2>1, <2>3, <3>1, <4>1 DEF Reaches
        <3>4. CASE Registering = {q}
            <4>1. members' = 2
                <5>1. IsFiniteSet(Registering) /\ q \in Registering
                    BY <3>4, RegisteringFinite
                <5>2. Cardinality(Registering) = 1
                    BY <3>4, <5>1, Single
                <5> QED BY <1>3, <2>1, <5>2
            <4>2. Registered(q)
                BY <3>4 DEF Registering
            <4>3. Reaches(p, q, members', 1)
                BY <2>1, <2>3, <4>1, <4>2 DEF Reaches, RegistrarEmpty, Registered
            <4> QED BY <2>1, <2>3, <3>1, <4>3
        <3> QED BY <3>2, <3>3, <3>4
    <2> QED BY <2>2, <2>3
<1>5. Counts'
    BY <1>2, <1>3, <1>4 DEF IInv, Counts
<1> QED BY <1>3, <1>5 DEF IInv

\* A step in which p stops registering, with its GID or without: those that are reached
\* stop declaring.
LEMMA LeaveCounted ==
    ASSUME IInv, gid' \in [Port -> Gid \cup {NoGid}], members' = Less(members),
           NEW p \in Port, Registered(p),
           \A q \in Port : /\ On(q)' => On(q)
                           /\ On(q)' => Settled(gid[q])'
                           /\ Registered(q)' <=> Registered(q) /\ q # p,
           On(p)' => (Declares(p)' <=> Declares(p)),
           \A q \in Port : q # p /\ On(q) =>
                (Declares(q)' <=> Declares(q) /\ ~Reaches(p, q, members', 0))
    PROVE  IInv'
<1>1. Registering' = Registering \ {p} /\ p \in Registering
    BY DEF Registering
<1>2. Cardinality(Registering') = Cardinality(Registering) - 1 /\ Cardinality(Registering) >= 1
    BY <1>1, RegisteringFinite, FS_RemoveElement, Single
<1>3. Cardinality(Registering) \in Nat /\ members \in Nat
    BY RegisteringFinite DEF IInv
<1>4. members' = members - 1 /\ members >= 1 /\ members' = Cardinality(Registering')
    BY <1>2, <1>3 DEF IInv, Counts, Less
<1>5. ASSUME NEW q \in Port, On(q)'
      PROVE  Declares(q)' <=> Registering' \ {q} # {}
    <2>1. members = Cardinality(Registering) /\ On(q) /\ (Declares(q) <=> Registering \ {q} # {})
        BY <1>5 DEF IInv, Counts
    <2>2. CASE q = p
        BY <1>1, <1>5, <2>1, <2>2
    <2>3. CASE q # p
        <3>0. Declares(q)
            BY <1>1, <2>1, <2>3
        <3>1. IsFiniteSet(Registering') /\ (Cardinality(Registering') = 0 <=> Registering' = {})
            BY <1>1, RegisteringFinite, FS_RemoveElement, FS_EmptySet
        <3>2. CASE Registering' = {}
            <4>1. members' = 0
                BY <1>4, <3>1, <3>2
            <4>2. Reaches(p, q, members', 0)
                BY <2>1, <2>3, <4>1 DEF Reaches
            <4> QED BY <2>1, <2>3, <3>2, <4>2
        <3>3. CASE Registering' = {q}
            <4>1. members' = 1
                BY <1>4, <3>1, <3>3, Single
            <4>2. Registered(q)
                BY <1>1, <3>3 DEF Registering
            <4>3. Reaches(p, q, members', 0)
                BY <2>1, <2>3, <4>1, <4>2 DEF Reaches, RegistrarEmpty, Registered
            <4> QED BY <2>1, <2>3, <3>3, <4>3
        <3>4. CASE Registering' \ {q} # {}
            <4>1. ~Reaches(p, q, members', 0)
                <5>1. members' \in Nat /\ members' # 0
                    BY <1>3, <1>4, <3>1, <3>4
                <5>2. CASE members' = 1
                    <6>1. PICK x \in Registering' : x # q
                        BY <3>4
                    <6>2. Registering' = {x}
                        BY <1>4, <3>1, <5>2, <6>1, Single
                    <6>3. ~Registered(q)
                        BY <1>1, <2>3, <6>1, <6>2 DEF Registering
                    <6>4. gid[q].known
                        <7>1. Settled(gid[q]) /\ gid[q].applicant # "VO"
                            BY <2>1, <3>0 DEF IInv, Declares, Member
                        <7> QED BY <7>1, Zenon DEF Settled
                    <6>5. RegistrarEmpty(q)
                        BY <2>1, <6>3, <6>4, Zenon DEF RegistrarEmpty, Registered
                    <6> QED BY <5>2, <6>5 DEF Reaches
                <5>3. CASE members' # 1
                    <6>1. ~(members' <= 0 + 1)
                        BY <1>3, <1>4, <5>1, <5>3
                    <6> QED BY <6>1, Zenon DEF Reaches
                <5> QED BY <5>2, <5>3
            <4> QED BY <2>1, <2>3, <3>0, <3>4, <4>1
        <3> QED BY <3>2, <3>3, <3>4
    <2> QED BY <2>2, <2>3
<1>6. Counts'
    BY <1>2, <1>3, <1>4, <1>5 DEF IInv, Counts
<1> QED BY <1>3, <1>4, <1>6 DEF IInv

----------------------------------------------------------------------------

LEMMA OnSettled ==
    ASSUME IInv, NEW p \in Port
    PROVE  /\ On(p) => /\ Settled(gid[p]) /\ gid[p] \in Gid
                       /\ gid[p].applicant \in Applicant /\ gid[p].registrar \in Registrar
           /\ ~On(p) => gid[p] = NoGid
<1>1. gid[p] \in Gid \cup {NoGid}
    BY DEF IInv
<1>2. \A g \in Gid : g.on = TRUE
    BY Fields
<1> QED BY <1>1, <1>2, Fields DEF IInv, On, Settled

\* A step of p alone that keeps what p declares and registers.
LEMMA LocalStep ==
    ASSUME IInv, NEW p \in Port, On(p), NEW g, Settled(g),
           g.applicant \in Member <=> gid[p].applicant \in Member,
           g.registrar = "MT" <=> gid[p].registrar = "MT",
           gid' = [gid EXCEPT ![p] = g], members' = members
    PROVE  IInv'
<1>1. g \in Gid /\ g.on = TRUE
    BY Fields DEF Settled
<1>2. gid \in [Port -> Gid \cup {NoGid}]
    BY DEF IInv
<1>3. gid' \in [Port -> Gid \cup {NoGid}] /\ gid'[p] = g
      /\ \A q \in Port : q # p => gid'[q] = gid[q]
    BY <1>1, <1>2
<1>4. ASSUME NEW q \in Port
      PROVE  /\ On(q)' <=> On(q)
             /\ On(q)' => Settled(gid[q])'
             /\ Registered(q)' <=> Registered(q)
             /\ Declares(q)' <=> Declares(q)
    <2>1. CASE q = p
        <3>1. gid[q]' = g
            BY <1>3, <2>1
        <3> QED BY <1>1, <2>1, <3>1 DEF On, Registered, Declares
    <2>2. CASE q # p
        <3>1. gid'[q] = gid[q]
            BY <1>3, <2>2
        <3>2. On(q) => Settled(gid[q])
            BY DEF IInv
        <3> QED BY <3>1, <3>2 DEF On, Registered, Declares
    <2> QED BY <2>1, <2>2
<1> HIDE DEF IInv
<1> QED BY <1>3, <1>4, SameDeclared

\* The other ports run gid_do_actions: it changes nothing for them.
LEMMA OthersStep ==
    ASSUME IInv, NEW p \in Port, On(p), NEW g, Settled(g),
           g.applicant \in Member <=> gid[p].applicant \in Member,
           g.registrar = "MT" <=> gid[p].registrar = "MT",
           Others(p, g)
    PROVE  IInv'
<1>1. g \in Gid /\ g.on = TRUE
    BY Fields DEF Settled
<1>2. ASSUME NEW q \in Port
      PROVE  /\ gid'[q] \in Gid \cup {NoGid}
             /\ On(q)' <=> On(q)
             /\ On(q)' => Settled(gid[q])'
             /\ Registered(q)' <=> Registered(q)
             /\ Declares(q)' <=> Declares(q)
    <2>1. CASE q = p
        <3>1. gid'[q] = g
            BY <2>1 DEF Others
        <3> QED BY <1>1, <2>1, <3>1 DEF On, Registered, Declares
    <2>2. CASE q # p /\ On(q)
        <3>1. gid'[q] = DoActions(gid[q])
            BY <2>2 DEF Others
        <3>2. Settled(DoActions(gid[q])) /\ DoActions(gid[q]).applicant = gid[q].applicant
              /\ DoActions(gid[q]).registrar = gid[q].registrar
            BY <2>2, OnSettled, SettledOwed, Done
        <3>3. DoActions(gid[q]) \in Gid /\ DoActions(gid[q]).on = TRUE
            BY <3>2, Fields DEF Settled
        <3> QED BY <2>2, <3>1, <3>2, <3>3 DEF On, Registered, Declares
    <2>3. CASE q # p /\ ~On(q)
        <3>1. gid'[q] = NoGid /\ gid[q] = NoGid
            BY <2>3, OnSettled DEF Others
        <3> QED BY <2>3, <3>1 DEF On, Registered, Declares
    <2> QED BY <2>1, <2>2, <2>3
<1>3. gid' \in [Port -> Gid \cup {NoGid}] /\ members' = members
    BY <1>2 DEF Others
<1> QED BY <1>2, <1>3, SameDeclared

LEMMA JoinStep ==
    ASSUME IInv, NEW p \in Port, On(p), ~Registered(p), NEW g, Settled(g),
           g.applicant \in Member <=> gid[p].applicant \in Member,
           g.registrar # "MT", PropagateJoin(p, g)
    PROVE  IInv'
<1>1. g \in Gid /\ g.on = TRUE
    BY Fields DEF Settled
<1>2. ASSUME NEW q \in Port, q # p, On(q)
      PROVE  /\ Settled(gid[q])' /\ gid[q]'.on = TRUE
             /\ gid[q]'.registrar = gid[q].registrar
             /\ gid[q]'.applicant \in Member <=>
                    gid[q].applicant \in Member \/ Reaches(p, q, members', 1)
    <2>1. Settled(gid[q]) /\ gid[q] \in Gid /\ gid[q].applicant \in Applicant
          /\ gid[q].registrar \in Registrar /\ "JOIN" \in Event
        BY <1>2, OnSettled DEF Event
    <2>2. CASE Reaches(p, q, members', 1)
        <3>1. gid[q]' = DoActions(ChangeStates(gid[q], "JOIN"))
            BY <1>2, <2>2 DEF PropagateJoin
        <3>2. Settled(DoActions(ChangeStates(gid[q], "JOIN")))
              /\ DoActions(ChangeStates(gid[q], "JOIN")).applicant \in Member
              /\ DoActions(ChangeStates(gid[q], "JOIN")).registrar = gid[q].registrar
            BY <2>1, Told, Tables, RegistrarTable
        <3>3. DoActions(ChangeStates(gid[q], "JOIN")).on = TRUE
            BY <3>2, Fields DEF Settled
        <3> QED BY <2>2, <3>1, <3>2, <3>3
    <2>3. CASE ~Reaches(p, q, members', 1)
        <3>1. gid[q]' = DoActions(gid[q])
            BY <1>2, <2>3 DEF PropagateJoin
        <3>2. Settled(DoActions(gid[q])) /\ DoActions(gid[q]).applicant = gid[q].applicant
              /\ DoActions(gid[q]).registrar = gid[q].registrar
            BY <2>1, SettledOwed, Done
        <3>3. DoActions(gid[q]).on = TRUE
            BY <3>2, Fields DEF Settled
        <3> QED BY <2>3, <3>1, <3>2, <3>3
    <2> QED BY <2>2, <2>3
<1>3. gid[p]' = g
    BY DEF PropagateJoin
<1>4. ASSUME NEW q \in Port, ~On(q)
      PROVE  gid[q]' = NoGid /\ ~On(q)' /\ q # p
    BY <1>4 DEF PropagateJoin, On, NoGid
<1>5. ASSUME NEW q \in Port
      PROVE  /\ gid[q]' \in Gid \cup {NoGid}
             /\ On(q)' <=> On(q)
             /\ On(q)' => Settled(gid[q])'
             /\ Registered(q)' <=> Registered(q) \/ q = p
    <2>1. CASE q = p
        BY <1>1, <1>3, <2>1 DEF On, Registered
    <2>2. CASE q # p /\ On(q)
        BY <1>2, <2>2 DEF On, Registered, Settled
    <2>3. CASE ~On(q)
        BY <1>4, <2>3 DEF Registered
    <2> QED BY <2>1, <2>2, <2>3
<1>6. Declares(p)' <=> Declares(p)
    BY <1>1, <1>3 DEF Declares, On
<1>7. \A q \in Port : q # p /\ On(q) =>
          (Declares(q)' <=> Declares(q) \/ Reaches(p, q, members', 1))
    BY <1>2 DEF Declares, On
<1>8. gid' \in [Port -> Gid \cup {NoGid}] /\ members' = members + 1
    BY <1>5 DEF PropagateJoin
<1> QED BY <1>5, <1>6, <1>7, <1>8, JoinCounted

\* p leaves and keeps the machine g, or stops and has none.
LEMMA LeaveStep ==
    ASSUME IInv, NEW p \in Port, Registered(p), NEW g, PropagateLeave(p, g),
           g = NoGid \/ /\ Settled(g) /\ g.registrar = "MT"
                        /\ g.applicant \in Member <=> gid[p].applicant \in Member
    PROVE  IInv'
<1>0. On(p)
    BY DEF Registered
<1>1. /\ g = NoGid \/ (g \in Gid /\ g.on = TRUE)
      /\ NoGid.on = FALSE
    BY Fields DEF Settled, NoGid
<1>2. ASSUME NEW q \in Port, q # p, On(q)
      PROVE  /\ Settled(gid[q])' /\ gid[q]'.on = TRUE
             /\ gid[q]'.registrar = gid[q].registrar
             /\ gid[q]'.applicant \in Member <=>
                    gid[q].applicant \in Member /\ ~Reaches(p, q, members', 0)
    <2>1. Settled(gid[q]) /\ gid[q] \in Gid /\ gid[q].applicant \in Applicant
          /\ gid[q].registrar \in Registrar /\ "LEAVE" \in Event
        BY <1>2, OnSettled DEF Event
    <2>2. CASE gid[q].known /\ Reaches(p, q, members', 0)
        <3>1. gid[q]' = DoActions(ChangeStates(gid[q], "LEAVE"))
            BY <1>2, <2>2 DEF PropagateLeave, LeaveTold
        <3>2. Settled(DoActions(ChangeStates(gid[q], "LEAVE")))
              /\ DoActions(ChangeStates(gid[q], "LEAVE")).applicant \notin Member
              /\ DoActions(ChangeStates(gid[q], "LEAVE")).registrar = gid[q].registrar
            BY <2>1, Told, Tables, RegistrarTable
        <3>3. DoActions(ChangeStates(gid[q], "LEAVE")).on = TRUE
            BY <3>2, Fields DEF Settled
        <3> QED BY <2>2, <3>1, <3>2, <3>3
    <2>3. CASE ~(gid[q].known /\ Reaches(p, q, members', 0))
        <3>1. gid[q]' = DoActions(gid[q])
            BY <1>2, <2>3 DEF PropagateLeave, LeaveTold
        <3>2. Settled(DoActions(gid[q])) /\ DoActions(gid[q]).applicant = gid[q].applicant
              /\ DoActions(gid[q]).registrar = gid[q].registrar
            BY <2>1, SettledOwed, Done
        <3>3. DoActions(gid[q]).on = TRUE
            BY <3>2, Fields DEF Settled
        <3>4. ~gid[q].known => gid[q].applicant \notin Member
            <4>1. ~gid[q].known => gid[q].applicant = "VO"
                BY <2>1, Zenon DEF Settled
            <4> QED BY <4>1 DEF Member
        <3> QED BY <2>3, <3>1, <3>2, <3>3, <3>4
    <2> QED BY <2>2, <2>3
<1>3. gid[p]' = g
    BY DEF PropagateLeave
<1>4. ASSUME NEW q \in Port, ~On(q)
      PROVE  gid[q]' = NoGid /\ ~On(q)' /\ q # p
    BY <1>0, <1>4 DEF PropagateLeave, On, NoGid
<1>5. ASSUME NEW q \in Port
      PROVE  /\ gid[q]' \in Gid \cup {NoGid}
             /\ On(q)' => On(q)
             /\ On(q)' => Settled(gid[q])'
             /\ Registered(q)' <=> Registered(q) /\ q # p
    <2>1. CASE q = p
        BY <1>0, <1>1, <1>3, <2>1 DEF On, Registered
    <2>2. CASE q # p /\ On(q)
        BY <1>2, <2>2 DEF On, Registered, Settled
    <2>3. CASE ~On(q)
        BY <1>4, <2>3 DEF Registered
    <2> QED BY <2>1, <2>2, <2>3
<1>6. On(p)' => (Declares(p)' <=> Declares(p))
    BY <1>0, <1>1, <1>3 DEF Declares, On
<1>7. \A q \in Port : q # p /\ On(q) =>
          (Declares(q)' <=> Declares(q) /\ ~Reaches(p, q, members', 0))
    BY <1>2 DEF Declares, On
<1>8. gid' \in [Port -> Gid \cup {NoGid}] /\ members' = Less(members)
    BY <1>5 DEF PropagateLeave
<1> QED BY <1>5, <1>6, <1>7, <1>8, LeaveCounted

----------------------------------------------------------------------------
(* The handlers.                                                            *)

\* What a message makes of the port that hears it.
LEMMA Heard ==
    ASSUME IInv, NEW p \in Port, On(p), NEW e \in RcvEvent, Receive(p, e)
    PROVE  IInv'
<1> DEFINE c == ChangeStates(gid[p], e)
           t == [c EXCEPT !.tx_pending = TRUE]
           speaks == e \in {"RCV_LEAVE_EMPTY", "RCV_LEAVE_IN"} \/ c.cstart_join
           told == IF speaks THEN DoActions(t) ELSE c
<1>1. e \in Event /\ Settled(gid[p]) /\ gid[p] \in Gid
      /\ gid[p].applicant \in Applicant /\ gid[p].registrar \in Registrar
    BY OnSettled DEF Event
<1>2. /\ c \in Gid /\ Owed(c) /\ c.known
      /\ c.applicant \in Member <=> gid[p].applicant \in Member
      /\ c.registrar = RegistrarNext(e, gid[p].registrar)
      /\ c.registrar = "MT" => gid[p].registrar = "MT"
    BY <1>1, ChangedOwed, Changed, Tables, RegistrarTable
<1>3. Settled(told) /\ told.applicant = c.applicant /\ told.registrar = c.registrar
    <2>1. CASE speaks
        <3>1. Owed(t) /\ t.applicant = c.applicant /\ t.registrar = c.registrar
            BY <1>2, TxPending
        <3> HIDE DEF t, speaks
        <3> QED BY <2>1, <3>1, Done
    <2>2. CASE ~speaks
        <3>1. told = c
            BY <2>2
        <3>2. ~StartsJoin(e, gid[p].applicant)
            BY <1>1, <2>2, Changed
        <3>3. RegistrarNext(e, "INN") # "LV"
            BY <2>2 DEF RegistrarNext, RcvEvent
        <3>4. ~c.cstart_leave /\ ~c.cstart_join
            BY <1>1, <2>2, <3>3, Changed, Zenon DEF Settled
        <3>5. Speaks(c.applicant) => c.join_running
            BY <1>1, <3>2, Changed, Tables, Zenon DEF Settled
        <3>6. c.registrar \in Leaving => c.leave_running
            BY <1>2, <3>4, Zenon DEF Owed
        <3> HIDE DEF told, c
        <3> QED BY <1>2, <3>1, <3>4, <3>5, <3>6, Zenon DEF Settled
    <2> QED BY <2>1, <2>2
<1>4. IF gid[p].registrar = "MT" /\ c.registrar = "INN"
      THEN PropagateJoin(p, told) ELSE Others(p, told)
    BY Zenon DEF Receive
<1> HIDE DEF c, told
<1>5. CASE gid[p].registrar = "MT" /\ c.registrar = "INN"
    <2>1. ~Registered(p)
        BY <1>5 DEF Registered
    <2>2. told.registrar # "MT"
        BY <1>3, <1>5
    <2> QED BY <1>2, <1>3, <1>4, <1>5, <2>1, <2>2, JoinStep
<1>6. CASE ~(gid[p].registrar = "MT" /\ c.registrar = "INN")
    <2>1. told.registrar = "MT" <=> gid[p].registrar = "MT"
        BY <1>1, <1>2, <1>3, <1>6, RegistrarTable
    <2> QED BY <1>2, <1>3, <1>4, <1>6, <2>1, OthersStep
<1> QED BY <1>5, <1>6

\* A LeaveAll, the port's own or a station's.
LEMMA LeaveAllKept ==
    ASSUME NEW g, Settled(g)
    PROVE  /\ Settled(LeaveAll(g))
           /\ LeaveAll(g).applicant \in Member <=> g.applicant \in Member
           /\ LeaveAll(g).registrar = "MT" <=> g.registrar = "MT"
<1> DEFINE c == IF g.known THEN ChangeStates(g, "RCV_LEAVE_EMPTY") ELSE g
           t == [c EXCEPT !.tx_pending = TRUE]
<1>1. g \in Gid /\ g.applicant \in Applicant /\ g.registrar \in Registrar
      /\ "RCV_LEAVE_EMPTY" \in Event /\ "RCV_LEAVE_EMPTY" \in RcvEvent
    BY Fields DEF Settled, Event, RcvEvent
<1>2. /\ Owed(c)
      /\ c.applicant \in Member <=> g.applicant \in Member
      /\ c.registrar = "MT" <=> g.registrar = "MT"
    <2>1. CASE g.known
        <3>1. RegistrarNext("RCV_LEAVE_EMPTY", g.registrar) = "MT" <=> g.registrar = "MT"
            BY DEF RegistrarNext
        <3> QED BY <1>1, <2>1, <3>1, ChangedOwed, Changed, Tables
    <2>2. CASE ~g.known
        BY <2>2, SettledOwed
    <2> QED BY <2>1, <2>2
<1> HIDE DEF c
<1>3. /\ Owed(t) /\ t.applicant = c.applicant /\ t.registrar = c.registrar
    BY <1>2, TxPending
<1>4. LeaveAll(g) = DoActions(t)
    BY Zenon DEF LeaveAll, c
<1> HIDE DEF t
<1> QED BY <1>2, <1>3, <1>4, Done

\* gid_tx_attribute: what was said needs no timer, or asks for it again.
LEMMA Transmitted ==
    ASSUME NEW g, Settled(g)
    PROVE  /\ Settled(DoActions(Transmit([g EXCEPT !.join_running = FALSE])))
           /\ DoActions(Transmit([g EXCEPT !.join_running = FALSE])).applicant \in Member
                <=> g.applicant \in Member
           /\ DoActions(Transmit([g EXCEPT !.join_running = FALSE])).registrar = g.registrar
<1> DEFINE q == [g EXCEPT !.join_running = FALSE]
           r1 == [q EXCEPT !.countdown = GID_LEAVE_ALL_COUNT]
           r == IF q.countdown = 0 THEN [r1 EXCEPT !.leave_all_running = TRUE] ELSE q
           a == applicant_garp_txtt[g.applicant]
           cj == r.cstart_join \/ g.applicant \in {"VA", "VP"}
           s1 == [r EXCEPT !.applicant = a]
           s2 == [s1 EXCEPT !.cstart_join = cj]
           s3 == [s2 EXCEPT !.tx_pending = FALSE]
           h == Transmit(q)
<1>1. g \in Gid /\ FALSE \in BOOLEAN /\ TRUE \in BOOLEAN /\ g.applicant \in Applicant
      /\ GID_LEAVE_ALL_COUNT \in 0..GID_LEAVE_ALL_COUNT
    <2>1. GID_LEAVE_ALL_COUNT \in 0..GID_LEAVE_ALL_COUNT
        BY CountAssumption
    <2>2. g \in Gid
        BY DEF Settled
    <2> QED BY <2>1, <2>2, Fields
<1>2. q \in Gid
    BY <1>1, Setting, Zenon
<1>3. q.applicant = g.applicant /\ q.registrar = g.registrar /\ q.known = g.known
      /\ q.leave_running = g.leave_running /\ q.cstart_leave = g.cstart_leave
      /\ q.cstart_join = g.cstart_join
    BY <1>1 DEF Gid
<1> HIDE DEF q
<1>4. r1 \in Gid
    BY <1>1, <1>2, Setting, Zenon
<1>5. r \in Gid
    <2>1. [r1 EXCEPT !.leave_all_running = TRUE] \in Gid
        <3> HIDE DEF r1
        <3> QED BY <1>1, <1>4, Setting, Zenon
    <2> QED BY <1>2, <2>1
<1>6. r.applicant = g.applicant /\ r.registrar = g.registrar /\ r.known = g.known
      /\ r.leave_running = g.leave_running /\ r.cstart_leave = g.cstart_leave
      /\ r.cstart_join = g.cstart_join
    BY <1>2, <1>3 DEF Gid
<1>7. r = IF q.countdown = 0
          THEN [q EXCEPT !.countdown = GID_LEAVE_ALL_COUNT, !.leave_all_running = TRUE] ELSE q
    BY <1>2 DEF Gid
<1>8. h = IF q.known /\ Speaks(q.applicant)
          THEN [r EXCEPT !.applicant = applicant_garp_txtt[q.applicant],
                         !.cstart_join = @ \/ q.applicant \in {"VA", "VP"},
                         !.tx_pending = FALSE]
          ELSE [r EXCEPT !.tx_pending = TRUE]
    <2> HIDE DEF r
    <2> QED BY <1>7, Zenon DEF Transmit
<1> HIDE DEF r, r1
<1>9. CASE g.known /\ Speaks(g.applicant)
    <2>1. a \in Applicant /\ (Speaks(a) => g.applicant \in {"VA", "VP"})
          /\ (a \in Member <=> g.applicant \in Member)
        BY <1>1, <1>9 DEF Speaks, applicant_garp_txtt, Applicant, Member
    <2>2. cj \in BOOLEAN
        BY Zenon
    <2> HIDE DEF a, cj
    <2>3. s1 \in Gid
        BY <1>5, <2>1, Setting, Zenon
    <2> HIDE DEF s1
    <2>4. s2 \in Gid
        BY <2>2, <2>3, Setting, Zenon
    <2> HIDE DEF s2
    <2>5. s3 \in Gid
        BY <1>1, <2>4, Setting, Zenon
    <2>6. h = s3
        BY <1>3, <1>5, <1>8, <1>9 DEF s1, s2, a, cj, Gid
    <2>7. s3.applicant = a /\ s3.registrar = g.registrar /\ s3.known = g.known
          /\ s3.leave_running = g.leave_running /\ s3.cstart_leave = g.cstart_leave
          /\ s3.cstart_join = cj
        BY <1>5, <1>6 DEF s1, s2, Gid
    <2> HIDE DEF s3, h
    <2>8. Speaks(s3.applicant) => s3.cstart_join
        BY <2>1, <2>7, Zenon DEF cj
    <2>9. Owed(h)
        BY <1>9, <2>5, <2>6, <2>7, <2>8, Zenon DEF Owed, Settled
    <2> QED BY <2>1, <2>6, <2>7, <2>9, Done DEF h, q
<1>10. CASE ~(g.known /\ Speaks(g.applicant))
    <2>1. h = [r EXCEPT !.tx_pending = TRUE]
        BY <1>3, <1>8, <1>10
    <2>2. h \in Gid
        BY <1>1, <1>5, <2>1, Setting, Zenon
    <2>3. h.applicant = g.applicant /\ h.registrar = g.registrar /\ h.known = g.known
          /\ h.leave_running = g.leave_running /\ h.tx_pending = TRUE
        BY <1>5, <1>6, <2>1 DEF Gid
    <2> HIDE DEF h
    <2>4. Owed(h)
        BY <2>2, <2>3, Zenon DEF Owed, Settled
    <2> QED BY <2>3, <2>4, Done DEF h, q
<1> QED BY <1>9, <1>10

LEMMA JoinTimerStep ==
    ASSUME IInv, NEW p \in Port, JoinTimer(p)
    PROVE  IInv'
<1>1. On(p) /\ Settled(gid[p]) /\ members' = members
    BY OnSettled DEF JoinTimer
<1>2. gid' = [gid EXCEPT ![p] =
                 DoActions(Transmit([gid[p] EXCEPT !.join_running = FALSE]))]
    BY DEF JoinTimer, IInv
<1> QED BY <1>1, <1>2, Transmitted, LocalStep

\* The LeaveAll countdown and timer are nobody else's business.
LEMMA Countdown ==
    ASSUME NEW g, Settled(g), NEW n \in 0..GID_LEAVE_ALL_COUNT
    PROVE  /\ Settled([g EXCEPT !.countdown = n])
           /\ [g EXCEPT !.countdown = n].applicant = g.applicant
           /\ [g EXCEPT !.countdown = n].registrar = g.registrar
<1> DEFINE h == [g EXCEPT !.countdown = n]
<1>1. g \in Gid
    BY DEF Settled
<1>2. h \in Gid
    BY <1>1, Setting, Zenon
<1>3. h.applicant = g.applicant /\ h.registrar = g.registrar /\ h.known = g.known
      /\ h.join_running = g.join_running /\ h.leave_running = g.leave_running
      /\ h.cstart_join = g.cstart_join /\ h.cstart_leave = g.cstart_leave
    BY <1>1 DEF Gid
<1> HIDE DEF h
<1>4. Settled(h)
    BY <1>2, <1>3, Zenon DEF Settled
<1> QED BY <1>3, <1>4, Zenon DEF h

LEMMA Silent ==
    ASSUME NEW g, Settled(g)
    PROVE  /\ Settled([g EXCEPT !.leave_all_running = FALSE])
           /\ [g EXCEPT !.leave_all_running = FALSE].applicant = g.applicant
           /\ [g EXCEPT !.leave_all_running = FALSE].registrar = g.registrar
<1> DEFINE h == [g EXCEPT !.leave_all_running = FALSE]
<1>1. g \in Gid /\ FALSE \in BOOLEAN
    BY DEF Settled
<1>2. h \in Gid
    BY <1>1, Setting, Zenon
<1>3. h.applicant = g.applicant /\ h.registrar = g.registrar /\ h.known = g.known
      /\ h.join_running = g.join_running /\ h.leave_running = g.leave_running
      /\ h.cstart_join = g.cstart_join /\ h.cstart_leave = g.cstart_leave
    BY <1>1 DEF Gid
<1> HIDE DEF h
<1>4. Settled(h)
    BY <1>2, <1>3, Zenon DEF Settled
<1> QED BY <1>3, <1>4, Zenon DEF h

LEMMA JoinRunning ==
    ASSUME NEW g, Settled(g)
    PROVE  /\ Settled([g EXCEPT !.join_running = TRUE])
           /\ [g EXCEPT !.join_running = TRUE].applicant = g.applicant
           /\ [g EXCEPT !.join_running = TRUE].registrar = g.registrar
<1> DEFINE h == [g EXCEPT !.join_running = TRUE]
<1>1. g \in Gid /\ TRUE \in BOOLEAN
    BY DEF Settled
<1>2. h \in Gid
    BY <1>1, Setting, Zenon
<1>3. h.applicant = g.applicant /\ h.registrar = g.registrar /\ h.known = g.known
      /\ h.join_running = TRUE /\ h.leave_running = g.leave_running
      /\ h.cstart_join = g.cstart_join /\ h.cstart_leave = g.cstart_leave
    BY <1>1 DEF Gid
<1> HIDE DEF h
<1>4. Settled(h)
    BY <1>2, <1>3, Zenon DEF Settled
<1> QED BY <1>3, <1>4, Zenon DEF h

LEMMA HeardLeaveAll ==
    ASSUME IInv, NEW p \in Port, ReceiveLeaveAll(p)
    PROVE  IInv'
<1> DEFINE g == [gid[p] EXCEPT !.countdown = GID_LEAVE_ALL_COUNT]
<1>1. On(p) /\ Settled(gid[p])
    BY OnSettled DEF ReceiveLeaveAll
<1>2. GID_LEAVE_ALL_COUNT \in 0..GID_LEAVE_ALL_COUNT
    BY CountAssumption
<1>3. Settled(g) /\ g.applicant = gid[p].applicant /\ g.registrar = gid[p].registrar
    BY <1>1, <1>2, Countdown
<1>4. Others(p, LeaveAll(g))
    BY DEF ReceiveLeaveAll
<1> HIDE DEF g, IInv
<1> QED BY <1>1, <1>3, <1>4, LeaveAllKept, OthersStep

LEMMA LeaveTimerStep ==
    ASSUME IInv, NEW p \in Port, LeaveTimer(p)
    PROVE  IInv'
<1> DEFINE o == gid[p]
           leaves == o.registrar \in Leaving
           next == IF leaves THEN registrar_leave_timer_table[o.registrar] ELSE o.registrar
           cl == next \in Leaving
           t1 == [o EXCEPT !.leave_running = FALSE]
           t2 == [t1 EXCEPT !.registrar = next]
           t == [t2 EXCEPT !.cstart_leave = cl]
           g == DoActions(t)
<1>1. On(p) /\ Settled(o) /\ o \in Gid /\ o.registrar \in Registrar /\ FALSE \in BOOLEAN
    BY OnSettled DEF LeaveTimer
<1>2. next \in Registrar /\ (~leaves => next = o.registrar)
    BY <1>1 DEF registrar_leave_timer_table, Registrar, Leaving
<1>3. cl \in BOOLEAN
    OBVIOUS
<1>4. IF leaves /\ next = "MT" THEN PropagateLeave(p, g)
      ELSE gid' = [gid EXCEPT ![p] = g] /\ members' = members
    <2>1. g = DoActions([o EXCEPT !.leave_running = FALSE, !.registrar = next, !.cstart_leave = cl])
        <3> HIDE DEF next, cl
        <3> QED BY <1>1 DEF Gid
    <2> HIDE DEF g
    <2> QED BY <2>1, Zenon DEF LeaveTimer, cl, next
<1> HIDE DEF next, cl, o
<1>5. t1 \in Gid
    BY <1>1, Setting, Zenon
<1>6. t2 \in Gid
    <2> HIDE DEF t1
    <2> QED BY <1>2, <1>5, Setting, Zenon
<1>7. t \in Gid
    <2> HIDE DEF t2
    <2> QED BY <1>3, <1>6, Setting, Zenon
<1>8. t.applicant = o.applicant /\ t.registrar = next /\ t.known = o.known
      /\ t.join_running = o.join_running /\ t.cstart_leave = cl
    BY <1>1 DEF Gid
<1> HIDE DEF t
<1>9. Owed(t)
    <2>1. ~t.known => t.registrar = "MT"
        <3>1. ~o.known => o.registrar = "MT"
            BY <1>1, Zenon DEF Settled
        <3>2. o.registrar = "MT" => ~leaves
            BY DEF Leaving
        <3> HIDE DEF leaves
        <3> QED BY <1>2, <1>8, <3>1, <3>2
    <2>2. t.registrar \in Leaving => t.cstart_leave
        BY <1>8, Zenon DEF cl
    <2> QED BY <1>1, <1>7, <1>8, <2>1, <2>2, Zenon DEF Owed, Settled
<1>10. Settled(g) /\ g.applicant = o.applicant /\ g.registrar = next
    BY <1>8, <1>9, Done
<1> HIDE DEF g
<1>11. CASE leaves /\ next = "MT"
    <2>1. Registered(p)
        BY <1>1, <1>11 DEF Registered, Leaving, o
    <2> HIDE DEF IInv, leaves
    <2> QED BY <1>1, <1>4, <1>10, <1>11, <2>1, LeaveStep DEF o
<1>12. CASE ~(leaves /\ next = "MT")
    <2>1. g.registrar = "MT" <=> o.registrar = "MT"
        BY <1>2, <1>10, <1>12 DEF Leaving
    <2> HIDE DEF IInv, leaves
    <2> QED BY <1>1, <1>4, <1>10, <1>12, <2>1, LocalStep DEF o
<1> QED BY <1>11, <1>12

LEMMA LeaveAllTimerStep ==
    ASSUME IInv, NEW p \in Port, LeaveAllTimer(p)
    PROVE  IInv'
<1> DEFINE o == gid[p]
           less == [o EXCEPT !.countdown = o.countdown - 1]
           q == [o EXCEPT !.leave_all_running = FALSE]
           l == LeaveAll(q)
           z == [l EXCEPT !.countdown = 0]
           acts == [z EXCEPT !.join_running = TRUE]
<1>1. On(p) /\ Settled(o) /\ o \in Gid /\ members' = members
    BY OnSettled DEF LeaveAllTimer
<1>2. o.countdown \in 0..GID_LEAVE_ALL_COUNT /\ GID_LEAVE_ALL_COUNT \in Nat
    BY <1>1, Fields, CountAssumption
<1>3. Settled(l) /\ (l.applicant \in Member <=> o.applicant \in Member)
      /\ (l.registrar = "MT" <=> o.registrar = "MT")
    <2>1. Settled(q) /\ q.applicant = o.applicant /\ q.registrar = o.registrar
        BY <1>1, Silent
    <2> HIDE DEF q
    <2> QED BY <2>1, LeaveAllKept
<1>4. gid' = [gid EXCEPT ![p] = IF o.countdown > 1 THEN less
                ELSE [l EXCEPT !.countdown = 0, !.join_running = TRUE]]
    BY DEF LeaveAllTimer
<1>5. [l EXCEPT !.countdown = 0, !.join_running = TRUE] = acts
    <2> HIDE DEF l
    <2> QED OBVIOUS
<1>6. Settled(acts) /\ acts.applicant = l.applicant /\ acts.registrar = l.registrar
    <2> HIDE DEF l
    <2>1. Settled(z) /\ z.applicant = l.applicant /\ z.registrar = l.registrar
        BY <1>2, <1>3, Countdown
    <2> HIDE DEF z
    <2> QED BY <2>1, JoinRunning
<1> HIDE DEF l, acts
<1>7. CASE o.countdown > 1
    <2>1. o.countdown - 1 \in 0..GID_LEAVE_ALL_COUNT
        BY <1>2, <1>7
    <2>2. Settled(less) /\ less.applicant = o.applicant /\ less.registrar = o.registrar
        BY <1>1, <2>1, Countdown
    <2>3. gid' = [gid EXCEPT ![p] = less]
        BY <1>4, <1>7
    <2> HIDE DEF less, IInv
    <2> QED BY <1>1, <2>2, <2>3, LocalStep
<1>8. CASE ~(o.countdown > 1)
    <2>1. gid' = [gid EXCEPT ![p] = acts]
        BY <1>4, <1>5, <1>8
    <2> HIDE DEF IInv
    <2> QED BY <1>1, <1>3, <1>6, <2>1, LocalStep
<1> QED BY <1>7, <1>8

\* A port starts to forward: it registers nothing and declares what others register.
LEMMA ForwardStep ==
    ASSUME IInv, NEW p \in Port, Forward(p)
    PROVE  IInv'
<1> DEFINE told == DoActions(ChangeStates(NewGid, "JOIN"))
           g == IF members >= 1 THEN told ELSE NewGid
<1>1. Settled(NewGid) /\ NewGid.applicant = "VO" /\ NewGid.registrar = "MT"
    <2>1. NewGid \in Gid
        BY CountAssumption DEF NewGid, Gid, Applicant, Registrar
    <2>2. NewGid.applicant = "VO" /\ NewGid.registrar = "MT" /\ ~NewGid.cstart_join
          /\ ~NewGid.cstart_leave
        BY DEF NewGid
    <2>3. ~Speaks("VO") /\ "MT" \notin Leaving
        BY DEF Speaks, applicant_garp_txtt, Leaving
    <2> QED BY <2>1, <2>2, <2>3, Zenon DEF Settled
<1>2. Settled(told) /\ told.applicant \in Member /\ told.registrar = "MT"
    <2>1. "JOIN" \in Event /\ "VO" \in Applicant /\ "MT" \in Registrar
        BY DEF Event, Applicant, Registrar
    <2>2. told.applicant = applicant_garp_tt["JOIN"]["VO"]
          /\ told.registrar = RegistrarNext("JOIN", "MT") /\ Settled(told)
        BY <1>1, <2>1, Told
    <2> QED BY <2>1, <2>2, Tables, RegistrarTable
<1>3. Settled(g) /\ (g.applicant \in Member <=> members >= 1) /\ g.registrar = "MT"
    <2> HIDE DEF told
    <2> QED BY <1>1, <1>2 DEF Member
<1>4. g \in Gid /\ g.on = TRUE
    BY <1>3, Fields DEF Settled
<1>5. gid' = [gid EXCEPT ![p] = g] /\ ~On(p) /\ members' = members
    BY DEF Forward
<1> HIDE DEF g
<1>6. gid' \in [Port -> Gid \cup {NoGid}] /\ gid'[p] = g
      /\ \A q \in Port : q # p => gid'[q] = gid[q]
    BY <1>4, <1>5 DEF IInv
<1>7. \A q \in Port : Registered(q)' <=> Registered(q)
    <2> TAKE q \in Port
    <2>1. CASE q = p
        BY <1>3, <1>5, <1>6, <2>1 DEF Registered
    <2>2. CASE q # p
        BY <1>6, <2>2 DEF Registered, On
    <2> QED BY <2>1, <2>2
<1>8. Registering' = Registering /\ p \notin Registering
    BY <1>5, <1>7 DEF Registering, Registered
<1>9. \A q \in Port : On(q)' => Settled(gid[q])'
    <2> TAKE q \in Port
    <2>1. CASE q = p
        BY <1>3, <1>6, <2>1
    <2>2. CASE q # p
        <3>1. On(q) => Settled(gid[q])
            BY DEF IInv
        <3> QED BY <1>6, <2>2, <3>1 DEF On
    <2> QED BY <2>1, <2>2
<1>10. ASSUME NEW q \in Port, On(q)'
       PROVE  Declares(q)' <=> Registering' \ {q} # {}
    <2>1. members = Cardinality(Registering)
        BY DEF IInv, Counts
    <2>2. CASE q = p
        <3>1. Registering' \ {q} = Registering
            BY <1>8, <2>2
        <3>2. members >= 1 <=> Registering # {}
            BY <2>1, RegisteringFinite
        <3> QED BY <1>3, <1>4, <1>6, <2>2, <3>1, <3>2 DEF Declares, On
    <2>3. CASE q # p
        <3>1. On(q) /\ (Declares(q)' <=> Declares(q))
            BY <1>6, <1>10, <2>3 DEF On, Declares
        <3>2. Declares(q) <=> Registering \ {q} # {}
            BY <2>1, <3>1 DEF IInv, Counts
        <3> QED BY <1>8, <3>1, <3>2
    <2> QED BY <2>2, <2>3
<1>11. Counts'
    BY <1>5, <1>8, <1>10 DEF IInv, Counts
<1> QED BY <1>5, <1>6, <1>9, <1>11 DEF IInv

\* A port stops: what it registered leaves with it.
LEMMA DiscardStep ==
    ASSUME IInv, NEW p \in Port, Discard(p)
    PROVE  IInv'
<1>1. CASE Registered(p) /\ PropagateLeave(p, NoGid)
    BY <1>1, LeaveStep
<1>2. CASE ~Registered(p) /\ gid' = [gid EXCEPT ![p] = NoGid] /\ members' = members
    <2>1. gid' \in [Port -> Gid \cup {NoGid}] /\ gid'[p] = NoGid
          /\ \A q \in Port : q # p => gid'[q] = gid[q]
        BY <1>2 DEF IInv
    <2>2. ~On(p)'
        BY <2>1 DEF On, NoGid
    <2>3. Registering' = Registering
        BY <1>2, <2>1, <2>2 DEF Registering, Registered, On
    <2>4. \A q \in Port : On(q)' => /\ On(q) /\ Settled(gid[q])'
                                    /\ Declares(q)' <=> Declares(q)
        <3> TAKE q \in Port
        <3>1. CASE q = p
            BY <2>2, <3>1
        <3>2. CASE q # p
            <4>1. On(q) => Settled(gid[q])
                BY DEF IInv
            <4> QED BY <2>1, <3>2, <4>1 DEF On, Declares
        <3> QED BY <3>1, <3>2
    <2> QED BY <1>2, <2>1, <2>3, <2>4 DEF IInv, Counts
<1> QED BY <1>1, <1>2, Zenon DEF Discard, Destroy

----------------------------------------------------------------------------

LEMMA Initially == Init => IInv
<1> SUFFICES ASSUME Init PROVE IInv
    OBVIOUS
<1>1. \A p \in Port : ~On(p)
    BY DEF Init, On, NoGid
<1>2. Registering = {}
    BY <1>1 DEF Registering, Registered
<1>3. Cardinality(Registering) = 0
    BY <1>2, FS_EmptySet
<1>4. gid \in [Port -> Gid \cup {NoGid}] /\ members = 0
    BY DEF Init
<1> QED BY <1>1, <1>3, <1>4 DEF IInv, Counts

LEMMA Stepwise == IInv /\ [Next]_vars => IInv'
<1> SUFFICES ASSUME IInv, [Next]_vars PROVE IInv'
    OBVIOUS
<1>1. CASE Next
    <2>1. PICK p \in Port :
              \/ Timers(p) \/ Forward(p) \/ Discard(p)
              \/ StationJoins(p) \/ StationTells(p)
        BY <1>1, Zenon DEF Next
    <2>2. CASE JoinTimer(p)
        BY <2>2, JoinTimerStep
    <2>3. CASE LeaveTimer(p)
        BY <2>3, LeaveTimerStep
    <2>4. CASE LeaveAllTimer(p)
        BY <2>4, LeaveAllTimerStep
    <2>5. CASE Forward(p)
        BY <2>5, ForwardStep
    <2>6. CASE Discard(p)
        BY <2>6, DiscardStep
    <2>7. CASE StationJoins(p)
        <3>1. \E e \in RcvEvent : Receive(p, e)
            BY <2>7, Zenon DEF StationJoins, RcvEvent
        <3>2. On(p)
            BY <3>1, Zenon DEF Receive
        <3> QED BY <3>1, <3>2, Heard, Zenon
    <2>8. CASE StationTells(p) /\ ~ReceiveLeaveAll(p)
        <3>1. \E e \in RcvEvent : Receive(p, e)
            BY <2>8, Zenon DEF StationTells
        <3>2. On(p)
            BY <3>1, Zenon DEF Receive
        <3> QED BY <3>1, <3>2, Heard, Zenon
    <2>9. CASE StationTells(p) /\ ReceiveLeaveAll(p)
        BY <2>9, HeardLeaveAll
    <2> QED BY <2>1, <2>2, <2>3, <2>4, <2>5, <2>6, <2>7, <2>8, <2>9, Zenon DEF Timers
<1>2. CASE UNCHANGED vars
    <2>1. gid' = gid /\ members' = members
        BY <1>2 DEF vars
    <2>2. \A q \in Port : /\ On(q)' <=> On(q)
                          /\ On(q)' => Settled(gid[q])'
                          /\ Registered(q)' <=> Registered(q)
                          /\ Declares(q)' <=> Declares(q)
        BY <2>1 DEF IInv, On, Registered, Declares
    <2>3. gid' \in [Port -> Gid \cup {NoGid}]
        BY <2>1 DEF IInv
    <2> QED BY <2>1, <2>2, <2>3, SameDeclared, Zenon
<1> QED BY <1>1, <1>2

\* The inductive invariant of GVRP: settled machines, and the count of the ports that
\* register the VLAN.
THEOREM Invariant == Spec => []IInv
<1> QED BY Initially, Stepwise, PTL DEF Spec

\* Every machine has its type, and the count is at most the number of ports.
THEOREM TypeCorrect == Spec => []TypeOK
<1>1. IInv => TypeOK
    <2> SUFFICES ASSUME IInv PROVE TypeOK
        OBVIOUS
    <2>1. members \in 0..Cardinality(Port)
        BY RegisteringFinite DEF IInv, Counts
    <2> QED BY <2>1 DEF IInv, TypeOK
<1> QED BY <1>1, Invariant, PTL

\* No applicant with something to say and no registrar that counts down is without its
\* timer, for any number of ports (gid_do_actions).
THEOREM TimersRun == Spec => []NothingStalls
<1>1. IInv => NothingStalls
    BY Zenon DEF IInv, Settled, NothingStalls
<1> QED BY <1>1, Invariant, PTL

\* Any number of ports that come, stop and hear what stations like: the count is that of
\* the ports that register the VLAN, and a port declares it exactly if another registers
\* it (gip_propagate_join_event, gip_propagate_leave, gid_destroy_gid).
THEOREM DeclaredExactly == Spec => []DeclaresForOthers
<1>1. IInv => DeclaresForOthers
    BY Zenon DEF IInv, Counts, DeclaresForOthers
<1> QED BY <1>1, Invariant, PTL
=============================================================================
