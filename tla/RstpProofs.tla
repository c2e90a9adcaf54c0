----------------------------- MODULE RstpProofs -----------------------------
(***************************************************************************)
(* Theorems about Rstp: its type, and that a handler leaves its bridge of   *)
(* one mind, however many bridges, ports and cables there are.              *)
(*                                                                         *)
(* A step of a bridge is Minor if it leaves what the ports know and their   *)
(* roles alone and lets only ports forward that may: proposals, agreements, *)
(* timers and the transitions of a role are.  What is left are the steps    *)
(* that record what a port knows, and RoleSelection, which makes a bridge   *)
(* Steady again whatever it knew, if it is Ready: no port without a link    *)
(* forwards, and none that was told something is disabled.                  *)
(***************************************************************************)
EXTENDS Rstp, FiniteSetTheorems, NaturalsInduction, TLAPS

----------------------------------------------------------------------------
(* Numbers, and finite sets of them.                                        *)

LEMMA Least ==
    ASSUME NEW T \in SUBSET Nat, T # {}
    PROVE  \E x \in T : \A y \in T : x <= y
<1> DEFINE R == {ss \in Nat \X Nat : ss[1] < ss[2]}
<1>1. IsWellFoundedOn(R, Nat)
    BY NatLessThanWellFounded, Zenon DEF OpToRel
<1> HIDE DEF R
<1>2. PICK x \in T : \A y \in T : <<y, x>> \notin R
    BY <1>1, WFMin
<1>3. \A y \in T : ~(y < x)
    BY <1>2 DEF R
<1> QED BY <1>3

LEMMA Greatest ==
    ASSUME NEW n \in Nat, NEW T \in SUBSET (0..n), T # {}
    PROVE  \E x \in T : \A y \in T : y <= x
<1> DEFINE U == {n - y : y \in T}
<1>1. U \in SUBSET Nat /\ U # {}
    <2>1. \A y \in T : n - y \in Nat OBVIOUS
    <2>2. PICK y \in T : TRUE OBVIOUS
    <2>3. n - y \in U OBVIOUS
    <2> QED BY <2>1, <2>3
<1> HIDE DEF U
<1>2. PICK u \in U : \A v \in U : u <= v BY <1>1, Least
<1> USE DEF U
<1>3. PICK x \in T : u = n - x OBVIOUS
<1>4. ASSUME NEW y \in T PROVE y <= x
    <2>1. n - y \in U OBVIOUS
    <2> QED BY <1>2, <1>3, <2>1
<1> QED BY <1>4

LEMMA Induction ==
    ASSUME NEW n \in Nat, NEW R, 0 \in R, \A i \in 1..n : i - 1 \in R => i \in R
    PROVE  \A i \in 0..n : i \in R
<1> DEFINE T == {i \in 0..n : i \notin R}
<1>1. SUFFICES ASSUME T # {} PROVE FALSE
    OBVIOUS
<1>2. T \in SUBSET Nat
    OBVIOUS
<1>3. PICK x \in T : \A y \in T : x <= y
    BY <1>1, <1>2, Least
<1>4. x \in 1..n /\ x - 1 \in 0..n /\ x - 1 \notin T
    BY <1>3
<1> QED BY <1>3, <1>4

\* A finite set of numbers has a greatest one.
LEMMA FiniteGreatest ==
    ASSUME NEW T \in SUBSET Nat, IsFiniteSet(T), T # {}
    PROVE  \E x \in T : \A y \in T : y <= x
<1> DEFINE Below(x) == {y \in T : y < x}
           C == {Cardinality(Below(x)) : x \in T}
           n == Cardinality(T)
<1>1. n \in Nat BY FS_CardinalityType
<1>2. ASSUME NEW x \in T PROVE IsFiniteSet(Below(x)) /\ Cardinality(Below(x)) \in 0..n
    <2>1. Below(x) \in SUBSET T OBVIOUS
    <2> HIDE DEF Below, n
    <2>2. IsFiniteSet(Below(x)) /\ Cardinality(Below(x)) <= Cardinality(T) BY <2>1, FS_Subset
    <2>3. Cardinality(Below(x)) \in Nat BY <2>2, FS_CardinalityType
    <2> QED BY <1>1, <2>2, <2>3 DEF n
<1>3. PICK c \in C : \A d \in C : d <= c
    <2>1. C \in SUBSET (0..n) /\ C # {} BY <1>2
    <2> HIDE DEF C, n
    <2> QED BY <1>1, <2>1, Greatest
<1>4. PICK x \in T : c = Cardinality(Below(x)) OBVIOUS
<1>5. ASSUME NEW y \in T PROVE y <= x
    <2>1. SUFFICES ASSUME x < y PROVE FALSE OBVIOUS
    <2>0. x \in Nat /\ y \in Nat OBVIOUS
    <2>2. Below(x) \in SUBSET Below(y) /\ x \in Below(y) /\ x \notin Below(x)
        <3>1. ASSUME NEW z \in T, z < x PROVE z < y
            <4>1. z \in Nat OBVIOUS
            <4> QED BY <2>0, <2>1, <3>1, <4>1
        <3>2. ~(x < x) BY <2>0
        <3> QED BY <2>1, <3>1, <3>2
    <2>3. Cardinality(Below(y)) <= c BY <1>3
    <2> HIDE DEF Below
    <2>4. Cardinality(Below(x)) < Cardinality(Below(y))
        <3>1. IsFiniteSet(Below(y)) BY <1>2
        <3>2. Cardinality(Below(x)) <= Cardinality(Below(y))
              /\ (Cardinality(Below(y)) = Cardinality(Below(x)) => Below(y) = Below(x))
            BY <2>2, <3>1, FS_Subset
        <3> HIDE DEF n
        <3>3. Cardinality(Below(x)) \in Nat /\ Cardinality(Below(y)) \in Nat BY <1>1, <1>2
        <3> QED BY <2>2, <3>2, <3>3
    <2>5. Cardinality(Below(x)) \in Nat /\ Cardinality(Below(y)) \in Nat BY <1>2
    <2> QED BY <1>4, <2>3, <2>4, <2>5
<1> QED BY <1>5

----------------------------------------------------------------------------
(* The order of what ports were told.                                       *)

LEMMA LessTwo ==
    ASSUME NEW a1 \in Nat, NEW a2 \in Nat, NEW b1 \in Nat, NEW b2 \in Nat
    PROVE  Less(<<a1, a2>>, <<b1, b2>>) => a1 < b1 \/ (a1 = b1 /\ a2 < b2)
<1> DEFINE s == <<a1, a2>>
           t == <<b1, b2>>
<1> SUFFICES ASSUME Less(s, t) PROVE a1 < b1 \/ (a1 = b1 /\ a2 < b2) OBVIOUS
<1>1. PICK i \in 1..2 : s[i] < t[i] /\ \A j \in 1..(i - 1) : s[j] = t[j] BY DEF Less
<1>2. i = 1 \/ i = 2 OBVIOUS
<1>3. CASE i = 1 BY <1>1, <1>3
<1>4. CASE i = 2
    <2>1. 1 \in 1..(i - 1) BY <1>4
    <2> QED BY <1>1, <1>4, <2>1
<1> QED BY <1>2, <1>3, <1>4

\* The order is that of the first part in which two vectors differ.
Sixth(a, b) ==
    \/ a[1] < b[1]
    \/ a[1] = b[1] /\ a[2] < b[2]
    \/ a[1] = b[1] /\ a[2] = b[2] /\ a[3] < b[3]
    \/ a[1] = b[1] /\ a[2] = b[2] /\ a[3] = b[3] /\ a[4] < b[4]
    \/ a[1] = b[1] /\ a[2] = b[2] /\ a[3] = b[3] /\ a[4] = b[4] /\ a[5] < b[5]
    \/ a[1] = b[1] /\ a[2] = b[2] /\ a[3] = b[3] /\ a[4] = b[4] /\ a[5] = b[5] /\ a[6] < b[6]

LEMMA LessSix ==
    ASSUME NEW a, DOMAIN a = 1..6, NEW b
    PROVE  Less(a, b) <=> Sixth(a, b)
<1>1. ASSUME Less(a, b) PROVE Sixth(a, b)
    <2>1. PICK i \in 1..6 : a[i] < b[i] /\ \A j \in 1..(i - 1) : a[j] = b[j] BY <1>1 DEF Less
    <2>2. i = 1 \/ i = 2 \/ i = 3 \/ i = 4 \/ i = 5 \/ i = 6 OBVIOUS
    <2>3. \A j \in 1..5 : j < i => a[j] = b[j] BY <2>1
    <2> QED BY <2>1, <2>2, <2>3 DEF Sixth
<1>2. ASSUME Sixth(a, b) PROVE Less(a, b)
    <2>1. \E i \in 1..6 : a[i] < b[i] /\ \A j \in 1..5 : j < i => a[j] = b[j] BY <1>2 DEF Sixth
    <2>2. PICK i \in 1..6 : a[i] < b[i] /\ \A j \in 1..5 : j < i => a[j] = b[j] BY <2>1
    <2>3. \A j \in 1..(i - 1) : a[j] = b[j] BY <2>2
    <2> QED BY <2>2, <2>3 DEF Less
<1> QED BY <1>1, <1>2

\* The ports of U whose number in f is the least.
Lowest(f, U) == {p \in U : \A q \in U : f[p] <= f[q]}

LEMMA LowestIs ==
    ASSUME NEW f \in [Port -> Nat], NEW U \in SUBSET Port, U # {}
    PROVE  Lowest(f, U) # {} /\ Lowest(f, U) \in SUBSET Port
<1> DEFINE T == {f[p] : p \in U}
<1>1. T \in SUBSET Nat /\ T # {} OBVIOUS
<1> HIDE DEF T
<1>2. PICK x \in T : \A y \in T : x <= y BY <1>1, Least
<1>3. PICK p \in U : f[p] = x BY <1>2 DEF T
<1>4. \A q \in U : f[p] <= f[q] BY <1>2, <1>3 DEF T
<1> QED BY <1>3, <1>4 DEF Lowest

----------------------------------------------------------------------------
(* One port.                                                                *)

LEMMA PortFields ==
    ASSUME NEW n \in PortType
    PROVE  /\ n.enabled \in BOOLEAN /\ n.role \in PortRole /\ n.state \in PortState
           /\ n.info \in {"DISABLED", "AGED", "MINE", "RECEIVED"} /\ n.vec \in Vector /\ n.age \in Nat
           /\ n.send_proposal \in BOOLEAN /\ n.rcv_proposal \in BOOLEAN /\ n.agree \in BOOLEAN
           /\ n.agreed \in BOOLEAN /\ n.disputed \in BOOLEAN /\ n.selected \in BOOLEAN
           /\ n.newInfo \in BOOLEAN /\ n.message_age \in {Off} \cup 0..3
           /\ n.forward_delay \in Timer /\ n.recent_root \in Timer /\ n.recent_backup \in Timer
BY DEF PortType

\* A step of a port that leaves its role and what it knows alone.
Forwards == {"ROOT", "DESIGNATED"}
Knows(m, n) ==
    /\ m.enabled = n.enabled /\ m.role = n.role /\ m.info = n.info
    /\ m.vec = n.vec /\ m.age = n.age /\ m.selected = n.selected
Mild(m, n) ==
    /\ m \in PortType /\ Knows(m, n)
    /\ m.state = "FORWARDING" => n.state = "FORWARDING" \/ n.role \in Forwards

LEMMA MildSelf == \A n \in PortType : Mild(n, n)
BY DEF Mild, Knows

LEMMA MildMore ==
    ASSUME NEW m, NEW n, NEW k, Mild(m, n), Mild(n, k)
    PROVE  Mild(m, k)
BY DEF Mild, Knows

LEMMA TimerIs == Off \in Timer /\ 0 \in Timer /\ 1 \in Timer /\ 2 \in Timer /\ FwdDelay \in Timer
BY TimeAssumption DEF Timer

LEMMA SetStateIs ==
    ASSUME NEW n \in PortType, NEW state \in PortState, NEW m, m = SetState(n, state)
    PROVE  Mild(m, n) /\ (state # "FORWARDING" => m.state = state)
<1>1. CASE n.state = state \/ (state = "FORWARDING" /\ n.role \notin {"ROOT", "DESIGNATED"})
    <2>1. m = n BY <1>1 DEF SetState
    <2> QED BY <1>1, <2>1, MildSelf
<1>2. CASE ~(n.state = state \/ (state = "FORWARDING" /\ n.role \notin {"ROOT", "DESIGNATED"}))
    <2> DEFINE a == n.agreed \/ n.role = "DESIGNATED"
               r == IF state = "DISCARDING" THEN Off ELSE n.recent_root
    <2>1. m = [n EXCEPT !.state = state, !.agreed = a, !.recent_root = r]
        BY <1>2 DEF SetState
    <2>2. a \in BOOLEAN OBVIOUS
    <2>3. r \in Timer BY PortFields, TimerIs
    <2> HIDE DEF a, r
    <2>4. m \in PortType BY <2>1, <2>2, <2>3 DEF PortType
    <2>5. Knows(m, n) /\ m.state = state BY <2>1 DEF Knows, PortType
    <2>6. state = "FORWARDING" => n.role \in Forwards BY <1>2 DEF Forwards
    <2> QED BY <2>4, <2>5, <2>6 DEF Mild
<1> QED BY <1>1, <1>2

LEMMA SetRoleIs ==
    ASSUME NEW n \in PortType, NEW role \in PortRole, NEW m, m = SetRole(n, role)
    PROVE  /\ m \in PortType /\ m.role = role /\ m.state = n.state
           /\ m.enabled = n.enabled /\ m.info = n.info
           /\ m.vec = n.vec /\ m.age = n.age /\ m.selected = n.selected
<1>1. CASE n.role = role
    <2>1. m = n BY <1>1 DEF SetRole
    <2> QED BY <1>1, <2>1
<1>2. CASE n.role # role
    <2> DEFINE active == role \in {"ROOT", "DESIGNATED"}
               waited == n.role \in {"ALTERNATE", "BACKUP"} /\ n.state = "DISCARDING"
               rr == CASE ~active -> Off
                       [] active /\ n.role = "ROOT" /\ n.recent_root = Off -> FwdDelay
                       [] OTHER -> n.recent_root
               rb == IF n.role = "BACKUP" /\ n.recent_backup = Off THEN 2 ELSE n.recent_backup
               fd == CASE ~active -> n.forward_delay
                       [] active /\ waited -> FwdDelay
                       [] active /\ ~waited -> 1
    <2>1. m = [n EXCEPT !.role = role, !.recent_root = rr, !.recent_backup = rb, !.forward_delay = fd]
        BY <1>2 DEF SetRole
    <2>2. rr \in Timer BY PortFields, TimerIs
    <2>3. rb \in Timer BY PortFields, TimerIs
    <2>4. fd \in Timer BY PortFields, TimerIs
    <2> HIDE DEF rr, rb, fd
    <2>5. m \in PortType
        <3> DEFINE k == [n EXCEPT !.role = role, !.recent_root = rr]
        <3>1. k \in PortType BY <2>2 DEF PortType
        <3>2. m = [k EXCEPT !.recent_backup = rb, !.forward_delay = fd] BY <2>1
        <3> HIDE DEF k
        <3> QED BY <2>3, <2>4, <3>1, <3>2 DEF PortType
    <2>6. /\ m.role = role /\ m.state = n.state /\ m.enabled = n.enabled /\ m.info = n.info
          /\ m.vec = n.vec /\ m.age = n.age /\ m.selected = n.selected
        BY <2>1 DEF PortType
    <2> QED BY <2>5, <2>6
<1> QED BY <1>1, <1>2

LEMMA ConfigUpdateIs ==
    ASSUME NEW n \in PortType, NEW d \in Vector, NEW age \in Nat, NEW m, m = ConfigUpdate(n, d, age)
    PROVE  /\ m \in PortType /\ m.role = n.role /\ m.state = n.state
           /\ m.enabled = n.enabled /\ m.info = "MINE"
           /\ m.vec = d /\ m.age = age /\ m.selected = n.selected
<1> DEFINE a == n.agreed /\ ~Less(<<n.vec.root, n.vec.cost, n.vec.bridge>>, <<d.root, d.cost, d.bridge>>)
<1>1. m = [n EXCEPT !.agreed = a, !.vec = d, !.age = age, !.info = "MINE",
                    !.send_proposal = FALSE, !.agree = FALSE, !.newInfo = TRUE]
    BY DEF ConfigUpdate
<1>2. a \in BOOLEAN OBVIOUS
<1> HIDE DEF a
<1> DEFINE k == [n EXCEPT !.agreed = a, !.vec = d, !.age = age, !.info = "MINE"]
<1>3. m = [k EXCEPT !.send_proposal = FALSE, !.agree = FALSE, !.newInfo = TRUE] BY <1>1
<1>4. k \in PortType
    <2> DEFINE j == [n EXCEPT !.agreed = a, !.vec = d]
    <2>1. j \in PortType BY <1>2 DEF PortType
    <2>2. k = [j EXCEPT !.age = age, !.info = "MINE"] OBVIOUS
    <2> HIDE DEF j, k
    <2> QED BY <2>1, <2>2 DEF PortType
<1>5. /\ k.role = n.role /\ k.state = n.state /\ k.enabled = n.enabled /\ k.info = "MINE"
      /\ k.vec = d /\ k.age = age /\ k.selected = n.selected
    BY DEF PortType
<1> HIDE DEF k
<1>6. m \in PortType BY <1>3, <1>4 DEF PortType
<1> QED BY <1>3, <1>4, <1>5, <1>6 DEF PortType

LEMMA DesignatedIs ==
    ASSUME NEW b \in BridgeType, NEW id \in Bridge, NEW p \in Port
    PROVE  Designated(b, id, p) \in Vector
BY PortAssumption DEF Designated, Vector, BridgeType

LEMMA DesignatedTransitionIs ==
    ASSUME NEW n \in PortType, NEW m, m = DesignatedTransition(n)
    PROVE  Mild(m, n)
<1>1. CASE n.state # "FORWARDING" /\ ~n.send_proposal
    <2>1. m = [n EXCEPT !.send_proposal = TRUE, !.newInfo = TRUE] BY <1>1 DEF DesignatedTransition
    <2> QED BY <2>1 DEF Mild, Knows, PortType
<1>2. CASE ~(n.state # "FORWARDING" /\ ~n.send_proposal) /\ n.state = "DISCARDING"
    <2>1. m = [n EXCEPT !.recent_root = Off] BY <1>2 DEF DesignatedTransition
    <2> QED BY <2>1, TimerIs DEF Mild, Knows, PortType
<1>3. CASE ~(n.state # "FORWARDING" /\ ~n.send_proposal) /\ n.state # "DISCARDING"
    <2>1. m = n BY <1>3 DEF DesignatedTransition
    <2> QED BY <2>1, MildSelf
<1> QED BY <1>1, <1>2, <1>3

LEMMA HeldIs ==
    ASSUME NEW n \in PortType, NEW m, m = Held(n)
    PROVE  Mild(m, n) /\ m.state = "DISCARDING"
<1> DEFINE k == SetState(n, "DISCARDING")
<1>1. Mild(k, n) /\ k.state = "DISCARDING" BY SetStateIs DEF PortState
<1>2. m = [k EXCEPT !.forward_delay = 1] BY DEF Held
<1> HIDE DEF k
<1>3. Mild(m, k) /\ m.state = k.state BY <1>1, <1>2, TimerIs DEF Mild, Knows, PortType
<1> QED BY <1>1, <1>3, MildMore

----------------------------------------------------------------------------
(* The ports of one bridge and what it believes.                            *)

Work == [port : [Port -> PortType], br : BridgeType]

LEMMA WorkFields ==
    ASSUME NEW s \in Work
    PROVE  s.port \in [Port -> PortType] /\ s.br \in BridgeType /\ s = [port |-> s.port, br |-> s.br]
BY DEF Work

LEMMA WorkIs ==
    ASSUME NEW f \in [Port -> PortType], NEW b \in BridgeType, NEW s, s = [port |-> f, br |-> b]
    PROVE  s \in Work /\ s.port = f /\ s.br = b
BY DEF Work

LEMMA BridgeFields ==
    ASSUME NEW b \in BridgeType
    PROVE  /\ b.root \in Nat /\ b.cost \in Nat /\ b.root_port \in Port \cup {NoPort} /\ b.age \in Nat
           /\ b.recent_root \in Port \cup {NoPort}
BY DEF BridgeType

SameBelief(c, b) ==
    c.root = b.root /\ c.cost = b.cost /\ c.root_port = b.root_port /\ c.age = b.age

\* A step of a bridge that leaves what its ports know and their roles alone.
Minor(t, s, id) ==
    /\ t \in Work /\ SameBelief(t.br, s.br)
    /\ \A q \in Port : Mild(t.port[q], s.port[q])
    /\ \A q \in Port : Of[q] # id => t.port[q] = s.port[q]

LEMMA MinorSelf == \A s \in Work : \A id : Minor(s, s, id)
BY WorkFields, MildSelf DEF Minor, SameBelief

LEMMA MinorMore ==
    ASSUME NEW id, NEW s, NEW t, NEW u, Minor(t, s, id), Minor(u, t, id)
    PROVE  Minor(u, s, id)
<1>1. SameBelief(u.br, s.br) BY DEF Minor, SameBelief
<1>2. \A q \in Port : Mild(u.port[q], s.port[q]) BY MildMore DEF Minor
<1> QED BY <1>1, <1>2 DEF Minor

\* One port is changed.
WithPort(s, p, m) == [s EXCEPT !.port[p] = m]

LEMMA PutPort ==
    ASSUME NEW s \in Work, NEW p \in Port, NEW m \in PortType,
           NEW t, t = WithPort(s, p, m)
    PROVE  /\ t \in Work /\ t.br = s.br /\ t.port = [s.port EXCEPT ![p] = m]
           /\ t.port[p] = m /\ \A q \in Port : q # p => t.port[q] = s.port[q]
<1>1. s.port \in [Port -> PortType] BY WorkFields
<1>2. t.port = [s.port EXCEPT ![p] = m] /\ t.br = s.br BY DEF Work, WithPort
<1>3. t = [port |-> [s.port EXCEPT ![p] = m], br |-> s.br] BY DEF Work, WithPort
<1>4. [s.port EXCEPT ![p] = m] \in [Port -> PortType] BY <1>1
<1>5. t \in Work BY <1>3, <1>4, WorkFields, WorkIs
<1> QED BY <1>1, <1>2, <1>5

LEMMA PutMild ==
    ASSUME NEW s \in Work, NEW p \in Port, NEW m, Mild(m, s.port[p]),
           NEW t, t = WithPort(s, p, m)
    PROVE  Minor(t, s, Of[p]) /\ t.port[p] = m /\ t.br = s.br
<1>1. m \in PortType /\ s.port \in [Port -> PortType] BY WorkFields DEF Mild
<1>2. /\ t \in Work /\ t.br = s.br /\ t.port[p] = m
      /\ \A q \in Port : q # p => t.port[q] = s.port[q]
    <2> DEFINE f == [s.port EXCEPT ![p] = m]
    <2>1. t = [port |-> f, br |-> s.br] BY DEF Work, WithPort
    <2>2. f \in [Port -> PortType] /\ f[p] = m /\ \A q \in Port : q # p => f[q] = s.port[q] BY <1>1
    <2>3. s.br \in BridgeType BY WorkFields
    <2> HIDE DEF f
    <2>4. t \in Work /\ t.port = f /\ t.br = s.br BY <2>1, <2>2, <2>3, WorkIs
    <2> QED BY <2>2, <2>4
<1>3. s.port \in [Port -> PortType] BY WorkFields
<1>4. \A q \in Port : Mild(t.port[q], s.port[q]) BY <1>2, <1>3, MildSelf
<1> QED BY <1>2, <1>4 DEF Minor, SameBelief

\* Some ports of a bridge are changed at once.
LEMMA PutAll ==
    ASSUME NEW s \in Work, NEW id, NEW f, f = [q \in Port |-> f[q]],
           \A q \in Port : Mild(f[q], s.port[q]),
           \A q \in Port : Of[q] # id => f[q] = s.port[q],
           NEW t, t = [s EXCEPT !.port = f]
    PROVE  Minor(t, s, id) /\ t.port = f /\ t.br = s.br
<1>1. f \in [Port -> PortType] BY DEF Mild
<1>2. t = [port |-> f, br |-> s.br] BY DEF Work
<1>3. s.br \in BridgeType BY WorkFields
<1>4. t \in Work /\ t.port = f /\ t.br = s.br BY <1>1, <1>2, <1>3, WorkIs
<1> QED BY <1>4 DEF Minor, SameBelief

----------------------------------------------------------------------------
(* Handling proposals.                                                      *)

LEMMA RcvProposalIs ==
    ASSUME NEW s \in Work, NEW p \in Port, NEW t, t = RcvProposal(s, p)
    PROVE  Minor(t, s, Of[p]) /\ t.br = s.br
<1> DEFINE f == [q \in Port |->
        CASE q = p -> [s.port[p] EXCEPT !.agree = TRUE, !.newInfo = TRUE]
          [] Of[q] = Of[p] /\ q # p /\ s.port[q].role = "DESIGNATED" /\ ~s.port[p].agreed ->
                [Held(s.port[q]) EXCEPT !.send_proposal = TRUE]
          [] OTHER -> s.port[q]]
<1>1. t = [s EXCEPT !.port = f] BY DEF RcvProposal
<1>2. s.port \in [Port -> PortType] BY WorkFields
<1>3. ASSUME NEW q \in Port PROVE Mild(f[q], s.port[q]) /\ (Of[q] # Of[p] => f[q] = s.port[q])
    <2>1. s.port[q] \in PortType BY <1>2
    <2>2. CASE q = p
        <3>1. f[q] = [s.port[q] EXCEPT !.agree = TRUE, !.newInfo = TRUE] BY <2>2
        <3> HIDE DEF f
        <3>2. Mild(f[q], s.port[q]) BY <2>1, <3>1 DEF Mild, Knows, PortType
        <3> QED BY <2>2, <3>2
    <2>3. CASE q # p /\ Of[q] = Of[p] /\ s.port[q].role = "DESIGNATED" /\ ~s.port[p].agreed
        <3> DEFINE k == Held(s.port[q])
        <3>1. Mild(k, s.port[q]) BY <2>1, HeldIs
        <3>2. f[q] = [k EXCEPT !.send_proposal = TRUE] BY <2>3
        <3> HIDE DEF f, k
        <3>3. Mild(f[q], k) BY <3>1, <3>2 DEF Mild, Knows, PortType
        <3> QED BY <2>3, <3>1, <3>3, MildMore
    <2>4. CASE q # p /\ ~(Of[q] = Of[p] /\ s.port[q].role = "DESIGNATED" /\ ~s.port[p].agreed)
        <3>1. f[q] = s.port[q] BY <2>4
        <3> QED BY <2>1, <3>1, MildSelf
    <2> QED BY <2>2, <2>3, <2>4
<1>4. f = [q \in Port |-> f[q]] OBVIOUS
<1> HIDE DEF f
<1> QED BY <1>1, <1>3, <1>4, PutAll

LEMMA SendProposalIs ==
    ASSUME NEW s \in Work, NEW p \in Port, NEW t, t = SendProposal(s, p)
    PROVE  Minor(t, s, Of[p])
<1> DEFINE f == [q \in Port |->
        IF Of[q] = Of[p] /\ q # p /\ s.port[q].role = "DESIGNATED"
        THEN [s.port[q] EXCEPT !.send_proposal = TRUE, !.newInfo = TRUE] ELSE s.port[q]]
<1>1. t = [s EXCEPT !.port = f] BY DEF SendProposal
<1>2. s.port \in [Port -> PortType] BY WorkFields
<1>3. ASSUME NEW q \in Port PROVE Mild(f[q], s.port[q]) /\ (Of[q] # Of[p] => f[q] = s.port[q])
    <2>1. s.port[q] \in PortType BY <1>2
    <2>2. CASE Of[q] = Of[p] /\ q # p /\ s.port[q].role = "DESIGNATED"
        <3>1. f[q] = [s.port[q] EXCEPT !.send_proposal = TRUE, !.newInfo = TRUE] BY <2>2
        <3> HIDE DEF f
        <3>2. Mild(f[q], s.port[q]) BY <2>1, <3>1 DEF Mild, Knows, PortType
        <3> QED BY <2>2, <3>2
    <2>3. CASE ~(Of[q] = Of[p] /\ q # p /\ s.port[q].role = "DESIGNATED")
        <3>1. f[q] = s.port[q] BY <2>3
        <3> QED BY <2>1, <3>1, MildSelf
    <2> QED BY <2>2, <2>3
<1>4. f = [q \in Port |-> f[q]] OBVIOUS
<1> HIDE DEF f
<1> QED BY <1>1, <1>3, <1>4, PutAll

LEMMA ReRootIs ==
    ASSUME NEW s \in Work, NEW p \in Port, NEW t, t = ReRoot(s, p)
    PROVE  Minor(t, s, Of[p]) /\ t.br = s.br
<1> DEFINE f == [q \in Port |->
        IF Of[q] = Of[p] /\ s.port[q].role = "DESIGNATED" /\ s.port[q].recent_root # Off
        THEN [Held(s.port[q]) EXCEPT !.agreed = FALSE, !.recent_root = Off] ELSE s.port[q]]
<1>1. t = [s EXCEPT !.port = f] BY DEF ReRoot
<1>2. s.port \in [Port -> PortType] BY WorkFields
<1>3. ASSUME NEW q \in Port PROVE Mild(f[q], s.port[q]) /\ (Of[q] # Of[p] => f[q] = s.port[q])
    <2>1. s.port[q] \in PortType BY <1>2
    <2>2. CASE Of[q] = Of[p] /\ s.port[q].role = "DESIGNATED" /\ s.port[q].recent_root # Off
        <3> DEFINE k == Held(s.port[q])
        <3>1. Mild(k, s.port[q]) BY <2>1, HeldIs
        <3>2. f[q] = [k EXCEPT !.agreed = FALSE, !.recent_root = Off] BY <2>2
        <3> HIDE DEF f, k
        <3>3. Mild(f[q], k) BY <3>1, <3>2, TimerIs DEF Mild, Knows, PortType
        <3> QED BY <2>2, <3>1, <3>3, MildMore
    <2>3. CASE ~(Of[q] = Of[p] /\ s.port[q].role = "DESIGNATED" /\ s.port[q].recent_root # Off)
        <3>1. f[q] = s.port[q] BY <2>3
        <3> QED BY <2>1, <3>1, MildSelf
    <2> QED BY <2>2, <2>3
<1>4. f = [q \in Port |-> f[q]] OBVIOUS
<1> HIDE DEF f
<1> QED BY <1>1, <1>3, <1>4, PutAll

LEMMA AnswerIs ==
    ASSUME NEW s \in Work, NEW p \in Port, NEW t, t = Answer(s, p)
    PROVE  Minor(t, s, Of[p]) /\ t.br = s.br
<1> DEFINE u == IF s.port[p].agree THEN [s EXCEPT !.port[p].newInfo = TRUE] ELSE RcvProposal(s, p)
<1>1. CASE s.port[p].rcv_proposal
    <2>1. t = [u EXCEPT !.port[p].rcv_proposal = FALSE] BY <1>1 DEF Answer
    <2>2. Minor(u, s, Of[p]) /\ u.br = s.br
        <3>1. CASE s.port[p].agree
            <4> DEFINE m == [s.port[p] EXCEPT !.newInfo = TRUE]
            <4>1. s.port[p] \in PortType BY WorkFields
            <4>2. Mild(m, s.port[p]) BY <4>1 DEF Mild, Knows, PortType
            <4>3. u = WithPort(s, p, m) BY <3>1 DEF WithPort
            <4> HIDE DEF u, m
            <4> QED BY <4>2, <4>3, PutMild
        <3>2. CASE ~s.port[p].agree BY <3>2, RcvProposalIs
        <3> QED BY <3>1, <3>2
    <2> HIDE DEF u
    <2> DEFINE m == [u.port[p] EXCEPT !.rcv_proposal = FALSE]
    <2>3. u \in Work BY <2>2 DEF Minor
    <2>4. u.port[p] \in PortType BY <2>3, WorkFields
    <2>5. Mild(m, u.port[p]) BY <2>4 DEF Mild, Knows, PortType
    <2>6. t = WithPort(u, p, m) BY <2>1 DEF WithPort
    <2> HIDE DEF m
    <2>7. Minor(t, u, Of[p]) /\ t.br = u.br BY <2>3, <2>5, <2>6, PutMild
    <2> QED BY <2>2, <2>7, MinorMore
<1>2. CASE ~s.port[p].rcv_proposal
    <2>1. t = s BY <1>2 DEF Answer
    <2> QED BY <2>1, MinorSelf
<1> QED BY <1>1, <1>2

LEMMA OpenIs ==
    ASSUME NEW n \in PortType, NEW m,
           m = [SetState(SetState(n, "LEARNING"), "FORWARDING") EXCEPT !.forward_delay = Off]
    PROVE  Mild(m, n)
<1> DEFINE k == SetState(n, "LEARNING")
           j == SetState(k, "FORWARDING")
<1>1. Mild(k, n) BY SetStateIs DEF PortState
<1>2. m = [j EXCEPT !.forward_delay = Off] OBVIOUS
<1> HIDE DEF k
<1>3. k \in PortType BY <1>1 DEF Mild
<1>4. Mild(j, k) BY <1>3, SetStateIs DEF PortState
<1> HIDE DEF j
<1>5. Mild(m, j) BY <1>2, <1>4, TimerIs DEF Mild, Knows, PortType
<1> QED BY <1>1, <1>4, <1>5, MildMore

LEMMA RecentRootIs ==
    ASSUME NEW id, NEW s \in Work, NEW r \in Port \cup {NoPort}, NEW t, t = [s EXCEPT !.br.recent_root = r]
    PROVE  Minor(t, s, id)
<1> DEFINE b == [s.br EXCEPT !.recent_root = r]
<1>1. s.port \in [Port -> PortType] /\ s.br \in BridgeType BY WorkFields
<1>2. b \in BridgeType /\ SameBelief(b, s.br) BY <1>1 DEF BridgeType, SameBelief
<1>3. t = [port |-> s.port, br |-> b] BY DEF Work
<1> HIDE DEF b
<1>4. t \in Work /\ t.port = s.port /\ t.br = b BY <1>1, <1>2, <1>3 DEF Work
<1> QED BY <1>1, <1>2, <1>4, MildSelf DEF Minor

LEMMA RootTransitionIs ==
    ASSUME NEW s \in Work, NEW p \in Port, NEW t, t = RootTransition(s, p)
    PROVE  Minor(t, s, Of[p])
<1> DEFINE said == IF s.port[p].rcv_proposal THEN Answer(s, p)
                   ELSE [s EXCEPT !.port[p].agree = TRUE, !.port[p].newInfo = @ \/ ~s.port[p].agree]
           alone == IF said.port[p].state # "FORWARDING" /\ said.br.recent_root # p
                    THEN ReRoot(said, p) ELSE said
           n == alone.port[p]
           moved == IF n.state # "FORWARDING" /\ n.recent_backup = Off
                    THEN [SetState(SetState(n, "LEARNING"), "FORWARDING") EXCEPT !.forward_delay = Off]
                    ELSE n
<1>1. t = [alone EXCEPT !.port[p] = moved, !.br.recent_root = p] BY DEF RootTransition
<1>2. Minor(said, s, Of[p])
    <2>1. CASE s.port[p].rcv_proposal BY <2>1, AnswerIs
    <2>2. CASE ~s.port[p].rcv_proposal
        <3> DEFINE x == s.port[p].newInfo \/ ~s.port[p].agree
                   m == [s.port[p] EXCEPT !.agree = TRUE, !.newInfo = x]
        <3>1. s.port[p] \in PortType /\ s.port \in [Port -> PortType] BY WorkFields
        <3>2. x \in BOOLEAN OBVIOUS
        <3>3. said = WithPort(s, p, m) BY <2>2, <3>1 DEF WithPort, Work
        <3> HIDE DEF x
        <3>4. Mild(m, s.port[p]) BY <3>1, <3>2 DEF Mild, Knows, PortType
        <3> HIDE DEF said, m
        <3> QED BY <3>3, <3>4, PutMild
    <2> QED BY <2>1, <2>2
<1> HIDE DEF said
<1>3. said \in Work BY <1>2 DEF Minor
<1>4. Minor(alone, said, Of[p])
    <2>1. Minor(said, said, Of[p]) BY <1>3, MinorSelf
    <2>2. Minor(ReRoot(said, p), said, Of[p]) BY <1>3, ReRootIs
    <2> QED BY <2>1, <2>2
<1> HIDE DEF alone
<1>5. alone \in Work BY <1>4 DEF Minor
<1>6. n \in PortType BY <1>5, WorkFields
<1> HIDE DEF n
<1>7. Mild(moved, n) BY <1>6, OpenIs, MildSelf
<1> HIDE DEF moved
<1> DEFINE u == WithPort(alone, p, moved)
<1>8. Minor(u, alone, Of[p]) BY <1>5, <1>7, PutMild DEF n
<1>9. u \in Work BY <1>8 DEF Minor
<1>10. t = [u EXCEPT !.br.recent_root = p] BY <1>1 DEF WithPort
<1> HIDE DEF u
<1>11. Minor(t, u, Of[p]) BY <1>9, <1>10, RecentRootIs
<1> QED BY <1>2, <1>4, <1>8, <1>11, MinorMore

LEMMA BlockedTransitionIs ==
    ASSUME NEW s \in Work, NEW p \in Port, s.port[p].role \notin Forwards,
           NEW t, t = BlockedTransition(s, p)
    PROVE  Minor(t, s, Of[p]) /\ t.port[p].state # "FORWARDING"
<1> DEFINE m == SetState(s.port[p], "DISCARDING")
           u == WithPort(s, p, m)
<1>1. s.port[p] \in PortType BY WorkFields
<1>2. Mild(m, s.port[p]) /\ m.state = "DISCARDING" BY <1>1, SetStateIs DEF PortState
<1>3. t = Answer(u, p)
    <2>1. u = [s EXCEPT !.port[p] = SetState(@, "DISCARDING")] BY DEF WithPort
    <2> QED BY <2>1 DEF BlockedTransition
<1> HIDE DEF m
<1>4. Minor(u, s, Of[p]) /\ u.port[p] = m BY <1>2, PutMild
<1> HIDE DEF u
<1>5. Minor(t, u, Of[p]) BY <1>3, <1>4, AnswerIs DEF Minor
<1>6. t.port[p].state # "FORWARDING" BY <1>2, <1>4, <1>5 DEF Minor, Mild, Knows
<1> QED BY <1>4, <1>5, <1>6, MinorMore

LEMMA TransitionIs ==
    ASSUME NEW s \in Work, NEW p \in Port, NEW t, t = Transition(s, p)
    PROVE  /\ Minor(t, s, Of[p])
           /\ s.port[p].role \in {"ALTERNATE", "BACKUP"} => t.port[p].state # "FORWARDING"
<1>1. CASE s.port[p].role = "ROOT"
    <2>1. t = RootTransition(s, p) BY <1>1 DEF Transition
    <2> QED BY <1>1, <2>1, RootTransitionIs
<1>2. CASE s.port[p].role \in {"ALTERNATE", "BACKUP"}
    <2>1. t = BlockedTransition(s, p) BY <1>2 DEF Transition
    <2>2. s.port[p].role \notin Forwards BY <1>2 DEF Forwards
    <2> QED BY <2>1, <2>2, BlockedTransitionIs
<1>3. CASE s.port[p].role \notin {"ROOT", "ALTERNATE", "BACKUP"}
    <2>1. t = s BY <1>3 DEF Transition
    <2> QED BY <1>3, <2>1, MinorSelf
<1> QED BY <1>1, <1>2, <1>3

----------------------------------------------------------------------------
(* The roles of a bridge.                                                   *)

\* No port was told of a shorter way to the root than its bridge takes.
NoShorter(n, b, p) == Told(n, p) => ~Less(<<n.vec.root, n.vec.cost + cist_path_cost[p]>>, <<b.root, b.cost>>)

\* A blocked port has heard something as good as what it would tell.
Blocked(n, b, p) ==
    n.role \in {"ALTERNATE", "BACKUP"} /\ n.selected =>
        /\ n.info = "RECEIVED" /\ ~Less(Key(Designated(b, Of[p], p)), Key(n.vec))
        /\ n.role = "BACKUP" <=> n.vec.bridge = Of[p]

\* If n is what root port p holds, port q that holds k was not told of a better way.
RootBest(n, p, k, q) == n.role = "ROOT" /\ n.selected /\ Told(k, q) => ~Less(Path(k, q), Path(n, p))

\* What the role of port p says of what it knows and of what its bridge believes.
RoleTells(n, b, p) ==
    /\ n.role = "ROOT" <=> b.root_port = p
    /\ n.role = "DESIGNATED" /\ n.selected => n.vec = Designated(b, Of[p], p) /\ n.age = b.age
    /\ n.role = "ROOT" /\ n.selected =>
          /\ b.root = n.vec.root /\ b.cost = n.vec.cost + cist_path_cost[p] /\ b.age = n.age + 1
          /\ b.root < Of[p] /\ n.vec.bridge # Of[p]
    /\ NoShorter(n, b, p) /\ Blocked(n, b, p)
    /\ n.info = "DISABLED" => n.role = "DISABLED"
    /\ n.info = "RECEIVED" => n.role # "DISABLED"
Local(n, b, p) == RoleTells(n, b, p) /\ (n.state = "FORWARDING" => n.role \in Forwards)
RootStands(s, id) ==
    \A p, q \in Port : Of[p] = id /\ Of[q] = id => RootBest(s.port[p], p, s.port[q], q)
Steady(s, id) ==
    /\ s \in Work /\ \A q \in Port : Of[q] = id => Local(s.port[q], s.br, q)
    /\ RootStands(s, id)

LEMMA NoShorterMore ==
    ASSUME NEW n, NEW m, Knows(m, n), NEW b, NEW c, SameBelief(c, b), NEW p \in Port,
           NoShorter(n, b, p), Blocked(n, b, p)
    PROVE  NoShorter(m, c, p) /\ Blocked(m, c, p)
<1>1. /\ m.role = n.role /\ m.selected = n.selected /\ m.info = n.info /\ m.vec = n.vec
      /\ c.root = b.root /\ c.cost = b.cost
    BY DEF Knows, SameBelief
<1>2. Designated(c, Of[p], p) = Designated(b, Of[p], p) BY <1>1 DEF Designated
<1>3. Told(m, p) <=> Told(n, p) BY <1>1 DEF Told
<1>4. NoShorter(m, c, p) BY <1>1, <1>3 DEF NoShorter
<1>5. Blocked(m, c, p) BY <1>1, <1>2 DEF Blocked
<1> QED BY <1>4, <1>5

LEMMA RootBestMore ==
    ASSUME NEW n, NEW m, Knows(m, n), NEW k, NEW j, Knows(j, k), NEW p, NEW q, RootBest(n, p, k, q)
    PROVE  RootBest(m, p, j, q)
<1>1. /\ m.role = n.role /\ m.selected = n.selected /\ m.vec = n.vec
      /\ j.selected = k.selected /\ j.info = k.info /\ j.vec = k.vec
    BY DEF Knows
<1>2. Path(m, p) = Path(n, p) /\ Path(j, q) = Path(k, q) BY <1>1 DEF Path
<1>3. Told(j, q) <=> Told(k, q) BY <1>1 DEF Told
<1> QED BY <1>1, <1>2, <1>3 DEF RootBest

LEMMA RoleTellsMore ==
    ASSUME NEW n, NEW m, Knows(m, n), NEW b, NEW c, SameBelief(c, b), NEW p \in Port, RoleTells(n, b, p)
    PROVE  RoleTells(m, c, p)
<1>1. NoShorter(m, c, p) /\ Blocked(m, c, p) BY NoShorterMore DEF RoleTells
<1> QED BY <1>1 DEF RoleTells, Knows, SameBelief, Designated

LEMMA SteadyMore ==
    ASSUME NEW id, NEW s, NEW t, Minor(t, s, id), Steady(s, id)
    PROVE  Steady(t, id)
<1>1. ASSUME NEW q \in Port, Of[q] = id PROVE Local(t.port[q], t.br, q)
    <2>1. Mild(t.port[q], s.port[q]) /\ SameBelief(t.br, s.br) BY DEF Minor
    <2>2. Local(s.port[q], s.br, q) BY <1>1 DEF Steady
    <2>3. RoleTells(t.port[q], t.br, q) BY <2>1, <2>2, RoleTellsMore DEF Local, Mild
    <2>4. t.port[q].state = "FORWARDING" => t.port[q].role \in Forwards
        BY <2>1, <2>2 DEF Local, Mild, Knows
    <2> QED BY <2>3, <2>4 DEF Local
<1>2. ASSUME NEW p \in Port, NEW q \in Port, Of[p] = id, Of[q] = id
      PROVE  RootBest(t.port[p], p, t.port[q], q)
    <2>1. RootBest(s.port[p], p, s.port[q], q) BY <1>2 DEF Steady, RootStands
    <2>2. Knows(t.port[p], s.port[p]) /\ Knows(t.port[q], s.port[q]) BY DEF Minor, Mild
    <2> QED BY <2>1, <2>2, RootBestMore
<1>3. t \in Work BY DEF Minor
<1> QED BY <1>1, <1>2, <1>3 DEF Steady, RootStands

\* What RoleSelection needs to know of the bridge it is called for.
Ready(s, id) ==
    /\ s \in Work
    /\ \A q \in Port : Of[q] = id =>
          /\ s.port[q].info = "DISABLED" => s.port[q].state # "FORWARDING"
          /\ s.port[q].info = "RECEIVED" => s.port[q].role # "DISABLED"

LEMMA SteadyReady ==
    ASSUME NEW id, NEW s, Steady(s, id)
    PROVE  Ready(s, id)
BY DEF Ready, Steady, Local, RoleTells, Forwards

Believes(b, root, cost, p, age) == [b EXCEPT !.root = root, !.cost = cost, !.root_port = p, !.age = age]

LEMMA BeliefIs ==
    ASSUME NEW b \in BridgeType, NEW root \in Nat, NEW cost \in Nat, NEW age \in Nat,
           NEW p \in Port \cup {NoPort},
           NEW c, c = Believes(b, root, cost, p, age)
    PROVE  c \in BridgeType /\ c.root = root /\ c.cost = cost /\ c.root_port = p /\ c.age = age
<1> DEFINE k == [b EXCEPT !.root = root, !.cost = cost]
<1>1. k \in BridgeType /\ k.root = root /\ k.cost = cost BY DEF BridgeType
<1>2. c = [k EXCEPT !.root_port = p, !.age = age] BY DEF Believes
<1> HIDE DEF k
<1> QED BY <1>1, <1>2 DEF BridgeType

\* The port of the way to the root, if there is one, was told of a better root than the bridge.
ByRoot(b, s, id) ==
    LET p == b.root_port
    IN  /\ p \in Port /\ Of[p] = id /\ s.port[p].info = "RECEIVED"
        /\ b.root = s.port[p].vec.root /\ b.cost = s.port[p].vec.cost + cist_path_cost[p]
        /\ b.age = s.port[p].age + 1 /\ b.root < id /\ s.port[p].vec.bridge # id

\* Port q holds what another bridge than id told it.
Hears(s, id, q) == q \in Port /\ Of[q] = id /\ s.port[q].info = "RECEIVED" /\ s.port[q].vec.bridge # id

\* No port was told of a better way to a root than the bridge takes.
Best(b, s, id) ==
    \A q \in Port : Hears(s, id, q) =>
        /\ ~Less(<<s.port[q].vec.root, s.port[q].vec.cost + cist_path_cost[q]>>, <<b.root, b.cost>>)
        /\ b.root_port # NoPort => ~Less(Path(s.port[q], q), Path(s.port[b.root_port], b.root_port))

LEMMA PathIs ==
    ASSUME NEW s \in Work, NEW p \in Port
    PROVE  LET v == s.port[p].vec
               f == Path(s.port[p], p)
           IN  /\ DOMAIN f = 1..6 /\ v.root \in Nat /\ v.cost \in Nat /\ v.bridge \in Nat /\ v.port \in Nat
               /\ cist_path_cost[p] \in Nat /\ v.cost + cist_path_cost[p] \in Nat /\ p \in Nat
               /\ f[1] = v.root /\ f[2] = v.cost + cist_path_cost[p] /\ f[3] = cist_path_cost[p]
               /\ f[4] = v.bridge /\ f[5] = v.port /\ f[6] = p
<1>1. s.port[p] \in PortType BY WorkFields
<1>2. s.port[p].vec \in Vector BY <1>1, PortFields
<1>3. cist_path_cost[p] \in Nat /\ p \in Nat BY PortAssumption
<1> QED BY <1>2, <1>3 DEF Path, Vector

\* Of any ports one has the best way.
LEMMA LeastPath ==
    ASSUME NEW s \in Work, NEW T \in SUBSET Port, T # {}
    PROVE  \E p \in T : \A q \in T : ~Less(Path(s.port[q], q), Path(s.port[p], p))
<1> DEFINE f(i) == [p \in Port |-> Path(s.port[p], p)[i]]
           T1 == Lowest(f(1), T)
           T2 == Lowest(f(2), T1)
           T3 == Lowest(f(3), T2)
           T4 == Lowest(f(4), T3)
           T5 == Lowest(f(5), T4)
           T6 == Lowest(f(6), T5)
<1>1. /\ f(1) \in [Port -> Nat] /\ f(2) \in [Port -> Nat] /\ f(3) \in [Port -> Nat]
      /\ f(4) \in [Port -> Nat] /\ f(5) \in [Port -> Nat] /\ f(6) \in [Port -> Nat]
    BY PathIs
<1>2. \A p \in Port : \A i : f(i)[p] = Path(s.port[p], p)[i] OBVIOUS
<1> HIDE DEF f
<1>3. T1 # {} /\ T1 \in SUBSET Port BY <1>1, LowestIs
<1>4. T2 # {} /\ T2 \in SUBSET Port BY <1>1, <1>3, LowestIs
<1>5. T3 # {} /\ T3 \in SUBSET Port BY <1>1, <1>4, LowestIs
<1>6. T4 # {} /\ T4 \in SUBSET Port BY <1>1, <1>5, LowestIs
<1>7. T5 # {} /\ T5 \in SUBSET Port BY <1>1, <1>6, LowestIs
<1>8. T6 # {} /\ T6 \in SUBSET Port BY <1>1, <1>7, LowestIs
<1>9. PICK p \in T6 : TRUE BY <1>8
<1>10. p \in T /\ p \in T1 /\ p \in T2 /\ p \in T3 /\ p \in T4 /\ p \in T5 /\ p \in Port
    BY <1>8, <1>9 DEF Lowest
<1>11. ASSUME NEW q \in T PROVE ~Less(Path(s.port[q], q), Path(s.port[p], p))
    <2> DEFINE a == Path(s.port[q], q)
               b == Path(s.port[p], p)
    <2>1. DOMAIN a = 1..6 BY PathIs
    <2>2. /\ a[1] \in Nat /\ a[2] \in Nat /\ a[3] \in Nat /\ a[4] \in Nat /\ a[5] \in Nat /\ a[6] \in Nat
          /\ b[1] \in Nat /\ b[2] \in Nat /\ b[3] \in Nat /\ b[4] \in Nat /\ b[5] \in Nat /\ b[6] \in Nat
        BY <1>10, PathIs
    <2>3. /\ a[1] = f(1)[q] /\ a[2] = f(2)[q] /\ a[3] = f(3)[q] /\ a[4] = f(4)[q] /\ a[5] = f(5)[q] /\ a[6] = f(6)[q]
          /\ b[1] = f(1)[p] /\ b[2] = f(2)[p] /\ b[3] = f(3)[p] /\ b[4] = f(4)[p] /\ b[5] = f(5)[p] /\ b[6] = f(6)[p]
        BY <1>2, <1>10
    <2> HIDE DEF a, b
    <2>4. b[1] <= a[1] BY <1>10, <2>3 DEF Lowest
    <2>5. a[1] = b[1] => q \in T1 BY <1>10, <2>3 DEF Lowest
    <2>6. a[1] = b[1] => b[2] <= a[2] BY <1>10, <2>3, <2>5 DEF Lowest
    <2>7. a[1] = b[1] /\ a[2] = b[2] => q \in T2 BY <1>10, <2>3, <2>5 DEF Lowest
    <2>8. a[1] = b[1] /\ a[2] = b[2] => b[3] <= a[3] BY <1>10, <2>3, <2>7 DEF Lowest
    <2>9. a[1] = b[1] /\ a[2] = b[2] /\ a[3] = b[3] => q \in T3 BY <1>10, <2>3, <2>7 DEF Lowest
    <2>10. a[1] = b[1] /\ a[2] = b[2] /\ a[3] = b[3] => b[4] <= a[4] BY <1>10, <2>3, <2>9 DEF Lowest
    <2>11. a[1] = b[1] /\ a[2] = b[2] /\ a[3] = b[3] /\ a[4] = b[4] => q \in T4
        BY <1>10, <2>3, <2>9 DEF Lowest
    <2>12. a[1] = b[1] /\ a[2] = b[2] /\ a[3] = b[3] /\ a[4] = b[4] => b[5] <= a[5]
        BY <1>10, <2>3, <2>11 DEF Lowest
    <2>13. a[1] = b[1] /\ a[2] = b[2] /\ a[3] = b[3] /\ a[4] = b[4] /\ a[5] = b[5] => q \in T5
        BY <1>10, <2>3, <2>11 DEF Lowest
    <2>14. a[1] = b[1] /\ a[2] = b[2] /\ a[3] = b[3] /\ a[4] = b[4] /\ a[5] = b[5] => b[6] <= a[6]
        BY <1>9, <2>3, <2>13 DEF Lowest
    <2>15. ~Sixth(a, b) BY <2>2, <2>4, <2>6, <2>8, <2>10, <2>12, <2>14 DEF Sixth
    <2>16. ~Less(a, b) BY <2>1, <2>15, LessSix
    <2> QED BY <2>16 DEF a, b
<1> QED BY <1>10, <1>11

LEMMA RootPortSelectionIs ==
    ASSUME NEW s, NEW id \in Bridge, Ready(s, id), NEW b, b = RootPortSelection(s, id)
    PROVE  b \in BridgeType /\ (b.root_port = NoPort \/ ByRoot(b, s, id)) /\ Best(b, s, id)
<1> DEFINE candidate == {p \in PortsOf(id) : /\ s.port[p].role # "DISABLED" /\ s.port[p].info = "RECEIVED"
                                             /\ s.port[p].vec.bridge # id}
           path(p) == Path(s.port[p], p)
           best == {p \in candidate : s.port[p].vec.root < id /\ \A q \in candidate : ~Less(path(q), path(p))}
           p0 == CHOOSE p \in best : TRUE
           cost == path(p0)[2]
<1>1. b = IF best = {} THEN [s.br EXCEPT !.root = id, !.cost = 0, !.root_port = NoPort, !.age = 0]
          ELSE [s.br EXCEPT !.root = s.port[p0].vec.root, !.cost = cost, !.root_port = p0, !.age = s.port[p0].age + 1]
    BY DEF RootPortSelection
<1>2. s \in Work /\ s.br \in BridgeType /\ s.port \in [Port -> PortType] BY WorkFields DEF Ready
<1>3. best \subseteq {p \in Port : /\ Of[p] = id /\ s.port[p].info = "RECEIVED"
                                   /\ s.port[p].vec.bridge # id /\ s.port[p].vec.root < id}
    BY DEF PortsOf
<1>4. best # {} => p0 \in best OBVIOUS
<1>5. \A q : Hears(s, id, q) => q \in candidate BY DEF Hears, PortsOf, Ready
<1>6. candidate \in SUBSET Port BY DEF PortsOf
<1>7. best # {} => \A q \in candidate : ~Less(path(q), path(p0)) BY <1>4
<1>8. \A p \in candidate : (\A q \in candidate : ~Less(path(q), path(p))) /\ s.port[p].vec.root < id => best # {}
    OBVIOUS
<1> HIDE DEF best, p0, candidate
<1>9. CASE best = {}
    <2>1. b = Believes(s.br, id, 0, NoPort, 0) BY <1>1, <1>9 DEF Believes
    <2>2. id \in Nat /\ 0 \in Nat /\ NoPort \in Port \cup {NoPort} BY PortAssumption
    <2>3. b \in BridgeType /\ b.root_port = NoPort /\ b.root = id /\ b.cost = 0 BY <1>2, <2>1, <2>2, BeliefIs
    <2>4. ASSUME NEW q \in Port, Hears(s, id, q)
          PROVE  ~Less(<<s.port[q].vec.root, s.port[q].vec.cost + cist_path_cost[q]>>, <<id, 0>>)
        <3>1. q \in candidate /\ candidate # {} BY <1>5, <2>4
        <3>2. PICK p \in candidate : \A r \in candidate : ~Less(path(r), path(p))
            BY <1>2, <1>6, <3>1, LeastPath
        <3>3. ~(s.port[p].vec.root < id) BY <1>8, <1>9, <3>2
        <3>4. ~Less(path(q), path(p)) BY <3>1, <3>2
        <3>5. p \in Port BY <1>6
        <3>6. /\ DOMAIN path(q) = 1..6 /\ path(q)[1] = s.port[q].vec.root /\ path(p)[1] = s.port[p].vec.root
              /\ s.port[q].vec.root \in Nat /\ s.port[p].vec.root \in Nat
              /\ s.port[q].vec.cost + cist_path_cost[q] \in Nat
            BY <1>2, <3>5, PathIs
        <3> DEFINE x == path(q)
                   y == path(p)
                   r == s.port[q].vec.root
                   c == s.port[q].vec.cost + cist_path_cost[q]
        <3>7. ~(x[1] < y[1])
            <4> HIDE DEF x, y
            <4>1. ~Sixth(x, y) BY <3>4, <3>6, LessSix DEF x, y
            <4> QED BY <4>1 DEF Sixth
        <3>8. r \in Nat /\ c \in Nat /\ ~(r < id) BY <2>2, <3>3, <3>6, <3>7
        <3> HIDE DEF r, c
        <3>9. ~Less(<<r, c>>, <<id, 0>>) BY <2>2, <3>8, LessTwo
        <3> QED BY <3>9 DEF r, c
    <2>5. Best(b, s, id) BY <2>3, <2>4 DEF Best
    <2> QED BY <2>3, <2>5
<1>10. CASE best # {}
    <2>1. b = Believes(s.br, s.port[p0].vec.root, cost, p0, s.port[p0].age + 1) BY <1>1, <1>10 DEF Believes
    <2>2. /\ p0 \in Port /\ Of[p0] = id /\ s.port[p0].info = "RECEIVED"
          /\ s.port[p0].vec.bridge # id /\ s.port[p0].vec.root < id
        BY <1>3, <1>4, <1>10
    <2>3. s.port[p0].vec.root \in Nat /\ s.port[p0].vec.cost \in Nat /\ s.port[p0].age \in Nat
        BY <1>2, <2>2, PortFields DEF Vector
    <2>4. cost = s.port[p0].vec.cost + cist_path_cost[p0] BY <1>2, <2>2, PathIs
    <2>5. cost \in Nat /\ s.port[p0].age + 1 \in Nat BY <2>2, <2>3, <2>4, PortAssumption
    <2> DEFINE root == s.port[p0].vec.root
               age == s.port[p0].age + 1
               br0 == s.br
    <2>6. /\ root \in Nat /\ cost \in Nat /\ age \in Nat /\ p0 \in Port \cup {NoPort} /\ br0 \in BridgeType
          /\ b = Believes(br0, root, cost, p0, age)
        BY <1>2, <2>1, <2>2, <2>3, <2>5
    <2> HIDE DEF cost, root, age, br0
    <2>7. b \in BridgeType /\ b.root = root /\ b.cost = cost /\ b.root_port = p0 /\ b.age = age
        BY <2>6, BeliefIs
    <2>8. ByRoot(b, s, id) BY <2>2, <2>4, <2>7 DEF ByRoot, root, age
    <2>9. ASSUME NEW q \in Port, Hears(s, id, q)
          PROVE  /\ ~Less(<<s.port[q].vec.root, s.port[q].vec.cost + cist_path_cost[q]>>, <<root, cost>>)
                 /\ ~Less(path(q), path(p0))
        <3>1. ~Less(path(q), path(p0)) BY <1>5, <1>7, <1>10, <2>9
        <3> DEFINE x == path(q)
                   y == path(p0)
                   r == s.port[q].vec.root
                   c == s.port[q].vec.cost + cist_path_cost[q]
        <3>2. /\ DOMAIN x = 1..6 /\ x[1] = r /\ x[2] = c /\ y[1] = root /\ y[2] = cost
              /\ r \in Nat /\ c \in Nat
            BY <1>2, <2>2, <2>4, PathIs DEF root
        <3>3. ~Less(x, y) BY <3>1
        <3> HIDE DEF x, y, r, c
        <3>4. ~Sixth(x, y) BY <3>2, <3>3, LessSix
        <3>5. ~(r < root \/ (r = root /\ c < cost)) BY <3>2, <3>4 DEF Sixth
        <3>6. ~Less(<<r, c>>, <<root, cost>>) BY <2>6, <3>2, <3>5, LessTwo
        <3> QED BY <3>1, <3>6 DEF r, c
    <2>10. Best(b, s, id) BY <2>7, <2>9 DEF Best
    <2> QED BY <2>7, <2>8, <2>10
<1> QED BY <1>9, <1>10

Given(n, b, id, p) == [AssignRole(n, b, id, p) EXCEPT !.selected = TRUE]

LEMMA AssignRoleIs ==
    ASSUME NEW s \in Work, NEW id \in Bridge, NEW b \in BridgeType,
           b.root_port = NoPort \/ ByRoot(b, s, id), Best(b, s, id),
           NEW p \in Port, Of[p] = id,
           NEW m, m = Given(s.port[p], b, id, p)
    PROVE  /\ m \in PortType /\ RoleTells(m, b, p)
           /\ m.enabled = s.port[p].enabled /\ m.state = s.port[p].state
           /\ m.role = "DISABLED" => s.port[p].info = "DISABLED"
           /\ m.info = "RECEIVED" => s.port[p].info = "RECEIVED" /\ m.vec = s.port[p].vec
           /\ m.role = "ROOT" => b.root_port = p /\ m.vec = s.port[p].vec
<1> DEFINE n == s.port[p]
           d == Designated(b, id, p)
           k == AssignRole(n, b, id, p)
<1>1. n \in PortType BY WorkFields
<1>2. d \in Vector BY DesignatedIs
<1>3. m = [k EXCEPT !.selected = TRUE] BY DEF Given
<1>4. b.root_port = p => ByRoot(b, s, id) BY PortAssumption DEF NoPort
<1>5. b.age \in Nat BY BridgeFields
<1>6. k \in PortType /\ k.enabled = n.enabled /\ k.state = n.state
      /\ \/ k.role = "DISABLED" /\ n.info = "DISABLED" /\ b.root_port # p /\ k.info = n.info
         \/ /\ k.role = "ROOT" /\ b.root_port = p /\ n.info = "RECEIVED" /\ k.info = n.info
            /\ k.vec = n.vec /\ k.age = n.age
         \/ /\ k.role \in {"BACKUP", "ALTERNATE"} /\ b.root_port # p /\ n.info = "RECEIVED" /\ k.info = n.info
            /\ k.vec = n.vec /\ ~Less(Key(d), Key(n.vec)) /\ (k.role = "BACKUP" <=> n.vec.bridge = id)
         \/ /\ k.role = "DESIGNATED" /\ b.root_port # p /\ k.info = "MINE"
            /\ k.vec = d /\ k.age = b.age
    <2> HIDE DEF d
    <2>1. CASE n.info = "DISABLED"
        <3>1. k = SetRole(n, "DISABLED") BY <2>1 DEF AssignRole
        <3>2. b.root_port # p BY <1>4, <2>1 DEF ByRoot
        <3> HIDE DEF k
        <3> QED BY <1>1, <2>1, <3>1, <3>2, SetRoleIs DEF PortRole
    <2>2. CASE n.info = "RECEIVED" /\ b.root_port = p
        <3>1. k = SetRole(n, "ROOT") BY <2>2 DEF AssignRole
        <3> HIDE DEF k
        <3> QED BY <1>1, <2>2, <3>1, SetRoleIs DEF PortRole
    <2>3. CASE n.info = "RECEIVED" /\ b.root_port # p /\ ~Less(Key(d), Key(n.vec))
        <3> DEFINE role == IF n.vec.bridge = id THEN "BACKUP" ELSE "ALTERNATE"
        <3>1. k = SetRole(n, role) BY <2>3 DEF AssignRole, d
        <3>2. /\ role \in {"BACKUP", "ALTERNATE"} /\ role \in PortRole
              /\ role = "BACKUP" <=> n.vec.bridge = id
            BY DEF PortRole
        <3> HIDE DEF k, role
        <3>3. /\ k \in PortType /\ k.role = role /\ k.state = n.state
              /\ k.enabled = n.enabled /\ k.info = n.info
              /\ k.vec = n.vec /\ k.age = n.age /\ k.selected = n.selected
            BY <1>1, <3>1, <3>2, SetRoleIs
        <3> QED BY <2>3, <3>2, <3>3
    <2>4. CASE /\ n.info # "DISABLED" /\ ~(n.info = "RECEIVED" /\ b.root_port = p)
               /\ ~(n.info = "RECEIVED" /\ b.root_port # p /\ ~Less(Key(d), Key(n.vec)))
        <3> DEFINE j == ConfigUpdate(n, d, b.age)
        <3>1. k = SetRole(j, "DESIGNATED") BY <2>4 DEF AssignRole, d
        <3>2. b.root_port # p BY <1>4, <2>4 DEF ByRoot
        <3>3. /\ j \in PortType /\ j.role = n.role /\ j.state = n.state
              /\ j.enabled = n.enabled /\ j.info = "MINE"
              /\ j.vec = d /\ j.age = b.age /\ j.selected = n.selected
            BY <1>1, <1>2, <1>5, ConfigUpdateIs
        <3> HIDE DEF j, k
        <3>4. /\ k \in PortType /\ k.role = "DESIGNATED" /\ k.state = j.state
              /\ k.enabled = j.enabled /\ k.info = j.info
              /\ k.vec = j.vec /\ k.age = j.age /\ k.selected = j.selected
            BY <3>1, <3>3, SetRoleIs DEF PortRole
        <3> QED BY <3>2, <3>3, <3>4
    <2> QED BY <2>1, <2>2, <2>3, <2>4
<1> HIDE DEF k, n, d
<1>7. /\ m \in PortType /\ m.enabled = k.enabled /\ m.state = k.state /\ m.role = k.role
      /\ m.info = k.info /\ m.vec = k.vec /\ m.age = k.age
    BY <1>3, <1>6 DEF PortType
<1>8. NoShorter(m, b, p)
    <2> SUFFICES ASSUME Told(m, p)
                 PROVE  ~Less(<<m.vec.root, m.vec.cost + cist_path_cost[p]>>, <<b.root, b.cost>>)
        BY DEF NoShorter
    <2>1. k.info = "RECEIVED" /\ k.vec.bridge # id BY <1>7 DEF Told
    <2>2. n.info = "RECEIVED" /\ k.vec = n.vec BY <1>6, <2>1
    <2>3. Hears(s, id, p) BY <2>1, <2>2 DEF Hears, n
    <2>4. ~Less(<<n.vec.root, n.vec.cost + cist_path_cost[p]>>, <<b.root, b.cost>>)
        BY <2>3 DEF Best, n
    <2> QED BY <1>7, <2>2, <2>4
<1>9. Blocked(m, b, p)
    <2> SUFFICES ASSUME m.role \in {"ALTERNATE", "BACKUP"}
                 PROVE  /\ m.info = "RECEIVED" /\ ~Less(Key(d), Key(m.vec))
                        /\ m.role = "BACKUP" <=> m.vec.bridge = id
        BY DEF Blocked, d
    <2>1. /\ n.info = "RECEIVED" /\ k.info = n.info /\ k.vec = n.vec /\ ~Less(Key(d), Key(n.vec))
          /\ k.role = "BACKUP" <=> n.vec.bridge = id
        BY <1>6, <1>7
    <2> QED BY <1>7, <2>1
<1>10. RoleTells(m, b, p)
    <2>1. CASE k.role = "ROOT"
        <3>1. b.root_port = p /\ k.vec = n.vec /\ k.age = n.age /\ k.info = "RECEIVED" BY <1>6, <2>1
        <3>2. ByRoot(b, s, id) BY <1>4, <3>1
        <3>3. /\ b.root = n.vec.root /\ b.cost = n.vec.cost + cist_path_cost[p]
              /\ b.age = n.age + 1 /\ b.root < id /\ n.vec.bridge # id
            BY <3>1, <3>2 DEF ByRoot, n
        <3> QED BY <1>7, <1>8, <1>9, <2>1, <3>1, <3>3 DEF RoleTells
    <2>2. CASE k.role # "ROOT"
        <3>1. b.root_port # p /\ (k.role = "DESIGNATED" => k.vec = d /\ k.age = b.age)
              /\ (k.info = "DISABLED" => k.role = "DISABLED") /\ (k.info = "RECEIVED" => k.role # "DISABLED")
            BY <1>6, <2>2
        <3> QED BY <1>7, <1>8, <1>9, <2>2, <3>1 DEF RoleTells, d
    <2> QED BY <2>1, <2>2
<1>11. /\ k.role = "DISABLED" => n.info = "DISABLED"
       /\ k.info = "RECEIVED" => n.info = "RECEIVED" /\ k.vec = n.vec
       /\ k.role = "ROOT" => b.root_port = p /\ k.vec = n.vec
    BY <1>6
<1> QED BY <1>6, <1>7, <1>10, <1>11 DEF n

----------------------------------------------------------------------------
(* Port by port.                                                            *)

\* Every port is counted up to the last one.
LEMMA LastPortIs == LastPort \in Nat /\ \A q \in Port : q \in 1..LastPort
<1> DEFINE T == Port \cup {NoPort}
<1>1. T \in SUBSET Nat /\ T # {} BY PortAssumption DEF NoPort
<1>2. IsFiniteSet(T) BY PortAssumption, FS_AddElement
<1> HIDE DEF T
<1>3. PICK x \in T : \A y \in T : y <= x BY <1>1, <1>2, FiniteGreatest
<1>4. LastPort \in T /\ \A q \in Port : q <= LastPort BY <1>3 DEF LastPort, T
<1>5. ASSUME NEW q \in Port PROVE q \in 1..LastPort BY <1>1, <1>4, PortAssumption
<1> QED BY <1>1, <1>4, <1>5

\* What the bridge is after each port's turn in RoleSelection.
IsTurns(f, s, id) ==
    f = [p \in 0..LastPort |-> IF p = 0 THEN s
                               ELSE IF p \in PortsOf(id) THEN Transition(f[p - 1], p) ELSE f[p - 1]]

LEMMA Turns ==
    ASSUME NEW s, NEW id
    PROVE  IsTurns(CHOOSE f : IsTurns(f, s, id), s, id)
<1> DEFINE Upto(f, k) == f = [p \in 0..k |->
                                 IF p = 0 THEN s
                                 ELSE IF p \in PortsOf(id) THEN Transition(f[p - 1], p) ELSE f[p - 1]]
           L == {k \in 0..LastPort : \E f : Upto(f, k)}
<1>0. LastPort \in Nat BY LastPortIs
<1>1. 0 \in L
    <2>1. Upto([p \in 0..0 |-> s], 0) OBVIOUS
    <2> HIDE DEF Upto
    <2> QED BY <1>0, <2>1
<1>2. ASSUME NEW k \in 1..LastPort, k - 1 \in L PROVE k \in L
    <2>1. PICK f : Upto(f, k - 1) BY <1>2
    <2> DEFINE g == [p \in 0..k |-> IF p = k THEN IF k \in PortsOf(id) THEN Transition(f[k - 1], k) ELSE f[k - 1]
                                    ELSE f[p]]
    <2>2. Upto(g, k) BY <1>0, <2>1
    <2> HIDE DEF Upto, g
    <2> QED BY <1>0, <2>2
<1> HIDE DEF L
<1>3. LastPort \in L
    <2>1. \A i \in 0..LastPort : i \in L BY <1>0, <1>1, <1>2, Induction
    <2> QED BY <1>0, <2>1
<1>4. PICK f : Upto(f, LastPort) BY <1>3 DEF L
<1>5. IsTurns(f, s, id) BY <1>4 DEF IsTurns
<1> QED BY <1>5

\* Every other bridge is left alone, and what works still does.
Kept(t, s, id) ==
    /\ t \in Work /\ \A q \in Port : t.port[q].enabled = s.port[q].enabled
    /\ \A q \in Port : Of[q] # id => t.port[q] = s.port[q]

LEMMA KeptMinor ==
    ASSUME NEW id, NEW s, NEW t, Minor(t, s, id)
    PROVE  Kept(t, s, id)
BY DEF Minor, Mild, Knows, Kept

LEMMA KeptMore ==
    ASSUME NEW id, NEW s, NEW t, NEW u, Kept(t, s, id), Kept(u, t, id)
    PROVE  Kept(u, s, id)
BY DEF Kept

\* What RoleSelection sets out from.
Assigned(s, id, b) ==
    [port |-> [p \in Port |-> IF Of[p] = id THEN Given(s.port[p], b, id, p) ELSE s.port[p]], br |-> b]

LEMMA AssignedIs ==
    ASSUME NEW s, NEW id \in Bridge, Ready(s, id),
           NEW b, b = RootPortSelection(s, id), NEW t, t = Assigned(s, id, b)
    PROVE  /\ Kept(t, s, id) /\ RootStands(t, id)
           /\ \A q \in Port : Of[q] = id =>
                 RoleTells(t.port[q], t.br, q)
                 /\ (t.port[q].role = "DISABLED" => t.port[q].state # "FORWARDING")
<1> DEFINE f == [p \in Port |-> IF Of[p] = id THEN Given(s.port[p], b, id, p) ELSE s.port[p]]
<1>1. b \in BridgeType /\ (b.root_port = NoPort \/ ByRoot(b, s, id)) /\ Best(b, s, id)
    BY RootPortSelectionIs
<1>2. s \in Work /\ s.port \in [Port -> PortType] BY WorkFields DEF Ready
<1>3. ASSUME NEW q \in Port, Of[q] = id
      PROVE  /\ f[q] \in PortType /\ RoleTells(f[q], b, q) /\ f[q].enabled = s.port[q].enabled
             /\ f[q].role = "DISABLED" => f[q].state # "FORWARDING"
             /\ f[q].info = "RECEIVED" => s.port[q].info = "RECEIVED" /\ f[q].vec = s.port[q].vec
             /\ f[q].role = "ROOT" => b.root_port = q /\ f[q].vec = s.port[q].vec
    <2>1. f[q] = Given(s.port[q], b, id, q) BY <1>3
    <2> HIDE DEF f
    <2>2. /\ f[q] \in PortType /\ RoleTells(f[q], b, q)
          /\ f[q].enabled = s.port[q].enabled /\ f[q].state = s.port[q].state
          /\ f[q].role = "DISABLED" => s.port[q].info = "DISABLED"
          /\ f[q].info = "RECEIVED" => s.port[q].info = "RECEIVED" /\ f[q].vec = s.port[q].vec
          /\ f[q].role = "ROOT" => b.root_port = q /\ f[q].vec = s.port[q].vec
        BY <1>1, <1>2, <1>3, <2>1, AssignRoleIs
    <2>3. s.port[q].info = "DISABLED" => s.port[q].state # "FORWARDING" BY <1>3 DEF Ready
    <2> QED BY <2>2, <2>3
<1>4. ASSUME NEW q \in Port, Of[q] # id PROVE f[q] = s.port[q] BY <1>4
<1>5. t = [port |-> f, br |-> b] BY DEF Assigned
<1>6. f = [q \in Port |-> f[q]] OBVIOUS
<1> HIDE DEF f
<1>7. f \in [Port -> PortType] BY <1>2, <1>3, <1>4, <1>6
<1>8. t \in Work /\ t.port = f /\ t.br = b BY <1>1, <1>5, <1>7, WorkIs
<1>9. ASSUME NEW p \in Port, NEW q \in Port, Of[p] = id, Of[q] = id
      PROVE  RootBest(f[p], p, f[q], q)
    <2> SUFFICES ASSUME f[p].role = "ROOT", Told(f[q], q) PROVE ~Less(Path(f[q], q), Path(f[p], p))
        BY DEF RootBest
    <2>1. b.root_port = p /\ f[p].vec = s.port[p].vec BY <1>3, <1>9
    <2>2. s.port[q].info = "RECEIVED" /\ f[q].vec = s.port[q].vec /\ f[q].vec.bridge # id
        BY <1>3, <1>9 DEF Told
    <2>3. Hears(s, id, q) BY <1>9, <2>2 DEF Hears
    <2>4. p # NoPort BY PortAssumption DEF NoPort
    <2>5. ~Less(Path(s.port[q], q), Path(s.port[p], p)) BY <1>1, <2>1, <2>3, <2>4 DEF Best
    <2> QED BY <2>1, <2>2, <2>5 DEF Path
<1>10. RootStands(t, id) BY <1>8, <1>9 DEF RootStands
<1> QED BY <1>3, <1>4, <1>8, <1>10 DEF Kept

LEMMA RoleSelectionIs ==
    ASSUME NEW s, NEW id \in Bridge, Ready(s, id), NEW t, t = RoleSelection(s, id)
    PROVE  Kept(t, s, id) /\ Steady(t, id)
<1> DEFINE b == RootPortSelection(s, id)
           assigned == Assigned(s, id, b)
           after == CHOOSE f : IsTurns(f, assigned, id)
           u == after[LastPort]
           g == [p \in Port |-> IF Of[p] = id /\ u.port[p].role = "DESIGNATED"
                                THEN DesignatedTransition(u.port[p]) ELSE u.port[p]]
<1>1. t = [u EXCEPT !.port = g] BY DEF RoleSelection, Assigned, Given, IsTurns
<1>2. /\ Kept(assigned, s, id) /\ RootStands(assigned, id)
      /\ \A q \in Port : Of[q] = id =>
            RoleTells(assigned.port[q], assigned.br, q)
            /\ (assigned.port[q].role = "DISABLED" => assigned.port[q].state # "FORWARDING")
    <2> HIDE DEF assigned, b
    <2> QED BY AssignedIs DEF assigned, b
<1> HIDE DEF assigned
<1>3. IsTurns(after, assigned, id) BY Turns
<1> HIDE DEF after
<1>4. LastPort \in Nat /\ \A q \in Port : q \in 1..LastPort BY LastPortIs
<1> DEFINE Out(m, i) == \A q \in Port : /\ Of[q] = id /\ q \in 1..i
                                        /\ assigned.port[q].role \in {"ALTERNATE", "BACKUP"}
                                        => m.port[q].state # "FORWARDING"
           R == {i \in 0..LastPort : Minor(after[i], assigned, id) /\ Out(after[i], i)}
<1>5. assigned \in Work BY <1>2 DEF Kept
<1>6. 0 \in R
    <2>1. after[0] = assigned BY <1>3, <1>4 DEF IsTurns
    <2>2. Minor(after[0], assigned, id) BY <1>5, <2>1, MinorSelf
    <2>3. Out(after[0], 0) OBVIOUS
    <2> QED BY <1>4, <2>2, <2>3
<1>7. ASSUME NEW i \in 1..LastPort, i - 1 \in R PROVE i \in R
    <2> DEFINE m == after[i - 1]
    <2>1. Minor(m, assigned, id) /\ Out(m, i - 1) BY <1>7
    <2>2. after[i] = IF i \in PortsOf(id) THEN Transition(m, i) ELSE m BY <1>3, <1>4 DEF IsTurns
    <2>3. \A q \in Port : q \in 1..i => q = i \/ q \in 1..(i - 1) BY <1>4
    <2>4. m \in Work BY <2>1 DEF Minor
    <2> HIDE DEF m, R
    <2>5. CASE i \in PortsOf(id)
        <3>1. i \in Port /\ Of[i] = id /\ after[i] = Transition(m, i) BY <2>2, <2>5 DEF PortsOf
        <3>2. /\ Minor(after[i], m, id)
              /\ m.port[i].role \in {"ALTERNATE", "BACKUP"} => after[i].port[i].state # "FORWARDING"
            BY <2>4, <3>1, TransitionIs
        <3>3. Minor(after[i], assigned, id) BY <2>1, <3>2, MinorMore
        <3>4. Out(after[i], i)
            <4> SUFFICES ASSUME NEW q \in Port, Of[q] = id, q \in 1..i,
                                assigned.port[q].role \in {"ALTERNATE", "BACKUP"}
                         PROVE  after[i].port[q].state # "FORWARDING"
                OBVIOUS
            <4>1. m.port[q].role \in {"ALTERNATE", "BACKUP"} BY <2>1 DEF Minor, Mild, Knows
            <4>2. CASE q = i BY <3>2, <4>1, <4>2
            <4>3. CASE q # i
                <5>1. m.port[q].state # "FORWARDING" BY <2>1, <2>3, <4>3
                <5>2. Mild(after[i].port[q], m.port[q]) BY <3>2 DEF Minor
                <5> QED BY <4>1, <5>1, <5>2 DEF Mild, Forwards
            <4> QED BY <4>2, <4>3
        <3> QED BY <1>4, <3>3, <3>4 DEF R
    <2>6. CASE i \notin PortsOf(id)
        <3>1. after[i] = m BY <2>2, <2>6
        <3>2. \A q \in Port : Of[q] = id => q # i BY <2>6 DEF PortsOf
        <3>3. Out(after[i], i) BY <2>1, <2>3, <3>1, <3>2
        <3> QED BY <1>4, <2>1, <3>1, <3>3 DEF R
    <2> QED BY <2>5, <2>6
<1> HIDE DEF R
<1>8. LastPort \in R
    <2>1. \A i \in 0..LastPort : i \in R BY <1>4, <1>6, <1>7, Induction
    <2> QED BY <1>4, <2>1
<1>9. Minor(u, assigned, id) /\ Out(u, LastPort) BY <1>8 DEF R
<1> HIDE DEF u
<1>10. u \in Work /\ Kept(u, s, id) BY <1>2, <1>9, KeptMinor, KeptMore DEF Minor
<1>11. Steady(u, id)
    <2> SUFFICES ASSUME NEW q \in Port, Of[q] = id
                 PROVE  Local(u.port[q], u.br, q)
                        /\ \A p \in Port : Of[p] = id => RootBest(u.port[p], p, u.port[q], q)
        BY <1>10 DEF Steady, RootStands
    <2>1. Mild(u.port[q], assigned.port[q]) /\ SameBelief(u.br, assigned.br) BY <1>9 DEF Minor
    <2>2. RoleTells(u.port[q], u.br, q) BY <1>2, <2>1, RoleTellsMore DEF Mild
    <2>3. assigned.port[q].role \in PortRole BY <1>5, WorkFields, PortFields
    <2>4. u.port[q].state = "FORWARDING" => u.port[q].role \in Forwards
        <3>1. CASE assigned.port[q].role \in {"ALTERNATE", "BACKUP"}
            BY <1>4, <1>9, <3>1
        <3>2. CASE assigned.port[q].role = "DISABLED"
            BY <1>2, <2>1, <3>2 DEF Mild, Knows, Forwards
        <3>3. CASE assigned.port[q].role \in Forwards BY <2>1, <3>3 DEF Mild, Knows
        <3> QED BY <2>3, <3>1, <3>2, <3>3 DEF PortRole, Forwards
    <2>5. ASSUME NEW p \in Port, Of[p] = id PROVE RootBest(u.port[p], p, u.port[q], q)
        <3>1. RootBest(assigned.port[p], p, assigned.port[q], q) BY <1>2, <2>5 DEF RootStands
        <3>2. Knows(u.port[p], assigned.port[p]) /\ Knows(u.port[q], assigned.port[q])
            BY <1>9 DEF Minor, Mild
        <3> QED BY <3>1, <3>2, RootBestMore
    <2> QED BY <2>2, <2>4, <2>5 DEF Local
<1>12. Minor(t, u, id)
    <2>1. u.port \in [Port -> PortType] BY <1>10, WorkFields
    <2>2. ASSUME NEW q \in Port PROVE Mild(g[q], u.port[q]) /\ (Of[q] # id => g[q] = u.port[q])
        <3>1. u.port[q] \in PortType BY <2>1
        <3>2. CASE Of[q] = id /\ u.port[q].role = "DESIGNATED"
            <4>1. g[q] = DesignatedTransition(u.port[q]) BY <3>2
            <4> HIDE DEF g
            <4> QED BY <3>1, <3>2, <4>1, DesignatedTransitionIs
        <3>3. CASE ~(Of[q] = id /\ u.port[q].role = "DESIGNATED")
            <4>1. g[q] = u.port[q] BY <3>3
            <4> QED BY <3>1, <4>1, MildSelf
        <3> QED BY <3>2, <3>3
    <2>3. g = [q \in Port |-> g[q]] OBVIOUS
    <2> HIDE DEF g
    <2> QED BY <1>1, <1>10, <2>2, <2>3, PutAll
<1> QED BY <1>10, <1>11, <1>12, SteadyMore, KeptMinor, KeptMore

----------------------------------------------------------------------------
(* A BPDU that has come in.                                                 *)

\* The handler of bridge id is fine.
Fine(t, s, id) == Kept(t, s, id) /\ Steady(t, id)

LEMMA FineMinor ==
    ASSUME NEW id, NEW s, Steady(s, id), NEW t, Minor(t, s, id)
    PROVE  Fine(t, s, id)
BY KeptMinor, SteadyMore DEF Fine

LEMMA FineMore ==
    ASSUME NEW id, NEW s, NEW t, NEW u, Fine(t, s, id), Fine(u, t, id)
    PROVE  Fine(u, s, id)
BY KeptMore DEF Fine

LEMMA FineSelection ==
    ASSUME NEW id \in Bridge, NEW s, Ready(s, id), NEW t, t = RoleSelection(s, id)
    PROVE  Fine(t, s, id)
BY RoleSelectionIs DEF Fine

\* A port that knows something new leaves its bridge ready for a selection.
LEMMA ReadyPort ==
    ASSUME NEW p \in Port, NEW s, Steady(s, Of[p]), NEW m \in PortType,
           m.info = "DISABLED" => m.state # "FORWARDING", m.info = "RECEIVED" => m.role # "DISABLED",
           NEW t, t = WithPort(s, p, m)
    PROVE  /\ Ready(t, Of[p]) /\ t.port[p] = m /\ t.br = s.br
           /\ \A q \in Port : q # p => t.port[q] = s.port[q]
<1>1. s \in Work /\ Ready(s, Of[p]) BY SteadyReady DEF Steady
<1>2. /\ t \in Work /\ t.br = s.br /\ t.port = [s.port EXCEPT ![p] = m]
      /\ t.port[p] = m /\ \A q \in Port : q # p => t.port[q] = s.port[q]
    BY <1>1, PutPort
<1>3. ASSUME NEW q \in Port, Of[q] = Of[p]
      PROVE  /\ t.port[q].info = "DISABLED" => t.port[q].state # "FORWARDING"
             /\ t.port[q].info = "RECEIVED" => t.port[q].role # "DISABLED"
    <2>1. CASE q = p BY <1>2, <2>1
    <2>2. CASE q # p BY <1>1, <1>2, <1>3, <2>2 DEF Ready
    <2> QED BY <2>1, <2>2
<1> QED BY <1>2, <1>3 DEF Ready

\* A port whose roles do not stand may be left as it is.
LEMMA FinePort ==
    ASSUME NEW p \in Port, NEW s, Steady(s, Of[p]),
           NEW m \in PortType, m.enabled = s.port[p].enabled, Local(m, s.br, p), ~m.selected,
           NEW t, t = WithPort(s, p, m)
    PROVE  Fine(t, s, Of[p]) /\ t.port[p] = m /\ t.br = s.br
<1>1. s \in Work BY DEF Steady
<1>2. /\ t \in Work /\ t.br = s.br /\ t.port = [s.port EXCEPT ![p] = m]
      /\ t.port[p] = m /\ \A q \in Port : q # p => t.port[q] = s.port[q]
    BY <1>1, PutPort
<1>3. ASSUME NEW q \in Port, Of[q] = Of[p] PROVE Local(t.port[q], t.br, q)
    <2>1. CASE q = p BY <1>2, <2>1
    <2>2. CASE q # p
        <3>1. Local(s.port[q], s.br, q) BY <1>3 DEF Steady
        <3> QED BY <1>2, <2>2, <3>1
    <2> QED BY <2>1, <2>2
<1>4. ASSUME NEW q \in Port, NEW r \in Port, Of[q] = Of[p], Of[r] = Of[p]
      PROVE  RootBest(t.port[q], q, t.port[r], r)
    <2>1. CASE q = p \/ r = p BY <1>2, <2>1 DEF RootBest, Told
    <2>2. CASE q # p /\ r # p
        <3>1. RootBest(s.port[q], q, s.port[r], r) BY <1>4 DEF Steady, RootStands
        <3> QED BY <1>2, <2>2, <3>1
    <2> QED BY <2>1, <2>2
<1>5. Steady(t, Of[p]) BY <1>2, <1>3, <1>4 DEF Steady, RootStands
<1>6. Kept(t, s, Of[p]) BY <1>2 DEF Kept
<1> QED BY <1>2, <1>5, <1>6 DEF Fine

LEMMA FineMild ==
    ASSUME NEW p \in Port, NEW s, Steady(s, Of[p]), NEW m, Mild(m, s.port[p]),
           NEW t, t = WithPort(s, p, m)
    PROVE  Fine(t, s, Of[p]) /\ Minor(t, s, Of[p]) /\ t.port[p] = m /\ t.br = s.br
<1>1. s \in Work BY DEF Steady
<1>2. Minor(t, s, Of[p]) /\ t.port[p] = m /\ t.br = s.br BY <1>1, PutMild
<1> QED BY <1>2, FineMinor

LEMMA BpduFields ==
    ASSUME NEW m \in Bpdu
    PROVE  /\ m.role \in PortRole /\ m.vec \in Vector /\ m.age \in Nat /\ m.proposal \in BOOLEAN
           /\ m.agreement \in BOOLEAN /\ m.learning \in BOOLEAN
BY DEF Bpdu

LEMMA MessageAgeIs ==
    ASSUME NEW age PROVE UpdateMessageAge(age) \in {Off} \cup 0..3
BY DEF UpdateMessageAge

LEMMA RecordSuperiorIs ==
    ASSUME NEW n \in PortType, NEW m \in Bpdu, NEW id, NEW k, k = RecordSuperior(n, m, id)
    PROVE  /\ k \in PortType /\ k.role = n.role /\ k.state = n.state /\ k.enabled = n.enabled
           /\ k.info = "RECEIVED" /\ ~k.selected
<1> DEFINE a == n.agree /\ BetterOrSame(n, m, id)
           r == n.rcv_proposal \/ m.proposal
           x == UpdateMessageAge(m.age)
           h == [n EXCEPT !.agree = a, !.vec = m.vec]
           i == [h EXCEPT !.age = m.age, !.message_age = x]
           j == [i EXCEPT !.rcv_proposal = r, !.send_proposal = FALSE]
<1>1. k = [[j EXCEPT !.info = "RECEIVED", !.selected = FALSE] EXCEPT !.agreed = FALSE]
    BY DEF RecordSuperior
<1>2. a \in BOOLEAN /\ r \in BOOLEAN OBVIOUS
<1>3. x \in {Off} \cup 0..3 BY MessageAgeIs
<1>4. m.vec \in Vector /\ m.age \in Nat BY BpduFields
<1> HIDE DEF a, r, x
<1>5. h \in PortType /\ h.role = n.role /\ h.state = n.state /\ h.enabled = n.enabled
    BY <1>2, <1>4 DEF PortType
<1> HIDE DEF h
<1>6. i \in PortType /\ i.role = h.role /\ i.state = h.state /\ i.enabled = h.enabled
    BY <1>3, <1>4, <1>5 DEF PortType
<1> HIDE DEF i
<1>7. j \in PortType /\ j.role = i.role /\ j.state = i.state /\ j.enabled = i.enabled
    BY <1>2, <1>6 DEF PortType
<1> HIDE DEF j
<1> DEFINE l == [j EXCEPT !.info = "RECEIVED", !.selected = FALSE]
<1>8. /\ l \in PortType /\ l.role = j.role /\ l.state = j.state /\ l.enabled = j.enabled
      /\ l.info = "RECEIVED" /\ ~l.selected
    BY <1>7 DEF PortType
<1>9. k = [l EXCEPT !.agreed = FALSE] BY <1>1
<1> HIDE DEF l
<1>10. /\ k \in PortType /\ k.role = l.role /\ k.state = l.state /\ k.enabled = l.enabled
       /\ k.info = l.info /\ k.selected = l.selected
    BY <1>8, <1>9 DEF PortType
<1> QED BY <1>5, <1>6, <1>7, <1>8, <1>10

LEMMA ReceiveSuperiorIs ==
    ASSUME NEW p \in Port, NEW s, Steady(s, Of[p]), NEW m \in Bpdu, NEW t, t = ReceiveSuperior(s, p, m)
    PROVE  Fine(t, s, Of[p])
<1> DEFINE n == s.port[p]
           k == RecordSuperior(n, m, Of[p])
           u == WithPort(s, p, k)
<1>1. s \in Work /\ Local(n, s.br, p) BY DEF Steady
<1>2. n \in PortType BY <1>1, WorkFields
<1>3. \/ t = s
      \/ n.role # "DISABLED" /\ (t = u \/ t = RoleSelection(u, Of[p]))
    BY DEF ReceiveSuperior, WithPort
<1>4. Fine(s, s, Of[p]) BY <1>1, MinorSelf, FineMinor
<1>5. CASE n.role # "DISABLED"
    <2>1. /\ k \in PortType /\ k.role = n.role /\ k.state = n.state /\ k.enabled = n.enabled
          /\ k.info = "RECEIVED" /\ ~k.selected
        <3> DEFINE id == Of[p]
        <3>1. k = RecordSuperior(n, m, id) OBVIOUS
        <3> HIDE DEF n, k, id
        <3> QED BY <1>2, <3>1, RecordSuperiorIs
    <2> HIDE DEF k
    <2>2. RoleTells(k, s.br, p) BY <1>1, <1>5, <2>1 DEF Local, RoleTells, NoShorter, Blocked, Told
    <2>3. Local(k, s.br, p) BY <1>1, <2>1, <2>2 DEF Local
    <2>4. Fine(u, s, Of[p]) BY <2>1, <2>3, FinePort
    <2> HIDE DEF u, n
    <2>5. Of[p] \in Bridge BY PortAssumption
    <2>6. Fine(RoleSelection(u, Of[p]), u, Of[p]) BY <2>4, <2>5, SteadyReady, FineSelection DEF Fine
    <2>7. Fine(RoleSelection(u, Of[p]), s, Of[p]) BY <2>4, <2>6, FineMore
    <2> QED BY <1>3, <1>4, <2>4, <2>7
<1> QED BY <1>3, <1>4, <1>5

LEMMA ReceiveRepeatedIs ==
    ASSUME NEW p \in Port, NEW s, Steady(s, Of[p]), NEW m \in Bpdu, NEW t, t = ReceiveRepeated(s, p, m)
    PROVE  Fine(t, s, Of[p])
<1> DEFINE n == s.port[p]
           r == n.rcv_proposal \/ m.proposal
           x == UpdateMessageAge(n.age)
           k == [n EXCEPT !.rcv_proposal = r, !.message_age = x]
           u == WithPort(s, p, k)
           v == RcvProposal(u, p)
           j == [v.port[p] EXCEPT !.rcv_proposal = FALSE]
           w == WithPort(v, p, j)
<1>1. s \in Work BY DEF Steady
<1>2. n \in PortType /\ s.port \in [Port -> PortType] BY <1>1, WorkFields
<1>3. u = [s EXCEPT !.port[p].rcv_proposal = @ \/ m.proposal,
                    !.port[p].message_age = UpdateMessageAge(s.port[p].age)]
    BY <1>1, <1>2 DEF WithPort, Work
<1>4. t = u \/ t = SendProposal(w, p)
    <2> DEFINE y == [s EXCEPT !.port[p].rcv_proposal = @ \/ m.proposal,
                              !.port[p].message_age = UpdateMessageAge(s.port[p].age)]
    <2>1. t = IF y.port[p].rcv_proposal /\ y.port[p].role # "BACKUP"
              THEN SendProposal([RcvProposal(y, p) EXCEPT !.port[p].rcv_proposal = FALSE], p) ELSE y
        BY DEF ReceiveRepeated
    <2>2. y = u BY <1>3
    <2>3. w = [v EXCEPT !.port[p].rcv_proposal = FALSE] BY DEF WithPort
    <2> HIDE DEF y, u, j, w
    <2> QED BY <2>1, <2>2, <2>3
<1>5. Minor(u, s, Of[p])
    <2>1. r \in BOOLEAN OBVIOUS
    <2>2. x \in {Off} \cup 0..3 BY MessageAgeIs
    <2> HIDE DEF r, x
    <2>3. Mild(k, n) BY <1>2, <2>1, <2>2 DEF Mild, Knows, PortType
    <2> HIDE DEF k
    <2> QED BY <1>1, <2>3, PutMild
<1> HIDE DEF u
<1>6. Minor(v, u, Of[p]) BY <1>5, RcvProposalIs DEF Minor
<1> HIDE DEF v
<1>7. Minor(w, v, Of[p])
    <2>1. v \in Work BY <1>6 DEF Minor
    <2>2. v.port[p] \in PortType BY <2>1, WorkFields
    <2>3. Mild(j, v.port[p]) BY <2>2 DEF Mild, Knows, PortType
    <2> HIDE DEF j
    <2> QED BY <2>1, <2>3, PutMild
<1> HIDE DEF w
<1>8. Minor(SendProposal(w, p), w, Of[p]) BY <1>7, SendProposalIs DEF Minor
<1>9. Minor(t, s, Of[p]) BY <1>4, <1>5, <1>6, <1>7, <1>8, MinorMore
<1> QED BY <1>9, FineMinor

LEMMA ReceiveAgreementIs ==
    ASSUME NEW n \in PortType, NEW m, m = ReceiveAgreement(n)
    PROVE  Mild(m, n)
<1> DEFINE ready == [n EXCEPT !.forward_delay = Off, !.send_proposal = FALSE]
           k == SetState(ready, "LEARNING")
           j == SetState(k, "FORWARDING")
<1>1. m = ready \/ m = [ready EXCEPT !.newInfo = TRUE] \/ m = [j EXCEPT !.newInfo = TRUE]
    BY DEF ReceiveAgreement
<1>2. Mild(ready, n) BY TimerIs DEF Mild, Knows, PortType
<1> HIDE DEF ready
<1>3. ready \in PortType BY <1>2 DEF Mild
<1>4. Mild(k, ready) BY <1>3, SetStateIs DEF PortState
<1> HIDE DEF k
<1>5. k \in PortType BY <1>4 DEF Mild
<1>6. Mild(j, k) BY <1>5, SetStateIs DEF PortState
<1> HIDE DEF j
<1>7. ASSUME NEW h, Mild(h, n) PROVE Mild([h EXCEPT !.newInfo = TRUE], n)
    BY <1>7 DEF Mild, Knows, PortType
<1>8. Mild(j, n) BY <1>2, <1>4, <1>6, MildMore
<1> QED BY <1>1, <1>2, <1>7, <1>8

LEMMA ReceiveDisputedIs ==
    ASSUME NEW n \in PortType, NEW m, m = ReceiveDisputed(n)
    PROVE  Mild(m, n)
<1> DEFINE k == [n EXCEPT !.agreed = FALSE]
           j == Held(k)
           h == [j EXCEPT !.send_proposal = TRUE, !.disputed = FALSE]
<1>1. m = [h EXCEPT !.newInfo = TRUE] BY DEF ReceiveDisputed
<1>2. Mild(k, n) BY DEF Mild, Knows, PortType
<1> HIDE DEF k
<1>3. Mild(j, k) BY <1>2, HeldIs DEF Mild
<1> HIDE DEF j
<1>4. Mild(h, j) BY <1>3 DEF Mild, Knows, PortType
<1> HIDE DEF h
<1>5. Mild(m, h) BY <1>1, <1>4 DEF Mild, Knows, PortType
<1> QED BY <1>2, <1>3, <1>4, <1>5, MildMore

LEMMA ProcessMessageIs ==
    ASSUME NEW p \in Port, NEW s, Steady(s, Of[p]), NEW m \in Bpdu, NEW t, t = ProcessMessage(s, p, m)
    PROVE  Fine(t, s, Of[p])
<1> DEFINE n == s.port[p]
           k == [n EXCEPT !.agreed = m.agreement]
           heard == WithPort(s, p, k)
           disputed == n.disputed \/ m.learning
           h == heard.port[p]
<1>1. s \in Work BY DEF Steady
<1>2. n \in PortType BY <1>1, WorkFields
<1>3. \/ t = heard
      \/ t = WithPort(heard, p, ReceiveAgreement(h))
      \/ t = ReceiveSuperior(heard, p, m)
      \/ t = ReceiveRepeated(heard, p, m)
      \/ t = WithPort(heard, p, ReceiveDisputed(h))
      \/ t = WithPort(heard, p, [h EXCEPT !.disputed = disputed])
    <2> DEFINE y == [s EXCEPT !.port[p].agreed = m.agreement]
    <2>1. y = heard BY DEF WithPort
    <2>2. \/ t = y
          \/ t = [y EXCEPT !.port[p] = ReceiveAgreement(@)]
          \/ t = ReceiveSuperior(y, p, m)
          \/ t = ReceiveRepeated(y, p, m)
          \/ t = [y EXCEPT !.port[p] = IF disputed /\ n.role = "DESIGNATED" THEN ReceiveDisputed(@)
                                       ELSE [@ EXCEPT !.disputed = disputed]]
        BY DEF ProcessMessage
    <2> HIDE DEF y, heard
    <2> QED BY <2>1, <2>2 DEF WithPort
<1>4. m.agreement \in BOOLEAN /\ m.learning \in BOOLEAN BY BpduFields
<1>5. Mild(k, n) BY <1>2, <1>4 DEF Mild, Knows, PortType
<1> HIDE DEF k
<1>6. Fine(heard, s, Of[p]) BY <1>5, FineMild
<1> HIDE DEF heard
<1>7. Steady(heard, Of[p]) BY <1>6 DEF Fine
<1>8. h \in PortType BY <1>7, WorkFields DEF Steady
<1>9. disputed \in BOOLEAN OBVIOUS
<1> HIDE DEF h, disputed
<1>10. Mild([h EXCEPT !.disputed = disputed], h) BY <1>8, <1>9 DEF Mild, Knows, PortType
<1>11. ASSUME NEW j, Mild(j, h), t = WithPort(heard, p, j) PROVE Fine(t, s, Of[p])
    <2>1. Fine(t, heard, Of[p]) BY <1>7, <1>11, FineMild DEF h
    <2> QED BY <1>6, <2>1, FineMore
<1>12. CASE t = heard BY <1>6, <1>12
<1>13. CASE t = WithPort(heard, p, ReceiveAgreement(h))
    <2>1. Mild(ReceiveAgreement(h), h) BY <1>8, ReceiveAgreementIs
    <2> QED BY <1>11, <1>13, <2>1
<1>14. CASE t = ReceiveSuperior(heard, p, m) BY <1>6, <1>7, <1>14, ReceiveSuperiorIs, FineMore
<1>15. CASE t = ReceiveRepeated(heard, p, m) BY <1>6, <1>7, <1>15, ReceiveRepeatedIs, FineMore
<1>16. CASE t = WithPort(heard, p, ReceiveDisputed(h))
    <2>1. Mild(ReceiveDisputed(h), h) BY <1>8, ReceiveDisputedIs
    <2> QED BY <1>11, <1>16, <2>1
<1>17. CASE t = WithPort(heard, p, [h EXCEPT !.disputed = disputed])
    BY <1>10, <1>11, <1>17
<1> QED BY <1>3, <1>12, <1>13, <1>14, <1>15, <1>16, <1>17

----------------------------------------------------------------------------
(* The actions.                                                             *)

Coh ==
    /\ \A p \in Port : Local(port[p], br[Of[p]], p)
    /\ \A p, q \in Port : Of[p] = Of[q] => RootBest(port[p], p, port[q], q)
IInv == TypeOK /\ Coh

LEMMA StepIs ==
    ASSUME IInv, NEW p \in Port
    PROVE  /\ Steady(Step(p), Of[p]) /\ Step(p) \in Work /\ Step(p).port = port /\ Step(p).br = br[Of[p]]
           /\ Of[p] \in Bridge /\ port[p] \in PortType /\ Local(port[p], br[Of[p]], p)
<1>1. Of[p] \in Bridge BY PortAssumption
<1>2. port \in [Port -> PortType] /\ br[Of[p]] \in BridgeType BY <1>1 DEF IInv, TypeOK
<1>3. Step(p) = [port |-> port, br |-> br[Of[p]]] BY DEF Step
<1>4. Step(p) \in Work /\ Step(p).port = port /\ Step(p).br = br[Of[p]] BY <1>2, <1>3, WorkIs
<1>5. \A q \in Port : Local(port[q], br[Of[q]], q) BY DEF IInv, Coh
<1>6. \A q, r \in Port : Of[q] = Of[r] => RootBest(port[q], q, port[r], r) BY DEF IInv, Coh
<1> QED BY <1>1, <1>2, <1>4, <1>5, <1>6 DEF Steady, RootStands

LEMMA BpduOfIs ==
    ASSUME NEW n \in PortType, NEW p \in Port
    PROVE  BpduOf(n, p) \in Bpdu
<1> DEFINE v == [n.vec EXCEPT !.bridge = Of[p], !.port = p]
<1>1. v \in Vector
    <2>1. n.vec \in Vector /\ Of[p] \in Nat /\ p \in Nat BY PortFields, PortAssumption
    <2> QED BY <2>1 DEF Vector
<1>2. BpduOf(n, p) = [role |-> n.role, proposal |-> n.send_proposal, agreement |-> n.agree,
                      learning |-> n.state # "DISCARDING", age |-> n.age, vec |-> v]
    BY DEF BpduOf
<1> HIDE DEF v
<1> QED BY <1>1, <1>2, PortFields DEF Bpdu

\* What a handler of bridge id that ends in s leaves behind.
LEMMA DoneIs ==
    ASSUME IInv, NEW id \in Bridge, NEW s, Steady(s, id),
           \A q \in Port : Of[q] # id => s.port[q] = port[q],
           NEW talks, NEW rest \in [Port -> Seq(Bpdu)], Done(id, s, talks, rest),
           helloed' \in SUBSET {q \in Port : s.port[q].enabled}, UNCHANGED <<cable, flaps>>
    PROVE  IInv'
<1> DEFINE sends == {p \in talks : s.port[p].newInfo /\ s.port[p].selected /\ s.port[p].role # "DISABLED"}
<1>1. /\ port' = [p \in Port |-> IF p \in sends THEN [s.port[p] EXCEPT !.newInfo = FALSE] ELSE s.port[p]]
      /\ br' = [br EXCEPT ![id] = s.br]
      /\ wire' = [p \in Port |-> IF peer[p] \in sends /\ cable[p]
                                 THEN Append(rest[p], BpduOf(s.port[peer[p]], peer[p])) ELSE rest[p]]
      /\ UNCHANGED <<peer, losses>>
    BY DEF Done
<1> HIDE DEF sends
<1>2. s.port \in [Port -> PortType] /\ s.br \in BridgeType BY WorkFields DEF Steady
<1>3. ASSUME NEW q \in Port PROVE Mild(port'[q], s.port[q])
    <2>1. s.port[q] \in PortType BY <1>2
    <2>2. CASE q \in sends
        <3>1. port'[q] = [s.port[q] EXCEPT !.newInfo = FALSE] BY <1>1, <2>2
        <3> QED BY <2>1, <3>1 DEF Mild, Knows, PortType
    <2>3. CASE q \notin sends
        <3>1. port'[q] = s.port[q] BY <1>1, <2>3
        <3> QED BY <2>1, <3>1, MildSelf
    <2> QED BY <2>2, <2>3
<1>4. port' \in [Port -> PortType]
    <2>1. \A q \in Port : port'[q] \in PortType BY <1>3 DEF Mild
    <2> QED BY <1>1, <2>1
<1>5. br' \in [Bridge -> BridgeType] BY <1>1, <1>2 DEF IInv, TypeOK
<1>6. wire' \in [Port -> Seq(Bpdu)]
    <2>1. peer \in [Port -> Port] BY CableAssumption DEF IInv, TypeOK
    <2>2. ASSUME NEW p \in Port PROVE wire'[p] \in Seq(Bpdu)
        <3>1. rest[p] \in Seq(Bpdu) /\ peer[p] \in Port BY <2>1
        <3>2. BpduOf(s.port[peer[p]], peer[p]) \in Bpdu BY <1>2, <3>1, BpduOfIs
        <3>3. Append(rest[p], BpduOf(s.port[peer[p]], peer[p])) \in Seq(Bpdu) BY <3>1, <3>2
        <3> QED BY <1>1, <3>1, <3>3
    <2> QED BY <1>1, <2>2
<1>7. helloed' \subseteq {q \in Port : port'[q].enabled}
    <2>1. \A q \in Port : port'[q].enabled = s.port[q].enabled BY <1>3 DEF Mild, Knows
    <2> QED BY <2>1
<1>8. TypeOK' BY <1>1, <1>4, <1>5, <1>6, <1>7 DEF IInv, TypeOK
<1>9. ASSUME NEW q \in Port PROVE Local(port'[q], br'[Of[q]], q)
    <2>1. Local(s.port[q], br'[Of[q]], q)
        <3>1. br'[Of[q]] = IF Of[q] = id THEN s.br ELSE br[Of[q]]
            BY <1>1, PortAssumption DEF IInv, TypeOK
        <3>2. Of[q] = id => Local(s.port[q], s.br, q) BY DEF Steady
        <3>3. Local(port[q], br[Of[q]], q) BY DEF IInv, Coh
        <3> QED BY <3>1, <3>2, <3>3
    <2>2. Mild(port'[q], s.port[q]) BY <1>3
    <2>3. SameBelief(br'[Of[q]], br'[Of[q]]) BY DEF SameBelief
    <2>4. RoleTells(port'[q], br'[Of[q]], q) BY <2>1, <2>2, <2>3, RoleTellsMore DEF Local, Mild
    <2> QED BY <2>1, <2>2, <2>4 DEF Local, Mild, Knows
<1>10. ASSUME NEW p \in Port, NEW q \in Port, Of[p] = Of[q]
       PROVE  RootBest(port'[p], p, port'[q], q)
    <2>1. CASE Of[q] = id
        <3>1. RootBest(s.port[p], p, s.port[q], q) BY <1>10, <2>1 DEF Steady, RootStands
        <3>2. Knows(port'[p], s.port[p]) /\ Knows(port'[q], s.port[q]) BY <1>3 DEF Mild
        <3> QED BY <3>1, <3>2, RootBestMore
    <2>2. CASE Of[q] # id
        <3>1. s.port[p] = port[p] /\ s.port[q] = port[q] BY <1>10, <2>2
        <3>2. RootBest(s.port[p], p, s.port[q], q) BY <1>10, <3>1 DEF IInv, Coh
        <3>3. Knows(port'[p], s.port[p]) /\ Knows(port'[q], s.port[q]) BY <1>3 DEF Mild
        <3> QED BY <3>2, <3>3, RootBestMore
    <2> QED BY <2>1, <2>2
<1> QED BY <1>8, <1>9, <1>10 DEF IInv, Coh

\* A handler that leaves what works alone.
LEMMA HandlerIs ==
    ASSUME IInv, NEW p \in Port, NEW s, Fine(s, Step(p), Of[p]),
           NEW talks, NEW rest \in [Port -> Seq(Bpdu)], Done(Of[p], s, talks, rest),
           \A q \in helloed' : q \in helloed \/ (q = p /\ port[p].enabled), UNCHANGED <<cable, flaps>>
    PROVE  IInv'
<1>1. Of[p] \in Bridge /\ Step(p).port = port BY StepIs
<1>2. Steady(s, Of[p]) /\ \A q \in Port : Of[q] # Of[p] => s.port[q] = port[q] BY <1>1 DEF Fine, Kept
<1>3. \A q \in Port : s.port[q].enabled = port[q].enabled BY <1>1 DEF Fine, Kept
<1>4. \A q \in helloed : q \in Port /\ port[q].enabled BY DEF IInv, TypeOK
<1>5. helloed' \in SUBSET {q \in Port : s.port[q].enabled} BY <1>3, <1>4
<1> QED BY <1>1, <1>2, <1>5, DoneIs

LEMMA WireIs == IInv => wire \in [Port -> Seq(Bpdu)]
BY DEF IInv, TypeOK

LEMMA ReceiveKeeps ==
    ASSUME IInv, NEW p \in Port, Receive(p)
    PROVE  IInv'
<1> DEFINE m == Head(wire[p])
           rest == [wire EXCEPT ![p] = Tail(@)]
           s == ProcessMessage(Step(p), p, m)
<1>1. wire \in [Port -> Seq(Bpdu)] /\ wire[p] # <<>> BY WireIs DEF Receive
<1>2. m \in Bpdu BY <1>1
<1>3. Tail(wire[p]) \in Seq(Bpdu) BY <1>1
<1>4. rest \in [Port -> Seq(Bpdu)] BY <1>1, <1>3
<1>5. Done(Of[p], s, PortsOf(Of[p]), rest) /\ UNCHANGED <<cable, helloed, flaps>> BY DEF Receive
<1> HIDE DEF m, rest
<1>6. Fine(s, Step(p), Of[p]) BY <1>2, StepIs, ProcessMessageIs
<1> HIDE DEF s
<1> QED BY <1>4, <1>5, <1>6, HandlerIs

LEMMA HelloKeeps ==
    ASSUME IInv, NEW p \in Port, Hello(p)
    PROVE  IInv'
<1>1. PICK tc \in {FALSE, port[p].role = "ROOT"} :
          Done(Of[p], [Step(p) EXCEPT !.port[p].newInfo = @ \/ port[p].role = "DESIGNATED" \/ tc], {p}, wire)
    BY DEF Hello
<1> DEFINE x == port[p].newInfo \/ port[p].role = "DESIGNATED" \/ tc
           k == [port[p] EXCEPT !.newInfo = x]
           s == WithPort(Step(p), p, k)
<1>2. /\ Steady(Step(p), Of[p]) /\ Step(p).port = port /\ port[p] \in PortType BY StepIs
<1>3. s = [Step(p) EXCEPT !.port[p].newInfo = @ \/ port[p].role = "DESIGNATED" \/ tc]
    BY <1>2 DEF WithPort
<1>4. x \in BOOLEAN BY <1>2, PortFields
<1> HIDE DEF x
<1>5. Mild(k, port[p]) BY <1>2, <1>4 DEF Mild, Knows, PortType
<1> HIDE DEF k
<1>6. Fine(s, Step(p), Of[p]) BY <1>2, <1>5, FineMild
<1> HIDE DEF s
<1>7. Done(Of[p], s, {p}, wire) BY <1>1, <1>3
<1>8. \A q \in helloed' : q \in helloed \/ (q = p /\ port[p].enabled) BY DEF Hello
<1>9. UNCHANGED <<cable, flaps>> BY DEF Hello
<1> QED BY <1>6, <1>7, <1>8, <1>9, WireIs, HandlerIs

\* A handler that does not hear of a link, and the wires as they are.
LEMMA TimerHandlerIs ==
    ASSUME IInv, NEW p \in Port, NEW s, Fine(s, Step(p), Of[p]), NEW talks,
           Done(Of[p], s, talks, wire), UNCHANGED <<cable, helloed, flaps>>
    PROVE  IInv'
<1>1. wire \in [Port -> Seq(Bpdu)] BY WireIs
<1>2. \A q \in helloed' : q \in helloed \/ (q = p /\ port[p].enabled) OBVIOUS
<1>3. UNCHANGED <<cable, flaps>> OBVIOUS
<1> QED BY <1>1, <1>2, <1>3, HandlerIs

LEMMA MessageAgeTimerKeeps ==
    ASSUME IInv, NEW p \in Port, MessageAgeTimer(p)
    PROVE  IInv'
<1> DEFINE k == [port[p] EXCEPT !.message_age = Off]
           s == WithPort(Step(p), p, k)
           j == [s.port[p] EXCEPT !.info = "AGED"]
           u == WithPort(s, p, j)
           t == RoleSelection(u, Of[p])
<1>1. /\ Steady(Step(p), Of[p]) /\ Step(p).port = port /\ port[p] \in PortType /\ Of[p] \in Bridge
      /\ Local(port[p], br[Of[p]], p) /\ Step(p).br = br[Of[p]]
    BY StepIs
<1>2. /\ IF port[p].info = "DISABLED" THEN Done(Of[p], s, {}, wire) ELSE Done(Of[p], t, PortsOf(Of[p]), wire)
      /\ UNCHANGED <<cable, helloed, flaps>>
    <2>1. s = [Step(p) EXCEPT !.port[p].message_age = Off] BY <1>1 DEF WithPort
    <2> DEFINE s0 == [Step(p) EXCEPT !.port[p].message_age = Off]
    <2>2. /\ IF port[p].info = "DISABLED" THEN Done(Of[p], s0, {}, wire)
             ELSE Done(Of[p], RoleSelection([s0 EXCEPT !.port[p].info = "AGED"], Of[p]), PortsOf(Of[p]), wire)
          /\ UNCHANGED <<cable, helloed, flaps>>
        BY DEF MessageAgeTimer
    <2>3. s0 = s BY <2>1
    <2> HIDE DEF s0, s, k
    <2>4. u = [s EXCEPT !.port[p].info = "AGED"] BY DEF WithPort
    <2> QED BY <2>2, <2>3, <2>4
<1>3. Mild(k, port[p]) BY <1>1, TimerIs DEF Mild, Knows, PortType
<1> HIDE DEF k
<1>4. Fine(s, Step(p), Of[p]) /\ s.br = br[Of[p]] /\ s.port[p] = k BY <1>1, <1>3, FineMild
<1> HIDE DEF s
<1>5. CASE port[p].info = "DISABLED" BY <1>2, <1>4, <1>5, TimerHandlerIs
<1>6. CASE port[p].info # "DISABLED"
    <2>1. Steady(s, Of[p]) /\ s.port[p] \in PortType /\ Local(s.port[p], s.br, p)
        BY <1>4, WorkFields DEF Fine, Steady
    <2>2. /\ j \in PortType /\ j.enabled = s.port[p].enabled /\ j.role = s.port[p].role /\ j.state = s.port[p].state
          /\ j.info = "AGED" /\ j.vec = s.port[p].vec /\ j.age = s.port[p].age /\ j.selected = s.port[p].selected
        BY <2>1 DEF PortType
    <2> HIDE DEF j
    <2>3. /\ Ready(u, Of[p]) /\ u.port[p] = j
          /\ \A q \in Port : q # p => u.port[q] = s.port[q]
        BY <2>1, <2>2, ReadyPort
    <2> HIDE DEF u
    <2>4. Fine(t, u, Of[p]) BY <1>1, <2>3, FineSelection
    <2>5. Kept(u, s, Of[p]) BY <2>2, <2>3 DEF Kept, Ready
    <2> HIDE DEF t
    <2>6. Fine(t, Step(p), Of[p]) BY <1>4, <2>4, <2>5, KeptMore DEF Fine
    <2> QED BY <1>2, <1>6, <2>6, TimerHandlerIs
<1> QED BY <1>5, <1>6

LEMMA ForwardDelayTimerKeeps ==
    ASSUME IInv, NEW p \in Port, ForwardDelayTimer(p)
    PROVE  IInv'
<1> DEFINE n == [port[p] EXCEPT !.forward_delay = Off]
           next == CASE n.state = "DISCARDING" /\ n.role \in {"ROOT", "DESIGNATED"} ->
                            [SetState(n, "LEARNING") EXCEPT !.forward_delay = 1]
                     [] n.state = "LEARNING" -> [SetState(n, "FORWARDING") EXCEPT !.send_proposal = FALSE]
                     [] OTHER -> n
           s == WithPort(Step(p), p, next)
<1>1. Steady(Step(p), Of[p]) /\ Step(p).port = port /\ port[p] \in PortType BY StepIs
<1>2. Done(Of[p], s, PortsOf(Of[p]), wire) /\ UNCHANGED <<cable, helloed, flaps>>
    BY DEF ForwardDelayTimer, WithPort
<1>3. Mild(n, port[p]) BY <1>1, TimerIs DEF Mild, Knows, PortType
<1> HIDE DEF n
<1>4. n \in PortType BY <1>3 DEF Mild
<1>5. Mild(next, n)
    <2> DEFINE k == SetState(n, "LEARNING")
               j == SetState(n, "FORWARDING")
    <2>1. \/ next = [k EXCEPT !.forward_delay = 1]
          \/ next = [j EXCEPT !.send_proposal = FALSE]
          \/ next = n
        OBVIOUS
    <2>2. Mild(k, n) /\ Mild(j, n) BY <1>4, SetStateIs DEF PortState
    <2> HIDE DEF k, j, next
    <2>3. CASE next = [k EXCEPT !.forward_delay = 1]
        <3>1. Mild(next, k) BY <2>2, <2>3, TimerIs DEF Mild, Knows, PortType
        <3> QED BY <2>2, <3>1, MildMore
    <2>4. CASE next = [j EXCEPT !.send_proposal = FALSE]
        <3>1. Mild(next, j) BY <2>2, <2>4 DEF Mild, Knows, PortType
        <3> QED BY <2>2, <3>1, MildMore
    <2>5. CASE next = n BY <1>4, <2>5, MildSelf
    <2> QED BY <2>1, <2>3, <2>4, <2>5
<1> HIDE DEF next
<1>6. Mild(next, port[p]) BY <1>3, <1>5, MildMore
<1>7. Fine(s, Step(p), Of[p]) BY <1>1, <1>6, FineMild
<1> HIDE DEF s
<1> QED BY <1>2, <1>7, TimerHandlerIs

LEMMA RecentRootTimerKeeps ==
    ASSUME IInv, NEW p \in Port, RecentRootTimer(p)
    PROVE  IInv'
<1> DEFINE k == [port[p] EXCEPT !.recent_root = Off]
           s == WithPort(Step(p), p, k)
           u == RootTransition(s, p)
           t == [u EXCEPT !.br.recent_root = NoPort]
<1>1. Steady(Step(p), Of[p]) /\ Step(p).port = port /\ port[p] \in PortType BY StepIs
<1>2. (Done(Of[p], s, {}, wire) \/ Done(Of[p], t, {}, wire)) /\ UNCHANGED <<cable, helloed, flaps>>
    <2> DEFINE s0 == [Step(p) EXCEPT !.port[p].recent_root = Off]
               cond == s0.br.recent_root # NoPort /\ \A q \in PortsOf(Of[p]) : s0.port[q].recent_root = Off
    <2>1. s0 = s BY <1>1 DEF WithPort
    <2>2. /\ IF cond THEN Done(Of[p], [RootTransition(s0, p) EXCEPT !.br.recent_root = NoPort], {}, wire)
             ELSE Done(Of[p], s0, {}, wire)
          /\ UNCHANGED <<cable, helloed, flaps>>
        BY DEF RecentRootTimer
    <2> HIDE DEF s0, s, cond
    <2> QED BY <2>1, <2>2
<1>3. Mild(k, port[p]) BY <1>1, TimerIs DEF Mild, Knows, PortType
<1> HIDE DEF k
<1>4. Fine(s, Step(p), Of[p]) BY <1>1, <1>3, FineMild
<1> HIDE DEF s
<1>5. Steady(s, Of[p]) /\ s \in Work BY <1>4 DEF Fine, Steady
<1>6. Minor(u, s, Of[p]) BY <1>5, RootTransitionIs
<1> HIDE DEF u
<1>7. Minor(t, u, Of[p])
    <2>1. u \in Work /\ NoPort \in Port \cup {NoPort} BY <1>6 DEF Minor
    <2> QED BY <2>1, RecentRootIs
<1> HIDE DEF t
<1>8. Minor(t, s, Of[p]) BY <1>6, <1>7, MinorMore
<1>9. Fine(t, s, Of[p]) BY <1>5, <1>8, FineMinor
<1>10. Fine(t, Step(p), Of[p]) BY <1>4, <1>9, FineMore
<1> QED BY <1>2, <1>4, <1>10, TimerHandlerIs

LEMMA RecentBackupTimerKeeps ==
    ASSUME IInv, NEW p \in Port, RecentBackupTimer(p)
    PROVE  IInv'
<1> DEFINE k == [port[p] EXCEPT !.recent_backup = Off]
           s == WithPort(Step(p), p, k)
           u == RootTransition(s, p)
<1>1. Steady(Step(p), Of[p]) /\ Step(p).port = port /\ port[p] \in PortType BY StepIs
<1>2. (Done(Of[p], s, {}, wire) \/ Done(Of[p], u, {}, wire)) /\ UNCHANGED <<cable, helloed, flaps>>
    <2> DEFINE s0 == [Step(p) EXCEPT !.port[p].recent_backup = Off]
    <2>1. s0 = s BY <1>1 DEF WithPort
    <2>2. /\ Done(Of[p], IF port[p].role = "ROOT" THEN RootTransition(s0, p) ELSE s0, {}, wire)
          /\ UNCHANGED <<cable, helloed, flaps>>
        BY DEF RecentBackupTimer
    <2> HIDE DEF s0, s
    <2> QED BY <2>1, <2>2
<1>3. Mild(k, port[p]) BY <1>1, TimerIs DEF Mild, Knows, PortType
<1> HIDE DEF k
<1>4. Fine(s, Step(p), Of[p]) BY <1>1, <1>3, FineMild
<1> HIDE DEF s
<1>5. Steady(s, Of[p]) /\ s \in Work BY <1>4 DEF Fine, Steady
<1>6. Minor(u, s, Of[p]) BY <1>5, RootTransitionIs
<1> HIDE DEF u
<1>7. Fine(u, s, Of[p]) BY <1>5, <1>6, FineMinor
<1>8. Fine(u, Step(p), Of[p]) BY <1>4, <1>7, FineMore
<1> QED BY <1>2, <1>4, <1>8, TimerHandlerIs

LEMMA EnablePortKeeps ==
    ASSUME IInv, NEW p \in Port, EnablePort(p)
    PROVE  IInv'
<1> DEFINE k == [port[p] EXCEPT !.enabled = TRUE, !.info = "AGED"]
           u == WithPort(Step(p), p, k)
           t == RoleSelection(u, Of[p])
           j == [t.port[p] EXCEPT !.newInfo = FALSE]
           s == WithPort(t, p, j)
<1>1. /\ Steady(Step(p), Of[p]) /\ Step(p).port = port /\ port[p] \in PortType /\ Of[p] \in Bridge
      /\ Local(port[p], br[Of[p]], p) /\ Step(p).br = br[Of[p]]
    BY StepIs
<1>2. Done(Of[p], s, PortsOf(Of[p]), wire)
    <2> DEFINE u0 == [Step(p) EXCEPT !.port[p].enabled = TRUE, !.port[p].info = "AGED"]
    <2>1. u0 = u
        <3>1. Step(p) \in Work /\ port \in [Port -> PortType] BY <1>1, WorkFields DEF Steady
        <3> QED BY <1>1, <3>1 DEF WithPort, Work
    <2>2. Done(Of[p], [RoleSelection(u0, Of[p]) EXCEPT !.port[p].newInfo = FALSE], PortsOf(Of[p]), wire)
        BY DEF EnablePort
    <2> HIDE DEF u0, u
    <2>3. s = [RoleSelection(u, Of[p]) EXCEPT !.port[p].newInfo = FALSE] BY DEF WithPort
    <2> HIDE DEF s
    <2> QED BY <2>1, <2>2, <2>3
<1>3. /\ k \in PortType /\ k.enabled = TRUE /\ k.role = port[p].role /\ k.state = port[p].state
      /\ k.info = "AGED" /\ k.vec = port[p].vec /\ k.age = port[p].age /\ k.selected = port[p].selected
    BY <1>1 DEF PortType
<1> HIDE DEF k
<1>5. Ready(u, Of[p]) /\ u.port[p] = k /\ \A q \in Port : q # p => u.port[q] = port[q]
    BY <1>1, <1>3, ReadyPort
<1> HIDE DEF u
<1>6. Fine(t, u, Of[p]) BY <1>1, <1>5, FineSelection
<1> HIDE DEF t
<1>7. Steady(t, Of[p]) /\ t.port[p] \in PortType BY <1>6, WorkFields DEF Fine, Steady
<1>8. Mild(j, t.port[p]) BY <1>7 DEF Mild, Knows, PortType
<1> HIDE DEF j
<1>9. Fine(s, t, Of[p]) BY <1>7, <1>8, FineMild
<1> HIDE DEF s
<1>10. Fine(s, u, Of[p]) BY <1>6, <1>9, FineMore
<1>11. Steady(s, Of[p]) /\ \A q \in Port : Of[q] # Of[p] => s.port[q] = port[q]
    BY <1>5, <1>10 DEF Fine, Kept
<1>12. helloed' \in SUBSET {q \in Port : s.port[q].enabled}
    <2>1. \A q \in Port : s.port[q].enabled = u.port[q].enabled BY <1>10 DEF Fine, Kept
    <2>2. \A q \in helloed : q \in Port /\ port[q].enabled BY DEF IInv, TypeOK
    <2>3. helloed' = helloed \cup {p} BY DEF EnablePort
    <2>4. ASSUME NEW q \in helloed' PROVE q \in Port /\ s.port[q].enabled
        <3>1. CASE q = p BY <1>3, <1>5, <2>1, <3>1
        <3>2. CASE q # p BY <1>5, <2>1, <2>2, <2>3, <3>2
        <3> QED BY <3>1, <3>2
    <2> QED BY <2>4
<1>13. UNCHANGED <<cable, flaps>> BY DEF EnablePort
<1>14. wire \in [Port -> Seq(Bpdu)] BY WireIs
<1> QED BY <1>1, <1>2, <1>11, <1>12, <1>13, <1>14, DoneIs

LEMMA DisablePortKeeps ==
    ASSUME IInv, NEW p \in Port, DisablePort(p)
    PROVE  IInv'
<1> DEFINE h == SetState(port[p], "DISCARDING")
           i == SetRole(h, "DISABLED")
           n == [i EXCEPT !.enabled = FALSE, !.info = "DISABLED", !.message_age = Off,
                          !.forward_delay = Off, !.recent_backup = Off]
           u == WithPort(Step(p), p, n)
           s == RoleSelection(u, Of[p])
<1>1. /\ Steady(Step(p), Of[p]) /\ Step(p) \in Work /\ Step(p).port = port /\ port[p] \in PortType
      /\ Of[p] \in Bridge
    BY StepIs
<1>2. Done(Of[p], s, PortsOf(Of[p]), wire) BY DEF DisablePort, WithPort
<1>3. Mild(h, port[p]) /\ h.state = "DISCARDING" BY <1>1, SetStateIs DEF PortState
<1> HIDE DEF h
<1>4. i \in PortType /\ i.state = "DISCARDING" BY <1>3, SetRoleIs DEF Mild, PortRole
<1> HIDE DEF i
<1>5. n \in PortType /\ n.state = "DISCARDING" /\ n.enabled = FALSE /\ n.info = "DISABLED"
    <2> DEFINE k == [i EXCEPT !.enabled = FALSE, !.info = "DISABLED"]
               j == [k EXCEPT !.message_age = Off, !.forward_delay = Off]
    <2>1. n = [j EXCEPT !.recent_backup = Off] OBVIOUS
    <2>2. k \in PortType /\ k.state = "DISCARDING" /\ k.enabled = FALSE /\ k.info = "DISABLED"
        BY <1>4 DEF PortType
    <2> HIDE DEF k
    <2>3. j \in PortType /\ j.state = "DISCARDING" /\ j.enabled = FALSE /\ j.info = "DISABLED"
        BY <2>2, TimerIs DEF PortType
    <2> HIDE DEF j, n
    <2> QED BY <2>1, <2>3, TimerIs DEF PortType
<1> HIDE DEF n
<1>6. /\ u \in Work /\ u.br = Step(p).br /\ u.port = [Step(p).port EXCEPT ![p] = n]
      /\ u.port[p] = n /\ \A q \in Port : q # p => u.port[q] = Step(p).port[q]
    BY <1>1, <1>5, PutPort
<1>7. Ready(u, Of[p]) BY <1>1, <1>5, ReadyPort
<1> HIDE DEF u
<1>8. Kept(s, u, Of[p]) /\ Steady(s, Of[p]) BY <1>1, <1>7, RoleSelectionIs
<1> HIDE DEF s
<1>9. \A q \in Port : Of[q] # Of[p] => s.port[q] = port[q] BY <1>1, <1>6, <1>8 DEF Kept
<1>10. helloed' \in SUBSET {q \in Port : s.port[q].enabled}
    <2>1. \A q \in Port : s.port[q].enabled = u.port[q].enabled BY <1>8 DEF Kept
    <2>2. \A q \in helloed : q \in Port /\ port[q].enabled BY DEF IInv, TypeOK
    <2>3. helloed' = helloed \ {p} BY DEF DisablePort
    <2>4. \A q \in helloed' : q \in Port /\ s.port[q].enabled BY <1>1, <1>6, <2>1, <2>2, <2>3
    <2> QED BY <2>4
<1>11. UNCHANGED <<cable, flaps>> BY DEF DisablePort
<1>12. wire \in [Port -> Seq(Bpdu)] BY WireIs
<1> QED BY <1>1, <1>2, <1>8, <1>9, <1>10, <1>11, <1>12, DoneIs

LEMMA NextRoundKeeps ==
    ASSUME IInv, NextRound
    PROVE  IInv'
<1> DEFINE Less1(t) == IF t = Off THEN Off ELSE t - 1
<1>1. /\ \A p \in Port : 0 \notin {port[p].message_age, port[p].forward_delay,
                                   port[p].recent_root, port[p].recent_backup}
      /\ port' = [p \in Port |-> [port[p] EXCEPT !.message_age = Less1(@), !.forward_delay = Less1(@),
                                                 !.recent_root = Less1(@), !.recent_backup = Less1(@)]]
      /\ helloed' = {} /\ UNCHANGED <<br, peer, cable, wire, losses, flaps>>
    BY DEF NextRound
<1>2. port \in [Port -> PortType] BY DEF IInv, TypeOK
<1>3. ASSUME NEW p \in Port PROVE Mild(port'[p], port[p])
    <2> DEFINE a == Less1(port[p].message_age)
               b == Less1(port[p].forward_delay)
               c == Less1(port[p].recent_root)
               d == Less1(port[p].recent_backup)
               j == [port[p] EXCEPT !.message_age = a, !.forward_delay = b]
    <2>1. port[p] \in PortType BY <1>2
    <2>2. a \in {Off} \cup 0..3
        <3>1. port[p].message_age \in {Off} \cup 0..3 /\ port[p].message_age # 0 BY <1>1, <2>1, PortFields
        <3> QED BY <3>1 DEF Off
    <2>3. b \in Timer
        <3>1. port[p].forward_delay \in {Off} \cup Nat /\ port[p].forward_delay # 0
            BY <1>1, <2>1, PortFields DEF Timer
        <3> QED BY <3>1 DEF Timer
    <2>4. c \in Timer
        <3>1. port[p].recent_root \in {Off} \cup Nat /\ port[p].recent_root # 0
            BY <1>1, <2>1, PortFields DEF Timer
        <3> QED BY <3>1 DEF Timer
    <2>5. d \in Timer
        <3>1. port[p].recent_backup \in {Off} \cup Nat /\ port[p].recent_backup # 0
            BY <1>1, <2>1, PortFields DEF Timer
        <3> QED BY <3>1 DEF Timer
    <2>6. port'[p] = [j EXCEPT !.recent_root = c, !.recent_backup = d] BY <1>1
    <2> HIDE DEF a, b, c, d
    <2>7. Mild(j, port[p]) BY <2>1, <2>2, <2>3 DEF Mild, Knows, PortType
    <2> HIDE DEF j
    <2>8. Mild(port'[p], j) BY <2>4, <2>5, <2>6, <2>7 DEF Mild, Knows, PortType
    <2> QED BY <2>7, <2>8, MildMore
<1> HIDE DEF Less1
<1>4. port' \in [Port -> PortType]
    <2>1. \A p \in Port : port'[p] \in PortType BY <1>3 DEF Mild
    <2> QED BY <1>1, <2>1
<1>5. TypeOK' BY <1>1, <1>4 DEF IInv, TypeOK
<1>6. ASSUME NEW q \in Port PROVE Local(port'[q], br'[Of[q]], q)
    <2>1. Local(port[q], br[Of[q]], q) /\ br' = br BY <1>1 DEF IInv, Coh
    <2>2. SameBelief(br[Of[q]], br[Of[q]]) BY DEF SameBelief
    <2>3. Mild(port'[q], port[q]) BY <1>3
    <2>4. RoleTells(port'[q], br[Of[q]], q) BY <2>1, <2>2, <2>3, RoleTellsMore DEF Local, Mild
    <2> QED BY <2>1, <2>3, <2>4 DEF Local, Mild, Knows
<1>7. ASSUME NEW p \in Port, NEW q \in Port, Of[p] = Of[q]
      PROVE  RootBest(port'[p], p, port'[q], q)
    <2>1. RootBest(port[p], p, port[q], q) BY <1>7 DEF IInv, Coh
    <2>2. Knows(port'[p], port[p]) /\ Knows(port'[q], port[q]) BY <1>3 DEF Mild
    <2> QED BY <2>1, <2>2, RootBestMore
<1> QED BY <1>5, <1>6, <1>7 DEF IInv, Coh

LEMMA FaultKeeps ==
    ASSUME IInv, NEW p \in Port, Lose(p) \/ Flap(p)
    PROVE  IInv'
<1>1. wire \in [Port -> Seq(Bpdu)] BY WireIs
<1>2. peer \in Peers /\ peer \in [Port -> Port] BY CableAssumption DEF IInv, TypeOK
<1>3. Losses[peer] \in Nat /\ Flaps[peer] \in Nat BY <1>2, TimeAssumption
<1>4. losses \in 0..Losses[peer] /\ flaps \in 0..Flaps[peer] /\ cable \in [Port -> BOOLEAN] BY DEF IInv, TypeOK
<1>5. CASE Lose(p)
    <2>1. /\ losses < Losses[peer] /\ wire[p] # <<>> /\ wire' = [wire EXCEPT ![p] = Tail(@)]
          /\ losses' = losses + 1 /\ UNCHANGED <<port, br, peer, cable, helloed, flaps>>
        BY <1>5 DEF Lose
    <2>2. Tail(wire[p]) \in Seq(Bpdu) BY <1>1, <2>1
    <2>3. wire' \in [Port -> Seq(Bpdu)] BY <1>1, <2>1, <2>2
    <2>4. losses' \in 0..Losses[peer] BY <1>3, <1>4, <2>1
    <2> QED BY <2>1, <2>3, <2>4 DEF IInv, TypeOK, Coh
<1>6. CASE Flap(p)
    <2>1. /\ flaps < Flaps[peer] /\ flaps' = flaps + 1 /\ cable' = [cable EXCEPT ![p] = ~@, ![peer[p]] = ~@]
          /\ wire' = [wire EXCEPT ![p] = <<>>, ![peer[p]] = <<>>]
          /\ UNCHANGED <<port, br, peer, helloed, losses>>
        BY <1>6 DEF Flap
    <2>2. wire' \in [Port -> Seq(Bpdu)]
        <3>1. <<>> \in Seq(Bpdu) OBVIOUS
        <3> QED BY <1>1, <1>2, <2>1, <3>1
    <2>3. cable' \in [Port -> BOOLEAN] BY <1>2, <1>4, <2>1
    <2>4. flaps' \in 0..Flaps[peer] BY <1>3, <1>4, <2>1
    <2> QED BY <2>1, <2>2, <2>3, <2>4 DEF IInv, TypeOK, Coh
<1> QED BY <1>5, <1>6

LEMMA InitHolds == Init => IInv
<1> SUFFICES ASSUME Init PROVE IInv OBVIOUS
<1>1. Created \in PortType
    <2>1. [root |-> 0, cost |-> 0, bridge |-> 0, port |-> 0] \in Vector BY DEF Vector
    <2> QED BY <2>1, TimerIs DEF Created, PortType, PortRole, PortState
<1>2. port \in [Port -> PortType] BY <1>1 DEF Init
<1>3. br \in [Bridge -> BridgeType] BY PortAssumption DEF Init, BridgeType
<1>4. Losses[peer] \in Nat /\ Flaps[peer] \in Nat BY TimeAssumption DEF Init
<1>5. <<>> \in Seq(Bpdu) OBVIOUS
<1>6. wire \in [Port -> Seq(Bpdu)] BY <1>5 DEF Init
<1>7. TypeOK BY <1>2, <1>3, <1>4, <1>6 DEF Init, TypeOK
<1>8. ASSUME NEW p \in Port PROVE Local(port[p], br[Of[p]], p)
    <2>1. port[p] = Created /\ br[Of[p]].root_port = NoPort /\ p # NoPort
        BY PortAssumption DEF Init, NoPort
    <2>2. Created.role = "DISABLED" /\ Created.state = "DISCARDING" /\ Created.info = "DISABLED"
        BY DEF Created
    <2> QED BY <2>1, <2>2 DEF Local, RoleTells, NoShorter, Blocked, Told
<1>9. ASSUME NEW p \in Port, NEW q \in Port PROVE RootBest(port[p], p, port[q], q)
    <2>1. port[p] = Created BY DEF Init
    <2> QED BY <2>1 DEF Created, RootBest
<1> QED BY <1>7, <1>8, <1>9 DEF IInv, Coh

LEMMA NextKeeps == IInv /\ [Next]_vars => IInv'
<1> SUFFICES ASSUME IInv, [Next]_vars PROVE IInv' OBVIOUS
<1>1. CASE NextRound BY <1>1, NextRoundKeeps
<1>2. ASSUME NEW p \in Port, Receive(p) PROVE IInv' BY <1>2, ReceiveKeeps
<1>3. ASSUME NEW p \in Port, Hello(p) PROVE IInv' BY <1>3, HelloKeeps
<1>4. ASSUME NEW p \in Port, MessageAgeTimer(p) PROVE IInv' BY <1>4, MessageAgeTimerKeeps
<1>5. ASSUME NEW p \in Port, ForwardDelayTimer(p) PROVE IInv' BY <1>5, ForwardDelayTimerKeeps
<1>6. ASSUME NEW p \in Port, RecentRootTimer(p) PROVE IInv' BY <1>6, RecentRootTimerKeeps
<1>7. ASSUME NEW p \in Port, RecentBackupTimer(p) PROVE IInv' BY <1>7, RecentBackupTimerKeeps
<1>8. ASSUME NEW p \in Port, EnablePort(p) PROVE IInv' BY <1>8, EnablePortKeeps
<1>9. ASSUME NEW p \in Port, DisablePort(p) PROVE IInv' BY <1>9, DisablePortKeeps
<1>10. ASSUME NEW p \in Port, Lose(p) \/ Flap(p) PROVE IInv' BY <1>10, FaultKeeps
<1>11. CASE UNCHANGED vars BY <1>11 DEF vars, IInv, TypeOK, Coh
<1> QED BY <1>1, <1>2, <1>3, <1>4, <1>5, <1>6, <1>7, <1>8, <1>9, <1>10, <1>11
    DEF Next, ProtocolStep, TimerStep, FaultStep

----------------------------------------------------------------------------
(* The theorems.                                                            *)

LEMMA AlwaysIInv == Spec => []IInv
<1>1. Init => IInv BY InitHolds
<1>2. IInv /\ [Next]_vars => IInv' BY NextKeeps
<1> QED BY <1>1, <1>2, PTL DEF Spec

\* A port, a bridge and a BPDU hold what their fields may hold, and only ports that work
\* say hello (mstp_hello_timer_handler).
THEOREM TypeCorrect == Spec => []TypeOK
<1>1. IInv => TypeOK BY DEF IInv
<1> QED BY <1>1, AlwaysIInv, PTL

\* Whatever comes in, times out or breaks, a handler leaves the roles of its bridge's ports,
\* what they know and what the bridge takes for the root in agreement: mstp_cist_port_role_selection
\* gives every port its role before any is opened, and nothing else moves a root.  The root
\* port is the best by mstp_cist_cmp_ports until the next selection, since nothing is
\* learnt without one but what makes a port silent.
THEOREM AlwaysCoherent == Spec => []Coherent
<1>1. ASSUME IInv PROVE Coherent
    <2> SUFFICES ASSUME NEW p \in Port
                 PROVE  LET n == port[p]
                            b == br[Of[p]]
                        IN  /\ n.role = "ROOT" <=> b.root_port = p
                            /\ n.state = "FORWARDING" => n.role \in {"ROOT", "DESIGNATED"}
                            /\ n.role = "DESIGNATED" /\ n.selected =>
                                  n.vec = Designated(b, Of[p], p) /\ n.age = b.age
                            /\ n.role = "ROOT" /\ n.selected =>
                                  /\ b.root = n.vec.root /\ b.cost = n.vec.cost + cist_path_cost[p]
                                  /\ b.age = n.age + 1 /\ b.root < Of[p] /\ n.vec.bridge # Of[p]
                                  /\ \A q \in PortsOf(Of[p]) :
                                        Told(port[q], q) => ~Less(Path(port[q], q), Path(n, p))
                            /\ Told(n, p) =>
                                  ~Less(<<n.vec.root, n.vec.cost + cist_path_cost[p]>>, <<b.root, b.cost>>)
                            /\ n.role \in {"ALTERNATE", "BACKUP"} /\ n.selected =>
                                  /\ n.info = "RECEIVED" /\ ~Less(Key(Designated(b, Of[p], p)), Key(n.vec))
                                  /\ n.role = "BACKUP" <=> n.vec.bridge = Of[p]
        BY DEF Coherent
    <2>1. RoleTells(port[p], br[Of[p]], p) /\ (port[p].state = "FORWARDING" => port[p].role \in Forwards)
        BY <1>1 DEF IInv, Coh, Local
    <2>2. \A q \in PortsOf(Of[p]) : RootBest(port[p], p, port[q], q) BY <1>1 DEF IInv, Coh, PortsOf
    <2>3. NoShorter(port[p], br[Of[p]], p) /\ Blocked(port[p], br[Of[p]], p) BY <2>1 DEF RoleTells
    <2> QED BY <2>1, <2>2, <2>3 DEF RoleTells, NoShorter, Blocked, RootBest, Forwards
<1> QED BY <1>1, AlwaysIInv, PTL
=============================================================================
