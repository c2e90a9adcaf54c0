------------------------- MODULE OspfAdjacencyProofs -------------------------
EXTENDS OspfAdjacency, SequenceTheorems, FiniteSetTheorems, TLAPS

----------------------------------------------------------------------------
(* Numbers, sets and order.                                                *)

LEMMA Least ==
    ASSUME NEW T \in SUBSET Nat, T # {}
    PROVE  \E x \in T : \A y \in T : x <= y
<1> DEFINE R == {ss \in Nat \X Nat : ss[1] < ss[2]}
<1>1. IsWellFoundedOn(R, Nat)
    BY NatLessThanWellFounded, Zenon DEF OpToRel
<1> HIDE DEF R
<1>2. PICK x \in T : \A y \in T : <<y, x>> \notin R
    BY <1>1, WFMin
<1>3. \A y \in T : ~(y < x)
    BY <1>2 DEF R
<1> QED BY <1>3

LEMMA Greatest ==
    ASSUME NEW n \in Nat, NEW T \in SUBSET (0..n), T # {}
    PROVE  \E x \in T : \A y \in T : y <= x
<1> DEFINE U == {n - y : y \in T}
<1>1. U \in SUBSET Nat /\ U # {}
    <2>1. \A y \in T : n - y \in Nat OBVIOUS
    <2>2. PICK y \in T : TRUE OBVIOUS
    <2>3. n - y \in U OBVIOUS
    <2> QED BY <2>1, <2>3
<1> HIDE DEF U
<1>2. PICK u \in U : \A v \in U : u <= v BY <1>1, Least
<1> USE DEF U
<1>3. PICK x \in T : u = n - x OBVIOUS
<1>4. ASSUME NEW y \in T PROVE y <= x
    <2>1. n - y \in U OBVIOUS
    <2> QED BY <1>2, <1>3, <2>1
<1> QED BY <1>4

LEMMA UpTo ==
    ASSUME NEW n \in Nat, NEW R, 0 \in R, \A i \in 1..n : i - 1 \in R => i \in R
    PROVE  n \in R
<1> DEFINE T == {i \in 0..n : i \notin R}
<1>1. SUFFICES ASSUME T # {} PROVE FALSE
    OBVIOUS
<1>2. T \in SUBSET Nat
    OBVIOUS
<1>3. PICK x \in T : \A y \in T : x <= y
    BY <1>1, <1>2, Least
<1>4. x \in 1..n /\ x - 1 \in 0..n /\ x - 1 \notin T
    BY <1>3
<1> QED BY <1>3, <1>4

\* A finite set of numbers has a greatest one.
LEMMA FiniteGreatest ==
    ASSUME NEW T \in SUBSET Nat, IsFiniteSet(T), T # {}
    PROVE  \E x \in T : \A y \in T : y <= x
<1> DEFINE Below(x) == {y \in T : y < x}
           C == {Cardinality(Below(x)) : x \in T}
           n == Cardinality(T)
<1>1. n \in Nat BY FS_CardinalityType
<1>2. ASSUME NEW x \in T PROVE IsFiniteSet(Below(x)) /\ Cardinality(Below(x)) \in 0..n
    <2>1. Below(x) \in SUBSET T OBVIOUS
    <2> HIDE DEF Below, n
    <2>2. IsFiniteSet(Below(x)) /\ Cardinality(Below(x)) <= Cardinality(T) BY <2>1, FS_Subset
    <2>3. Cardinality(Below(x)) \in Nat BY <2>2, FS_CardinalityType
    <2> QED BY <1>1, <2>2, <2>3 DEF n
<1>3. PICK c \in C : \A d \in C : d <= c
    <2>1. C \in SUBSET (0..n) /\ C # {} BY <1>2
    <2> HIDE DEF C, n
    <2> QED BY <1>1, <2>1, Greatest
<1>4. PICK x \in T : c = Cardinality(Below(x)) OBVIOUS
<1>5. ASSUME NEW y \in T PROVE y <= x
    <2>1. SUFFICES ASSUME x < y PROVE FALSE OBVIOUS
    <2>0. x \in Nat /\ y \in Nat OBVIOUS
    <2>2. Below(x) \in SUBSET Below(y) /\ x \in Below(y) /\ x \notin Below(x)
        <3>1. ASSUME NEW z \in T, z < x PROVE z < y
            <4>1. z \in Nat OBVIOUS
            <4> QED BY <2>0, <2>1, <3>1, <4>1
        <3>2. ~(x < x) BY <2>0
        <3> QED BY <2>1, <3>1, <3>2
    <2>3. Cardinality(Below(y)) <= c BY <1>3
    <2> HIDE DEF Below
    <2>4. Cardinality(Below(x)) < Cardinality(Below(y))
        <3>1. IsFiniteSet(Below(y)) BY <1>2
        <3>2. Cardinality(Below(x)) <= Cardinality(Below(y))
              /\ (Cardinality(Below(y)) = Cardinality(Below(x)) => Below(y) = Below(x))
            BY <2>2, <3>1, FS_Subset
        <3> HIDE DEF n
        <3>3. Cardinality(Below(x)) \in Nat /\ Cardinality(Below(y)) \in Nat BY <1>1, <1>2
        <3> QED BY <2>2, <3>2, <3>3
    <2>5. Cardinality(Below(x)) \in Nat /\ Cardinality(Below(y)) \in Nat BY <1>2
    <2> QED BY <1>4, <2>3, <2>4, <2>5
<1> QED BY <1>5

Increasing(q) == \A k, m \in DOMAIN q : k < m => q[k] < q[m]

LEMMA Orders ==
    ASSUME NEW n \in Nat
    PROVE  \A T \in SUBSET Lsa : Cardinality(T) = n => \E q \in [1..n -> T] : Increasing(q)
<1> DEFINE Ordered(i) ==
               \A T \in SUBSET Lsa : Cardinality(T) = i => \E q \in [1..i -> T] : Increasing(q)
           R == {i \in Nat : Ordered(i)}
<1>0. \A T \in SUBSET Lsa : IsFiniteSet(T) /\ T \subseteq Nat BY LsaAssumption, FS_Subset
<1>1. Ordered(0)
    <2>1. ASSUME NEW T PROVE \E q \in [1..0 -> T] : Increasing(q)
        <3>1. [k \in 1..0 |-> k] \in [1..0 -> T] OBVIOUS
        <3>2. Increasing([k \in 1..0 |-> k]) BY DEF Increasing
        <3> QED BY <3>1, <3>2
    <2> QED BY <2>1
<1>2. ASSUME NEW i \in 1..n, Ordered(i - 1), NEW T \in SUBSET Lsa, Cardinality(T) = i
      PROVE  \E q \in [1..i -> T] : Increasing(q)
    <2>1. T # {} BY <1>2, FS_EmptySet
    <2>2. PICK m \in T : \A y \in T : y <= m BY <1>0, <2>1, FiniteGreatest
    <2>3. Cardinality(T \ {m}) = i - 1 BY <1>0, <1>2, FS_RemoveElement
    <2>4. PICK p \in [1..(i - 1) -> T \ {m}] : Increasing(p) BY <1>2, <2>3
    <2> DEFINE q == [k \in 1..i |-> IF k < i THEN p[k] ELSE m]
    <2>5. q \in [1..i -> T] BY <2>4
    <2>6. ASSUME NEW k \in 1..i, NEW j \in 1..i, k < j PROVE q[k] < q[j]
        <3>1. k \in 1..(i - 1) /\ p[k] \in T \ {m} /\ q[k] = p[k] BY <2>4, <2>6
        <3>2. CASE j = i
            <4>1. q[j] = m BY <3>2
            <4>2. p[k] <= m /\ p[k] # m /\ p[k] \in Nat /\ m \in Nat BY <1>0, <2>2, <3>1
            <4> QED BY <3>1, <4>1, <4>2
        <3>3. CASE j # i
            <4>1. j \in 1..(i - 1) /\ q[j] = p[j] BY <3>3
            <4> QED BY <2>4, <2>6, <3>1, <4>1 DEF Increasing
        <3> QED BY <3>2, <3>3
    <2>7. Increasing(q)
        <3>1. DOMAIN q = 1..i OBVIOUS
        <3> HIDE DEF q
        <3> QED BY <2>6, <3>1 DEF Increasing
    <2> QED BY <2>5, <2>7
<1> HIDE DEF Ordered
<1>3. 0 \in R BY <1>1
<1>4. \A i \in 1..n : i - 1 \in R => i \in R
    BY <1>2 DEF Ordered
<1> HIDE DEF R
<1>5. n \in R BY <1>3, <1>4, UpTo
<1> QED BY <1>5 DEF R, Ordered

\* What is asked is answered in some order, all of it and nothing else.
LEMMA InOrderIs ==
    ASSUME NEW T \in SUBSET Lsa
    PROVE  InOrder(T) \in [1..Cardinality(T) -> T] /\ Cardinality(T) \in Nat
<1>1. IsFiniteSet(T) BY LsaAssumption, FS_Subset
<1>2. Cardinality(T) \in Nat BY <1>1, FS_CardinalityType
<1>3. \E q \in [1..Cardinality(T) -> T] : Increasing(q) BY <1>2, Orders
<1> QED BY <1>2, <1>3 DEF InOrder, Increasing

\* A list that names an LSA once.
Once(L) == \A i, j \in L : i.id = j.id => i = j

LEMMA OnceFinite ==
    ASSUME NEW L \in SUBSET Instance, Once(L)
    PROVE  IsFiniteSet(L)
<1> DEFINE f == [i \in L |-> i.id]
<1>1. f \in Injection(L, Lsa)
    <2>0. \A i \in L : i.id \in Lsa BY DEF Instance
    <2>1. f \in [L -> Lsa] BY <2>0
    <2>2. \A i, j \in L : f[i] = f[j] => i = j BY DEF Once
    <2> HIDE DEF f
    <2> QED BY <2>1, <2>2 DEF Injection, IsInjective
<1> QED BY <1>1, LsaAssumption, FS_Injection

\* The first of a list fit in a packet.
LEMMA FirstFit ==
    ASSUME NEW L \in SUBSET Instance, Once(L)
    PROVE  Cardinality({i \in L : Cardinality({j \in L : j.id < i.id}) < MaxPerDd}) <= MaxPerDd
<1> DEFINE Before(i) == {j \in L : j.id < i.id}
           F == {i \in L : Cardinality(Before(i)) < MaxPerDd}
           I == {i.id : i \in F}
<1>0. MaxPerDd \in Nat \ {0} BY BoundAssumption
<1>1. IsFiniteSet(L) BY OnceFinite
<1>2. IsFiniteSet(F) /\ F \in SUBSET L /\ Cardinality(F) \in Nat
    <2>1. F \in SUBSET L OBVIOUS
    <2> HIDE DEF F
    <2> QED BY <1>1, <2>1, FS_Subset, FS_CardinalityType
<1>3. SUFFICES Cardinality(F) <= MaxPerDd OBVIOUS
<1>4. CASE F = {}
    <2> HIDE DEF F
    <2> QED BY <1>0, <1>4, FS_EmptySet
<1>5. CASE F # {}
    <2>1. I \in SUBSET Lsa /\ I # {} BY <1>2, <1>5 DEF Instance
    <2>2. PICK x \in I : \A y \in I : y <= x
        <3> HIDE DEF I
        <3>1. I \in SUBSET Nat /\ IsFiniteSet(I) BY <2>1, LsaAssumption, FS_Subset
        <3> QED BY <2>1, <3>1, FiniteGreatest
    <2>3. PICK m \in F : x = m.id OBVIOUS
    <2>4. F \ {m} \in SUBSET Before(m)
        <3>1. ASSUME NEW j \in F, j # m PROVE j.id < m.id
            <4>1. j.id <= m.id BY <2>2, <2>3
            <4>2. j.id # m.id BY <1>2, <3>1 DEF Once
            <4>3. j.id \in Nat /\ m.id \in Nat BY <1>2, LsaAssumption DEF Instance
            <4> QED BY <4>1, <4>2, <4>3
        <3> QED BY <3>1
    <2>5. Before(m) \in SUBSET L /\ Cardinality(Before(m)) < MaxPerDd BY <2>3
    <2> HIDE DEF Before, F
    <2>6. IsFiniteSet(Before(m)) BY <1>1, <2>5, FS_Subset
    <2>7. Cardinality(F \ {m}) <= Cardinality(Before(m)) BY <2>4, <2>6, FS_Subset
    <2>8. Cardinality(F \ {m}) = Cardinality(F) - 1 BY <1>2, <2>3, FS_RemoveElement
    <2>9. Cardinality(Before(m)) \in Nat BY <2>6, FS_CardinalityType
    <2> QED BY <1>0, <1>2, <2>5, <2>7, <2>8, <2>9
<1> QED BY <1>4, <1>5

----------------------------------------------------------------------------
(* Types.                                                                  *)

State == {"Down", "Init", "ExStart"} \cup Exchanging
Fits(L) == Once(L) /\ Cardinality(L) <= MaxPerDd

Description == [kind : {"dd"}, seq : Nat, flags : SUBSET Flag, says : SUBSET Instance]
SentDd == {d \in Description : d.seq > 0 /\ Fits(d.says)}
Packet ==
    SentDd \cup [kind : {"hello"}, seen : BOOLEAN] \cup [kind : {"req"}, ids : SUBSET Lsa]
    \cup [kind : {"upd", "ack"}, lsa : Instance]

Nbr ==
    [state : State, seq : Nat, flags : SUBSET Flag, recv : Description, sent : Description,
     db_sum : SUBSET Instance, ls_req : SUBSET Instance, rxmt : SUBSET Instance,
     t_db_desc : BOOLEAN, t_ls_req : BOOLEAN, events : Seq(Event)]

Work == [n : Nbr, db : [Lsa -> Nat], out : Seq(Packet)]

LEMMA NbrFields ==
    ASSUME NEW n \in Nbr
    PROVE  /\ DOMAIN n = {"state", "seq", "flags", "recv", "sent", "db_sum", "ls_req", "rxmt",
                         "t_db_desc", "t_ls_req", "events"}
           /\ n.state \in State /\ n.seq \in Nat /\ n.flags \in SUBSET Flag
           /\ n.recv \in Description /\ n.sent \in Description
           /\ n.db_sum \in SUBSET Instance /\ n.ls_req \in SUBSET Instance
           /\ n.rxmt \in SUBSET Instance
           /\ n.t_db_desc \in BOOLEAN /\ n.t_ls_req \in BOOLEAN /\ n.events \in Seq(Event)
BY DEF Nbr

LEMMA WorkFields ==
    ASSUME NEW s \in Work
    PROVE  /\ DOMAIN s = {"n", "db", "out"}
           /\ s.n \in Nbr /\ s.db \in [Lsa -> Nat] /\ s.out \in Seq(Packet)
           /\ s = [n |-> s.n, db |-> s.db, out |-> s.out]
BY DEF Work

LEMMA WorkIs ==
    ASSUME NEW n \in Nbr, NEW d \in [Lsa -> Nat], NEW o \in Seq(Packet)
    PROVE  [n |-> n, db |-> d, out |-> o] \in Work
BY DEF Work

\* The fields of a neighbour one by one.
LEMMA SetState == ASSUME NEW n \in Nbr, NEW x \in State PROVE [n EXCEPT !.state = x] \in Nbr
BY DEF Nbr
LEMMA SetSeq == ASSUME NEW n \in Nbr, NEW x \in Nat PROVE [n EXCEPT !.seq = x] \in Nbr
BY DEF Nbr
LEMMA SetFlags == ASSUME NEW n \in Nbr, NEW x \in SUBSET Flag PROVE [n EXCEPT !.flags = x] \in Nbr
BY DEF Nbr
LEMMA SetRecv == ASSUME NEW n \in Nbr, NEW x \in Description PROVE [n EXCEPT !.recv = x] \in Nbr
BY DEF Nbr
LEMMA SetSent == ASSUME NEW n \in Nbr, NEW x \in Description PROVE [n EXCEPT !.sent = x] \in Nbr
BY DEF Nbr
LEMMA SetSum == ASSUME NEW n \in Nbr, NEW x \in SUBSET Instance PROVE [n EXCEPT !.db_sum = x] \in Nbr
BY DEF Nbr
LEMMA SetReq == ASSUME NEW n \in Nbr, NEW x \in SUBSET Instance PROVE [n EXCEPT !.ls_req = x] \in Nbr
BY DEF Nbr
LEMMA SetRxmt == ASSUME NEW n \in Nbr, NEW x \in SUBSET Instance PROVE [n EXCEPT !.rxmt = x] \in Nbr
BY DEF Nbr
LEMMA SetDdTimer == ASSUME NEW n \in Nbr, NEW x \in BOOLEAN PROVE [n EXCEPT !.t_db_desc = x] \in Nbr
BY DEF Nbr
LEMMA SetReqTimer == ASSUME NEW n \in Nbr, NEW x \in BOOLEAN PROVE [n EXCEPT !.t_ls_req = x] \in Nbr
BY DEF Nbr
LEMMA SetEvents == ASSUME NEW n \in Nbr, NEW x \in Seq(Event) PROVE [n EXCEPT !.events = x] \in Nbr
BY DEF Nbr

LEMMA DdIs ==
    ASSUME NEW seq \in Nat, NEW flags \in SUBSET Flag, NEW says \in SUBSET Instance
    PROVE  LET d == Dd(seq, flags, says) IN
           /\ d \in Description
           /\ d.kind = "dd" /\ d.seq = seq /\ d.flags = flags /\ d.says = says
BY DEF Dd, Description

LEMMA DdFields ==
    ASSUME NEW d \in Description
    PROVE  d.kind = "dd" /\ d.seq \in Nat /\ d.flags \in SUBSET Flag /\ d.says \in SUBSET Instance
           /\ d = Dd(d.seq, d.flags, d.says)
BY DEF Dd, Description

LEMMA PacketKinds ==
    ASSUME NEW p \in Packet
    PROVE  /\ p.kind \in {"dd", "hello", "req", "upd", "ack"}
           /\ p.kind = "dd" => p \in SentDd
           /\ p.kind = "hello" => p.seen \in BOOLEAN
           /\ p.kind = "req" => p.ids \in SUBSET Lsa
           /\ p.kind \in {"upd", "ack"} => p.lsa \in Instance
BY DEF Packet, SentDd, Description

LEMMA PacketsAre ==
    /\ SentDd \subseteq Packet /\ SentDd \subseteq Description
    /\ \A b \in BOOLEAN : Hello(b) \in Packet /\ Hello(b).kind = "hello" /\ Hello(b).seen = b
    /\ \A I \in SUBSET Lsa : Request(I) \in Packet /\ Request(I).kind = "req" /\ Request(I).ids = I
    /\ \A i \in Instance : /\ Update(i) \in Packet /\ Update(i).kind = "upd" /\ Update(i).lsa = i
                           /\ Ack(i) \in Packet /\ Ack(i).kind = "ack" /\ Ack(i).lsa = i
BY DEF Packet, SentDd, Hello, Request, Update, Ack

LEMMA InstanceIs ==
    /\ \A i \in Instance : i.id \in Lsa /\ i.ver \in Nat /\ i = [id |-> i.id, ver |-> i.ver]
    /\ \A a \in Lsa, v \in Nat : /\ [id |-> a, ver |-> v] \in Instance
                                 /\ [id |-> a, ver |-> v].id = a /\ [id |-> a, ver |-> v].ver = v
BY DEF Instance

----------------------------------------------------------------------------
(* What the building blocks do.                                            *)

SameTalk(m, n) ==
    /\ m.state = n.state /\ m.seq = n.seq /\ m.flags = n.flags /\ m.recv = n.recv
    /\ m.sent = n.sent /\ m.t_db_desc = n.t_db_desc
SameLists(m, n) == m.db_sum = n.db_sum /\ m.ls_req = n.ls_req /\ m.rxmt = n.rxmt

LEMMA EmitIs ==
    ASSUME NEW s \in Work, NEW q \in Seq(Packet), NEW t, t = Emit(s, q)
    PROVE  t \in Work /\ t.n = s.n /\ t.db = s.db /\ t.out = s.out \o q
<1>1. t = [n |-> s.n, db |-> s.db, out |-> s.out \o q] BY WorkFields DEF Emit
<1>2. s.out \o q \in Seq(Packet) BY WorkFields
<1>3. s.n \in Nbr /\ s.db \in [Lsa -> Nat] BY WorkFields
<1>4. t \in Work BY <1>1, <1>2, <1>3, WorkIs
<1> QED BY <1>1, <1>4

LEMMA AppendSet ==
    ASSUME NEW S, NEW q \in Seq(S), NEW e
    PROVE  ToSet(Append(q, e)) = ToSet(q) \cup {e}
<1> DEFINE a == Append(q, e)
<1>1. DOMAIN q = 1..Len(q) /\ Len(q) \in Nat /\ DOMAIN a = 1..(Len(q) + 1)
      /\ a[Len(q) + 1] = e /\ \A i \in 1..Len(q) : a[i] = q[i]
    OBVIOUS
<1> HIDE DEF a
<1>2. ASSUME NEW x \in ToSet(a) PROVE x \in ToSet(q) \cup {e}
    <2>1. PICK i \in 1..(Len(q) + 1) : x = a[i] BY <1>1, <1>2 DEF ToSet
    <2>2. i = Len(q) + 1 \/ i \in 1..Len(q) BY <1>1
    <2> QED BY <1>1, <2>1, <2>2 DEF ToSet
<1>3. ASSUME NEW x \in ToSet(q) \cup {e} PROVE x \in ToSet(a)
    <2>1. Len(q) + 1 \in DOMAIN a /\ \A i \in 1..Len(q) : i \in DOMAIN a BY <1>1
    <2> QED BY <1>1, <1>3, <2>1 DEF ToSet
<1> QED BY <1>2, <1>3 DEF a

LEMMA ScheduleIs ==
    ASSUME NEW s \in Work, NEW e \in Event, NEW t, t = Schedule(s, e)
    PROVE  /\ t \in Work /\ t.db = s.db /\ t.out = s.out
           /\ SameTalk(t.n, s.n) /\ SameLists(t.n, s.n)
           /\ ToSet(t.n.events) = ToSet(s.n.events) \cup {e}
<1>0. s.n \in Nbr /\ s.n.events \in Seq(Event) BY WorkFields, NbrFields
<1>1. CASE e \in ToSet(s.n.events)
    <2>1. t = s BY <1>1 DEF Schedule
    <2> QED BY <1>1, <2>1 DEF SameTalk, SameLists
<1>2. CASE e \notin ToSet(s.n.events)
    <2> DEFINE q == Append(s.n.events, e)
               m == [s.n EXCEPT !.events = q]
    <2>1. t = [n |-> m, db |-> s.db, out |-> s.out]
        BY <1>2, WorkFields DEF Schedule
    <2>2. q \in Seq(Event) BY <1>0
    <2>3. ToSet(q) = ToSet(s.n.events) \cup {e} BY <1>0, AppendSet
    <2> HIDE DEF q
    <2>4. m \in Nbr BY <1>0, <2>2, SetEvents
    <2>5. m.events = q /\ SameTalk(m, s.n) /\ SameLists(m, s.n)
        BY <1>0, NbrFields DEF SameTalk, SameLists
    <2> HIDE DEF m
    <2>6. t \in Work BY <2>1, <2>4, WorkFields, WorkIs
    <2>7. t.n = m /\ t.db = s.db /\ t.out = s.out BY <2>1
    <2> QED BY <2>3, <2>5, <2>6, <2>7
<1> QED BY <1>1, <1>2

LEMMA CheckLoadingIs ==
    ASSUME NEW s \in Work, NEW t, t = CheckLoading(s)
    PROVE  /\ t \in Work /\ t.db = s.db /\ t.out = s.out
           /\ SameTalk(t.n, s.n) /\ SameLists(t.n, s.n)
           /\ \/ t = s
              \/ /\ s.n.state = "Loading" /\ s.n.ls_req = {}
                 /\ ToSet(t.n.events) = ToSet(s.n.events) \cup {"LoadingDone"}
<1>1. CASE s.n.state = "Loading" /\ s.n.ls_req = {}
    <2>1. t = Schedule(s, "LoadingDone") BY <1>1 DEF CheckLoading
    <2>2. "LoadingDone" \in Event BY DEF Event
    <2> QED BY <1>1, <2>1, <2>2, ScheduleIs
<1>2. CASE ~(s.n.state = "Loading" /\ s.n.ls_req = {})
    <2>1. t = s BY <1>2 DEF CheckLoading
    <2> QED BY <2>1 DEF SameTalk, SameLists
<1> QED BY <1>1, <1>2

\* A handler sets one field of the neighbour at a time: t is s with the field f set to x.
Field == {"state", "seq", "flags", "recv", "sent", "db_sum", "ls_req", "rxmt",
          "t_db_desc", "t_ls_req", "events"}
Sets(t, s, f, x) ==
    /\ t \in Work /\ t.db = s.db /\ t.out = s.out
    /\ t.n[f] = x /\ \A g \in Field \ {f} : t.n[g] = s.n[g]

WithState(s, x) == [s EXCEPT !.n.state = x]
WithSeq(s, x) == [s EXCEPT !.n.seq = x]
WithFlags(s, x) == [s EXCEPT !.n.flags = x]
WithRecv(s, x) == [s EXCEPT !.n.recv = x]
WithSum(s, x) == [s EXCEPT !.n.db_sum = x]
WithReq(s, x) == [s EXCEPT !.n.ls_req = x]
WithRxmt(s, x) == [s EXCEPT !.n.rxmt = x]
WithDdTimer(s, x) == [s EXCEPT !.n.t_db_desc = x]
WithReqTimer(s, x) == [s EXCEPT !.n.t_ls_req = x]
WithEvents(s, x) == [s EXCEPT !.n.events = x]

LEMMA PutState ==
    ASSUME NEW s \in Work, NEW x \in State, NEW t, t = WithState(s, x)
    PROVE  t \in Work /\ Sets(t, s, "state", x)
<1> DEFINE m == [s.n EXCEPT !.state = x]
<1>1. m \in Nbr BY WorkFields, SetState
<1>2. m.state = x /\ \A g \in Field \ {"state"} : m[g] = s.n[g]
    BY WorkFields, NbrFields DEF Field
<1>3. t = [n |-> m, db |-> s.db, out |-> s.out] BY WorkFields DEF WithState
<1> HIDE DEF m
<1>4. t \in Work BY <1>1, <1>3, WorkFields, WorkIs
<1>5. t.n = m /\ t.db = s.db /\ t.out = s.out BY <1>3
<1> QED BY <1>2, <1>4, <1>5 DEF Sets

LEMMA PutSeq ==
    ASSUME NEW s \in Work, NEW x \in Nat, NEW t, t = WithSeq(s, x)
    PROVE  t \in Work /\ Sets(t, s, "seq", x)
<1> DEFINE m == [s.n EXCEPT !.seq = x]
<1>1. m \in Nbr BY WorkFields, SetSeq
<1>2. m.seq = x /\ \A g \in Field \ {"seq"} : m[g] = s.n[g]
    BY WorkFields, NbrFields DEF Field
<1>3. t = [n |-> m, db |-> s.db, out |-> s.out] BY WorkFields DEF WithSeq
<1> HIDE DEF m
<1>4. t \in Work BY <1>1, <1>3, WorkFields, WorkIs
<1>5. t.n = m /\ t.db = s.db /\ t.out = s.out BY <1>3
<1> QED BY <1>2, <1>4, <1>5 DEF Sets

LEMMA PutFlags ==
    ASSUME NEW s \in Work, NEW x \in SUBSET Flag, NEW t, t = WithFlags(s, x)
    PROVE  t \in Work /\ Sets(t, s, "flags", x)
<1> DEFINE m == [s.n EXCEPT !.flags = x]
<1>1. m \in Nbr BY WorkFields, SetFlags
<1>2. m.flags = x /\ \A g \in Field \ {"flags"} : m[g] = s.n[g]
    BY WorkFields, NbrFields DEF Field
<1>3. t = [n |-> m, db |-> s.db, out |-> s.out] BY WorkFields DEF WithFlags
<1> HIDE DEF m
<1>4. t \in Work BY <1>1, <1>3, WorkFields, WorkIs
<1>5. t.n = m /\ t.db = s.db /\ t.out = s.out BY <1>3
<1> QED BY <1>2, <1>4, <1>5 DEF Sets

LEMMA PutRecv ==
    ASSUME NEW s \in Work, NEW x \in Description, NEW t, t = WithRecv(s, x)
    PROVE  t \in Work /\ Sets(t, s, "recv", x)
<1> DEFINE m == [s.n EXCEPT !.recv = x]
<1>1. m \in Nbr BY WorkFields, SetRecv
<1>2. m.recv = x /\ \A g \in Field \ {"recv"} : m[g] = s.n[g]
    BY WorkFields, NbrFields DEF Field
<1>3. t = [n |-> m, db |-> s.db, out |-> s.out] BY WorkFields DEF WithRecv
<1> HIDE DEF m
<1>4. t \in Work BY <1>1, <1>3, WorkFields, WorkIs
<1>5. t.n = m /\ t.db = s.db /\ t.out = s.out BY <1>3
<1> QED BY <1>2, <1>4, <1>5 DEF Sets

LEMMA PutSum ==
    ASSUME NEW s \in Work, NEW x \in SUBSET Instance, NEW t, t = WithSum(s, x)
    PROVE  t \in Work /\ Sets(t, s, "db_sum", x)
<1> DEFINE m == [s.n EXCEPT !.db_sum = x]
<1>1. m \in Nbr BY WorkFields, SetSum
<1>2. m.db_sum = x /\ \A g \in Field \ {"db_sum"} : m[g] = s.n[g]
    BY WorkFields, NbrFields DEF Field
<1>3. t = [n |-> m, db |-> s.db, out |-> s.out] BY WorkFields DEF WithSum
<1> HIDE DEF m
<1>4. t \in Work BY <1>1, <1>3, WorkFields, WorkIs
<1>5. t.n = m /\ t.db = s.db /\ t.out = s.out BY <1>3
<1> QED BY <1>2, <1>4, <1>5 DEF Sets

LEMMA PutReq ==
    ASSUME NEW s \in Work, NEW x \in SUBSET Instance, NEW t, t = WithReq(s, x)
    PROVE  t \in Work /\ Sets(t, s, "ls_req", x)
<1> DEFINE m == [s.n EXCEPT !.ls_req = x]
<1>1. m \in Nbr BY WorkFields, SetReq
<1>2. m.ls_req = x /\ \A g \in Field \ {"ls_req"} : m[g] = s.n[g]
    BY WorkFields, NbrFields DEF Field
<1>3. t = [n |-> m, db |-> s.db, out |-> s.out] BY WorkFields DEF WithReq
<1> HIDE DEF m
<1>4. t \in Work BY <1>1, <1>3, WorkFields, WorkIs
<1>5. t.n = m /\ t.db = s.db /\ t.out = s.out BY <1>3
<1> QED BY <1>2, <1>4, <1>5 DEF Sets

LEMMA PutRxmt ==
    ASSUME NEW s \in Work, NEW x \in SUBSET Instance, NEW t, t = WithRxmt(s, x)
    PROVE  t \in Work /\ Sets(t, s, "rxmt", x)
<1> DEFINE m == [s.n EXCEPT !.rxmt = x]
<1>1. m \in Nbr BY WorkFields, SetRxmt
<1>2. m.rxmt = x /\ \A g \in Field \ {"rxmt"} : m[g] = s.n[g]
    BY WorkFields, NbrFields DEF Field
<1>3. t = [n |-> m, db |-> s.db, out |-> s.out] BY WorkFields DEF WithRxmt
<1> HIDE DEF m
<1>4. t \in Work BY <1>1, <1>3, WorkFields, WorkIs
<1>5. t.n = m /\ t.db = s.db /\ t.out = s.out BY <1>3
<1> QED BY <1>2, <1>4, <1>5 DEF Sets

LEMMA PutDdTimer ==
    ASSUME NEW s \in Work, NEW x \in BOOLEAN, NEW t, t = WithDdTimer(s, x)
    PROVE  t \in Work /\ Sets(t, s, "t_db_desc", x)
<1> DEFINE m == [s.n EXCEPT !.t_db_desc = x]
<1>1. m \in Nbr BY WorkFields, SetDdTimer
<1>2. m.t_db_desc = x /\ \A g \in Field \ {"t_db_desc"} : m[g] = s.n[g]
    BY WorkFields, NbrFields DEF Field
<1>3. t = [n |-> m, db |-> s.db, out |-> s.out] BY WorkFields DEF WithDdTimer
<1> HIDE DEF m
<1>4. t \in Work BY <1>1, <1>3, WorkFields, WorkIs
<1>5. t.n = m /\ t.db = s.db /\ t.out = s.out BY <1>3
<1> QED BY <1>2, <1>4, <1>5 DEF Sets

LEMMA PutReqTimer ==
    ASSUME NEW s \in Work, NEW x \in BOOLEAN, NEW t, t = WithReqTimer(s, x)
    PROVE  t \in Work /\ Sets(t, s, "t_ls_req", x)
<1> DEFINE m == [s.n EXCEPT !.t_ls_req = x]
<1>1. m \in Nbr BY WorkFields, SetReqTimer
<1>2. m.t_ls_req = x /\ \A g \in Field \ {"t_ls_req"} : m[g] = s.n[g]
    BY WorkFields, NbrFields DEF Field
<1>3. t = [n |-> m, db |-> s.db, out |-> s.out] BY WorkFields DEF WithReqTimer
<1> HIDE DEF m
<1>4. t \in Work BY <1>1, <1>3, WorkFields, WorkIs
<1>5. t.n = m /\ t.db = s.db /\ t.out = s.out BY <1>3
<1> QED BY <1>2, <1>4, <1>5 DEF Sets

LEMMA PutEvents ==
    ASSUME NEW s \in Work, NEW x \in Seq(Event), NEW t, t = WithEvents(s, x)
    PROVE  t \in Work /\ Sets(t, s, "events", x)
<1> DEFINE m == [s.n EXCEPT !.events = x]
<1>1. m \in Nbr BY WorkFields, SetEvents
<1>2. m.events = x /\ \A g \in Field \ {"events"} : m[g] = s.n[g]
    BY WorkFields, NbrFields DEF Field
<1>3. t = [n |-> m, db |-> s.db, out |-> s.out] BY WorkFields DEF WithEvents
<1> HIDE DEF m
<1>4. t \in Work BY <1>1, <1>3, WorkFields, WorkIs
<1>5. t.n = m /\ t.db = s.db /\ t.out = s.out BY <1>3
<1> QED BY <1>2, <1>4, <1>5 DEF Sets


\* m has just sent a description: of what n had to say it says what fits a packet, and
\* keeps the rest, as far as the database d still has it.
Speaks(m, n, d) ==
    /\ m.flags = IF n.db_sum = {} /\ n.state \in Exchanging THEN n.flags \ {"M"} ELSE n.flags
    /\ m.sent \in SentDd /\ m.sent.seq = m.seq /\ m.sent.flags = m.flags
    /\ m.db_sum \subseteq n.db_sum /\ m.sent.says \subseteq n.db_sum
    /\ \A i \in m.sent.says : i.ver = d[i.id]
    /\ m.db_sum \cap m.sent.says = {}
    /\ \A i \in n.db_sum : i.ver = d[i.id] => i \in m.db_sum \cup m.sent.says

LEMMA DescribedIs ==
    ASSUME NEW s \in Work, Once(s.n.db_sum)
    PROVE  /\ Described(s) \subseteq s.n.db_sum /\ Fits(Described(s))
           /\ \A i \in Described(s) : i.ver = s.db[i.id]
<1> DEFINE live == {i \in s.n.db_sum : i.ver = s.db[i.id]}
<1>1. Described(s) = {i \in live : Cardinality({j \in live : j.id < i.id}) < MaxPerDd}
    BY DEF Described
<1>2. live \in SUBSET Instance /\ Once(live) BY WorkFields, NbrFields DEF Once
<1>3. live \subseteq s.n.db_sum /\ \A i \in live : i.ver = s.db[i.id] OBVIOUS
<1> HIDE DEF live
<1>4. Cardinality(Described(s)) <= MaxPerDd BY <1>1, <1>2, FirstFit
<1>5. Described(s) \subseteq live BY <1>1
<1>6. Once(Described(s)) BY <1>2, <1>5 DEF Once
<1> QED BY <1>3, <1>4, <1>5, <1>6 DEF Fits

LEMMA SendDdIs ==
    ASSUME NEW s \in Work, Once(s.n.db_sum), s.n.seq > 0, NEW t, t = SendDd(s)
    PROVE  /\ t \in Work /\ t.db = s.db /\ t.out = s.out \o <<t.n.sent>>
           /\ t.n.state = s.n.state /\ t.n.seq = s.n.seq /\ t.n.recv = s.n.recv
           /\ t.n.t_db_desc = s.n.t_db_desc /\ t.n.t_ls_req = s.n.t_ls_req
           /\ t.n.ls_req = s.n.ls_req /\ t.n.rxmt = s.n.rxmt /\ t.n.events = s.n.events
           /\ Speaks(t.n, s.n, s.db)
<1> DEFINE said == Described(s)
           left == {i \in s.n.db_sum \ said :
                       \E j \in s.n.db_sum \ said : j.ver = s.db[j.id] /\ j.id <= i.id}
           flags == IF s.n.db_sum = {} /\ s.n.state \in Exchanging
                    THEN s.n.flags \ {"M"} ELSE s.n.flags
           packet == Dd(s.n.seq, flags, said)
           n1 == [s.n EXCEPT !.db_sum = left]
           n2 == [n1 EXCEPT !.flags = flags]
           m == [n2 EXCEPT !.sent = packet]
<1>1. t = [n |-> m, db |-> s.db, out |-> s.out \o <<packet>>]
    BY WorkFields DEF SendDd, Emit
<1>2. s.n \in Nbr /\ s.db \in [Lsa -> Nat] BY WorkFields
<1>3. /\ said \subseteq s.n.db_sum /\ Fits(said) /\ said \in SUBSET Instance
      /\ \A i \in said : i.ver = s.db[i.id]
    BY <1>2, DescribedIs, NbrFields
<1>4. ASSUME NEW i \in s.n.db_sum, i.ver = s.db[i.id], i \notin said
      PROVE  i \in left
    <2>1. i.id \in Lsa BY <1>2, NbrFields DEF Instance
    <2>0. i.id \in Nat BY <2>1, LsaAssumption
    <2>2. i.id <= i.id BY <2>0
    <2>3. i \in s.n.db_sum \ said BY <1>4
    <2> HIDE DEF said
    <2> QED BY <1>4, <2>2, <2>3
<1>5. /\ left \subseteq s.n.db_sum /\ left \in SUBSET Instance /\ left \cap said = {}
    BY <1>2, NbrFields
<1>6. flags \in SUBSET Flag BY <1>2, NbrFields
<1>7. flags = IF s.n.db_sum = {} /\ s.n.state \in Exchanging
              THEN s.n.flags \ {"M"} ELSE s.n.flags
    OBVIOUS
<1> HIDE DEF said, left, flags
<1>8. /\ packet \in Description /\ packet.seq = s.n.seq /\ packet.flags = flags
      /\ packet.says = said
    BY <1>2, <1>3, <1>6, NbrFields, DdIs
<1>9. packet \in SentDd BY <1>3, <1>8 DEF SentDd
<1> HIDE DEF packet
<1>10. m \in Nbr
    <2>1. n1 \in Nbr BY <1>2, <1>5, SetSum
    <2> HIDE DEF n1
    <2>2. n2 \in Nbr BY <2>1, <1>6, SetFlags
    <2> HIDE DEF n2
    <2> QED BY <2>2, <1>8, SetSent
<1>11. /\ m.state = s.n.state /\ m.seq = s.n.seq /\ m.recv = s.n.recv
       /\ m.t_db_desc = s.n.t_db_desc /\ m.t_ls_req = s.n.t_ls_req
       /\ m.ls_req = s.n.ls_req /\ m.rxmt = s.n.rxmt /\ m.events = s.n.events
       /\ m.flags = flags /\ m.sent = packet /\ m.db_sum = left
    BY <1>2, NbrFields
<1> HIDE DEF m
<1>12. t.n = m /\ t.db = s.db /\ t.out = s.out \o <<packet>> BY <1>1
<1>13. t \in Work
    <2>1. s.out \o <<packet>> \in Seq(Packet) BY <1>9, PacketsAre, WorkFields
    <2> QED BY <1>1, <1>2, <1>10, <2>1, WorkIs
<1>15. Speaks(m, s.n, s.db)
    BY <1>3, <1>4, <1>5, <1>7, <1>8, <1>9, <1>11 DEF Speaks
<1> QED BY <1>11, <1>12, <1>13, <1>15

LEMMA ResendDdIs ==
    ASSUME NEW s \in Work, s.n.sent \in SentDd, NEW t, t = ResendDd(s)
    PROVE  t \in Work /\ t.n = s.n /\ t.db = s.db /\ t.out = s.out \o <<s.n.sent>>
<1>1. <<s.n.sent>> \in Seq(Packet) BY PacketsAre
<1> QED BY <1>1, EmitIs DEF ResendDd

LEMMA SendRequestIs ==
    ASSUME NEW s \in Work, NEW t, t = SendRequest(s)
    PROVE  /\ t \in Work /\ t.db = s.db
           /\ t.out = s.out \o <<Request({i.id : i \in s.n.ls_req})>>
           /\ SameTalk(t.n, s.n) /\ SameLists(t.n, s.n) /\ t.n.events = s.n.events
<1> DEFINE m == [s.n EXCEPT !.t_ls_req = TRUE]
           ids == {i.id : i \in s.n.ls_req}
<1>0. s.n \in Nbr BY WorkFields
<1>1. t = [n |-> m, db |-> s.db, out |-> s.out \o <<Request(ids)>>]
    BY WorkFields DEF SendRequest, Emit
<1>2. m \in Nbr
    <2>1. TRUE \in BOOLEAN OBVIOUS
    <2> QED BY <1>0, <2>1, SetReqTimer
<1>3. SameTalk(m, s.n) /\ SameLists(m, s.n) /\ m.events = s.n.events
    BY <1>0, NbrFields DEF SameTalk, SameLists
<1>4. ids \in SUBSET Lsa BY <1>0, NbrFields DEF Instance
<1> HIDE DEF m, ids
<1>5. s.out \o <<Request(ids)>> \in Seq(Packet) BY <1>4, PacketsAre, WorkFields
<1>6. t \in Work BY <1>1, <1>2, <1>5, WorkFields, WorkIs
<1>7. t.n = m /\ t.db = s.db /\ t.out = s.out \o <<Request(ids)>> BY <1>1
<1> QED BY <1>3, <1>6, <1>7 DEF ids

LEMMA ResetIs ==
    ASSUME NEW s \in Work, NEW t, t = Reset(s)
    PROVE  /\ t \in Work /\ t.db = s.db /\ t.out = s.out
           /\ t.n.state = s.n.state /\ t.n.seq = s.n.seq /\ t.n.flags = s.n.flags
           /\ t.n.recv = s.n.recv /\ t.n.sent = s.n.sent
           /\ t.n.db_sum = {} /\ t.n.ls_req = {} /\ t.n.rxmt = {} /\ t.n.events = <<>>
           /\ ~t.n.t_db_desc /\ ~t.n.t_ls_req
<1> DEFINE u1 == WithSum(s, {})
           u2 == WithReq(u1, {})
           u3 == WithRxmt(u2, {})
           u4 == WithEvents(u3, <<>>)
           u5 == WithDdTimer(u4, FALSE)
<1>0. {} \in SUBSET Instance /\ <<>> \in Seq(Event) /\ FALSE \in BOOLEAN OBVIOUS
<1>1. t = WithReqTimer(u5, FALSE)
    BY DEF Reset, WithSum, WithReq, WithRxmt, WithEvents, WithDdTimer, WithReqTimer
<1>2. u1 \in Work /\ Sets(u1, s, "db_sum", {}) BY <1>0, PutSum
<1> HIDE DEF u1
<1>3. u2 \in Work /\ Sets(u2, u1, "ls_req", {}) BY <1>0, <1>2, PutReq
<1> HIDE DEF u2
<1>4. u3 \in Work /\ Sets(u3, u2, "rxmt", {}) BY <1>0, <1>3, PutRxmt
<1> HIDE DEF u3
<1>5. u4 \in Work /\ Sets(u4, u3, "events", <<>>) BY <1>0, <1>4, PutEvents
<1> HIDE DEF u4
<1>6. u5 \in Work /\ Sets(u5, u4, "t_db_desc", FALSE) BY <1>0, <1>5, PutDdTimer
<1> HIDE DEF u5
<1>7. t \in Work /\ Sets(t, u5, "t_ls_req", FALSE) BY <1>0, <1>1, <1>6, PutReqTimer
<1> QED BY <1>2, <1>3, <1>4, <1>5, <1>6, <1>7 DEF Sets, Field

LEMMA StartIs ==
    ASSUME NEW s \in Work, Once(s.n.db_sum), outages \in Nat, NEW t, t = Start(s)
    PROVE  /\ t \in Work /\ t.db = s.db /\ t.out = s.out \o <<t.n.sent>>
           /\ t.n.state = "ExStart" /\ t.n.flags = Flag /\ t.n.recv = s.n.recv
           /\ t.n.seq = IF s.n.seq = 0 THEN 10 * (1 + outages) ELSE s.n.seq + 1
           /\ t.n.seq > 0 /\ t.n.t_db_desc /\ t.n.t_ls_req = s.n.t_ls_req
           /\ t.n.ls_req = s.n.ls_req /\ t.n.rxmt = s.n.rxmt /\ t.n.events = s.n.events
           /\ t.n.sent \in SentDd /\ t.n.sent.seq = t.n.seq /\ t.n.sent.flags = Flag
           /\ t.n.db_sum \subseteq s.n.db_sum /\ t.n.sent.says \subseteq s.n.db_sum
           /\ \A i \in t.n.sent.says : i.ver = s.db[i.id]
<1> DEFINE seq == IF s.n.seq = 0 THEN 10 * (1 + outages) ELSE s.n.seq + 1
           u1 == WithState(s, "ExStart")
           u2 == WithSeq(u1, seq)
           u3 == WithFlags(u2, Flag)
           u == WithDdTimer(u3, TRUE)
<1>0. s.n \in Nbr BY WorkFields
<1>1. t = SendDd(u) BY DEF Start, WithState, WithSeq, WithFlags, WithDdTimer
<1>2. seq \in Nat /\ seq > 0 BY <1>0, NbrFields
<1>3. seq = IF s.n.seq = 0 THEN 10 * (1 + outages) ELSE s.n.seq + 1 OBVIOUS
<1> HIDE DEF seq
<1>5. /\ u \in Work /\ u.db = s.db /\ u.out = s.out
      /\ u.n.state = "ExStart" /\ u.n.seq = seq /\ u.n.flags = Flag /\ u.n.recv = s.n.recv
      /\ u.n.t_db_desc = TRUE /\ u.n.t_ls_req = s.n.t_ls_req
      /\ u.n.db_sum = s.n.db_sum /\ u.n.ls_req = s.n.ls_req /\ u.n.rxmt = s.n.rxmt
      /\ u.n.events = s.n.events
    <2>0. "ExStart" \in State /\ Flag \in SUBSET Flag /\ TRUE \in BOOLEAN BY DEF State
    <2>1. u1 \in Work /\ Sets(u1, s, "state", "ExStart") BY <2>0, PutState
    <2> HIDE DEF u1
    <2>2. u2 \in Work /\ Sets(u2, u1, "seq", seq) BY <1>2, <2>1, PutSeq
    <2> HIDE DEF u2
    <2>3. u3 \in Work /\ Sets(u3, u2, "flags", Flag) BY <2>0, <2>2, PutFlags
    <2> HIDE DEF u3
    <2>4. u \in Work /\ Sets(u, u3, "t_db_desc", TRUE) BY <2>0, <2>3, PutDdTimer
    <2> HIDE DEF u
    <2> QED BY <2>1, <2>2, <2>3, <2>4 DEF Sets, Field
<1> HIDE DEF u
<1>8. u.n.state \notin Exchanging BY <1>5 DEF Exchanging
<1>9. Once(u.n.db_sum) /\ u.n.seq > 0 BY <1>2, <1>5
<1>10. /\ t \in Work /\ t.db = u.db /\ t.out = u.out \o <<t.n.sent>>
       /\ t.n.state = u.n.state /\ t.n.seq = u.n.seq /\ t.n.recv = u.n.recv
       /\ t.n.t_db_desc = u.n.t_db_desc /\ t.n.t_ls_req = u.n.t_ls_req
       /\ t.n.ls_req = u.n.ls_req /\ t.n.rxmt = u.n.rxmt /\ t.n.events = u.n.events
       /\ Speaks(t.n, u.n, u.db)
    BY <1>1, <1>5, <1>9, SendDdIs
<1> QED BY <1>2, <1>3, <1>5, <1>8, <1>10 DEF Speaks

\* The lists after a description has been read: what is newer is asked for.
Wanted(d, database) == {i \in d.says : i.ver > database[i.id]}
Asks(n, d, database) ==
    {j \in n.ls_req : \A i \in Wanted(d, database) : i.id # j.id} \cup Wanted(d, database)

LEMMA AsksOnce ==
    ASSUME NEW n \in Nbr, NEW d \in SentDd, NEW database, Once(n.ls_req)
    PROVE  Once(Asks(n, d, database)) /\ Asks(n, d, database) \in SUBSET Instance
BY NbrFields DEF Asks, Wanted, Once, SentDd, Fits, Description

\* m is n after the description d, before the answer.
Heard(m, n, d, database) ==
    /\ m.state = n.state /\ m.recv = Dd(d.seq, d.flags, {}) /\ m.t_db_desc = n.t_db_desc
    /\ m.rxmt = n.rxmt /\ m.ls_req = Asks(n, d, database)
Said(t, s) == Speaks(t.n, s.n, s.db) /\ t.out = s.out \o <<t.n.sent>>
Silent(t, s) ==
    /\ t.n.flags = s.n.flags /\ t.n.sent = s.n.sent /\ t.n.db_sum = s.n.db_sum
    /\ t.out = s.out

\* New requests.
WithAsks(s, d) == [s EXCEPT !.n.ls_req = Asks(s.n, d, s.db),
                            !.n.t_ls_req = @ \/ Wanted(d, s.db) # {}]

LEMMA AsksIs ==
    ASSUME NEW s \in Work, NEW d \in SentDd,
           NEW t, t = WithAsks(s, d)
    PROVE  /\ t \in Work /\ t.db = s.db /\ t.out = s.out
           /\ SameTalk(t.n, s.n) /\ t.n.events = s.n.events
           /\ t.n.db_sum = s.n.db_sum /\ t.n.rxmt = s.n.rxmt
           /\ t.n.ls_req = Asks(s.n, d, s.db)
<1> DEFINE req == Asks(s.n, d, s.db)
           u == WithReq(s, req)
           timer == u.n.t_ls_req \/ Wanted(d, s.db) # {}
<1>0. s.n \in Nbr BY WorkFields
<1>1. req \in SUBSET Instance
    BY <1>0, NbrFields DEF Asks, Wanted, SentDd, Description
<1>2. t = WithReqTimer(u, timer) BY DEF WithAsks, WithReq, WithReqTimer
<1> HIDE DEF req
<1>3. u \in Work /\ Sets(u, s, "ls_req", req) BY <1>1, PutReq
<1> HIDE DEF u
<1>4. timer \in BOOLEAN OBVIOUS
<1> HIDE DEF timer
<1>5. t \in Work /\ Sets(t, u, "t_ls_req", timer) BY <1>2, <1>3, <1>4, PutReqTimer
<1> QED BY <1>3, <1>5 DEF req, Sets, Field, SameTalk

LEMMA SpeaksSame ==
    ASSUME NEW m, NEW n, NEW k, NEW d, Speaks(m, n, d),
           k.db_sum = n.db_sum, k.state = n.state, k.flags = n.flags
    PROVE  Speaks(m, k, d)
BY DEF Speaks

LEMMA ProcDdIs ==
    ASSUME NEW s \in Work, Once(s.n.db_sum), s.n.seq > 0, NEW d \in SentDd,
           NEW t, t = ProcDd(s, d)
    PROVE  /\ t \in Work /\ t.db = s.db /\ Heard(t.n, s.n, d, s.db) /\ t.n.seq > 0
           /\ "MS" \in s.n.flags =>
                 /\ t.n.seq = s.n.seq + 1
                 /\ IF "M" \notin d.flags /\ "M" \notin s.n.flags
                    THEN /\ Silent(t, s)
                         /\ ToSet(t.n.events) = ToSet(s.n.events) \cup {"ExchangeDone"}
                    ELSE Said(t, s) /\ t.n.events = s.n.events
           /\ "MS" \notin s.n.flags =>
                 /\ t.n.seq = d.seq /\ Said(t, s)
                 /\ IF "M" \notin d.flags /\ s.n.db_sum = {}
                    THEN ToSet(t.n.events) = ToSet(s.n.events) \cup {"ExchangeDone"}
                    ELSE t.n.events = s.n.events
<1> DEFINE asks == WithAsks(s, d)
           lead == WithSeq(asks, asks.n.seq + 1)
           follow == WithSeq(asks, d.seq)
           last == "M" \notin d.flags
           answered ==
               IF "MS" \in s.n.flags
               THEN IF last /\ "M" \notin s.n.flags
                    THEN Schedule(lead, "ExchangeDone") ELSE SendDd(lead)
               ELSE SendDd(IF last /\ s.n.db_sum = {}
                           THEN Schedule(follow, "ExchangeDone") ELSE follow)
           recv == Dd(d.seq, d.flags, {})
<1>0. s.n \in Nbr /\ s.n.seq \in Nat BY WorkFields, NbrFields
<1>00. d \in Description /\ d.seq > 0 /\ d.seq \in Nat /\ d.flags \in SUBSET Flag
    BY DdFields DEF SentDd
<1>1. t = WithRecv(answered, recv)
    BY DEF ProcDd, Asks, Wanted, WithAsks, WithSeq, WithRecv
<1>2. recv \in Description
    <2>1. {} \in SUBSET Instance OBVIOUS
    <2> QED BY <1>00, <2>1, DdIs
<1>3. /\ asks \in Work /\ asks.db = s.db /\ asks.out = s.out
      /\ SameTalk(asks.n, s.n) /\ asks.n.events = s.n.events
      /\ asks.n.db_sum = s.n.db_sum /\ asks.n.rxmt = s.n.rxmt
      /\ asks.n.ls_req = Asks(s.n, d, s.db)
    BY AsksIs
<1> HIDE DEF asks
<1>4. /\ lead \in Work /\ lead.db = s.db /\ lead.out = s.out
      /\ lead.n.seq = s.n.seq + 1 /\ lead.n.state = s.n.state /\ lead.n.flags = s.n.flags
      /\ lead.n.sent = s.n.sent /\ lead.n.db_sum = s.n.db_sum /\ lead.n.rxmt = s.n.rxmt
      /\ lead.n.t_db_desc = s.n.t_db_desc /\ lead.n.ls_req = Asks(s.n, d, s.db)
      /\ lead.n.events = s.n.events
    <2> DEFINE next == asks.n.seq + 1
    <2>1. lead = WithSeq(asks, next) OBVIOUS
    <2>2. next = s.n.seq + 1 BY <1>0, <1>3 DEF SameTalk
    <2>4. next \in Nat BY <1>0, <2>2
    <2> HIDE DEF lead, next
    <2>3. /\ lead \in Work /\ lead.db = asks.db /\ lead.out = asks.out
          /\ lead.n.seq = next /\ lead.n.state = asks.n.state
          /\ lead.n.flags = asks.n.flags /\ lead.n.sent = asks.n.sent
          /\ lead.n.t_db_desc = asks.n.t_db_desc
          /\ SameLists(lead.n, asks.n) /\ lead.n.events = asks.n.events
        BY <1>3, <2>1, <2>4, PutSeq DEF SameLists, Sets, Field
    <2> QED BY <1>3, <2>2, <2>3 DEF SameTalk, SameLists
<1>5. /\ follow \in Work /\ follow.db = s.db /\ follow.out = s.out
      /\ follow.n.seq = d.seq /\ follow.n.state = s.n.state /\ follow.n.flags = s.n.flags
      /\ follow.n.sent = s.n.sent /\ follow.n.db_sum = s.n.db_sum
      /\ follow.n.rxmt = s.n.rxmt
      /\ follow.n.t_db_desc = s.n.t_db_desc /\ follow.n.ls_req = Asks(s.n, d, s.db)
      /\ follow.n.events = s.n.events
    <2>1. follow = WithSeq(asks, d.seq) OBVIOUS
    <2> HIDE DEF follow
    <2>3. /\ follow \in Work /\ follow.db = asks.db /\ follow.out = asks.out
          /\ follow.n.seq = d.seq /\ follow.n.state = asks.n.state
          /\ follow.n.flags = asks.n.flags /\ follow.n.sent = asks.n.sent
          /\ follow.n.t_db_desc = asks.n.t_db_desc
          /\ SameLists(follow.n, asks.n) /\ follow.n.events = asks.n.events
        BY <1>00, <1>3, <2>1, PutSeq DEF SameLists, Sets, Field
    <2> QED BY <1>3, <2>3 DEF SameTalk, SameLists
<1> HIDE DEF lead, follow
<1> DEFINE Answer(a) ==
      /\ a \in Work /\ a.db = s.db /\ a.n.state = s.n.state /\ a.n.t_db_desc = s.n.t_db_desc
      /\ a.n.rxmt = s.n.rxmt /\ a.n.ls_req = Asks(s.n, d, s.db) /\ a.n.seq > 0
      /\ "MS" \in s.n.flags =>
            /\ a.n.seq = s.n.seq + 1
            /\ IF "M" \notin d.flags /\ "M" \notin s.n.flags
               THEN /\ Silent(a, s)
                    /\ ToSet(a.n.events) = ToSet(s.n.events) \cup {"ExchangeDone"}
               ELSE Said(a, s) /\ a.n.events = s.n.events
      /\ "MS" \notin s.n.flags =>
            /\ a.n.seq = d.seq /\ Said(a, s)
            /\ IF "M" \notin d.flags /\ s.n.db_sum = {}
               THEN ToSet(a.n.events) = ToSet(s.n.events) \cup {"ExchangeDone"}
               ELSE a.n.events = s.n.events
<1>6. Answer(answered)
    <2> SUFFICES ASSUME NEW a, a = answered PROVE Answer(a) OBVIOUS
    <2>0. "ExchangeDone" \in Event BY DEF Event
    <2>1. CASE "MS" \in s.n.flags /\ last /\ "M" \notin s.n.flags
        <3>1. a = Schedule(lead, "ExchangeDone") BY <2>1
        <3>2. /\ a \in Work /\ a.db = lead.db /\ a.out = lead.out
              /\ SameTalk(a.n, lead.n) /\ SameLists(a.n, lead.n)
              /\ ToSet(a.n.events) = ToSet(lead.n.events) \cup {"ExchangeDone"}
            BY <1>4, <2>0, <3>1, ScheduleIs
        <3> QED BY <1>0, <1>4, <2>1, <3>2 DEF SameTalk, SameLists, Silent
    <2>2. CASE "MS" \in s.n.flags /\ ~(last /\ "M" \notin s.n.flags)
        <3>1. a = SendDd(lead) BY <2>2
        <3>2. Once(lead.n.db_sum) /\ lead.n.seq > 0 BY <1>0, <1>4
        <3>3. /\ a \in Work /\ a.db = lead.db /\ a.out = lead.out \o <<a.n.sent>>
              /\ a.n.state = lead.n.state /\ a.n.seq = lead.n.seq
              /\ a.n.t_db_desc = lead.n.t_db_desc
              /\ a.n.ls_req = lead.n.ls_req /\ a.n.rxmt = lead.n.rxmt
              /\ a.n.events = lead.n.events
              /\ Speaks(a.n, lead.n, lead.db)
            BY <1>4, <3>1, <3>2, SendDdIs
        <3>4. Said(a, s)
            <4>1. Speaks(a.n, s.n, s.db) BY <1>4, <3>3, SpeaksSame, ZenonT(60)
            <4> QED BY <1>4, <3>3, <4>1, ZenonT(60) DEF Said
        <3> QED BY <1>4, <2>2, <3>2, <3>3, <3>4
    <2>3. CASE "MS" \notin s.n.flags
        <3> DEFINE f == IF last /\ s.n.db_sum = {}
                        THEN Schedule(follow, "ExchangeDone") ELSE follow
        <3>1. a = SendDd(f) BY <2>3
        <3>2. /\ f \in Work /\ f.db = s.db /\ f.out = s.out
              /\ SameTalk(f.n, follow.n) /\ SameLists(f.n, follow.n)
              /\ IF last /\ s.n.db_sum = {}
                 THEN ToSet(f.n.events) = ToSet(s.n.events) \cup {"ExchangeDone"}
                 ELSE f.n.events = s.n.events
            <4> SUFFICES ASSUME NEW g, g = f
                PROVE  /\ g \in Work /\ g.db = s.db /\ g.out = s.out
                       /\ SameTalk(g.n, follow.n) /\ SameLists(g.n, follow.n)
                       /\ IF last /\ s.n.db_sum = {}
                          THEN ToSet(g.n.events) = ToSet(s.n.events) \cup {"ExchangeDone"}
                          ELSE g.n.events = s.n.events
                OBVIOUS
            <4>1. CASE last /\ s.n.db_sum = {}
                <5>1. g = Schedule(follow, "ExchangeDone") BY <4>1
                <5>2. /\ g \in Work /\ g.db = follow.db /\ g.out = follow.out
                      /\ SameTalk(g.n, follow.n) /\ SameLists(g.n, follow.n)
                      /\ ToSet(g.n.events) = ToSet(follow.n.events) \cup {"ExchangeDone"}
                    BY <1>5, <2>0, <5>1, ScheduleIs
                <5> QED BY <1>5, <4>1, <5>2
            <4>2. CASE ~(last /\ s.n.db_sum = {})
                <5>1. g = follow BY <4>2
                <5> QED BY <1>5, <4>2, <5>1 DEF SameTalk, SameLists
            <4> QED BY <4>1, <4>2
        <3> HIDE DEF f
        <3>3. Once(f.n.db_sum) /\ f.n.seq > 0 BY <1>00, <1>5, <3>2 DEF SameTalk, SameLists
        <3>4. /\ a \in Work /\ a.db = f.db /\ a.out = f.out \o <<a.n.sent>>
              /\ a.n.state = f.n.state /\ a.n.seq = f.n.seq
              /\ a.n.t_db_desc = f.n.t_db_desc
              /\ a.n.ls_req = f.n.ls_req /\ a.n.rxmt = f.n.rxmt /\ a.n.events = f.n.events
              /\ Speaks(a.n, f.n, f.db)
            BY <3>1, <3>2, <3>3, SendDdIs
        <3>5. Said(a, s)
            <4>1. /\ f.n.db_sum = s.n.db_sum /\ f.n.state = s.n.state /\ f.n.flags = s.n.flags
                  /\ f.db = s.db /\ f.out = s.out
                BY <1>5, <3>2, SMTT(60) DEF SameTalk, SameLists
            <4>2. Speaks(a.n, s.n, s.db) BY <3>4, <4>1, SpeaksSame, ZenonT(60)
            <4> QED BY <3>4, <4>1, <4>2, ZenonT(60) DEF Said
        <3> QED BY <1>5, <2>3, <3>2, <3>3, <3>4, <3>5 DEF SameTalk, SameLists
    <2> QED BY <2>1, <2>2, <2>3
<1> HIDE DEF answered, recv
<1>7. /\ t \in Work /\ t.db = answered.db /\ t.out = answered.out
      /\ t.n.seq = answered.n.seq /\ t.n.state = answered.n.state
      /\ t.n.flags = answered.n.flags
      /\ t.n.recv = recv /\ t.n.sent = answered.n.sent
      /\ t.n.t_db_desc = answered.n.t_db_desc /\ SameLists(t.n, answered.n)
      /\ t.n.events = answered.n.events
    <2>1. answered \in Work BY <1>6
    <2> HIDE DEF Answer
    <2> QED BY <1>1, <1>2, <2>1, PutRecv DEF SameLists, Sets, Field
<1>8. Heard(t.n, s.n, d, s.db) BY <1>6, <1>7 DEF Heard, SameLists, recv
<1>9. /\ Said(answered, s) => Said(t, s)
      /\ Silent(answered, s) => Silent(t, s)
    BY <1>7 DEF Said, Silent, Speaks, SameLists
<1> QED BY <1>6, <1>7, <1>8, <1>9

\* The database is a description of itself.
LEMMA HasIs ==
    ASSUME NEW d \in [Lsa -> Nat]
    PROVE  /\ Has(d) \in SUBSET Instance /\ Once(Has(d))
           /\ \A i \in Has(d) : i.ver = d[i.id] /\ i.ver # 0
           /\ \A a \in Lsa : d[a] # 0 => [id |-> a, ver |-> d[a]] \in Has(d)
<1>1. \A i \in Has(d) : \E a \in Lsa : i = [id |-> a, ver |-> d[a]] /\ d[a] # 0 BY DEF Has
<1>2. \A a \in Lsa : d[a] \in Nat OBVIOUS
<1>3. \A i \in Has(d) : i \in Instance /\ i.ver = d[i.id] /\ i.ver # 0
    BY <1>1, <1>2, InstanceIs
<1>4. \A a \in Lsa : d[a] # 0 => [id |-> a, ver |-> d[a]] \in Has(d) BY DEF Has
<1>5. Has(d) \in SUBSET Instance BY <1>3
<1>6. Once(Has(d))
    <2>1. ASSUME NEW i \in Has(d), NEW j \in Has(d), i.id = j.id PROVE i = j
        <3>1. i.ver = j.ver BY <1>3, <2>1
        <3>2. i = [id |-> i.id, ver |-> i.ver] /\ j = [id |-> j.id, ver |-> j.ver]
            BY <1>3, InstanceIs
        <3> QED BY <2>1, <3>1, <3>2
    <2> QED BY <2>1 DEF Once
<1> QED BY <1>3, <1>4, <1>5, <1>6

\* Both agree on the master and list their databases.
Agreed(s, seq, off) ==
    [s EXCEPT !.n.state = "Exchange", !.n.seq = seq, !.n.flags = @ \ off,
              !.n.db_sum = Has(s.db), !.n.t_db_desc = @ /\ Repeats(off)]

LEMMA AgreedIs ==
    ASSUME NEW s \in Work, NEW seq \in Nat, NEW off, NEW t, t = Agreed(s, seq, off)
    PROVE  /\ t \in Work /\ t.db = s.db /\ t.out = s.out
           /\ t.n.state = "Exchange" /\ t.n.seq = seq /\ t.n.flags = s.n.flags \ off
           /\ t.n.db_sum = Has(s.db) /\ t.n.t_db_desc = (s.n.t_db_desc /\ Repeats(off))
           /\ t.n.recv = s.n.recv /\ t.n.sent = s.n.sent /\ t.n.ls_req = s.n.ls_req
           /\ t.n.rxmt = s.n.rxmt /\ t.n.events = s.n.events
<1> DEFINE u1 == WithState(s, "Exchange")
           u2 == WithSeq(u1, seq)
           flags == s.n.flags \ off
           u3 == WithFlags(u2, flags)
           sum == Has(s.db)
           u4 == WithSum(u3, sum)
           timer == s.n.t_db_desc /\ Repeats(off)
<1>0. "Exchange" \in State BY DEF State, Exchanging
<1>1. t = WithDdTimer(u4, timer)
    BY DEF Agreed, WithState, WithSeq, WithFlags, WithSum, WithDdTimer
<1>2. u1 \in Work /\ Sets(u1, s, "state", "Exchange") BY <1>0, PutState
<1> HIDE DEF u1
<1>3. u2 \in Work /\ Sets(u2, u1, "seq", seq) BY <1>2, PutSeq
<1> HIDE DEF u2
<1>4. flags \in SUBSET Flag /\ flags = s.n.flags \ off BY WorkFields, NbrFields
<1> HIDE DEF flags
<1>5. u3 \in Work /\ Sets(u3, u2, "flags", flags) BY <1>3, <1>4, PutFlags
<1> HIDE DEF u3
<1>6. sum \in SUBSET Instance BY WorkFields, HasIs
<1> HIDE DEF sum
<1>7. u4 \in Work /\ Sets(u4, u3, "db_sum", sum) BY <1>5, <1>6, PutSum
<1> HIDE DEF u4
<1>8. timer \in BOOLEAN /\ timer = (s.n.t_db_desc /\ Repeats(off)) BY DEF Repeats
<1> HIDE DEF timer
<1>9. t \in Work /\ Sets(t, u4, "t_db_desc", timer) BY <1>1, <1>7, <1>8, PutDdTimer
<1>11. t.n.t_db_desc = timer /\ t.n.flags = flags /\ t.n.db_sum = sum
    BY <1>5, <1>7, <1>9 DEF Sets, Field
<1>12. /\ t \in Work /\ t.db = s.db /\ t.out = s.out
       /\ t.n.state = "Exchange" /\ t.n.seq = seq
       /\ t.n.recv = s.n.recv /\ t.n.sent = s.n.sent /\ t.n.ls_req = s.n.ls_req
       /\ t.n.rxmt = s.n.rxmt /\ t.n.events = s.n.events
    BY <1>2, <1>3, <1>5, <1>7, <1>9 DEF Sets, Field
<1> QED BY <1>4, <1>8, <1>11, <1>12 DEF sum

AsSlave(d, r) == d.flags = Flag /\ d.says = {} /\ Peer(r) > r
AsMaster(n, d, r) == d.flags \cap {"MS", "I"} = {} /\ d.seq = n.seq /\ Peer(r) < r

LEMMA NegotiateIs ==
    ASSUME NEW s, NEW d, NEW r \in Router, NEW t, t = Negotiate(s, d, r)
    PROVE  \/ AsSlave(d, r) /\ t = ProcDd(Agreed(s, d.seq, {"MS", "I"}), d)
           \/ ~AsSlave(d, r) /\ AsMaster(s.n, d, r) /\ t = ProcDd(Agreed(s, s.n.seq, {"I"}), d)
           \/ ~AsSlave(d, r) /\ ~AsMaster(s.n, d, r) /\ t = s
<1>1. CASE AsSlave(d, r) BY <1>1 DEF Negotiate, AsSlave, Agreed
<1>2. CASE ~AsSlave(d, r) /\ AsMaster(s.n, d, r)
    BY <1>2 DEF Negotiate, AsSlave, AsMaster, Agreed
<1>3. CASE ~AsSlave(d, r) /\ ~AsMaster(s.n, d, r)
    BY <1>3 DEF Negotiate, AsSlave, AsMaster
<1> QED BY <1>1, <1>2, <1>3

\* What a request is answered with.
Replies(q, ids, d) ==
    /\ q \in Seq(Packet)
    /\ \A k \in DOMAIN q : \E a \in ids : q[k] = Update([id |-> a, ver |-> d[a]])

Replied(t, s, ids) ==
    /\ t \in Work /\ t.n = s.n /\ t.db = s.db
    /\ \E q : Replies(q, ids, s.db) /\ t.out = s.out \o q

LEMMA ReadRequestIs ==
    ASSUME NEW s \in Work, NEW ids \in SUBSET Lsa, NEW t, t = ReadRequest(s, ids)
    PROVE  \/ s.n.state \notin Exchanging /\ t = s
           \/ /\ s.n.state \in Exchanging /\ \E a \in ids : s.db[a] = 0
              /\ t = Schedule(s, "BadLSReq")
           \/ /\ s.n.state \in Exchanging /\ \A a \in ids : s.db[a] # 0
              /\ Replied(t, s, ids)
<1>1. CASE s.n.state \notin Exchanging BY <1>1 DEF ReadRequest
<1>2. CASE s.n.state \in Exchanging /\ \E a \in ids : s.db[a] = 0
    BY <1>2 DEF ReadRequest
<1>3. CASE s.n.state \in Exchanging /\ ~\E a \in ids : s.db[a] = 0
    <2> DEFINE asked == InOrder(ids)
               q == [k \in DOMAIN asked |-> Update([id |-> asked[k], ver |-> s.db[asked[k]]])]
    <2>1. t = Emit(s, q) BY <1>3 DEF ReadRequest
    <2>2. asked \in [1..Cardinality(ids) -> ids] /\ Cardinality(ids) \in Nat BY InOrderIs
    <2>3. DOMAIN asked = 1..Cardinality(ids) BY <2>2
    <2>4. ASSUME NEW k \in DOMAIN asked
          PROVE  asked[k] \in ids /\ [id |-> asked[k], ver |-> s.db[asked[k]]] \in Instance
        <3>1. asked[k] \in ids /\ asked[k] \in Lsa BY <2>2, <2>3, <2>4
        <3>2. s.db[asked[k]] \in Nat BY <3>1, WorkFields
        <3> QED BY <3>1, <3>2, InstanceIs
    <2> HIDE DEF asked
    <2>5. \A k \in DOMAIN asked : q[k] \in Packet BY <2>4, PacketsAre
    <2>6. q \in Seq(Packet)
        <3>1. q \in [1..Cardinality(ids) -> Packet] BY <2>3, <2>5
        <3> HIDE DEF q
        <3> QED BY <2>2, <3>1
    <2>7. \A k \in DOMAIN q : \E a \in ids : q[k] = Update([id |-> a, ver |-> s.db[a]])
        BY <2>4
    <2> HIDE DEF q
    <2>8. t \in Work /\ t.n = s.n /\ t.db = s.db /\ t.out = s.out \o q
        BY <2>1, <2>6, EmitIs
    <2>9. Replies(q, ids, s.db) BY <2>6, <2>7 DEF Replies
    <2>10. Replied(t, s, ids) BY <2>8, <2>9 DEF Replied
    <2> QED BY <1>3, <2>10
<1> QED BY <1>1, <1>2, <1>3

\* The database is changed.
WithDb(s, x) == [s EXCEPT !.db = x]

LEMMA PutDb ==
    ASSUME NEW s \in Work, NEW x \in [Lsa -> Nat], NEW t, t = WithDb(s, x)
    PROVE  t \in Work /\ t.n = s.n /\ t.db = x /\ t.out = s.out
<1>1. t = [n |-> s.n, db |-> x, out |-> s.out] BY WorkFields DEF WithDb
<1>2. t \in Work BY <1>1, WorkFields, WorkIs
<1> QED BY <1>1, <1>2

\* t is s with the LSA i installed.
Installed(t, s, i) ==
    /\ t.db = [s.db EXCEPT ![i.id] = i.ver]
    /\ t.out = s.out \o <<Ack(i)>>
    /\ SameTalk(t.n, s.n) /\ t.n.db_sum = s.n.db_sum
    /\ t.n.ls_req = {j \in s.n.ls_req : j.id # i.id \/ j.ver > i.ver}
    /\ t.n.rxmt = {j \in s.n.rxmt : j.id # i.id}
    /\ \/ t.n.events = s.n.events
       \/ /\ s.n.state = "Loading" /\ t.n.ls_req = {}
          /\ ToSet(t.n.events) = ToSet(s.n.events) \cup {"LoadingDone"}

LEMMA InstallIs ==
    ASSUME NEW s \in Work, NEW i \in Instance, NEW t, t = Install(s, i)
    PROVE  t \in Work /\ Installed(t, s, i)
<1> DEFINE req == {j \in s.n.ls_req : j.id # i.id \/ j.ver > i.ver}
           struck == WithReq(s, req)
           checked == IF req # s.n.ls_req THEN CheckLoading(struck) ELSE struck
           rxmt == {j \in checked.n.rxmt : j.id # i.id}
           u == WithRxmt(checked, rxmt)
           database == [u.db EXCEPT ![i.id] = i.ver]
           v == WithDb(u, database)
<1>0. s.n \in Nbr BY WorkFields
<1>1. t = Emit(v, <<Ack(i)>>) BY DEF Install, WithReq, WithRxmt, WithDb
<1>2. req \in SUBSET Instance BY <1>0, NbrFields
<1>3. req = {j \in s.n.ls_req : j.id # i.id \/ j.ver > i.ver} OBVIOUS
<1> HIDE DEF req
<1>4. struck \in Work /\ Sets(struck, s, "ls_req", req) BY <1>2, PutReq
<1> HIDE DEF struck
<1>5. /\ checked \in Work /\ checked.db = s.db /\ checked.out = s.out
      /\ SameTalk(checked.n, s.n) /\ checked.n.db_sum = s.n.db_sum
      /\ checked.n.ls_req = req /\ checked.n.rxmt = s.n.rxmt
      /\ \/ checked.n.events = s.n.events
         \/ /\ s.n.state = "Loading" /\ req = {}
            /\ ToSet(checked.n.events) = ToSet(s.n.events) \cup {"LoadingDone"}
    <2>1. /\ struck.db = s.db /\ struck.out = s.out
          /\ SameTalk(struck.n, s.n) /\ struck.n.db_sum = s.n.db_sum
          /\ struck.n.ls_req = req /\ struck.n.rxmt = s.n.rxmt
          /\ struck.n.events = s.n.events
        BY <1>4 DEF Sets, Field, SameTalk
    <2> SUFFICES ASSUME NEW c, c = checked
        PROVE  /\ c \in Work /\ c.db = s.db /\ c.out = s.out
               /\ SameTalk(c.n, s.n) /\ c.n.db_sum = s.n.db_sum
               /\ c.n.ls_req = req /\ c.n.rxmt = s.n.rxmt
               /\ \/ c.n.events = s.n.events
                  \/ /\ s.n.state = "Loading" /\ req = {}
                     /\ ToSet(c.n.events) = ToSet(s.n.events) \cup {"LoadingDone"}
        OBVIOUS
    <2>2. CASE req # s.n.ls_req
        <3>1. c = CheckLoading(struck) BY <2>2
        <3>2. /\ c \in Work /\ c.db = struck.db /\ c.out = struck.out
              /\ SameTalk(c.n, struck.n) /\ SameLists(c.n, struck.n)
              /\ \/ c = struck
                 \/ /\ struck.n.state = "Loading" /\ struck.n.ls_req = {}
                    /\ ToSet(c.n.events) = ToSet(struck.n.events) \cup {"LoadingDone"}
            BY <1>4, <3>1, CheckLoadingIs
        <3>3. struck.n.state = s.n.state BY <2>1 DEF SameTalk
        <3>4. SameTalk(c.n, s.n) BY <2>1, <3>2 DEF SameTalk
        <3>5. c.n.db_sum = s.n.db_sum /\ c.n.ls_req = req /\ c.n.rxmt = s.n.rxmt
            BY <2>1, <3>2 DEF SameLists
        <3> QED BY <2>1, <3>2, <3>3, <3>4, <3>5
    <2>3. CASE req = s.n.ls_req
        <3>1. c = struck BY <2>3
        <3> QED BY <1>4, <2>1, <3>1
    <2> QED BY <2>2, <2>3
<1> HIDE DEF checked
<1>6. rxmt \in SUBSET Instance BY <1>5, WorkFields, NbrFields
<1>7. rxmt = {j \in s.n.rxmt : j.id # i.id} BY <1>5
<1> HIDE DEF rxmt
<1>8. u \in Work /\ Sets(u, checked, "rxmt", rxmt) BY <1>5, <1>6, PutRxmt
<1>9. /\ u.db = s.db /\ u.out = s.out
      /\ SameTalk(u.n, s.n) /\ u.n.db_sum = s.n.db_sum
      /\ u.n.ls_req = req /\ u.n.rxmt = rxmt /\ u.n.events = checked.n.events
    BY <1>5, <1>8 DEF Sets, Field, SameTalk
<1> HIDE DEF u
<1>10. database = [s.db EXCEPT ![i.id] = i.ver] BY <1>9
<1> HIDE DEF database
<1>11. database \in [Lsa -> Nat]
    <2>1. s.db \in [Lsa -> Nat] /\ i.id \in Lsa /\ i.ver \in Nat BY WorkFields, InstanceIs
    <2> QED BY <1>10, <2>1
<1>13. v \in Work /\ v.n = u.n /\ v.db = database /\ v.out = u.out
    BY <1>8, <1>11, PutDb
<1> HIDE DEF v
<1>15. <<Ack(i)>> \in Seq(Packet) BY PacketsAre
<1>16. t \in Work /\ t.n = v.n /\ t.db = v.db /\ t.out = v.out \o <<Ack(i)>>
    BY <1>1, <1>13, <1>15, EmitIs
<1> QED BY <1>3, <1>5, <1>7, <1>9, <1>10, <1>13, <1>16 DEF Installed

\* The copy of LSA i that s has.
Copy(s, i) == [id |-> i.id, ver |-> s.db[i.id]]

\* t is s with the old LSA i taken note of: it answers what s repeats, it is a repetition, or
\* it is older than the copy.
Noted(t, s, i) ==
    /\ t \in Work /\ t.db = s.db /\ SameTalk(t.n, s.n)
    /\ t.n.db_sum = s.n.db_sum /\ t.n.ls_req = s.n.ls_req
    /\ t.n.events = s.n.events
    /\ \/ t.n.rxmt = s.n.rxmt \ {i} /\ t.out = s.out
       \/ t.n.rxmt = s.n.rxmt /\ t.out = s.out \o <<Ack(i)>>
       \/ t.n.rxmt = s.n.rxmt /\ t.out = s.out \o <<Update(Copy(s, i))>>

LEMMA CopyIs ==
    ASSUME NEW s \in Work, NEW i \in Instance
    PROVE  /\ Copy(s, i) \in Instance
           /\ Copy(s, i).id = i.id /\ Copy(s, i).ver = s.db[i.id]
<1>1. s.db \in [Lsa -> Nat] /\ i.id \in Lsa BY WorkFields, InstanceIs
<1>2. s.db[i.id] \in Nat BY <1>1
<1> QED BY <1>1, <1>2, InstanceIs DEF Copy

LEMMA ReadUpdateIs ==
    ASSUME NEW s \in Work, NEW i \in Instance, NEW t, t = ReadUpdate(s, i)
    PROVE  \/ s.n.state \notin Exchanging /\ t = s
           \/ s.n.state \in Exchanging /\ i.ver > s.db[i.id] /\ t = Install(s, i)
           \/ /\ s.n.state \in Exchanging /\ ~(i.ver > s.db[i.id])
              /\ \E j \in s.n.ls_req : j.id = i.id
              /\ t = Schedule(s, "BadLSReq")
           \/ s.n.state \in Exchanging /\ ~(i.ver > s.db[i.id]) /\ Noted(t, s, i)
<1>1. CASE s.n.state \notin Exchanging BY <1>1 DEF ReadUpdate
<1>2. CASE s.n.state \in Exchanging /\ i.ver > s.db[i.id] BY <1>2 DEF ReadUpdate
<1>3. CASE s.n.state \in Exchanging /\ ~(i.ver > s.db[i.id])
           /\ \E j \in s.n.ls_req : j.id = i.id
    BY <1>3 DEF ReadUpdate
<1>4. CASE s.n.state \in Exchanging /\ ~(i.ver > s.db[i.id])
           /\ ~(\E j \in s.n.ls_req : j.id = i.id) /\ i \in s.n.rxmt
    <2> DEFINE rest == s.n.rxmt \ {i}
    <2>1. t = WithRxmt(s, rest) BY <1>4 DEF ReadUpdate, WithRxmt
    <2>2. rest \in SUBSET Instance BY WorkFields, NbrFields
    <2>3. rest = s.n.rxmt \ {i} OBVIOUS
    <2> HIDE DEF rest
    <2>4. t \in Work /\ Sets(t, s, "rxmt", rest) BY <2>1, <2>2, PutRxmt
    <2>5. /\ t.db = s.db /\ SameTalk(t.n, s.n)
          /\ t.n.db_sum = s.n.db_sum /\ t.n.ls_req = s.n.ls_req
          /\ t.n.events = s.n.events /\ t.n.rxmt = rest /\ t.out = s.out
        BY <2>4 DEF Sets, Field, SameTalk
    <2>6. Noted(t, s, i) BY <2>3, <2>4, <2>5 DEF Noted
    <2> QED BY <1>4, <2>6
<1>5. CASE s.n.state \in Exchanging /\ ~(i.ver > s.db[i.id])
           /\ ~(\E j \in s.n.ls_req : j.id = i.id) /\ i \notin s.n.rxmt
    <2>1. \E x \in {Ack(i), Update(Copy(s, i))} : t = Emit(s, <<x>>)
        BY <1>5 DEF ReadUpdate, Copy
    <2>2. PICK x \in {Ack(i), Update(Copy(s, i))} : t = Emit(s, <<x>>) BY <2>1
    <2>3. <<x>> \in Seq(Packet) BY CopyIs, PacketsAre
    <2>4. t \in Work /\ t.n = s.n /\ t.db = s.db /\ t.out = s.out \o <<x>>
        BY <2>2, <2>3, EmitIs
    <2>5. SameTalk(t.n, s.n) BY <2>4 DEF SameTalk
    <2>6. Noted(t, s, i) BY <2>4, <2>5 DEF Noted
    <2> QED BY <1>5, <2>6
<1> QED BY <1>1, <1>2, <1>3, <1>4, <1>5

LEMMA ReadAckIs ==
    ASSUME NEW s \in Work, NEW i \in Instance, NEW t, t = ReadAck(s, i)
    PROVE  /\ t \in Work /\ t.db = s.db /\ t.out = s.out /\ SameTalk(t.n, s.n)
           /\ t.n.db_sum = s.n.db_sum /\ t.n.ls_req = s.n.ls_req /\ t.n.events = s.n.events
           /\ t.n.rxmt = IF s.n.state \in Exchanging THEN s.n.rxmt \ {i} ELSE s.n.rxmt
<1>1. CASE s.n.state \in Exchanging
    <2> DEFINE rest == s.n.rxmt \ {i}
    <2>1. t = WithRxmt(s, rest) BY <1>1 DEF ReadAck, WithRxmt
    <2>2. rest \in SUBSET Instance BY WorkFields, NbrFields
    <2>3. rest = s.n.rxmt \ {i} OBVIOUS
    <2> HIDE DEF rest
    <2>4. t \in Work /\ Sets(t, s, "rxmt", rest) BY <2>1, <2>2, PutRxmt
    <2>5. /\ t.db = s.db /\ t.out = s.out /\ SameTalk(t.n, s.n)
          /\ t.n.db_sum = s.n.db_sum /\ t.n.ls_req = s.n.ls_req
          /\ t.n.events = s.n.events /\ t.n.rxmt = rest
        BY <2>4 DEF Sets, Field, SameTalk
    <2> QED BY <1>1, <2>3, <2>4, <2>5
<1>2. CASE s.n.state \notin Exchanging
    <2>1. t = s BY <1>2 DEF ReadAck
    <2> QED BY <1>2, <2>1 DEF SameTalk
<1> QED BY <1>1, <1>2

LEMMA ReadHelloIs ==
    ASSUME NEW s \in Work, NEW seen \in BOOLEAN, NEW t, t = ReadHello(s, seen)
    PROVE  \/ seen /\ s.n.state \in {"Down", "Init"} /\ t = Start(s)
           \/ seen /\ s.n.state \notin {"Down", "Init"} /\ t = s
           \/ ~seen /\ s.n.state = "Down" /\ t = WithState(s, "Init")
           \/ ~seen /\ s.n.state # "Down" /\ t = WithState(Reset(s), "Init")
BY DEF ReadHello, WithState

LEMMA ExchangeDoneIs ==
    ASSUME NEW s \in Work, NEW t, t = ExchangeDone(s)
    PROVE  /\ t \in Work /\ t.db = s.db
           /\ t.n.seq = s.n.seq /\ t.n.flags = s.n.flags /\ t.n.recv = s.n.recv
           /\ t.n.sent = s.n.sent /\ SameLists(t.n, s.n) /\ t.n.events = s.n.events
           /\ t.n.t_db_desc = FALSE
           /\ t.n.state = IF s.n.ls_req = {} THEN "Full" ELSE "Loading"
           /\ t.out = IF s.n.ls_req = {} THEN s.out
                      ELSE s.out \o <<Request({i.id : i \in s.n.ls_req})>>
<1>0. FALSE \in BOOLEAN /\ "Full" \in State /\ "Loading" \in State BY DEF State, Exchanging
<1>1. CASE s.n.ls_req = {}
    <2> DEFINE u1 == WithState(s, "Full")
               u2 == WithDdTimer(u1, FALSE)
    <2>1. t = WithReqTimer(u2, FALSE)
        BY <1>1 DEF ExchangeDone, WithState, WithDdTimer, WithReqTimer
    <2>2. u1 \in Work /\ Sets(u1, s, "state", "Full") BY <1>0, PutState
    <2> HIDE DEF u1
    <2>3. u2 \in Work /\ Sets(u2, u1, "t_db_desc", FALSE) BY <1>0, <2>2, PutDdTimer
    <2> HIDE DEF u2
    <2>4. t \in Work /\ Sets(t, u2, "t_ls_req", FALSE) BY <1>0, <2>1, <2>3, PutReqTimer
    <2> QED BY <1>1, <2>2, <2>3, <2>4 DEF Sets, Field, SameLists
<1>2. CASE s.n.ls_req # {}
    <2> DEFINE u1 == WithState(s, "Loading")
               u2 == WithDdTimer(u1, FALSE)
    <2>1. t = SendRequest(u2)
        BY <1>2 DEF ExchangeDone, WithState, WithDdTimer
    <2>2. u1 \in Work /\ Sets(u1, s, "state", "Loading") BY <1>0, PutState
    <2> HIDE DEF u1
    <2>3. u2 \in Work /\ Sets(u2, u1, "t_db_desc", FALSE) BY <1>0, <2>2, PutDdTimer
    <2> HIDE DEF u2
    <2>4. /\ t \in Work /\ t.db = u2.db
          /\ t.out = u2.out \o <<Request({i.id : i \in u2.n.ls_req})>>
          /\ SameTalk(t.n, u2.n) /\ SameLists(t.n, u2.n) /\ t.n.events = u2.n.events
        BY <2>1, <2>3, SendRequestIs
    <2>5. /\ u2.db = s.db /\ u2.out = s.out /\ u2.n.ls_req = s.n.ls_req
          /\ u2.n.state = "Loading" /\ u2.n.t_db_desc = FALSE
          /\ u2.n.seq = s.n.seq /\ u2.n.flags = s.n.flags /\ u2.n.recv = s.n.recv
          /\ u2.n.sent = s.n.sent /\ SameLists(u2.n, s.n) /\ u2.n.events = s.n.events
        BY <2>2, <2>3 DEF Sets, Field, SameLists
    <2>6. t.n.state = "Loading" /\ t.n.t_db_desc = FALSE
          /\ t.n.seq = s.n.seq /\ t.n.flags = s.n.flags /\ t.n.recv = s.n.recv
          /\ t.n.sent = s.n.sent
        BY <2>4, <2>5 DEF SameTalk
    <2>7. SameLists(t.n, s.n) BY <2>4, <2>5 DEF SameLists
    <2> QED BY <1>2, <2>4, <2>5, <2>6, <2>7
<1> QED BY <1>1, <1>2

LEMMA LoadingDoneIs ==
    ASSUME NEW s \in Work, NEW t, t = [s EXCEPT !.n.state = "Full", !.n.t_ls_req = FALSE]
    PROVE  /\ t \in Work /\ t.db = s.db /\ t.out = s.out
           /\ t.n.seq = s.n.seq /\ t.n.flags = s.n.flags /\ t.n.recv = s.n.recv
           /\ t.n.sent = s.n.sent /\ SameLists(t.n, s.n) /\ t.n.events = s.n.events
           /\ t.n.t_db_desc = s.n.t_db_desc /\ t.n.state = "Full"
<1> DEFINE u1 == WithState(s, "Full")
           u == WithReqTimer(u1, FALSE)
<1>0. FALSE \in BOOLEAN /\ "Full" \in State BY DEF State, Exchanging
<1>1. t = u BY DEF WithState, WithReqTimer
<1>2. u1 \in Work /\ Sets(u1, s, "state", "Full") BY <1>0, PutState
<1> HIDE DEF u1
<1>3. u \in Work /\ Sets(u, u1, "t_ls_req", FALSE) BY <1>0, <1>2, PutReqTimer
<1> HIDE DEF u
<1>4. /\ u.db = s.db /\ u.out = s.out
      /\ u.n.seq = s.n.seq /\ u.n.flags = s.n.flags /\ u.n.recv = s.n.recv
      /\ u.n.sent = s.n.sent /\ SameLists(u.n, s.n) /\ u.n.events = s.n.events
      /\ u.n.t_db_desc = s.n.t_db_desc /\ u.n.state = "Full"
    BY <1>2, <1>3 DEF Sets, Field, SameLists
<1> QED BY <1>1, <1>3, <1>4, Zenon

LEMMA HandleIs ==
    ASSUME NEW s \in Work, NEW e \in Event, NEW t, t = Handle(s, e)
    PROVE  \/ e = "ExchangeDone" /\ s.n.state = "Exchange" /\ t = ExchangeDone(s)
           \/ /\ e = "LoadingDone" /\ s.n.state = "Loading"
              /\ t = [s EXCEPT !.n.state = "Full", !.n.t_ls_req = FALSE]
           \/ /\ e \in {"SeqNumberMismatch", "BadLSReq"} /\ s.n.state \in Exchanging
              /\ t = Start(Reset(s))
           \/ /\ t = s
              /\ ~(e = "ExchangeDone" /\ s.n.state = "Exchange")
              /\ ~(e = "LoadingDone" /\ s.n.state = "Loading")
              /\ ~(e \in {"SeqNumberMismatch", "BadLSReq"} /\ s.n.state \in Exchanging)
BY DEF Handle, Event

----------------------------------------------------------------------------
(* What a neighbour always is.                                              *)

Sane(n) ==
    /\ Once(n.db_sum) /\ Once(n.ls_req) /\ Once(n.rxmt)
    /\ n.sent = NoDd \/ n.sent \in SentDd
    /\ n.t_db_desc => n.state \in {"ExStart", "Exchange"}
    /\ n.state \in {"ExStart", "Exchange"} => n.sent \in SentDd
    /\ n.state \notin {"Down", "Init"} => n.seq > 0

LEMMA SaneKept ==
    ASSUME NEW n, NEW m, Sane(n), SameTalk(m, n), Once(m.db_sum), Once(m.ls_req), Once(m.rxmt)
    PROVE  Sane(m)
BY DEF Sane, SameTalk

LEMMA OnceSub ==
    ASSUME NEW L, Once(L), NEW K, K \subseteq L
    PROVE  Once(K)
BY DEF Once

LEMMA SaneStart ==
    ASSUME NEW s \in Work, Sane(s.n), outages \in Nat, NEW t, t = Start(s)
    PROVE  t \in Work /\ Sane(t.n)
<1>1. Once(s.n.db_sum) BY DEF Sane
<1>2. /\ t \in Work /\ t.n.state = "ExStart" /\ t.n.seq > 0 /\ t.n.t_db_desc
      /\ t.n.ls_req = s.n.ls_req /\ t.n.rxmt = s.n.rxmt
      /\ t.n.sent \in SentDd /\ t.n.db_sum \subseteq s.n.db_sum
    BY <1>1, StartIs
<1>3. Once(t.n.db_sum) BY <1>1, <1>2, OnceSub
<1> QED BY <1>2, <1>3 DEF Sane

LEMMA SaneSchedule ==
    ASSUME NEW s \in Work, Sane(s.n), NEW e \in Event, NEW t, t = Schedule(s, e)
    PROVE  t \in Work /\ Sane(t.n)
<1>1. t \in Work /\ SameTalk(t.n, s.n) /\ SameLists(t.n, s.n) BY ScheduleIs
<1>2. Once(t.n.db_sum) /\ Once(t.n.ls_req) /\ Once(t.n.rxmt) BY <1>1 DEF Sane, SameLists
<1> QED BY <1>1, <1>2, SaneKept

LEMMA SaneReset ==
    ASSUME NEW s \in Work, Sane(s.n), NEW t, t = Reset(s)
    PROVE  t \in Work /\ Sane(t.n)
<1>1. /\ t \in Work /\ t.n.state = s.n.state /\ t.n.seq = s.n.seq /\ t.n.sent = s.n.sent
      /\ t.n.db_sum = {} /\ t.n.ls_req = {} /\ t.n.rxmt = {} /\ ~t.n.t_db_desc
    BY ResetIs
<1> QED BY <1>1 DEF Sane, Once

LEMMA SaneProcDd ==
    ASSUME NEW s \in Work, NEW d \in SentDd, NEW t, t = ProcDd(s, d),
           Once(s.n.db_sum), Once(s.n.ls_req), Once(s.n.rxmt),
           s.n.seq > 0, s.n.sent \in SentDd, s.n.state = "Exchange"
    PROVE  t \in Work /\ Sane(t.n)
<1>1. /\ t \in Work /\ t.db = s.db /\ Heard(t.n, s.n, d, s.db) /\ t.n.seq > 0
      /\ Said(t, s) \/ Silent(t, s)
    BY ProcDdIs
<1>2. t.n.sent \in SentDd /\ t.n.db_sum \subseteq s.n.db_sum
    BY <1>1 DEF Said, Silent, Speaks
<1>3. Once(t.n.db_sum) BY <1>2, OnceSub
<1>4. /\ t.n.state = s.n.state /\ t.n.rxmt = s.n.rxmt /\ t.n.ls_req = Asks(s.n, d, s.db)
    BY <1>1 DEF Heard
<1>5. Once(t.n.ls_req) BY <1>4, AsksOnce, WorkFields
<1> QED BY <1>1, <1>2, <1>3, <1>4, <1>5 DEF Sane

LEMMA SaneNegotiate ==
    ASSUME NEW s \in Work, Sane(s.n), s.n.state = "ExStart", NEW d \in SentDd,
           NEW r \in Router, NEW t, t = Negotiate(s, d, r)
    PROVE  t \in Work /\ Sane(t.n)
<1>0. s.n.seq \in Nat /\ s.n.seq > 0 /\ d.seq \in Nat /\ d.seq > 0
      /\ s.n.sent \in SentDd /\ Once(s.n.ls_req) /\ Once(s.n.rxmt)
    BY WorkFields, NbrFields DEF Sane, SentDd, Description
<1>1. ASSUME NEW seq \in Nat, seq > 0, NEW off, t = ProcDd(Agreed(s, seq, off), d)
      PROVE  t \in Work /\ Sane(t.n)
    <2> DEFINE a == Agreed(s, seq, off)
    <2>1. /\ a \in Work /\ a.n.state = "Exchange" /\ a.n.seq = seq /\ a.n.db_sum = Has(s.db)
          /\ a.n.sent = s.n.sent /\ a.n.ls_req = s.n.ls_req /\ a.n.rxmt = s.n.rxmt
        BY AgreedIs
    <2>2. t = ProcDd(a, d) BY <1>1
    <2> HIDE DEF a
    <2>3. Once(a.n.db_sum) BY <2>1, HasIs, WorkFields
    <2>4. Once(a.n.ls_req) /\ Once(a.n.rxmt) /\ a.n.seq > 0 /\ a.n.sent \in SentDd
        BY <1>0, <1>1, <2>1
    <2> QED BY <2>1, <2>2, <2>3, <2>4, SaneProcDd
<1>2. \/ t = ProcDd(Agreed(s, d.seq, {"MS", "I"}), d)
      \/ t = ProcDd(Agreed(s, s.n.seq, {"I"}), d)
      \/ t = s
    BY NegotiateIs
<1> QED BY <1>0, <1>1, <1>2

\* The cases of ReadDd.
LEMMA ReadDdIs ==
    ASSUME NEW s \in Work, NEW d, NEW r, NEW t, t = ReadDd(s, d, r)
    PROVE  \/ s.n.state = "Down" /\ t = s
           \/ s.n.state = "Init" /\ t = Negotiate(Start(s), d, r)
           \/ s.n.state = "ExStart" /\ t = Negotiate(s, d, r)
           \/ /\ s.n.state \in Exchanging /\ Duplicate(s.n, d) /\ "MS" \in s.n.flags /\ t = s
           \/ /\ s.n.state \in Exchanging /\ Duplicate(s.n, d) /\ "MS" \notin s.n.flags
              /\ s.n.state = "Exchange" \/ s.n.sent # NoDd
              /\ t = ResendDd(s)
           \/ /\ s.n.state = "Exchange" /\ ~Duplicate(s.n, d) /\ Expected(s.n, d)
              /\ t = ProcDd(s, d)
           \/ /\ s.n.state \in Exchanging /\ t = Schedule(s, "SeqNumberMismatch")
              /\ \/ /\ Duplicate(s.n, d) /\ "MS" \notin s.n.flags
                    /\ s.n.state # "Exchange" /\ s.n.sent = NoDd
                 \/ ~Duplicate(s.n, d) /\ (s.n.state # "Exchange" \/ ~Expected(s.n, d))
<1> DEFINE n == s.n
<1>0. n.state \in State BY WorkFields, NbrFields
<1>1. CASE n.state = "Down"
    <2>1. n.state \notin Exchanging BY <1>1 DEF Exchanging
    <2> QED BY <1>1, <2>1 DEF ReadDd
<1>2. CASE n.state = "Init"
    <2>1. n.state \notin Exchanging BY <1>2 DEF Exchanging
    <2> QED BY <1>2, <2>1 DEF ReadDd
<1>3. CASE n.state = "ExStart"
    <2>1. n.state \notin Exchanging BY <1>3 DEF Exchanging
    <2> QED BY <1>3, <2>1 DEF ReadDd
<1>4. CASE n.state \in Exchanging
    <2>0. n.state \notin {"Down", "Init", "ExStart"} BY <1>4 DEF Exchanging
    <2>1. CASE Duplicate(n, d) /\ "MS" \in n.flags BY <1>4, <2>0, <2>1 DEF ReadDd
    <2>2. CASE Duplicate(n, d) /\ "MS" \notin n.flags /\ Answers(n)
        BY <1>4, <2>0, <2>2 DEF ReadDd, Answers
    <2>3. CASE Duplicate(n, d) /\ "MS" \notin n.flags /\ ~Answers(n)
        BY <1>4, <2>0, <2>3 DEF ReadDd, Answers
    <2>4. CASE ~Duplicate(n, d) /\ n.state = "Exchange" /\ Expected(n, d)
        BY <1>4, <2>0, <2>4 DEF ReadDd
    <2>5. CASE ~Duplicate(n, d) /\ ~(n.state = "Exchange" /\ Expected(n, d))
        BY <1>4, <2>0, <2>5 DEF ReadDd
    <2> QED BY <2>1, <2>2, <2>3, <2>4, <2>5
<1> QED BY <1>0, <1>1, <1>2, <1>3, <1>4 DEF State

LEMMA SaneReadDd ==
    ASSUME NEW s \in Work, Sane(s.n), outages \in Nat, NEW d \in SentDd,
           NEW r \in Router, NEW t, t = ReadDd(s, d, r)
    PROVE  t \in Work /\ Sane(t.n)
<1>1. CASE t = s BY <1>1
<1>2. CASE s.n.state = "Init" /\ t = Negotiate(Start(s), d, r)
    <2> DEFINE u == Start(s)
    <2>1. u \in Work /\ Sane(u.n) BY SaneStart
    <2>2. u.n.state = "ExStart" BY StartIs DEF Sane
    <2>3. t = Negotiate(u, d, r) BY <1>2
    <2> HIDE DEF u
    <2> QED BY <2>1, <2>2, <2>3, SaneNegotiate
<1>3. CASE s.n.state = "ExStart" /\ t = Negotiate(s, d, r) BY <1>3, SaneNegotiate
<1>4. CASE (s.n.state = "Exchange" \/ s.n.sent # NoDd) /\ t = ResendDd(s)
    <2>1. s.n.sent \in SentDd BY <1>4 DEF Sane
    <2>2. t \in Work /\ t.n = s.n BY <1>4, <2>1, ResendDdIs
    <2> QED BY <2>2
<1>5. CASE s.n.state = "Exchange" /\ t = ProcDd(s, d)
    <2>1. /\ Once(s.n.db_sum) /\ Once(s.n.ls_req) /\ Once(s.n.rxmt)
          /\ s.n.seq > 0 /\ s.n.sent \in SentDd
        BY <1>5 DEF Sane
    <2> QED BY <1>5, <2>1, SaneProcDd
<1>6. CASE t = Schedule(s, "SeqNumberMismatch")
    <2>1. "SeqNumberMismatch" \in Event BY DEF Event
    <2> QED BY <1>6, <2>1, SaneSchedule
<1> QED BY <1>1, <1>2, <1>3, <1>4, <1>5, <1>6, ReadDdIs

LEMMA SaneUpdate ==
    ASSUME NEW s \in Work, Sane(s.n), NEW i \in Instance, NEW t, t = ReadUpdate(s, i)
    PROVE  t \in Work /\ Sane(t.n)
<1>1. CASE t = s BY <1>1
<1>2. CASE t = Install(s, i)
    <2>0. t \in Work /\ Installed(t, s, i) BY <1>2, InstallIs
    <2>1. SameTalk(t.n, s.n) /\ t.n.db_sum = s.n.db_sum BY <2>0 DEF Installed
    <2>2. t.n.ls_req \subseteq s.n.ls_req /\ t.n.rxmt \subseteq s.n.rxmt
        BY <2>0 DEF Installed
    <2>3. Once(t.n.db_sum) /\ Once(t.n.ls_req) /\ Once(t.n.rxmt)
        BY <2>1, <2>2, OnceSub DEF Sane
    <2> QED BY <2>0, <2>1, <2>3, SaneKept
<1>3. CASE t = Schedule(s, "BadLSReq")
    <2>1. "BadLSReq" \in Event BY DEF Event
    <2> QED BY <1>3, <2>1, SaneSchedule
<1>4. CASE Noted(t, s, i)
    <2>1. t.n.rxmt \subseteq s.n.rxmt BY <1>4 DEF Noted
    <2>2. /\ t \in Work /\ SameTalk(t.n, s.n)
          /\ t.n.db_sum = s.n.db_sum /\ t.n.ls_req = s.n.ls_req
        BY <1>4 DEF Noted
    <2>3. Once(t.n.db_sum) /\ Once(t.n.ls_req) /\ Once(t.n.rxmt)
        BY <2>1, <2>2, OnceSub DEF Sane
    <2> QED BY <2>2, <2>3, SaneKept
<1> QED BY <1>1, <1>2, <1>3, <1>4, ReadUpdateIs

LEMMA SaneRead ==
    ASSUME NEW s \in Work, Sane(s.n), outages \in Nat, NEW p \in Packet,
           NEW r \in Router, NEW t, t = Read(s, p, r)
    PROVE  t \in Work /\ Sane(t.n)
<1>0. p.kind \in {"dd", "hello", "req", "upd", "ack"} BY PacketKinds
<1>1. CASE p.kind = "hello"
    <2>1. t = ReadHello(s, p.seen) /\ p.seen \in BOOLEAN BY <1>1, PacketKinds DEF Read
    <2>2. CASE t = Start(s) BY <2>2, SaneStart
    <2>3. CASE t = s BY <2>3
    <2>0. "Init" \in State BY DEF State
    <2>4. CASE s.n.state = "Down" /\ t = WithState(s, "Init")
        <3>1. t \in Work /\ Sets(t, s, "state", "Init") BY <2>0, <2>4, PutState
        <3>2. /\ t.n.state = "Init" /\ t.n.sent = s.n.sent /\ t.n.t_db_desc = s.n.t_db_desc
              /\ t.n.db_sum = s.n.db_sum /\ t.n.ls_req = s.n.ls_req /\ t.n.rxmt = s.n.rxmt
            BY <3>1 DEF Sets, Field
        <3> QED BY <2>4, <3>1, <3>2 DEF Sane
    <2>5. CASE t = WithState(Reset(s), "Init")
        <3> DEFINE u == Reset(s)
        <3>1. u \in Work /\ Sane(u.n) BY SaneReset
        <3>2. ~u.n.t_db_desc BY ResetIs
        <3>3. t = WithState(u, "Init") BY <2>5
        <3> HIDE DEF u
        <3>4. t \in Work /\ Sets(t, u, "state", "Init") BY <2>0, <3>1, <3>3, PutState
        <3>5. /\ t.n.state = "Init" /\ t.n.sent = u.n.sent /\ t.n.t_db_desc = u.n.t_db_desc
              /\ t.n.db_sum = u.n.db_sum /\ t.n.ls_req = u.n.ls_req /\ t.n.rxmt = u.n.rxmt
            BY <3>4 DEF Sets, Field
        <3> QED BY <3>1, <3>2, <3>4, <3>5 DEF Sane
    <2> QED BY <2>1, <2>2, <2>3, <2>4, <2>5, ReadHelloIs
<1>2. CASE p.kind = "dd"
    <2>1. t = ReadDd(s, p, r) /\ p \in SentDd BY <1>2, PacketKinds DEF Read
    <2> QED BY <2>1, SaneReadDd
<1>3. CASE p.kind = "req"
    <2>1. t = ReadRequest(s, p.ids) /\ p.ids \in SUBSET Lsa BY <1>3, PacketKinds DEF Read
    <2>2. CASE t = Schedule(s, "BadLSReq")
        <3>1. "BadLSReq" \in Event BY DEF Event
        <3> QED BY <2>2, <3>1, SaneSchedule
    <2>3. CASE Replied(t, s, p.ids) BY <2>3 DEF Replied
    <2>4. CASE t = s BY <2>4
    <2> QED BY <2>1, <2>2, <2>3, <2>4, ReadRequestIs
<1>4. CASE p.kind = "upd"
    <2>1. t = ReadUpdate(s, p.lsa) /\ p.lsa \in Instance BY <1>4, PacketKinds DEF Read
    <2> QED BY <2>1, SaneUpdate
<1>5. CASE p.kind = "ack"
    <2>1. t = ReadAck(s, p.lsa) /\ p.lsa \in Instance BY <1>5, PacketKinds DEF Read
    <2>2. /\ t \in Work /\ SameTalk(t.n, s.n)
          /\ t.n.db_sum = s.n.db_sum /\ t.n.ls_req = s.n.ls_req
          /\ t.n.rxmt \subseteq s.n.rxmt
        <3>1. /\ t \in Work /\ t.db = s.db /\ t.out = s.out /\ SameTalk(t.n, s.n)
              /\ t.n.db_sum = s.n.db_sum /\ t.n.ls_req = s.n.ls_req
              /\ t.n.events = s.n.events
              /\ t.n.rxmt = IF s.n.state \in Exchanging THEN s.n.rxmt \ {p.lsa}
                            ELSE s.n.rxmt
            BY <2>1, ReadAckIs
        <3> QED BY <3>1
    <2>3. Once(t.n.db_sum) /\ Once(t.n.ls_req) /\ Once(t.n.rxmt)
        BY <2>2, OnceSub DEF Sane
    <2> QED BY <2>2, <2>3, SaneKept
<1> QED BY <1>0, <1>1, <1>2, <1>3, <1>4, <1>5

LEMMA SaneHandle ==
    ASSUME NEW s \in Work, Sane(s.n), outages \in Nat, NEW e \in Event,
           NEW t, t = Handle(s, e)
    PROVE  t \in Work /\ Sane(t.n)
<1>1. CASE s.n.state = "Exchange" /\ t = ExchangeDone(s)
    <2>1. /\ t \in Work /\ t.n.seq = s.n.seq /\ t.n.sent = s.n.sent /\ SameLists(t.n, s.n)
          /\ t.n.t_db_desc = FALSE /\ t.n.state \in {"Full", "Loading"}
        BY <1>1, ExchangeDoneIs
    <2> QED BY <1>1, <2>1 DEF Sane, SameLists
<1>2. CASE /\ s.n.state = "Loading"
           /\ t = [s EXCEPT !.n.state = "Full", !.n.t_ls_req = FALSE]
    <2>1. /\ t \in Work /\ t.n.seq = s.n.seq /\ t.n.sent = s.n.sent /\ SameLists(t.n, s.n)
          /\ t.n.t_db_desc = s.n.t_db_desc /\ t.n.state = "Full"
        BY <1>2, LoadingDoneIs
    <2>2. s.n.state = "Loading" BY <1>2
    <2> QED BY <2>1, <2>2 DEF Sane, SameLists
<1>3. CASE t = Start(Reset(s))
    <2> DEFINE u == Reset(s)
    <2>1. u \in Work /\ Sane(u.n) BY SaneReset
    <2>2. t = Start(u) BY <1>3
    <2> HIDE DEF u
    <2> QED BY <2>1, <2>2, SaneStart
<1>4. CASE t = s BY <1>4
<1> QED BY <1>1, <1>2, <1>3, <1>4, HandleIs

----------------------------------------------------------------------------
(* Type correctness.                                                        *)

TInv ==
    /\ nbr \in [Router -> Nbr] /\ db \in [Router -> [Lsa -> Nat]]
    /\ link \in [Router -> Seq(Packet)]
    /\ losses \in Nat /\ outages \in Nat /\ changes \in Nat
    /\ \A r \in Router : Sane(nbr[r])

LEMMA PeerIs == \A r \in Router : Peer(r) \in Router /\ Peer(r) # r /\ Peer(Peer(r)) = r
BY DEF Peer, Router

LEMMA NoNbrIs ==
    /\ NoNbr \in Nbr /\ Sane(NoNbr) /\ NoDd \in Description /\ NoDd \notin SentDd
    /\ NoDd.seq = 0 /\ NoDd.flags = {} /\ NoDd.says = {}
<1>1. {} \in SUBSET Flag /\ {} \in SUBSET Instance /\ 0 \in Nat OBVIOUS
<1>2. NoDd \in Description /\ NoDd.seq = 0 /\ NoDd.flags = {} /\ NoDd.says = {}
    BY <1>1, DdIs DEF NoDd
<1>3. NoDd \notin SentDd BY <1>2 DEF SentDd
<1>4. /\ NoNbr.state = "Down" /\ NoNbr.seq = 0 /\ NoNbr.sent = NoDd /\ NoNbr.db_sum = {}
      /\ NoNbr.ls_req = {} /\ NoNbr.rxmt = {} /\ NoNbr.t_db_desc = FALSE
    BY DEF NoNbr
<1>5. NoNbr \in Nbr
    <2>1. <<>> \in Seq(Event) /\ "Down" \in State BY DEF State
    <2> HIDE DEF NoDd
    <2> QED BY <1>1, <1>2, <2>1 DEF NoNbr, Nbr
<1>6. Sane(NoNbr) BY <1>4 DEF Sane, Once
<1> QED BY <1>2, <1>3, <1>5, <1>6

LEMMA StepIs ==
    ASSUME TInv, NEW r \in Router
    PROVE  /\ Step(r) \in Work /\ Step(r).n = nbr[r] /\ Step(r).db = db[r] /\ Step(r).out = <<>>
           /\ Sane(Step(r).n)
<1>1. nbr[r] \in Nbr /\ db[r] \in [Lsa -> Nat] /\ <<>> \in Seq(Packet) /\ Sane(nbr[r])
    BY DEF TInv
<1>2. Step(r).n = nbr[r] /\ Step(r).db = db[r] /\ Step(r).out = <<>> BY DEF Step
<1>3. Step(r) \in Work BY <1>1, WorkIs DEF Step
<1> QED BY <1>1, <1>2, <1>3

LEMMA DoneIs ==
    ASSUME TInv, NEW r \in Router, NEW s \in Work, NEW rest \in Seq(Packet), Done(r, s, rest)
    PROVE  /\ nbr' \in [Router -> Nbr] /\ db' \in [Router -> [Lsa -> Nat]]
           /\ link' \in [Router -> Seq(Packet)]
           /\ nbr'[r] = s.n /\ nbr'[Peer(r)] = nbr[Peer(r)]
           /\ db'[r] = s.db /\ db'[Peer(r)] = db[Peer(r)]
           /\ link'[r] = rest /\ link'[Peer(r)] = link[Peer(r)] \o s.out
<1>0. Peer(r) \in Router /\ Peer(r) # r BY PeerIs
<1>1. s.n \in Nbr /\ s.db \in [Lsa -> Nat] /\ s.out \in Seq(Packet) BY WorkFields
<1>2. /\ nbr' = [nbr EXCEPT ![r] = s.n] /\ nbr \in [Router -> Nbr]
      /\ db' = [db EXCEPT ![r] = s.db] /\ db \in [Router -> [Lsa -> Nat]]
    BY DEF Done, TInv
<1>3. link' = [link EXCEPT ![r] = rest, ![Peer(r)] = link[Peer(r)] \o s.out]
      /\ link \in [Router -> Seq(Packet)]
    BY <1>0 DEF Done, TInv
<1>4. link[Peer(r)] \o s.out \in Seq(Packet) BY <1>0, <1>1, <1>3
<1>5. nbr' \in [Router -> Nbr] /\ nbr'[r] = s.n /\ nbr'[Peer(r)] = nbr[Peer(r)]
    BY <1>0, <1>1, <1>2
<1>6. db' \in [Router -> [Lsa -> Nat]] /\ db'[r] = s.db /\ db'[Peer(r)] = db[Peer(r)]
    BY <1>0, <1>1, <1>2
<1>7. /\ link' \in [Router -> Seq(Packet)] /\ link'[r] = rest
      /\ link'[Peer(r)] = link[Peer(r)] \o s.out
    BY <1>0, <1>3, <1>4
<1> QED BY <1>5, <1>6, <1>7

LEMMA TypedDone ==
    ASSUME TInv, NEW r \in Router, NEW s \in Work, Sane(s.n), NEW rest \in Seq(Packet),
           Done(r, s, rest), losses' \in Nat, outages' \in Nat, changes' \in Nat
    PROVE  TInv'
<1>1. /\ nbr' \in [Router -> Nbr] /\ db' \in [Router -> [Lsa -> Nat]]
      /\ link' \in [Router -> Seq(Packet)]
      /\ nbr'[r] = s.n /\ nbr'[Peer(r)] = nbr[Peer(r)]
    BY DoneIs
<1>2. ASSUME NEW q \in Router PROVE Sane(nbr'[q])
    <2>1. q = r \/ q = Peer(r) BY DEF Router, Peer
    <2>2. Sane(nbr[Peer(r)]) BY PeerIs DEF TInv
    <2> QED BY <1>1, <2>1, <2>2
<1> QED BY <1>1, <1>2 DEF TInv

LEMMA TailIs ==
    ASSUME NEW S, NEW q \in Seq(S), q # <<>>
    PROVE  Head(q) \in S /\ Tail(q) \in Seq(S) /\ ToSet(Tail(q)) \subseteq ToSet(q)
           /\ Head(q) \in ToSet(q)
           /\ \A x \in ToSet(q) : x = Head(q) \/ x \in ToSet(Tail(q))
<1>1. Head(q) \in S /\ Tail(q) \in Seq(S) OBVIOUS
<1>2. Head(q) = q[1] /\ Len(q) \in Nat /\ Len(q) > 0 OBVIOUS
<1>3. DOMAIN q = 1..Len(q) /\ 1 \in 1..Len(q) BY <1>2
<1>4. Head(q) \in ToSet(q) BY <1>2, <1>3 DEF ToSet
<1>5. ASSUME NEW x \in ToSet(Tail(q)) PROVE x \in ToSet(q)
    <2>1. PICK k \in DOMAIN Tail(q) : x = Tail(q)[k] BY DEF ToSet
    <2>2. k \in 1..(Len(q) - 1) /\ Tail(q)[k] = q[k + 1] BY <1>2, <2>1
    <2>3. k + 1 \in DOMAIN q BY <1>2, <1>3, <2>2
    <2> QED BY <2>1, <2>2, <2>3 DEF ToSet
<1>6. ASSUME NEW x \in ToSet(q), x # Head(q) PROVE x \in ToSet(Tail(q))
    <2>1. PICK k \in DOMAIN q : x = q[k] BY DEF ToSet
    <2>2. k \in 2..Len(q) BY <1>2, <1>3, <1>6, <2>1
    <2>3. k - 1 \in 1..(Len(q) - 1) /\ Len(Tail(q)) = Len(q) - 1 BY <1>2, <2>2
    <2>4. k - 1 \in DOMAIN Tail(q) /\ Tail(q)[k - 1] = q[k] BY <1>1, <1>2, <2>2, <2>3
    <2> QED BY <2>1, <2>4 DEF ToSet
<1> QED BY <1>1, <1>4, <1>5, <1>6

\* The handler of a scheduled event works on the neighbour with the event taken off.
LEMMA EventIs ==
    ASSUME TInv, NEW r \in Router, nbr[r].events # <<>>,
           NEW s, s = [Step(r) EXCEPT !.n.events = Tail(@)]
    PROVE  /\ s \in Work /\ s.db = db[r] /\ s.out = <<>> /\ Sane(s.n)
           /\ SameTalk(s.n, nbr[r]) /\ SameLists(s.n, nbr[r])
           /\ ToSet(s.n.events) \subseteq ToSet(nbr[r].events)
           /\ \A e \in ToSet(nbr[r].events) : e = Head(nbr[r].events) \/ e \in ToSet(s.n.events)
           /\ Head(nbr[r].events) \in Event /\ Head(nbr[r].events) \in ToSet(nbr[r].events)
<1> DEFINE rest == Tail(nbr[r].events)
           u == WithEvents(Step(r), rest)
<1>1. s = u BY StepIs DEF WithEvents
<1>2. nbr[r].events \in Seq(Event) BY NbrFields DEF TInv
<1>3. /\ rest \in Seq(Event) /\ ToSet(rest) \subseteq ToSet(nbr[r].events)
      /\ \A e \in ToSet(nbr[r].events) : e = Head(nbr[r].events) \/ e \in ToSet(rest)
      /\ Head(nbr[r].events) \in Event /\ Head(nbr[r].events) \in ToSet(nbr[r].events)
    BY <1>2, TailIs
<1> HIDE DEF rest
<1>4. u \in Work /\ Sets(u, Step(r), "events", rest) BY <1>3, StepIs, PutEvents
<1> HIDE DEF u
<1>5. /\ u.db = db[r] /\ u.out = <<>> /\ u.n.events = rest
      /\ SameTalk(u.n, nbr[r]) /\ SameLists(u.n, nbr[r])
    BY <1>4, StepIs DEF Sets, Field, SameTalk, SameLists
<1>6. Sane(u.n)
    <2>1. Once(u.n.db_sum) /\ Once(u.n.ls_req) /\ Once(u.n.rxmt)
        BY <1>5, StepIs DEF SameLists, Sane
    <2> QED BY <1>5, <2>1, StepIs, SaneKept
<1> QED BY <1>1, <1>3, <1>4, <1>5, <1>6, Zenon

LEMMA TInit == Init => TInv
<1> SUFFICES ASSUME Init PROVE TInv OBVIOUS
<1>1. nbr \in [Router -> Nbr] /\ \A r \in Router : Sane(nbr[r]) BY NoNbrIs DEF Init
<1>2. link \in [Router -> Seq(Packet)] BY DEF Init
<1>3. db \in [Router -> [Lsa -> Nat]] BY KnownAssumption DEF Init
<1> QED BY <1>1, <1>2, <1>3 DEF Init, TInv

LEMMA TReceive == ASSUME TInv, NEW r \in Router, Receive(r) PROVE TInv'
<1>0. link[r] \in Seq(Packet) /\ link[r] # <<>> /\ outages \in Nat BY DEF TInv, Receive
<1>1. Head(link[r]) \in Packet /\ Tail(link[r]) \in Seq(Packet) BY <1>0
<1> DEFINE t == Read(Step(r), Head(link[r]), r)
<1>2. t \in Work /\ Sane(t.n) BY <1>0, <1>1, StepIs, SaneRead
<1>3. Done(r, t, Tail(link[r])) BY DEF Receive
<1>4. losses' \in Nat /\ outages' \in Nat /\ changes' \in Nat BY DEF Receive, TInv
<1> HIDE DEF t
<1> QED BY <1>1, <1>2, <1>3, <1>4, TypedDone

LEMMA TRunEvent == ASSUME TInv, NEW r \in Router, RunEvent(r) PROVE TInv'
<1> DEFINE s == [Step(r) EXCEPT !.n.events = Tail(@)]
           t == Handle(s, Head(nbr[r].events))
<1>0. nbr[r].events # <<>> /\ outages \in Nat /\ link[r] \in Seq(Packet) BY DEF RunEvent, TInv
<1>1. s \in Work /\ Sane(s.n) /\ Head(nbr[r].events) \in Event BY <1>0, EventIs
<1>3. Done(r, t, link[r]) BY DEF RunEvent
<1> HIDE DEF s
<1>2. t \in Work /\ Sane(t.n) BY <1>0, <1>1, SaneHandle
<1>4. losses' \in Nat /\ outages' \in Nat /\ changes' \in Nat BY DEF RunEvent, TInv
<1> HIDE DEF t
<1> QED BY <1>0, <1>2, <1>3, <1>4, TypedDone

LEMMA TTimers ==
    ASSUME TInv, NEW r \in Router,
           DbDescTimer(r) \/ LsReqTimer(r) \/ LsUpdTimer(r) \/ HelloTimer(r)
    PROVE  TInv'
<1>0. link[r] \in Seq(Packet) BY DEF TInv
<1>1. losses' \in Nat /\ outages' \in Nat /\ changes' \in Nat
    BY DEF DbDescTimer, LsReqTimer, LsUpdTimer, HelloTimer, TInv
<1>2. SUFFICES \E t \in Work : Sane(t.n) /\ Done(r, t, link[r])
    BY <1>0, <1>1, TypedDone
<1>3. CASE DbDescTimer(r)
    <2> DEFINE t == ResendDd(Step(r))
    <2>1. Step(r).n.sent \in SentDd BY <1>3, StepIs DEF DbDescTimer, Sane
    <2>2. t \in Work /\ t.n = Step(r).n BY <2>1, StepIs, ResendDdIs
    <2>3. Done(r, t, link[r]) BY <1>3 DEF DbDescTimer
    <2> QED BY <2>2, <2>3, StepIs
<1>4. CASE LsReqTimer(r)
    <2> DEFINE t == SendRequest(Step(r))
    <2>1. t \in Work /\ SameTalk(t.n, Step(r).n) /\ SameLists(t.n, Step(r).n)
        BY StepIs, SendRequestIs
    <2>2. Done(r, t, link[r]) BY <1>4 DEF LsReqTimer
    <2> HIDE DEF t
    <2>3. Once(t.n.db_sum) /\ Once(t.n.ls_req) /\ Once(t.n.rxmt)
        BY <2>1, StepIs DEF SameLists, Sane
    <2>4. Sane(t.n) BY <2>1, <2>3, StepIs, SaneKept
    <2> QED BY <2>1, <2>2, <2>4
<1>5. CASE LsUpdTimer(r)
    <2>1. PICK i \in nbr[r].rxmt : Done(r, Emit(Step(r), <<Update(i)>>), link[r])
        BY <1>5 DEF LsUpdTimer
    <2>2. i \in Instance BY <2>1, NbrFields DEF TInv
    <2>3. <<Update(i)>> \in Seq(Packet) BY <2>2, PacketsAre
    <2> DEFINE t == Emit(Step(r), <<Update(i)>>)
    <2>4. t \in Work /\ t.n = Step(r).n BY <2>3, StepIs, EmitIs
    <2> QED BY <2>1, <2>4, StepIs
<1>6. CASE HelloTimer(r)
    <2> DEFINE b == nbr[r].state # "Down"
               t == Emit(Step(r), <<Hello(b)>>)
    <2>1. b \in BOOLEAN OBVIOUS
    <2>2. Done(r, t, link[r]) BY <1>6 DEF HelloTimer
    <2> HIDE DEF b
    <2>3. <<Hello(b)>> \in Seq(Packet) BY <2>1, PacketsAre
    <2>4. t \in Work /\ t.n = Step(r).n BY <2>3, StepIs, EmitIs
    <2> QED BY <2>2, <2>4, StepIs
<1> QED BY <1>3, <1>4, <1>5, <1>6

\* What Originate works on.
Fresh(r) == [id |-> r, ver |-> db[r][r] + 1]
Changed(r) ==
    [Step(r) EXCEPT !.db[r] = Fresh(r).ver, !.n.rxmt = {i \in @ : i.id # r}]
Flooded(r) ==
    IF FloodsTo(nbr[r])
    THEN Emit([Changed(r) EXCEPT !.n.rxmt = @ \cup {Fresh(r)}], <<Update(Fresh(r))>>)
    ELSE Changed(r)

LEMMA FreshIs ==
    ASSUME TInv, NEW r \in Router
    PROVE  /\ r \in Lsa /\ Fresh(r) \in Instance /\ Fresh(r).id = r
           /\ Fresh(r).ver = db[r][r] + 1 /\ db[r][r] \in Nat
           /\ [db[r] EXCEPT ![r] = Fresh(r).ver] \in [Lsa -> Nat]
<1>1. r \in Lsa BY LsaAssumption
<1>2. db[r] \in [Lsa -> Nat] BY DEF TInv
<1>3. db[r][r] \in Nat /\ db[r][r] + 1 \in Nat BY <1>1, <1>2
<1>4. Fresh(r) \in Instance /\ Fresh(r).id = r /\ Fresh(r).ver = db[r][r] + 1
    BY <1>1, <1>3, InstanceIs DEF Fresh
<1> QED BY <1>1, <1>2, <1>3, <1>4

LEMMA FloodedIs ==
    ASSUME TInv, NEW r \in Router, NEW t, t = Flooded(r)
    PROVE  /\ t \in Work /\ t.db = [db[r] EXCEPT ![r] = Fresh(r).ver]
           /\ SameTalk(t.n, nbr[r]) /\ t.n.db_sum = nbr[r].db_sum
           /\ t.n.ls_req = nbr[r].ls_req /\ t.n.events = nbr[r].events
           /\ t.n.rxmt = {i \in nbr[r].rxmt : i.id # r}
                         \cup (IF nbr[r].state \in Exchanging THEN {Fresh(r)} ELSE {})
           /\ t.out = IF nbr[r].state \in Exchanging THEN <<Update(Fresh(r))>> ELSE <<>>
           /\ Sane(t.n)
<1> DEFINE database == [db[r] EXCEPT ![r] = Fresh(r).ver]
           u1 == WithDb(Step(r), database)
           rest == {i \in nbr[r].rxmt : i.id # r}
           u2 == WithRxmt(u1, rest)
           more == rest \cup {Fresh(r)}
           u3 == WithRxmt(u2, more)
<1>0. nbr[r] \in Nbr /\ Sane(nbr[r]) BY DEF TInv
<1>1. u2 = Changed(r) BY StepIs DEF Changed, WithDb, WithRxmt
<1>2. u1 \in Work /\ u1.n = nbr[r] /\ u1.db = database /\ u1.out = <<>>
    BY FreshIs, StepIs, PutDb
<1>3. rest \in SUBSET Instance /\ more \in SUBSET Instance BY <1>0, NbrFields, FreshIs
<1>4. Once(rest) /\ Once(more)
    <2>1. Once(rest) BY <1>0, OnceSub DEF Sane
    <2>2. \A i \in rest : i.id # Fresh(r).id BY FreshIs
    <2> HIDE DEF rest
    <2> QED BY <2>1, <2>2 DEF Once
<1>5. rest = {i \in nbr[r].rxmt : i.id # r} /\ database = [db[r] EXCEPT ![r] = Fresh(r).ver]
    OBVIOUS
<1> HIDE DEF u1, database, rest
<1>6. u2 \in Work /\ Sets(u2, u1, "rxmt", rest) BY <1>2, <1>3, PutRxmt
<1>7. /\ u2.db = database /\ u2.out = <<>> /\ SameTalk(u2.n, nbr[r])
      /\ u2.n.db_sum = nbr[r].db_sum /\ u2.n.ls_req = nbr[r].ls_req
      /\ u2.n.events = nbr[r].events /\ u2.n.rxmt = rest
    BY <1>2, <1>6 DEF Sets, Field, SameTalk
<1>8. CASE nbr[r].state \in Exchanging
    <2>1. t = Emit(u3, <<Update(Fresh(r))>>)
        <3>1. u3 = [Changed(r) EXCEPT !.n.rxmt = @ \cup {Fresh(r)}]
            <4>1. u2.n.rxmt = rest BY <1>7
            <4> HIDE DEF u2
            <4> QED BY <1>1, <4>1 DEF WithRxmt
        <3> QED BY <1>8, <3>1 DEF Flooded, FloodsTo
    <2> HIDE DEF u2, more
    <2>2. u3 \in Work /\ Sets(u3, u2, "rxmt", more) BY <1>3, <1>6, PutRxmt
    <2>3. /\ u3.db = database /\ u3.out = <<>> /\ SameTalk(u3.n, nbr[r])
          /\ u3.n.db_sum = nbr[r].db_sum /\ u3.n.ls_req = nbr[r].ls_req
          /\ u3.n.events = nbr[r].events /\ u3.n.rxmt = more
        BY <1>7, <2>2 DEF Sets, Field, SameTalk
    <2> HIDE DEF u3
    <2>4. <<Update(Fresh(r))>> \in Seq(Packet) BY FreshIs, PacketsAre
    <2>5. /\ t \in Work /\ t.n = u3.n /\ t.db = u3.db
          /\ t.out = u3.out \o <<Update(Fresh(r))>>
        BY <2>1, <2>2, <2>4, EmitIs
    <2>6. t.out = <<Update(Fresh(r))>> BY <2>3, <2>5
    <2>7. Sane(t.n)
        <3>1. Once(t.n.db_sum) /\ Once(t.n.ls_req) /\ Once(t.n.rxmt)
            BY <1>0, <1>4, <2>3, <2>5 DEF Sane
        <3> QED BY <1>0, <2>3, <2>5, <3>1, SaneKept
    <2>8. t.n.rxmt = rest \cup {Fresh(r)} BY <2>3, <2>5 DEF more
    <2> QED BY <1>5, <1>8, <2>3, <2>5, <2>6, <2>7, <2>8
<1>9. CASE nbr[r].state \notin Exchanging
    <2>1. t = u2 BY <1>1, <1>9 DEF Flooded, FloodsTo
    <2> HIDE DEF u2
    <2>2. Sane(u2.n)
        <3>1. Once(u2.n.db_sum) /\ Once(u2.n.ls_req) /\ Once(u2.n.rxmt)
            BY <1>0, <1>4, <1>7 DEF Sane
        <3> QED BY <1>0, <1>7, <3>1, SaneKept
    <2>3. t.n.rxmt = rest \cup {} BY <1>7, <2>1
    <2> QED BY <1>5, <1>6, <1>7, <1>9, <2>1, <2>2, <2>3
<1> QED BY <1>8, <1>9

LEMMA TOriginate == ASSUME TInv, NEW r \in Router, Originate(r) PROVE TInv'
<1>1. Done(r, Flooded(r), link[r]) BY DEF Originate, Flooded, Changed, Fresh
<1>2. Flooded(r) \in Work /\ Sane(Flooded(r).n) BY FloodedIs
<1>3. link[r] \in Seq(Packet) /\ losses' \in Nat /\ outages' \in Nat /\ changes' \in Nat
    BY DEF Originate, TInv
<1> QED BY <1>1, <1>2, <1>3, TypedDone

LEMMA TAccidents ==
    ASSUME TInv, NEW r \in Router, Lose(r) \/ InactivityTimer(r) \/ DbDescFreeTimer(r)
    PROVE  TInv'
<1>1. CASE Lose(r)
    <2>1. link[r] \in Seq(Packet) /\ link[r] # <<>> BY <1>1 DEF Lose, TInv
    <2>2. Tail(link[r]) \in Seq(Packet) BY <2>1
    <2>3. link' \in [Router -> Seq(Packet)] BY <1>1, <2>2 DEF Lose, TInv
    <2> QED BY <1>1, <2>3 DEF Lose, TInv
<1>2. CASE InactivityTimer(r)
    <2>1. nbr' \in [Router -> Nbr] /\ \A q \in Router : Sane(nbr'[q])
        BY <1>2, NoNbrIs DEF InactivityTimer, TInv
    <2> QED BY <1>2, <2>1 DEF InactivityTimer, TInv
<1>3. CASE DbDescFreeTimer(r)
    <2> DEFINE m == [nbr[r] EXCEPT !.sent = NoDd]
    <2>0. nbr[r] \in Nbr /\ Sane(nbr[r]) BY DEF TInv
    <2>1. nbr[r].state \in {"Loading", "Full"} BY <1>3 DEF DbDescFreeTimer
    <2>2. m \in Nbr BY <2>0, NoNbrIs, SetSent
    <2>3. /\ m.state = nbr[r].state /\ m.seq = nbr[r].seq /\ m.sent = NoDd
          /\ m.t_db_desc = nbr[r].t_db_desc
          /\ m.db_sum = nbr[r].db_sum /\ m.ls_req = nbr[r].ls_req /\ m.rxmt = nbr[r].rxmt
        BY <2>0, NbrFields
    <2>4. nbr' = [nbr EXCEPT ![r] = m] BY <1>3 DEF DbDescFreeTimer
    <2> HIDE DEF m
    <2>5. Sane(m) BY <2>0, <2>1, <2>3 DEF Sane
    <2>6. nbr' \in [Router -> Nbr] /\ \A q \in Router : Sane(nbr'[q])
        BY <2>2, <2>4, <2>5 DEF TInv
    <2>7. db' = db /\ link' = link /\ losses' = losses /\ changes' = changes
        BY <1>3 DEF DbDescFreeTimer
    <2>8. outages' \in Nat BY <1>3 DEF DbDescFreeTimer, TInv
    <2>9. /\ db \in [Router -> [Lsa -> Nat]] /\ link \in [Router -> Seq(Packet)]
          /\ losses \in Nat /\ changes \in Nat
        BY DEF TInv
    <2> HIDE <1>3
    <2> QED BY <2>6, <2>7, <2>8, <2>9 DEF TInv
<1> QED BY <1>1, <1>2, <1>3

LEMMA TNext == TInv /\ [Next]_vars => TInv'
<1> SUFFICES ASSUME TInv, [Next]_vars PROVE TInv' OBVIOUS
<1>1. CASE Next
    <2>1. PICK r \in Router :
            \/ Receive(r) \/ RunEvent(r)
            \/ DbDescTimer(r) \/ LsReqTimer(r) \/ LsUpdTimer(r) \/ HelloTimer(r)
            \/ Originate(r)
            \/ Lose(r) \/ InactivityTimer(r) \/ DbDescFreeTimer(r)
        BY <1>1 DEF Next
    <2> QED BY <2>1, TReceive, TRunEvent, TTimers, TOriginate, TAccidents
<1>2. CASE UNCHANGED vars BY <1>2 DEF vars, TInv
<1> QED BY <1>1, <1>2

LEMMA TImplies == TInv => TypeOK
<1> SUFFICES ASSUME TInv, NEW r \in Router
    PROVE  /\ nbr[r].state \in {"Down", "Init", "ExStart"} \cup Exchanging
           /\ nbr[r].seq \in Nat /\ nbr[r].flags \subseteq Flag
           /\ nbr[r].sent.says \subseteq Instance
           /\ Cardinality(nbr[r].sent.says) <= MaxPerDd
           /\ \A list \in {nbr[r].db_sum, nbr[r].ls_req, nbr[r].rxmt} :
                 list \subseteq Instance /\ \A i, j \in list : i.id = j.id => i = j
           /\ ToSet(nbr[r].events) \subseteq Event
           /\ nbr[r].t_db_desc => nbr[r].sent # NoDd
    BY DEF TypeOK, TInv
<1>0. nbr[r] \in Nbr /\ Sane(nbr[r]) BY DEF TInv
<1>1. /\ nbr[r].state \in {"Down", "Init", "ExStart"} \cup Exchanging
      /\ nbr[r].seq \in Nat /\ nbr[r].flags \subseteq Flag
      /\ nbr[r].sent.says \subseteq Instance
    BY <1>0, NbrFields, DdFields DEF State
<1>2. Cardinality(nbr[r].sent.says) <= MaxPerDd
    <2>1. Cardinality(NoDd.says) <= MaxPerDd BY NoNbrIs, FS_EmptySet, BoundAssumption
    <2> QED BY <1>0, <2>1 DEF Sane, SentDd, Fits
<1>3. /\ nbr[r].db_sum \subseteq Instance /\ nbr[r].ls_req \subseteq Instance
      /\ nbr[r].rxmt \subseteq Instance
    BY <1>0, NbrFields
<1>4. \A list \in {nbr[r].db_sum, nbr[r].ls_req, nbr[r].rxmt} :
         list \subseteq Instance /\ \A i, j \in list : i.id = j.id => i = j
    BY <1>0, <1>3 DEF Sane, Once
<1>5. ToSet(nbr[r].events) \subseteq Event
    <2>1. nbr[r].events \in Seq(Event) BY <1>0, NbrFields
    <2> QED BY <2>1 DEF ToSet
<1>6. nbr[r].t_db_desc => nbr[r].sent # NoDd BY <1>0, NoNbrIs DEF Sane
<1> QED BY <1>1, <1>2, <1>4, <1>5, <1>6

\* A description fits in its packet, a list names an LSA once, and the timer that repeats
\* a description has one to repeat, through outages and restarts of the exchange
\* (ospf_db_desc_send and the assertion of ospf_nfsm_db_desc_timer).
THEOREM TypeCorrect == Spec => []TypeOK
<1>1. Spec => []TInv BY TInit, TNext, PTL DEF Spec
<1> QED BY <1>1, TImplies, PTL

----------------------------------------------------------------------------
(* The exchange, while nothing is broken off.                               *)
(*                                                                          *)
(* Inv says how far the exchange has come (Session: nothing agreed, the slave *)
(* alone, a description on its way to the slave, its answer on the way to the  *)
(* master, over), and of each direction which hellos can still be under way    *)
(* (Greets), that what the packets say of the databases is so (Told) and that   *)
(* what the neighbour lacks is still to be described, asked for or repeated      *)
(* (Owed).  It begins with Hail, the description both routers open with.        *)

Hail == Dd(10, Flag, {})
Early == {"Down", "Init", "ExStart"}
\* Before the exchange there is nothing to tell or to ask.
Blank(n) ==
    /\ n.db_sum = {} /\ n.ls_req = {} /\ n.rxmt = {} /\ n.events = <<>>
    /\ IF n.state = "ExStart" THEN n.seq = 10 /\ n.flags = Flag /\ n.sent = Hail
       ELSE n.seq = 0 /\ n.sent = NoDd

\* x comes before y in q.
Before(q, x, y) == \E k, m \in DOMAIN q : k < m /\ q[k] = x /\ q[m] = y

Cold(x) == x.kind = "hello" /\ ~x.seen
IsDd(x) == x.kind = "dd"
Same(d, e) == d.seq = e.seq /\ d.flags = e.flags
AllDds(q, d) == \A x \in ToSet(q) : IsDd(x) => x = d
Queue(q, old, cur) ==
    /\ \A x \in ToSet(q) : IsDd(x) => Same(x, old) \/ x = cur
    /\ \A y \in ToSet(q) : Before(q, cur, y) /\ IsDd(y) => y = cur

\* The hellos: q leads to the router that keeps n, its neighbour keeps p.
Greets(n, q, p) ==
    /\ n.state \in Early => Blank(n)
    /\ \A x, y \in ToSet(q) : Before(q, x, y) /\ ~Cold(x) => ~Cold(y)
    /\ p.state = "Down" => n.state \in {"Down", "Init"} /\ \A x \in ToSet(q) : Cold(x)
    /\ n.state \notin {"Down", "Init"} => \A x \in ToSet(q) : ~Cold(x)
    /\ p.state \in {"Down", "Init"} => \A x \in ToSet(q) : x.kind = "hello"
    /\ p.state = "ExStart" => \A x \in ToSet(q) : x.kind \in {"hello", "dd"}
    /\ n.state = "Down" => p.state \in {"Down", "Init"}

\* The exchange of descriptions, S is what the slave keeps, M the master.
Over(n) == n.state \in {"Loading", "Full"} \/ "ExchangeDone" \in ToSet(n.events)
SlaveIs(S) ==
    /\ S.state \in Exchanging
    /\ S.flags = S.sent.flags /\ S.sent.seq = S.seq /\ S.recv.seq = S.seq
    /\ "MS" \notin S.flags /\ "I" \notin S.flags /\ "MS" \in S.recv.flags
    /\ Over(S) <=> "M" \notin S.flags /\ "M" \notin S.recv.flags
    /\ "M" \notin S.flags => S.db_sum = {}
MasterIs(M) ==
    /\ M.state \in Exchanging
    /\ M.flags = M.sent.flags /\ M.seq = M.recv.seq + 1
    /\ "MS" \in M.flags /\ "I" \notin M.flags /\ "MS" \notin M.recv.flags
    /\ "M" \notin M.flags => M.db_sum = {}
PhaseA(S, M, q1, q2) ==
    /\ S.state \in Early /\ M.state \in Early /\ AllDds(q1, Hail) /\ AllDds(q2, Hail)
PhaseB(S, M, q1, q2) ==
    /\ SlaveIs(S) /\ M.state = "ExStart" /\ S.seq = 10 /\ S.recv = Hail /\ S.ls_req = {}
    /\ AllDds(q1, Hail) /\ Queue(q2, Hail, S.sent)
Asked(S, M, q1, q2) ==
    /\ SlaveIs(S) /\ MasterIs(M) /\ ~Over(M) /\ ~Over(S)
    /\ M.seq = S.seq + 1 /\ M.sent.seq = M.seq /\ Same(M.recv, S.sent)
    /\ AllDds(q2, S.sent) /\ Queue(q1, S.recv, M.sent)
Answered(S, M, q1, q2) ==
    /\ SlaveIs(S) /\ MasterIs(M) /\ ~Over(M)
    /\ M.seq = S.seq /\ M.sent.seq = M.seq /\ Same(S.recv, M.sent)
    /\ AllDds(q1, M.sent) /\ Queue(q2, M.recv, S.sent)
Finished(S, M, q1, q2) ==
    /\ SlaveIs(S) /\ MasterIs(M) /\ Over(M) /\ Over(S)
    /\ M.seq = S.seq + 1 /\ M.sent.seq = S.seq /\ Same(M.recv, S.sent) /\ Same(S.recv, M.sent)
    /\ "M" \notin M.flags
    /\ AllDds(q1, M.sent) /\ AllDds(q2, S.sent)
Session(S, M, q1, q2) ==
    \/ PhaseA(S, M, q1, q2) \/ PhaseB(S, M, q1, q2) \/ Asked(S, M, q1, q2)
    \/ Answered(S, M, q1, q2) \/ Finished(S, M, q1, q2)

\* What the packets in q to router r say is so: r keeps n and D, its neighbour p and d.
ToldOne(x, n, D, d) ==
    /\ x.kind = "dd" => \A i \in x.says : i.ver <= d[i.id]
    /\ x.kind = "upd" => /\ x.lsa.ver <= d[x.lsa.id]
                         /\ \A i \in n.ls_req : i.id = x.lsa.id => i.ver <= x.lsa.ver
    /\ x.kind = "ack" => x.lsa.ver <= d[x.lsa.id]
    /\ x.kind = "req" => \A a \in x.ids : D[a] # 0
Older(x, y) ==
    x.kind = "dd" /\ y.kind = "upd" => \A i \in x.says : i.id = y.lsa.id => i.ver <= y.lsa.ver
Told(r, n, q, p, D, d) ==
    /\ D[Peer(r)] <= d[Peer(r)]
    /\ \A x \in ToSet(q) : ToldOne(x, n, D, d)
    /\ \A x, y \in ToSet(q) : Before(q, x, y) => Older(x, y)
    /\ \A i \in p.sent.says : i.ver <= d[i.id]
    /\ \A i \in n.ls_req : D[i.id] < i.ver /\ i.ver <= d[i.id]
    /\ \A i \in n.rxmt : i.id = r /\ i.ver = D[r]

\* What n has yet to say to p.
Unread(r, n, p) ==
    IF r = 1 THEN p.state \in Early \/ p.seq = n.seq ELSE n.sent.seq # p.seq
ToSay(r, n, p) == n.db_sum \cup (IF Unread(r, n, p) THEN n.sent.says ELSE {})
Owed(r, n, p, D, d) ==
    /\ n.state \in Exchanging =>
         \A a \in Lsa : D[a] > d[a] =>
             [id |-> a, ver |-> D[a]] \in n.rxmt \cup p.ls_req \cup ToSay(r, n, p)
    /\ \A i \in ToSay(r, n, p), j \in p.ls_req : i.id # j.id
    /\ \A i \in n.db_sum, j \in n.sent.says : i.id # j.id
Loaded(n) ==
    /\ n.state = "Full" => n.ls_req = {}
    /\ "LoadingDone" \in ToSet(n.events) => n.state \in {"Loading", "Full"} /\ n.ls_req = {}
Calm(n) == ToSet(n.events) \cap {"SeqNumberMismatch", "BadLSReq"} = {}

Half(r, n, D, q, p, d) ==
    Greets(n, q, p) /\ Told(r, n, q, p, D, d) /\ Owed(r, n, p, D, d) /\ Loaded(n) /\ Calm(n)
Talk(r, n, q, p, w) == IF r = 1 THEN Session(n, p, q, w) ELSE Session(p, n, w, q)

\* r keeps n and D and reads q, its neighbour keeps p and d and reads w.
Whole(r, n, D, q, p, d, w) ==
    Talk(r, n, q, p, w) /\ Half(r, n, D, q, p, d) /\ Half(Peer(r), p, d, w, n, D)

Inv ==
    outages = 0 => Whole(1, nbr[1], db[1], link[1], nbr[2], db[2], link[2])

----------------------------------------------------------------------------
(* Order in a queue.                                                        *)

\* rest is q with something taken off its head.
Less(rest, q) ==
    /\ ToSet(rest) \subseteq ToSet(q)
    /\ \A x, y : Before(rest, x, y) => Before(q, x, y)

LEMMA TailLess ==
    ASSUME NEW q \in Seq(Packet), q # <<>>
    PROVE  /\ Less(Tail(q), q)
           /\ \A y \in ToSet(Tail(q)) : Before(q, Head(q), y)
<1>0. Head(q) = q[1] /\ Len(q) \in Nat /\ Len(q) > 0 /\ DOMAIN q = 1..Len(q) OBVIOUS
<1>1. /\ DOMAIN Tail(q) = 1..(Len(q) - 1)
      /\ \A k \in DOMAIN Tail(q) : Tail(q)[k] = q[k + 1] /\ k + 1 \in DOMAIN q
    BY <1>0
<1>2. ASSUME NEW x, NEW y, Before(Tail(q), x, y) PROVE Before(q, x, y)
    <2>1. PICK k, m \in DOMAIN Tail(q) : k < m /\ Tail(q)[k] = x /\ Tail(q)[m] = y
        BY <1>2 DEF Before
    <2>2. k + 1 < m + 1 /\ k + 1 \in DOMAIN q /\ m + 1 \in DOMAIN q BY <1>1, <2>1
    <2> QED BY <1>1, <2>1, <2>2 DEF Before
<1>3. ASSUME NEW y \in ToSet(Tail(q)) PROVE Before(q, Head(q), y)
    <2>1. PICK k \in DOMAIN Tail(q) : y = Tail(q)[k] BY DEF ToSet
    <2>2. 1 < k + 1 /\ k + 1 \in DOMAIN q /\ 1 \in DOMAIN q BY <1>0, <1>1, <2>1
    <2> QED BY <1>0, <1>1, <2>1, <2>2 DEF Before
<1> QED BY <1>2, <1>3, TailIs DEF Less

LEMMA Appended ==
    ASSUME NEW q \in Seq(Packet), NEW o \in Seq(Packet)
    PROVE  /\ ToSet(q \o o) = ToSet(q) \cup ToSet(o)
           /\ \A x, y : Before(q \o o, x, y) =>
                 \/ Before(q, x, y)
                 \/ x \in ToSet(q \o o) /\ y \in ToSet(o)
<1> DEFINE a == q \o o
<1>0. /\ Len(q) \in Nat /\ Len(o) \in Nat /\ DOMAIN q = 1..Len(q) /\ DOMAIN o = 1..Len(o)
      /\ DOMAIN a = 1..(Len(q) + Len(o))
      /\ \A k \in DOMAIN q : a[k] = q[k] /\ k \in DOMAIN a
      /\ \A k \in DOMAIN o : a[Len(q) + k] = o[k] /\ Len(q) + k \in DOMAIN a
    OBVIOUS
<1>1. \A k \in DOMAIN a : \/ k \in DOMAIN q /\ a[k] = q[k]
                          \/ k > Len(q) /\ k - Len(q) \in DOMAIN o /\ a[k] = o[k - Len(q)]
    OBVIOUS
<1> HIDE DEF a
<1>2. ToSet(a) = ToSet(q) \cup ToSet(o)
    <2>1. ASSUME NEW x \in ToSet(a) PROVE x \in ToSet(q) \cup ToSet(o)
        <3>1. PICK k \in DOMAIN a : x = a[k] BY DEF ToSet
        <3> QED BY <1>1, <3>1 DEF ToSet
    <2>2. ASSUME NEW x \in ToSet(q) PROVE x \in ToSet(a)
        <3>1. PICK k \in DOMAIN q : x = q[k] BY DEF ToSet
        <3> QED BY <1>0, <3>1 DEF ToSet
    <2>3. ASSUME NEW x \in ToSet(o) PROVE x \in ToSet(a)
        <3>1. PICK k \in DOMAIN o : x = o[k] BY DEF ToSet
        <3> QED BY <1>0, <3>1 DEF ToSet
    <2> QED BY <2>1, <2>2, <2>3
<1>3. ASSUME NEW x, NEW y, Before(a, x, y)
      PROVE  Before(q, x, y) \/ (x \in ToSet(a) /\ y \in ToSet(o))
    <2>1. PICK k, m \in DOMAIN a : k < m /\ a[k] = x /\ a[m] = y BY <1>3 DEF Before
    <2>2. CASE m \in DOMAIN q
        <3>0. k \in 1..(Len(q) + Len(o)) /\ m \in 1..Len(q) /\ k < m BY <1>0, <2>1, <2>2
        <3>1. k \in DOMAIN q
            <4> HIDE <2>1, <2>2
            <4> QED BY <1>0, <3>0
        <3>2. q[k] = x /\ q[m] = y BY <1>0, <2>1, <2>2, <3>1
        <3> QED BY <2>1, <2>2, <3>1, <3>2 DEF Before
    <2>3. CASE m \notin DOMAIN q
        <3>1. y \in ToSet(o) BY <1>1, <2>1, <2>3 DEF ToSet
        <3>2. x \in ToSet(a) BY <2>1 DEF ToSet
        <3> QED BY <3>1, <3>2
    <2> QED BY <2>2, <2>3
<1> QED BY <1>2, <1>3 DEF a

LEMMA OneIs ==
    ASSUME NEW x
    PROVE  ToSet(<<x>>) = {x}
<1>1. DOMAIN <<x>> = {1} OBVIOUS
<1> QED BY <1>1 DEF ToSet

LEMMA LessSelf == \A q : Less(q, q)
BY DEF Less

LEMMA LessTalk ==
    ASSUME NEW S, NEW M, NEW q1, NEW q2, NEW a1, NEW a2, Less(a1, q1), Less(a2, q2),
           Session(S, M, q1, q2)
    PROVE  Session(S, M, a1, a2)
<1>1. /\ \A d : AllDds(q1, d) => AllDds(a1, d)
      /\ \A d : AllDds(q2, d) => AllDds(a2, d)
    BY DEF AllDds, Less
<1>2. /\ \A d, e : Queue(q1, d, e) => Queue(a1, d, e)
      /\ \A d, e : Queue(q2, d, e) => Queue(a2, d, e)
    BY DEF Queue, Less
<1>3. CASE PhaseA(S, M, q1, q2) BY <1>1, <1>3 DEF PhaseA, Session
<1>4. CASE PhaseB(S, M, q1, q2) BY <1>1, <1>2, <1>4 DEF PhaseB, Session
<1>5. CASE Asked(S, M, q1, q2) BY <1>1, <1>2, <1>5 DEF Asked, Session
<1>6. CASE Answered(S, M, q1, q2) BY <1>1, <1>2, <1>6 DEF Answered, Session
<1>7. CASE Finished(S, M, q1, q2) BY <1>1, <1>7 DEF Finished, Session
<1> QED BY <1>3, <1>4, <1>5, <1>6, <1>7 DEF Session

\* A packet may be taken off, read or lost.
LEMMA LessWhole ==
    ASSUME NEW r, NEW n, NEW D, NEW q, NEW p, NEW d, NEW w, NEW rest, Less(rest, q),
           Whole(r, n, D, q, p, d, w)
    PROVE  Whole(r, n, D, rest, p, d, w)
<1>1. Talk(r, n, rest, p, w) BY LessSelf, LessTalk DEF Talk, Whole
<1>2. Greets(n, rest, p)
    <2>1. Greets(n, q, p) BY DEF Whole, Half
    <2> QED BY <2>1 DEF Greets, Less
<1>3. Told(r, n, rest, p, D, d)
    <2>1. Told(r, n, q, p, D, d) BY DEF Whole, Half
    <2> QED BY <2>1 DEF Told, Less
<1> QED BY <1>1, <1>2, <1>3 DEF Whole, Half

\* What a router that keeps n and D may send at any time.
Sendable(x, n, D) ==
    /\ x.kind = "hello" => x.seen = (n.state # "Down")
    /\ x.kind = "dd" => x = n.sent /\ n.state \notin {"Down", "Init"}
    /\ x.kind = "req" => n.state \in Exchanging /\ x.ids = {i.id : i \in n.ls_req}
    /\ x.kind = "upd" => n.state \in Exchanging /\ x.lsa.ver = D[x.lsa.id]
    /\ x.kind = "ack" => n.state \in Exchanging /\ x.lsa.ver <= D[x.lsa.id]

LEMMA InQueue ==
    ASSUME NEW q \in Seq(Packet), NEW x \in ToSet(q)
    PROVE  x \in Packet
BY DEF ToSet

LEMMA GreetsEmit ==
    ASSUME NEW n \in Nbr, NEW p \in Nbr, NEW D, NEW q, NEW w \in Seq(Packet), NEW o \in Seq(Packet),
           Greets(n, q, p), Greets(p, w, n), \A x \in ToSet(o) : Sendable(x, n, D)
    PROVE  Greets(p, w \o o, n)
<1>1. /\ ToSet(w \o o) = ToSet(w) \cup ToSet(o)
      /\ \A x, y : Before(w \o o, x, y) =>
            Before(w, x, y) \/ (x \in ToSet(w \o o) /\ y \in ToSet(o))
    BY Appended
<1>2. \A x \in ToSet(o) : x.kind \in {"dd", "hello", "req", "upd", "ack"}
    BY InQueue, PacketKinds
<1>3. n.state = "Down" => \A x \in ToSet(w \o o) : Cold(x)
    <2> SUFFICES ASSUME n.state = "Down", NEW x \in ToSet(w \o o) PROVE Cold(x) OBVIOUS
    <2>1. CASE x \in ToSet(w) BY <2>1 DEF Greets
    <2>2. CASE x \in ToSet(o)
        <3>1. Sendable(x, n, D) BY <2>2
        <3>2. x.kind = "hello" BY <1>2, <2>2, <3>1 DEF Sendable, Exchanging
        <3> QED BY <3>1, <3>2 DEF Cold, Sendable
    <2> QED BY <1>1, <2>1, <2>2
<1>4. n.state # "Down" => \A x \in ToSet(o) : ~Cold(x) BY DEF Sendable, Cold
<1>5. \A x, y \in ToSet(w \o o) : Before(w \o o, x, y) /\ ~Cold(x) => ~Cold(y)
    <2> SUFFICES ASSUME NEW x \in ToSet(w \o o), NEW y \in ToSet(w \o o),
                        Before(w \o o, x, y), ~Cold(x)
        PROVE  ~Cold(y)
        OBVIOUS
    <2>1. CASE Before(w, x, y)
        <3>1. x \in ToSet(w) /\ y \in ToSet(w) BY <2>1 DEF Before, ToSet
        <3> QED BY <2>1, <3>1 DEF Greets
    <2>2. CASE y \in ToSet(o)
        <3>1. n.state # "Down" BY <1>3
        <3> QED BY <1>4, <2>2, <3>1
    <2> QED BY <1>1, <2>1, <2>2
<1>6. p.state \notin {"Down", "Init"} => \A x \in ToSet(w \o o) : ~Cold(x)
    <2>1. p.state \notin {"Down", "Init"} => n.state # "Down" BY DEF Greets
    <2>2. p.state \notin {"Down", "Init"} => \A x \in ToSet(w) : ~Cold(x) BY DEF Greets
    <2> QED BY <1>1, <1>4, <2>1, <2>2
<1>7. n.state \in {"Down", "Init"} => \A x \in ToSet(w \o o) : x.kind = "hello"
    <2>1. n.state \in {"Down", "Init"} => \A x \in ToSet(o) : x.kind = "hello"
        BY <1>2 DEF Sendable, Exchanging
    <2> QED BY <1>1, <2>1 DEF Greets
<1>8. n.state = "ExStart" => \A x \in ToSet(w \o o) : x.kind \in {"hello", "dd"}
    <2>1. n.state = "ExStart" => \A x \in ToSet(o) : x.kind \in {"hello", "dd"}
        BY <1>2 DEF Sendable, Exchanging
    <2> QED BY <1>1, <2>1 DEF Greets
<1>9. /\ p.state \in Early => Blank(p)
      /\ n.state = "Down" => p.state \in {"Down", "Init"}
      /\ p.state = "Down" => n.state \in {"Down", "Init"}
    BY DEF Greets
<1> QED BY <1>3, <1>5, <1>6, <1>7, <1>8, <1>9 DEF Greets

LEMMA ToldEmit ==
    ASSUME NEW r \in Router, NEW n \in Nbr, NEW p \in Nbr,
           NEW D \in [Lsa -> Nat], NEW d \in [Lsa -> Nat],
           NEW q, NEW w \in Seq(Packet), NEW o \in Seq(Packet),
           Told(r, n, q, p, D, d), Told(Peer(r), p, w, n, d, D),
           \A x \in ToSet(o) : Sendable(x, n, D)
    PROVE  Told(Peer(r), p, w \o o, n, d, D)
<1>1. /\ ToSet(w \o o) = ToSet(w) \cup ToSet(o)
      /\ \A x, y : Before(w \o o, x, y) =>
            Before(w, x, y) \/ (x \in ToSet(w \o o) /\ y \in ToSet(o))
    BY Appended
<1>2. \A x \in ToSet(o) :
         /\ x.kind \in {"upd", "ack"} => x.lsa.id \in Lsa /\ x.lsa.ver \in Nat
    BY InQueue, PacketKinds, InstanceIs
<1>3. ASSUME NEW x \in ToSet(o) PROVE ToldOne(x, p, d, D)
    <2>0. Sendable(x, n, D) BY <1>3
    <2>1. x.kind = "dd" => \A i \in x.says : i.ver <= D[i.id]
        BY <2>0 DEF Sendable, Told
    <2>2. x.kind = "upd" => /\ x.lsa.ver <= D[x.lsa.id]
                            /\ \A i \in p.ls_req : i.id = x.lsa.id => i.ver <= x.lsa.ver
        <3>1. ASSUME x.kind = "upd" PROVE x.lsa.ver <= D[x.lsa.id]
            <4>1. x.lsa.ver \in Nat /\ x.lsa.ver = D[x.lsa.id] BY <1>2, <2>0, <3>1 DEF Sendable
            <4> QED BY <4>1
        <3>2. ASSUME x.kind = "upd", NEW i \in p.ls_req, i.id = x.lsa.id
              PROVE  i.ver <= x.lsa.ver
            <4>1. i.ver <= D[i.id] BY DEF Told
            <4>2. x.lsa.ver = D[x.lsa.id] BY <2>0, <3>2 DEF Sendable
            <4> QED BY <3>2, <4>1, <4>2
        <3> QED BY <3>1, <3>2
    <2>3. x.kind = "ack" => x.lsa.ver <= D[x.lsa.id] BY <2>0 DEF Sendable
    <2>4. x.kind = "req" => \A a \in x.ids : d[a] # 0
        <3> SUFFICES ASSUME x.kind = "req", NEW a \in x.ids PROVE d[a] # 0 OBVIOUS
        <3>1. PICK i \in n.ls_req : a = i.id BY <2>0 DEF Sendable
        <3>2. D[a] < i.ver /\ i.ver <= d[a] BY <3>1 DEF Told
        <3>3. i \in Instance BY <3>1, NbrFields
        <3>4. D[a] \in Nat /\ d[a] \in Nat /\ i.ver \in Nat BY <3>1, <3>3, InstanceIs
        <3> QED BY <3>2, <3>4
    <2> QED BY <2>1, <2>2, <2>3, <2>4 DEF ToldOne
<1>4. \A x \in ToSet(w \o o) : ToldOne(x, p, d, D) BY <1>1, <1>3 DEF Told
<1>5. ASSUME NEW x \in ToSet(w \o o), NEW y \in ToSet(w \o o), Before(w \o o, x, y)
      PROVE  Older(x, y)
    <2>1. CASE Before(w, x, y)
        <3>1. x \in ToSet(w) /\ y \in ToSet(w) BY <2>1 DEF Before, ToSet
        <3> QED BY <2>1, <3>1 DEF Told
    <2>2. CASE y \in ToSet(o)
        <3> SUFFICES ASSUME x.kind = "dd", y.kind = "upd", NEW i \in x.says, i.id = y.lsa.id
            PROVE  i.ver <= y.lsa.ver
            BY DEF Older
        <3>1. i.ver <= D[i.id] BY <1>4 DEF ToldOne
        <3>2. y.lsa.ver = D[y.lsa.id] BY <2>2 DEF Sendable
        <3> QED BY <3>1, <3>2
    <2> QED BY <1>1, <1>5, <2>1, <2>2
<1> QED BY <1>4, <1>5 DEF Told

LEMMA OneMore ==
    ASSUME NEW w \in Seq(Packet), NEW o \in Seq(Packet), NEW e, NEW c,
           \A x \in ToSet(o) : IsDd(x) => x = c
    PROVE  /\ AllDds(w, c) => AllDds(w \o o, c)
           /\ Queue(w, e, c) => Queue(w \o o, e, c)
<1>1. /\ ToSet(w \o o) = ToSet(w) \cup ToSet(o)
      /\ \A x, y : Before(w \o o, x, y) =>
            Before(w, x, y) \/ (x \in ToSet(w \o o) /\ y \in ToSet(o))
    BY Appended
<1>2. \A x, y : Before(w, x, y) => x \in ToSet(w) /\ y \in ToSet(w) BY DEF Before, ToSet
<1>3. AllDds(w, c) => AllDds(w \o o, c) BY <1>1 DEF AllDds
<1>4. ASSUME Queue(w, e, c) PROVE Queue(w \o o, e, c)
    <2>1. \A x \in ToSet(w \o o) : IsDd(x) => Same(x, e) \/ x = c BY <1>1, <1>4 DEF Queue
    <2>2. \A y \in ToSet(w \o o) : Before(w \o o, c, y) /\ IsDd(y) => y = c
        BY <1>1, <1>2, <1>4 DEF Queue
    <2> QED BY <2>1, <2>2 DEF Queue
<1> QED BY <1>3, <1>4

LEMMA TalkEmit ==
    ASSUME NEW r \in Router, NEW n \in Nbr, NEW p \in Nbr, NEW D,
           NEW q, NEW w \in Seq(Packet), NEW o \in Seq(Packet),
           Talk(r, n, q, p, w), Greets(n, q, p), \A x \in ToSet(o) : Sendable(x, n, D)
    PROVE  Talk(r, n, q, p, w \o o)
<1> DEFINE v == w \o o
<1>1. \A x \in ToSet(o) : IsDd(x) => x = n.sent /\ n.state \notin {"Down", "Init"}
    BY DEF Sendable, IsDd
<1>2. n.state = "ExStart" => n.sent = Hail BY DEF Greets, Blank, Early
<1>3. (\E x \in ToSet(o) : IsDd(x)) /\ n.state \in Early => n.sent = Hail
    BY <1>1, <1>2 DEF Early
<1>4. \A e : /\ AllDds(w, n.sent) => AllDds(v, n.sent)
             /\ Queue(w, e, n.sent) => Queue(v, e, n.sent)
    BY <1>1, OneMore
<1>5. n.state \in Early /\ AllDds(w, Hail) => AllDds(v, Hail)
    <2> SUFFICES ASSUME n.state \in Early, AllDds(w, Hail) PROVE AllDds(v, Hail) OBVIOUS
    <2>1. \A x \in ToSet(o) : IsDd(x) => x = Hail BY <1>1, <1>3
    <2> QED BY <2>1, OneMore
<1> HIDE DEF v
<1>6. CASE r = 1
    <2>1. Session(n, p, q, w) BY <1>6 DEF Talk
    <2>2. PhaseA(n, p, q, w) => PhaseA(n, p, q, v) BY <1>5 DEF PhaseA
    <2>3. PhaseB(n, p, q, w) => PhaseB(n, p, q, v) BY <1>4 DEF PhaseB
    <2>4. Asked(n, p, q, w) => Asked(n, p, q, v) BY <1>4 DEF Asked
    <2>5. Answered(n, p, q, w) => Answered(n, p, q, v) BY <1>4 DEF Answered
    <2>6. Finished(n, p, q, w) => Finished(n, p, q, v) BY <1>4 DEF Finished
    <2>7. Session(n, p, q, v) BY <2>1, <2>2, <2>3, <2>4, <2>5, <2>6 DEF Session
    <2> QED BY <1>6, <2>7 DEF Talk, v
<1>7. CASE r # 1
    <2>1. Session(p, n, w, q) BY <1>7 DEF Talk
    <2>2. PhaseA(p, n, w, q) => PhaseA(p, n, v, q) BY <1>5 DEF PhaseA
    <2>3. ASSUME PhaseB(p, n, w, q) PROVE PhaseB(p, n, v, q)
        <3>1. n.state \in Early BY <2>3 DEF PhaseB, Early
        <3> QED BY <1>5, <2>3, <3>1 DEF PhaseB
    <2>4. Asked(p, n, w, q) => Asked(p, n, v, q) BY <1>4 DEF Asked
    <2>5. Answered(p, n, w, q) => Answered(p, n, v, q) BY <1>4 DEF Answered
    <2>6. Finished(p, n, w, q) => Finished(p, n, v, q) BY <1>4 DEF Finished
    <2>7. Session(p, n, v, q) BY <2>1, <2>2, <2>3, <2>4, <2>5, <2>6 DEF Session
    <2> QED BY <1>7, <2>7 DEF Talk, v
<1> QED BY <1>6, <1>7

\* What may be sent disturbs nothing.
LEMMA EmitWhole ==
    ASSUME NEW r \in Router, NEW n \in Nbr, NEW p \in Nbr,
           NEW D \in [Lsa -> Nat], NEW d \in [Lsa -> Nat],
           NEW q, NEW w \in Seq(Packet), NEW o \in Seq(Packet),
           Whole(r, n, D, q, p, d, w), \A x \in ToSet(o) : Sendable(x, n, D)
    PROVE  Whole(r, n, D, q, p, d, w \o o)
<1>1. /\ Talk(r, n, q, p, w) /\ Greets(n, q, p) /\ Greets(p, w, n)
      /\ Told(r, n, q, p, D, d) /\ Told(Peer(r), p, w, n, d, D)
    BY DEF Whole, Half
<1>2. Talk(r, n, q, p, w \o o) BY <1>1, TalkEmit
<1>3. Greets(p, w \o o, n) BY <1>1, GreetsEmit
<1>4. Told(Peer(r), p, w \o o, n, d, D) BY <1>1, ToldEmit
<1> QED BY <1>2, <1>3, <1>4 DEF Whole, Half

----------------------------------------------------------------------------
(* A step that leaves the exchange of descriptions alone.                   *)

SameExchange(m, n) ==
    /\ m.seq = n.seq /\ m.flags = n.flags /\ m.recv = n.recv /\ m.sent = n.sent
    /\ m.db_sum = n.db_sum
    /\ Over(m) = Over(n)
    /\ \/ n.state \in Early /\ m.state = n.state
       \/ n.state \in Exchanging /\ m.state \in Exchanging

\* The database only grows, what is asked for and got is struck off, and what is flooded
\* is repeated until the neighbour, which keeps d, has it.
Quiet(r, n, m, D, E, d) ==
    /\ SameExchange(m, n)
    /\ n.state \in Early => m.ls_req = {} /\ m.rxmt = {} /\ m.events = <<>>
    /\ \A a \in Lsa : D[a] <= E[a]
    /\ E[Peer(r)] <= d[Peer(r)]
    /\ m.ls_req \subseteq n.ls_req
    /\ \A i \in m.ls_req : E[i.id] < i.ver
    /\ \A i \in n.ls_req \ m.ls_req : i.ver <= E[i.id]
    /\ \A i \in m.rxmt : i.id = r /\ i.ver = E[r]
    /\ n.state \in Exchanging =>
          \A a \in Lsa : E[a] > d[a] =>
              \/ [id |-> a, ver |-> E[a]] \in m.rxmt
              \/ /\ E[a] = D[a]
                 /\ [id |-> a, ver |-> D[a]] \in n.rxmt => [id |-> a, ver |-> D[a]] \in m.rxmt
    /\ Loaded(m) /\ Calm(m)

LEMMA QuietTalk ==
    ASSUME NEW r \in Router, NEW n, NEW m, NEW q, NEW p, NEW w,
           SameExchange(m, n), m.ls_req \subseteq n.ls_req, Talk(r, n, q, p, w)
    PROVE  Talk(r, m, q, p, w)
<1>1. SlaveIs(n) => SlaveIs(m) BY DEF SlaveIs, SameExchange, Early, Exchanging
<1>2. MasterIs(n) => MasterIs(m) BY DEF MasterIs, SameExchange, Early, Exchanging
<1>3. n.state \in Early => m.state \in Early BY DEF SameExchange, Early, Exchanging
<1>4. CASE r = 1
    <2>1. Session(n, p, q, w) BY <1>4 DEF Talk
    <2>2. PhaseA(n, p, q, w) => PhaseA(m, p, q, w) BY <1>3 DEF PhaseA
    <2>3. ASSUME PhaseB(n, p, q, w) PROVE PhaseB(m, p, q, w)
        <3>1. m.ls_req = {} BY <2>3 DEF PhaseB
        <3> QED BY <1>1, <2>3, <3>1 DEF PhaseB, SameExchange
    <2>4. Asked(n, p, q, w) => Asked(m, p, q, w) BY <1>1 DEF Asked, SameExchange
    <2>5. Answered(n, p, q, w) => Answered(m, p, q, w) BY <1>1 DEF Answered, SameExchange
    <2>6. Finished(n, p, q, w) => Finished(m, p, q, w) BY <1>1 DEF Finished, SameExchange
    <2>7. Session(m, p, q, w) BY <2>1, <2>2, <2>3, <2>4, <2>5, <2>6 DEF Session
    <2> QED BY <1>4, <2>7 DEF Talk
<1>5. CASE r # 1
    <2>1. Session(p, n, w, q) BY <1>5 DEF Talk
    <2>2. PhaseA(p, n, w, q) => PhaseA(p, m, w, q) BY <1>3 DEF PhaseA
    <2>3. ASSUME PhaseB(p, n, w, q) PROVE PhaseB(p, m, w, q)
        <3>1. m.state = "ExStart" BY <2>3 DEF PhaseB, SameExchange, Early, Exchanging
        <3> QED BY <2>3, <3>1 DEF PhaseB
    <2>4. Asked(p, n, w, q) => Asked(p, m, w, q) BY <1>2 DEF Asked, SameExchange
    <2>5. Answered(p, n, w, q) => Answered(p, m, w, q) BY <1>2 DEF Answered, SameExchange
    <2>6. Finished(p, n, w, q) => Finished(p, m, w, q) BY <1>2 DEF Finished, SameExchange
    <2>7. Session(p, m, w, q) BY <2>1, <2>2, <2>3, <2>4, <2>5, <2>6 DEF Session
    <2> QED BY <1>5, <2>7 DEF Talk
<1> QED BY <1>4, <1>5

LEMMA QuietGreets ==
    ASSUME NEW n, NEW m, NEW q, NEW p, NEW w, SameExchange(m, n),
           n.state \in Early => Blank(n) /\ m.ls_req = {} /\ m.rxmt = {} /\ m.events = <<>>,
           Greets(n, q, p), Greets(p, w, n)
    PROVE  Greets(m, q, p) /\ Greets(p, w, m)
<1>1. CASE n.state \in Early /\ m.state = n.state
    <2>1. Blank(m) BY <1>1 DEF Blank, SameExchange
    <2> QED BY <1>1, <2>1 DEF Greets
<1>2. CASE n.state \in Exchanging /\ m.state \in Exchanging
    <2>1. n.state \notin Early /\ m.state \notin Early BY <1>2 DEF Early, Exchanging
    <2>2. p.state # "Down" BY <2>1 DEF Greets, Early
    <2>3. \A x \in ToSet(q) : ~Cold(x) BY <2>1 DEF Greets, Early
    <2>4. Greets(m, q, p) BY <2>1, <2>2, <2>3 DEF Greets, Early
    <2>5. Greets(p, w, m) BY <2>1, <2>2 DEF Greets, Early
    <2> QED BY <2>4, <2>5
<1> QED BY <1>1, <1>2 DEF SameExchange

LEMMA QuietTold ==
    ASSUME NEW r \in Router, NEW n \in Nbr, NEW m \in Nbr, NEW p \in Nbr,
           NEW D \in [Lsa -> Nat], NEW E \in [Lsa -> Nat], NEW d \in [Lsa -> Nat],
           NEW q \in Seq(Packet), NEW w \in Seq(Packet), Quiet(r, n, m, D, E, d),
           Told(r, n, q, p, D, d), Told(Peer(r), p, w, n, d, D)
    PROVE  Told(r, m, q, p, E, d) /\ Told(Peer(r), p, w, m, d, E)
<1>0. \A a \in Lsa : D[a] <= E[a] /\ D[a] \in Nat /\ E[a] \in Nat /\ d[a] \in Nat BY DEF Quiet
<1>1. m.ls_req \subseteq n.ls_req /\ m.sent = n.sent BY DEF Quiet, SameExchange
<1>2. \A x : x \in ToSet(q) \/ x \in ToSet(w) => x \in Packet BY InQueue
<1>3. ASSUME NEW x \in ToSet(q) PROVE ToldOne(x, m, E, d)
    <2>0. ToldOne(x, n, D, d) /\ x \in Packet BY <1>2 DEF Told
    <2>1. x.kind = "req" => \A a \in x.ids : E[a] # 0
        <3> SUFFICES ASSUME x.kind = "req", NEW a \in x.ids PROVE E[a] # 0 OBVIOUS
        <3>1. a \in Lsa BY <2>0, PacketKinds
        <3>2. D[a] # 0 BY <2>0 DEF ToldOne
        <3>3. D[a] <= E[a] /\ D[a] \in Nat /\ E[a] \in Nat BY <1>0, <3>1
        <3> QED BY <3>2, <3>3
    <2> QED BY <1>1, <2>0, <2>1 DEF ToldOne
<1>4. ASSUME NEW x \in ToSet(w) PROVE ToldOne(x, p, d, E)
    <2>0. ToldOne(x, p, d, D) /\ x \in Packet BY <1>2 DEF Told
    <2>1. x.kind = "dd" => \A i \in x.says : i.ver <= E[i.id]
        <3> SUFFICES ASSUME x.kind = "dd", NEW i \in x.says PROVE i.ver <= E[i.id] OBVIOUS
        <3>1. x \in SentDd BY <2>0, PacketKinds
        <3>2. i \in Instance BY <3>1 DEF SentDd, Description
        <3>3. i.ver <= D[i.id] BY <2>0 DEF ToldOne
        <3>4. i.id \in Lsa /\ i.ver \in Nat BY <3>2, InstanceIs
        <3>5. D[i.id] <= E[i.id] /\ D[i.id] \in Nat /\ E[i.id] \in Nat BY <1>0, <3>4
        <3> QED BY <3>3, <3>4, <3>5
    <2>2. x.kind \in {"upd", "ack"} => x.lsa.ver <= E[x.lsa.id]
        <3> SUFFICES ASSUME x.kind \in {"upd", "ack"} PROVE x.lsa.ver <= E[x.lsa.id] OBVIOUS
        <3>1. x.lsa \in Instance BY <2>0, PacketKinds
        <3>2. x.lsa.ver <= D[x.lsa.id] BY <2>0 DEF ToldOne
        <3>3. x.lsa.id \in Lsa /\ x.lsa.ver \in Nat BY <3>1, InstanceIs
        <3>4. /\ D[x.lsa.id] <= E[x.lsa.id] /\ D[x.lsa.id] \in Nat /\ E[x.lsa.id] \in Nat
            BY <1>0, <3>3
        <3> QED BY <3>2, <3>3, <3>4
    <2> QED BY <2>0, <2>1, <2>2 DEF ToldOne
<1>5. Told(r, m, q, p, E, d)
    <2>1. E[Peer(r)] <= d[Peer(r)] BY DEF Quiet
    <2>2. \A i \in m.ls_req : E[i.id] < i.ver /\ i.ver <= d[i.id] BY DEF Quiet, Told
    <2>3. \A i \in m.rxmt : i.id = r /\ i.ver = E[r] BY DEF Quiet
    <2> QED BY <1>3, <2>1, <2>2, <2>3 DEF Told
<1>6. Told(Peer(r), p, w, m, d, E)
    <2>0. Peer(Peer(r)) = r /\ r \in Lsa BY PeerIs, LsaAssumption
    <2>1. d[r] <= E[r]
        <3>1. d[r] <= D[r] BY <2>0 DEF Told
        <3>2. D[r] <= E[r] /\ D[r] \in Nat /\ E[r] \in Nat /\ d[r] \in Nat BY <1>0, <2>0
        <3> QED BY <3>1, <3>2
    <2>2. ASSUME NEW i \in Instance, i.ver <= D[i.id] PROVE i.ver <= E[i.id]
        <3>1. i.id \in Lsa /\ i.ver \in Nat BY InstanceIs
        <3>2. D[i.id] <= E[i.id] /\ D[i.id] \in Nat /\ E[i.id] \in Nat BY <1>0, <3>1
        <3> QED BY <2>2, <3>1, <3>2
    <2>3. \A i \in m.sent.says : i.ver <= E[i.id]
        <3>1. \A i \in m.sent.says : i.ver <= D[i.id] BY <1>1 DEF Told
        <3>2. m.sent.says \in SUBSET Instance BY NbrFields, DdFields
        <3> QED BY <2>2, <3>1, <3>2
    <2>4. \A i \in p.ls_req : d[i.id] < i.ver /\ i.ver <= E[i.id]
        <3>1. \A i \in p.ls_req : d[i.id] < i.ver /\ i.ver <= D[i.id] BY DEF Told
        <3>2. p.ls_req \in SUBSET Instance BY NbrFields
        <3> QED BY <2>2, <3>1, <3>2
    <2>5. \A x, y \in ToSet(w) : Before(w, x, y) => Older(x, y) BY DEF Told
    <2>6. \A i \in p.rxmt : i.id = Peer(r) /\ i.ver = d[Peer(r)] BY DEF Told
    <2>7. d[Peer(Peer(r))] <= E[Peer(Peer(r))] BY <2>0, <2>1
    <2> QED BY <1>4, <2>3, <2>4, <2>5, <2>6, <2>7 DEF Told
<1> QED BY <1>5, <1>6

LEMMA SayOwn ==
    ASSUME NEW r, NEW n, NEW m, NEW p, SameExchange(m, n)
    PROVE  ToSay(r, m, p) = ToSay(r, n, p)
<1>1. Unread(r, m, p) = Unread(r, n, p) BY DEF Unread, SameExchange
<1> QED BY <1>1 DEF ToSay, SameExchange

LEMMA SayPeer ==
    ASSUME NEW r, NEW n, NEW m, NEW p, SameExchange(m, n)
    PROVE  ToSay(r, p, m) = ToSay(r, p, n)
<1>1. (m.state \in Early) = (n.state \in Early) BY DEF SameExchange, Early, Exchanging
<1>2. Unread(r, p, m) = Unread(r, p, n) BY <1>1 DEF Unread, SameExchange
<1> QED BY <1>2 DEF ToSay, SameExchange

LEMMA QuietOwed ==
    ASSUME NEW r \in Router, NEW n \in Nbr, NEW m \in Nbr, NEW p \in Nbr,
           NEW D \in [Lsa -> Nat], NEW E \in [Lsa -> Nat], NEW d \in [Lsa -> Nat],
           Quiet(r, n, m, D, E, d),
           Owed(r, n, p, D, d), Owed(Peer(r), p, n, d, D)
    PROVE  Owed(r, m, p, E, d) /\ Owed(Peer(r), p, m, d, E)
<1>0. SameExchange(m, n) BY DEF Quiet
<1>1. /\ ToSay(r, m, p) = ToSay(r, n, p)
      /\ ToSay(Peer(r), p, m) = ToSay(Peer(r), p, n)
    BY <1>0, SayOwn, SayPeer
<1>2. m.db_sum = n.db_sum /\ m.sent = n.sent /\ m.ls_req \subseteq n.ls_req
    BY <1>0 DEF SameExchange, Quiet
<1>3. ASSUME m.state \in Exchanging, NEW a \in Lsa, E[a] > d[a]
      PROVE  [id |-> a, ver |-> E[a]] \in m.rxmt \cup p.ls_req \cup ToSay(r, m, p)
    <2>1. n.state \in Exchanging BY <1>0, <1>3 DEF SameExchange, Early, Exchanging
    <2>2. \/ [id |-> a, ver |-> E[a]] \in m.rxmt
          \/ /\ E[a] = D[a]
             /\ [id |-> a, ver |-> D[a]] \in n.rxmt => [id |-> a, ver |-> D[a]] \in m.rxmt
        BY <1>3, <2>1 DEF Quiet
    <2>3. CASE [id |-> a, ver |-> E[a]] \in m.rxmt BY <2>3
    <2>4. CASE /\ E[a] = D[a]
               /\ [id |-> a, ver |-> D[a]] \in n.rxmt => [id |-> a, ver |-> D[a]] \in m.rxmt
        <3>1. D[a] > d[a] BY <1>3, <2>4
        <3>2. [id |-> a, ver |-> D[a]] \in n.rxmt \cup p.ls_req \cup ToSay(r, n, p)
            BY <2>1, <3>1 DEF Owed
        <3> QED BY <1>1, <2>4, <3>2
    <2> QED BY <2>2, <2>3, <2>4
<1>4. ASSUME p.state \in Exchanging, NEW a \in Lsa, d[a] > E[a]
      PROVE  [id |-> a, ver |-> d[a]] \in p.rxmt \cup m.ls_req \cup ToSay(Peer(r), p, m)
    <2>1. D[a] <= E[a] /\ D[a] \in Nat /\ E[a] \in Nat /\ d[a] \in Nat BY DEF Quiet
    <2>2. d[a] > D[a] BY <1>4, <2>1
    <2>3. [id |-> a, ver |-> d[a]] \in p.rxmt \cup n.ls_req \cup ToSay(Peer(r), p, n)
        BY <1>4, <2>2 DEF Owed
    <2>4. ASSUME [id |-> a, ver |-> d[a]] \in n.ls_req
          PROVE  [id |-> a, ver |-> d[a]] \in m.ls_req
        <3> DEFINE i == [id |-> a, ver |-> d[a]]
        <3>1. i.id = a /\ i.ver = d[a] OBVIOUS
        <3> HIDE DEF i
        <3>2. ~(i.ver <= E[i.id]) BY <1>4, <2>1, <3>1
        <3>3. i \in n.ls_req BY <2>4 DEF i
        <3>4. i \in m.ls_req BY <3>2, <3>3 DEF Quiet
        <3> QED BY <3>4 DEF i
    <2> QED BY <1>1, <2>3, <2>4
<1>5. Owed(r, m, p, E, d) BY <1>1, <1>2, <1>3 DEF Owed
<1>6. Owed(Peer(r), p, m, d, E) BY <1>1, <1>2, <1>4 DEF Owed
<1> QED BY <1>5, <1>6

LEMMA QuietWhole ==
    ASSUME NEW r \in Router, NEW n \in Nbr, NEW m \in Nbr, NEW p \in Nbr,
           NEW D \in [Lsa -> Nat], NEW E \in [Lsa -> Nat], NEW d \in [Lsa -> Nat],
           NEW q \in Seq(Packet), NEW w \in Seq(Packet), Quiet(r, n, m, D, E, d),
           Whole(r, n, D, q, p, d, w)
    PROVE  Whole(r, m, E, q, p, d, w)
<1>1. /\ Talk(r, n, q, p, w) /\ Greets(n, q, p) /\ Greets(p, w, n)
      /\ Told(r, n, q, p, D, d) /\ Told(Peer(r), p, w, n, d, D)
      /\ Owed(r, n, p, D, d) /\ Owed(Peer(r), p, n, d, D)
      /\ Loaded(p) /\ Calm(p)
    BY DEF Whole, Half
<1>2. SameExchange(m, n) /\ m.ls_req \subseteq n.ls_req /\ Loaded(m) /\ Calm(m) BY DEF Quiet
<1>3. Talk(r, m, q, p, w) BY <1>1, <1>2, QuietTalk
<1>4. Greets(m, q, p) /\ Greets(p, w, m)
    <2>1. n.state \in Early => Blank(n) /\ m.ls_req = {} /\ m.rxmt = {} /\ m.events = <<>>
        BY <1>1 DEF Quiet, Greets
    <2> QED BY <1>1, <1>2, <2>1, QuietGreets
<1>5. Told(r, m, q, p, E, d) /\ Told(Peer(r), p, w, m, d, E) BY <1>1, QuietTold
<1>6. Owed(r, m, p, E, d) /\ Owed(Peer(r), p, m, d, E) BY <1>1, QuietOwed
<1> QED BY <1>1, <1>2, <1>3, <1>4, <1>5, <1>6 DEF Whole, Half

----------------------------------------------------------------------------
(* A step of the exchange: a description is read, perhaps another one sent.   *)

LEMMA AsksAre ==
    ASSUME NEW n \in Nbr, NEW x \in SentDd, NEW D \in [Lsa -> Nat]
    PROVE  \A i \in Asks(n, x, D) :
              i \in Instance /\ (i \in n.ls_req \/ (i \in x.says /\ i.ver > D[i.id]))
BY NbrFields DEF Asks, Wanted, SentDd, Description

LEMMA HeardTold ==
    ASSUME NEW r \in Router, NEW n \in Nbr, NEW m \in Nbr, NEW p \in Nbr,
           NEW D \in [Lsa -> Nat], NEW d \in [Lsa -> Nat],
           NEW q \in Seq(Packet), NEW w \in Seq(Packet), NEW x \in SentDd,
           ToldOne(x, n, D, d), \A y \in ToSet(q) : Older(x, y),
           m.ls_req = Asks(n, x, D), m.rxmt = n.rxmt,
           \A i \in m.sent.says : i.ver <= D[i.id],
           Told(r, n, q, p, D, d), Told(Peer(r), p, w, n, d, D)
    PROVE  Told(r, m, q, p, D, d) /\ Told(Peer(r), p, w, m, d, D)
<1>0. x.kind = "dd" BY DEF SentDd, Description
<1>1. \A i \in m.ls_req :
         i \in Instance /\ (i \in n.ls_req \/ (i \in x.says /\ i.ver > D[i.id]))
    BY AsksAre
<1>2. ASSUME NEW y \in ToSet(q) PROVE ToldOne(y, m, D, d)
    <2>1. ToldOne(y, n, D, d) /\ Older(x, y) BY DEF Told
    <2>2. ASSUME y.kind = "upd", NEW i \in m.ls_req, i.id = y.lsa.id PROVE i.ver <= y.lsa.ver
        BY <1>0, <1>1, <2>1, <2>2 DEF ToldOne, Older
    <2> QED BY <2>1, <2>2 DEF ToldOne
<1>3. ASSUME NEW i \in m.ls_req PROVE D[i.id] < i.ver /\ i.ver <= d[i.id]
    <2>1. CASE i \in n.ls_req BY <2>1 DEF Told
    <2>2. CASE i \in x.says /\ i.ver > D[i.id]
        <3>1. i.ver <= d[i.id] BY <1>0, <2>2 DEF ToldOne
        <3>2. i.id \in Lsa /\ i.ver \in Nat BY <1>1, InstanceIs
        <3>3. D[i.id] \in Nat BY <3>2
        <3> QED BY <2>2, <3>1, <3>2, <3>3
    <2> QED BY <1>1, <2>1, <2>2
<1>4. Told(r, m, q, p, D, d) BY <1>2, <1>3 DEF Told
<1>5. Told(Peer(r), p, w, m, d, D) BY DEF Told
<1> QED BY <1>4, <1>5

\* What the neighbour said is asked for.
LEMMA HeardOwed ==
    ASSUME NEW r \in Router, NEW n \in Nbr, NEW m \in Nbr, NEW p \in Nbr,
           NEW D \in [Lsa -> Nat], NEW d \in [Lsa -> Nat], NEW x \in SentDd,
           x.says = p.sent.says, m.ls_req = Asks(n, x, D),
           ToSay(r, p, n) = p.db_sum \cup x.says, ToSay(r, p, m) = p.db_sum,
           Owed(r, p, n, d, D)
    PROVE  Owed(r, p, m, d, D)
<1>1. \A i \in m.ls_req :
         i \in Instance /\ (i \in n.ls_req \/ (i \in x.says /\ i.ver > D[i.id]))
    BY AsksAre
<1>2. /\ \A i \in p.db_sum, j \in p.sent.says : i.id # j.id
      /\ \A i \in p.db_sum \cup x.says, j \in n.ls_req : i.id # j.id
    BY DEF Owed
<1>3. n.ls_req \subseteq m.ls_req
    <2> SUFFICES ASSUME NEW j \in n.ls_req PROVE j \in Asks(n, x, D) OBVIOUS
    <2>1. \A i \in Wanted(x, D) : i.id # j.id BY <1>2 DEF Wanted
    <2> QED BY <2>1 DEF Asks
<1>4. ASSUME p.state \in Exchanging, NEW a \in Lsa, d[a] > D[a]
      PROVE  [id |-> a, ver |-> d[a]] \in p.rxmt \cup m.ls_req \cup ToSay(r, p, m)
    <2> DEFINE i == [id |-> a, ver |-> d[a]]
    <2>1. i \in p.rxmt \cup n.ls_req \cup ToSay(r, p, n) BY <1>4 DEF Owed
    <2>2. ASSUME i \in x.says PROVE i \in m.ls_req
        <3>1. i.id = a /\ i.ver = d[a] OBVIOUS
        <3> HIDE DEF i
        <3>2. i.ver > D[i.id] BY <1>4, <3>1
        <3> QED BY <2>2, <3>2 DEF Asks, Wanted
    <2> QED BY <1>3, <2>1, <2>2
<1>5. \A i \in ToSay(r, p, m), j \in m.ls_req : i.id # j.id BY <1>1, <1>2
<1> QED BY <1>2, <1>4, <1>5 DEF Owed

LEMMA SpeaksApart ==
    ASSUME NEW m, NEW n, NEW D, Speaks(m, n, D), Once(n.db_sum)
    PROVE  \A i \in m.db_sum, j \in m.sent.says : i.id # j.id
BY DEF Speaks, Once

\* A description says on.
LEMMA NextOwed ==
    ASSUME NEW r \in Router, NEW n \in Nbr, NEW m \in Nbr, NEW p \in Nbr,
           NEW D \in [Lsa -> Nat], NEW d \in [Lsa -> Nat], n.state \in Exchanging,
           ~Unread(r, n, p), Unread(r, m, p), Speaks(m, n, D), Once(n.db_sum),
           m.rxmt = n.rxmt, Owed(r, n, p, D, d)
    PROVE  Owed(r, m, p, D, d)
<1>1. ToSay(r, n, p) = n.db_sum /\ ToSay(r, m, p) = m.db_sum \cup m.sent.says BY DEF ToSay
<1>2. m.db_sum \subseteq n.db_sum /\ m.sent.says \subseteq n.db_sum BY DEF Speaks
<1>3. \A i \in m.db_sum, j \in m.sent.says : i.id # j.id BY SpeaksApart
<1>4. ASSUME NEW a \in Lsa, D[a] > d[a]
      PROVE  [id |-> a, ver |-> D[a]] \in m.rxmt \cup p.ls_req \cup ToSay(r, m, p)
    <2> DEFINE i == [id |-> a, ver |-> D[a]]
    <2>1. i \in n.rxmt \cup p.ls_req \cup ToSay(r, n, p) BY <1>4 DEF Owed
    <2>2. i.ver = D[i.id] OBVIOUS
    <2> HIDE DEF i
    <2>3. i \in n.db_sum => i \in m.db_sum \cup m.sent.says BY <2>2 DEF Speaks
    <2>4. i \in m.rxmt \cup p.ls_req \cup ToSay(r, m, p) BY <1>1, <2>1, <2>3
    <2> QED BY <2>4 DEF i
<1>5. \A i \in ToSay(r, m, p), j \in p.ls_req : i.id # j.id
    BY <1>1, <1>2 DEF Owed
<1> QED BY <1>3, <1>4, <1>5 DEF Owed

\* The first description says the database.
LEMMA FirstOwed ==
    ASSUME NEW r \in Router, NEW k \in Nbr, NEW m \in Nbr, NEW p \in Nbr,
           NEW D \in [Lsa -> Nat], NEW d \in [Lsa -> Nat],
           k.db_sum = Has(D), p.ls_req = {}, Unread(r, m, p), Speaks(m, k, D)
    PROVE  Owed(r, m, p, D, d)
<1>1. ToSay(r, m, p) = m.db_sum \cup m.sent.says BY DEF ToSay
<1>2. Once(k.db_sum) BY HasIs
<1>3. \A i \in m.db_sum, j \in m.sent.says : i.id # j.id BY <1>2, SpeaksApart
<1>4. ASSUME NEW a \in Lsa, D[a] > d[a]
      PROVE  [id |-> a, ver |-> D[a]] \in m.rxmt \cup p.ls_req \cup ToSay(r, m, p)
    <2> DEFINE i == [id |-> a, ver |-> D[a]]
    <2>1. D[a] \in Nat /\ d[a] \in Nat OBVIOUS
    <2>2. D[a] # 0 BY <1>4, <2>1
    <2>3. i \in Has(D) BY <2>2, HasIs
    <2>4. i.ver = D[i.id] OBVIOUS
    <2> HIDE DEF i
    <2>5. i \in m.db_sum \cup m.sent.says BY <2>3, <2>4 DEF Speaks
    <2> QED BY <1>1, <2>5 DEF i
<1> QED BY <1>3, <1>4 DEF Owed

----------------------------------------------------------------------------
(* The same of a handler that has come to s: v was under way to the neighbour.  *)

Holds(r, s, q, p, d, v) == Whole(r, s.n, s.db, q, p, d, v \o s.out)

LEMMA Joined ==
    ASSUME NEW a \in Seq(Packet), NEW b \in Seq(Packet), NEW c \in Seq(Packet)
    PROVE  (a \o b) \o c = a \o (b \o c)
BY ConcatAssociative

LEMMA LessHolds ==
    ASSUME NEW r, NEW s, NEW q, NEW p, NEW d, NEW v, NEW rest, Less(rest, q),
           Holds(r, s, q, p, d, v)
    PROVE  Holds(r, s, rest, p, d, v)
BY LessWhole DEF Holds

LEMMA SayHolds ==
    ASSUME NEW r \in Router, NEW s \in Work, NEW t \in Work, NEW p \in Nbr,
           NEW d \in [Lsa -> Nat], NEW q, NEW v \in Seq(Packet), NEW o \in Seq(Packet),
           t.n = s.n, t.db = s.db, t.out = s.out \o o,
           \A x \in ToSet(o) : Sendable(x, s.n, s.db), Holds(r, s, q, p, d, v)
    PROVE  Holds(r, t, q, p, d, v)
<1>1. s.n \in Nbr /\ s.db \in [Lsa -> Nat] /\ s.out \in Seq(Packet) BY WorkFields
<1>2. v \o s.out \in Seq(Packet) BY <1>1
<1>3. Whole(r, s.n, s.db, q, p, d, (v \o s.out) \o o)
    BY <1>1, <1>2, EmitWhole DEF Holds
<1>4. (v \o s.out) \o o = v \o t.out
    <2>1. (v \o s.out) \o o = v \o (s.out \o o) BY <1>1, Joined
    <2> QED BY <2>1
<1> QED BY <1>3, <1>4 DEF Holds

\* A quiet step sends on.
LEMMA MoveWhole ==
    ASSUME NEW r \in Router, NEW n \in Nbr, NEW m \in Nbr, NEW p \in Nbr,
           NEW D \in [Lsa -> Nat], NEW E \in [Lsa -> Nat], NEW d \in [Lsa -> Nat],
           NEW q \in Seq(Packet), NEW w \in Seq(Packet), NEW o \in Seq(Packet),
           Quiet(r, n, m, D, E, d), Whole(r, n, D, q, p, d, w),
           \A x \in ToSet(o) : Sendable(x, m, E)
    PROVE  Whole(r, m, E, q, p, d, w \o o)
<1>1. Whole(r, m, E, q, p, d, w) BY QuietWhole
<1> QED BY <1>1, EmitWhole

LEMMA MoveHolds ==
    ASSUME NEW r \in Router, NEW s \in Work, NEW t \in Work, NEW p \in Nbr,
           NEW d \in [Lsa -> Nat], NEW q \in Seq(Packet), NEW v \in Seq(Packet),
           NEW o \in Seq(Packet), t.out = s.out \o o, Quiet(r, s.n, t.n, s.db, t.db, d),
           \A x \in ToSet(o) : Sendable(x, t.n, t.db), Holds(r, s, q, p, d, v)
    PROVE  Holds(r, t, q, p, d, v)
<1> DEFINE n == s.n
           m == t.n
           D == s.db
           E == t.db
           w == v \o s.out
<1>1. n \in Nbr /\ m \in Nbr /\ D \in [Lsa -> Nat] /\ E \in [Lsa -> Nat] /\ s.out \in Seq(Packet)
    BY WorkFields
<1>2. w \in Seq(Packet) BY <1>1
<1>3. Quiet(r, n, m, D, E, d) OBVIOUS
<1>4. Whole(r, n, D, q, p, d, w) BY DEF Holds
<1>5. \A x \in ToSet(o) : Sendable(x, m, E) OBVIOUS
<1>6. w \o o = v \o t.out
    <2>1. (v \o s.out) \o o = v \o (s.out \o o) BY <1>1, Joined
    <2> QED BY <2>1
<1> HIDE DEF n, m, D, E, w
<1>7. Whole(r, m, E, q, p, d, w \o o) BY <1>1, <1>2, <1>3, <1>4, <1>5, MoveWhole
<1> QED BY <1>6, <1>7 DEF Holds, m, E

\* Who has not begun finds nobody further than ExStart.
LEMMA NotBegun ==
    ASSUME NEW r \in Router, NEW n, NEW q, NEW p, NEW w,
           n.state \in {"Down", "Init"}, Talk(r, n, q, p, w)
    PROVE  p.state \in Early /\ AllDds(q, Hail) /\ AllDds(w, Hail)
<1>1. n.state \notin Exchanging /\ n.state # "ExStart" BY DEF Exchanging
<1>2. CASE r = 1
    <2>1. Session(n, p, q, w) BY <1>2 DEF Talk
    <2>2. ~SlaveIs(n) BY <1>1 DEF SlaveIs
    <2>3. PhaseA(n, p, q, w)
        BY <2>1, <2>2 DEF Session, PhaseB, Asked, Answered, Finished
    <2> QED BY <2>3 DEF PhaseA
<1>3. CASE r # 1
    <2>1. Session(p, n, w, q) BY <1>3 DEF Talk
    <2>2. ~MasterIs(n) BY <1>1 DEF MasterIs
    <2>3. PhaseA(p, n, w, q)
        BY <1>1, <2>1, <2>2 DEF Session, PhaseB, Asked, Answered, Finished
    <2> QED BY <2>3 DEF PhaseA
<1> QED BY <1>2, <1>3

LEMMA StartHolds ==
    ASSUME NEW r \in Router, NEW s \in Work, NEW p \in Nbr, NEW d \in [Lsa -> Nat],
           NEW q \in Seq(Packet), NEW v \in Seq(Packet), outages = 0,
           s.n.state \in {"Down", "Init"}, p.state # "Down", \A x \in ToSet(q) : ~Cold(x),
           Holds(r, s, q, p, d, v), NEW t, t = Start(s)
    PROVE  /\ t \in Work /\ t.db = s.db /\ t.n.state = "ExStart" /\ t.n.events = <<>>
           /\ Holds(r, t, q, p, d, v)
<1> DEFINE n == s.n
           m == t.n
           w == v \o s.out
<1>0. n \in Nbr /\ s.db \in [Lsa -> Nat] /\ s.out \in Seq(Packet) BY WorkFields
<1>1. w \in Seq(Packet) BY <1>0
<1>2. /\ Talk(r, n, q, p, w) /\ Greets(n, q, p) /\ Greets(p, w, n)
      /\ Told(r, n, q, p, s.db, d) /\ Told(Peer(r), p, w, n, d, s.db)
      /\ Owed(r, n, p, s.db, d) /\ Owed(Peer(r), p, n, d, s.db)
      /\ Loaded(p) /\ Calm(p)
    BY DEF Holds, Whole, Half
<1>3. Blank(n) BY <1>2 DEF Greets, Early
<1>4. n.db_sum = {} /\ n.ls_req = {} /\ n.rxmt = {} /\ n.events = <<>> /\ n.seq = 0
    BY <1>3 DEF Blank
<1>5. Once(n.db_sum) BY <1>4 DEF Once
<1>6. /\ t \in Work /\ t.db = s.db /\ t.out = s.out \o <<t.n.sent>>
      /\ t.n.state = "ExStart" /\ t.n.flags = Flag /\ t.n.recv = s.n.recv
      /\ t.n.seq = IF s.n.seq = 0 THEN 10 * (1 + outages) ELSE s.n.seq + 1
      /\ t.n.seq > 0 /\ t.n.t_db_desc /\ t.n.t_ls_req = s.n.t_ls_req
      /\ t.n.ls_req = s.n.ls_req /\ t.n.rxmt = s.n.rxmt /\ t.n.events = s.n.events
      /\ t.n.sent \in SentDd /\ t.n.sent.seq = t.n.seq /\ t.n.sent.flags = Flag
      /\ t.n.db_sum \subseteq s.n.db_sum /\ t.n.sent.says \subseteq s.n.db_sum
      /\ \A i \in t.n.sent.says : i.ver = s.db[i.id]
    BY <1>5, StartIs
<1>7. m.seq = 10 BY <1>4, <1>6
<1>8. m.sent = Hail
    <2>1. m.sent \in Description BY <1>6 DEF SentDd
    <2>2. m.sent.seq = 10 /\ m.sent.flags = Flag /\ m.sent.says = {} BY <1>4, <1>6, <1>7
    <2> QED BY <2>1, <2>2, DdFields DEF Hail
<1>9. /\ m \in Nbr /\ m.state = "ExStart" /\ m.flags = Flag
      /\ m.db_sum = {} /\ m.ls_req = {} /\ m.rxmt = {} /\ m.events = <<>>
    BY <1>4, <1>6, WorkFields
<1>10. Hail.says = {} /\ Hail.kind = "dd" BY DEF Hail, Dd
<1>11. <<m.sent>> \in Seq(Packet) /\ ToSet(<<m.sent>>) = {m.sent} BY <1>6, PacketsAre, OneIs
<1>12. t \in Work /\ t.db = s.db /\ t.out = s.out \o <<m.sent>> BY <1>6
<1> HIDE DEF m, w, n
<1>13. /\ p.state \in Early /\ AllDds(q, Hail) /\ AllDds(w, Hail)
    BY <1>2, NotBegun DEF n
<1>14. Talk(r, m, q, p, w) BY <1>9, <1>13 DEF Talk, Session, PhaseA, Early
<1>15. Greets(m, q, p)
    <2>1. Blank(m) BY <1>7, <1>8, <1>9 DEF Blank
    <2> QED BY <1>2, <1>9, <2>1 DEF Greets
<1>16. Greets(p, w, m)
    <2>1. \A x \in ToSet(w) : x.kind = "hello" BY <1>2 DEF Greets, n
    <2> QED BY <1>2, <1>9, <2>1 DEF Greets
<1>17. Told(r, m, q, p, s.db, d)
    BY <1>2, <1>4, <1>9 DEF Told, ToldOne
<1>18. Told(Peer(r), p, w, m, d, s.db)
    BY <1>2, <1>8, <1>10 DEF Told
<1>19. Owed(r, m, p, s.db, d)
    <2>1. ToSay(r, m, p) = {} BY <1>8, <1>9, <1>10 DEF ToSay
    <2>2. m.state \notin Exchanging BY <1>9 DEF Exchanging
    <2> QED BY <1>9, <2>1, <2>2 DEF Owed
<1>20. Owed(Peer(r), p, m, d, s.db)
    <2>1. p.state \notin Exchanging BY <1>13 DEF Exchanging, Early
    <2> QED BY <1>2, <1>9, <2>1 DEF Owed
<1>21. Loaded(m) /\ Calm(m) BY <1>9 DEF Loaded, Calm, ToSet
<1>22. Whole(r, m, s.db, q, p, d, w)
    BY <1>2, <1>14, <1>15, <1>16, <1>17, <1>18, <1>19, <1>20, <1>21 DEF Whole, Half
<1>23. \A x \in ToSet(<<m.sent>>) : Sendable(x, m, s.db)
    BY <1>8, <1>9, <1>10, <1>11 DEF Sendable
<1>24. Whole(r, m, s.db, q, p, d, w \o <<m.sent>>)
    BY <1>0, <1>1, <1>9, <1>11, <1>22, <1>23, EmitWhole
<1>25. w \o <<m.sent>> = v \o t.out
    <2>1. w \o <<m.sent>> = v \o (s.out \o <<m.sent>>) BY <1>0, <1>11, Joined DEF w
    <2> QED BY <1>12, <2>1
<1>26. Holds(r, t, q, p, d, v)
    BY <1>12, <1>24, <1>25 DEF Holds, m
<1> QED BY <1>9, <1>12, <1>26 DEF m

----------------------------------------------------------------------------
(* Reading a description.                                                   *)

\* m is n when it has read x, which says the last of p that it had not read.
Learns(r, n, m, x, D, q, p, d) ==
    /\ n.state \notin {"Down", "Init"} /\ m.state = "Exchange"
    /\ m.ls_req = Asks(n, x, D) /\ m.rxmt = n.rxmt /\ ToSet(m.events) \subseteq {"ExchangeDone"}
    /\ ToldOne(x, n, D, d) /\ \A y \in ToSet(q) : Older(x, y)
    /\ \A i \in m.sent.says : i.ver <= D[i.id]
    /\ x.says = p.sent.says
    /\ ToSay(Peer(r), p, n) = p.db_sum \cup x.says /\ ToSay(Peer(r), p, m) = p.db_sum

LEMMA LearnWhole ==
    ASSUME NEW r \in Router, NEW n \in Nbr, NEW m \in Nbr, NEW p \in Nbr,
           NEW D \in [Lsa -> Nat], NEW d \in [Lsa -> Nat],
           NEW q \in Seq(Packet), NEW w \in Seq(Packet), NEW x \in SentDd,
           Learns(r, n, m, x, D, q, p, d), Owed(r, m, p, D, d), Talk(r, m, q, p, w),
           Whole(r, n, D, q, p, d, w)
    PROVE  Whole(r, m, D, q, p, d, w)
<1>1. /\ Greets(n, q, p) /\ Greets(p, w, n)
      /\ Told(r, n, q, p, D, d) /\ Told(Peer(r), p, w, n, d, D)
      /\ Owed(Peer(r), p, n, d, D) /\ Loaded(p) /\ Calm(p)
    BY DEF Whole, Half
<1>2. /\ n.state \notin {"Down", "Init"} /\ m.state = "Exchange"
      /\ m.ls_req = Asks(n, x, D) /\ m.rxmt = n.rxmt
      /\ ToSet(m.events) \subseteq {"ExchangeDone"}
      /\ ToldOne(x, n, D, d) /\ \A y \in ToSet(q) : Older(x, y)
      /\ \A i \in m.sent.says : i.ver <= D[i.id]
      /\ x.says = p.sent.says
      /\ ToSay(Peer(r), p, n) = p.db_sum \cup x.says /\ ToSay(Peer(r), p, m) = p.db_sum
    BY DEF Learns
<1>3. p.state # "Down" BY <1>1, <1>2 DEF Greets
<1>4. Greets(m, q, p)
    <2>1. m.state \notin Early /\ m.state # "Down" BY <1>2 DEF Early
    <2> QED BY <1>1, <1>2, <1>3, <2>1 DEF Greets
<1>5. Greets(p, w, m)
    <2>1. m.state \notin {"Down", "Init", "ExStart"} BY <1>2
    <2> QED BY <1>1, <1>3, <2>1 DEF Greets
<1>6. Told(r, m, q, p, D, d) /\ Told(Peer(r), p, w, m, d, D) BY <1>1, <1>2, HeardTold
<1>7. Owed(Peer(r), p, m, d, D)
    <2>1. Peer(r) \in Router BY PeerIs
    <2>2. Peer(Peer(r)) = r BY PeerIs
    <2> QED BY <1>1, <1>2, <2>1, HeardOwed
<1>8. Loaded(m) /\ Calm(m) BY <1>2 DEF Loaded, Calm
<1> QED BY <1>1, <1>4, <1>5, <1>6, <1>7, <1>8 DEF Whole, Half

\* The same of a handler, which may answer.
Learnt(r, s, t, x, q, p, d, v) ==
    /\ t.db = s.db
    /\ t.out = s.out \/ (t.out = s.out \o <<t.n.sent>> /\ t.n.sent \in SentDd)
    /\ Learns(r, s.n, t.n, x, s.db, q, p, d) /\ Owed(r, t.n, p, s.db, d)
    /\ Talk(r, t.n, q, p, v \o s.out)

LEMMA LearnHolds ==
    ASSUME NEW r \in Router, NEW s \in Work, NEW t \in Work, NEW p \in Nbr,
           NEW d \in [Lsa -> Nat], NEW q \in Seq(Packet), NEW v \in Seq(Packet), NEW x \in SentDd,
           Learnt(r, s, t, x, q, p, d, v), Holds(r, s, q, p, d, v)
    PROVE  Holds(r, t, q, p, d, v)
<1> DEFINE n == s.n
           m == t.n
           D == s.db
           w == v \o s.out
<1>1. n \in Nbr /\ m \in Nbr /\ D \in [Lsa -> Nat] /\ s.out \in Seq(Packet) BY WorkFields
<1>2. w \in Seq(Packet) BY <1>1
<1>3. /\ Learns(r, n, m, x, D, q, p, d) /\ Owed(r, m, p, D, d) /\ Talk(r, m, q, p, w)
      /\ t.db = D /\ (t.out = s.out \/ (t.out = s.out \o <<m.sent>> /\ m.sent \in SentDd))
    BY DEF Learnt
<1>4. Whole(r, n, D, q, p, d, w) BY DEF Holds
<1>5. m.state = "Exchange" BY <1>3 DEF Learns
<1> HIDE DEF n, m, D, w
<1>6. Whole(r, m, D, q, p, d, w) BY <1>1, <1>2, <1>3, <1>4, LearnWhole
<1>7. CASE t.out = s.out BY <1>3, <1>6, <1>7 DEF Holds, m, D, w
<1>8. CASE t.out = s.out \o <<m.sent>> /\ m.sent \in SentDd
    <2>1. <<m.sent>> \in Seq(Packet) /\ ToSet(<<m.sent>>) = {m.sent} BY <1>8, PacketsAre, OneIs
    <2>2. m.sent.kind = "dd" BY <1>8 DEF SentDd, Description
    <2>3. Sendable(m.sent, m, D) BY <1>5, <2>2 DEF Sendable
    <2>4. \A y \in ToSet(<<m.sent>>) : Sendable(y, m, D) BY <2>1, <2>3
    <2>5. Whole(r, m, D, q, p, d, w \o <<m.sent>>) BY <1>1, <1>2, <1>6, <2>1, <2>4, EmitWhole
    <2>6. w \o <<m.sent>> = v \o (s.out \o <<m.sent>>) BY <1>1, <2>1, Joined DEF w
    <2> QED BY <1>3, <1>8, <2>5, <2>6 DEF Holds, m, D
<1> QED BY <1>3, <1>7, <1>8

----------------------------------------------------------------------------

LEMMA HeadAll ==
    ASSUME NEW q \in Seq(Packet), q # <<>>, IsDd(Head(q)), NEW c, AllDds(q, c)
    PROVE  Head(q) = c /\ AllDds(Tail(q), c)
BY TailIs DEF AllDds

LEMMA HeadQueue ==
    ASSUME NEW q \in Seq(Packet), q # <<>>, IsDd(Head(q)), NEW e, NEW c, Queue(q, e, c)
    PROVE  \/ Same(Head(q), e)
           \/ Head(q) = c /\ AllDds(Tail(q), c)
<1>1. Head(q) \in ToSet(q) /\ ToSet(Tail(q)) \subseteq ToSet(q) BY TailIs
<1>2. \A y \in ToSet(Tail(q)) : Before(q, Head(q), y) BY TailLess
<1> QED BY <1>1, <1>2 DEF Queue, AllDds

LEMMA NewQueue ==
    ASSUME NEW w, NEW e, NEW o, NEW c, IsDd(c), AllDds(w, e), Same(e, o)
    PROVE  Queue(w, o, c)
<1>1. \A x, y : Before(w, x, y) => x \in ToSet(w) /\ y \in ToSet(w) BY DEF Before, ToSet
<1> QED BY <1>1 DEF Queue, AllDds

LEMMA SaysAre ==
    ASSUME NEW m, NEW k \in Nbr, NEW D \in [Lsa -> Nat], Speaks(m, k, D)
    PROVE  \A i \in m.sent.says : i.ver <= D[i.id]
<1> SUFFICES ASSUME NEW i \in m.sent.says PROVE i.ver <= D[i.id] OBVIOUS
<1>1. i \in k.db_sum /\ i.ver = D[i.id] BY DEF Speaks
<1>2. i \in Instance BY <1>1, NbrFields
<1>3. i.ver \in Nat BY <1>2, InstanceIs
<1> QED BY <1>1, <1>3

LEMMA HailIs == Hail \in SentDd /\ Hail.kind = "dd" /\ Hail.seq = 10 /\ Hail.flags = Flag /\ Hail.says = {}
<1>1. Hail \in Description /\ Hail.kind = "dd" /\ Hail.seq = 10 /\ Hail.flags = Flag /\ Hail.says = {}
    BY DdIs DEF Hail
<1>2. Fits({})
    <2>1. Cardinality({}) = 0 BY FS_EmptySet
    <2>2. 0 <= MaxPerDd BY BoundAssumption
    <2> QED BY <2>1, <2>2 DEF Fits, Once
<1> QED BY <1>1, <1>2 DEF SentDd

\* What a description at the head of the queue finds.
LEMMA DdCame ==
    ASSUME NEW r \in Router, NEW s \in Work, NEW p \in Nbr, NEW d \in [Lsa -> Nat],
           NEW q \in Seq(Packet), NEW v \in Seq(Packet), q # <<>>, Head(q).kind = "dd",
           Holds(r, s, q, p, d, v)
    PROVE  /\ Head(q) \in SentDd /\ IsDd(Head(q)) /\ Tail(q) \in Seq(Packet)
           /\ ToldOne(Head(q), s.n, s.db, d) /\ \A y \in ToSet(Tail(q)) : Older(Head(q), y)
           /\ p.state \notin {"Down", "Init"}
           /\ Holds(r, s, Tail(q), p, d, v)
<1>1. Head(q) \in Packet /\ Head(q) \in ToSet(q) /\ Tail(q) \in Seq(Packet)
      /\ ToSet(Tail(q)) \subseteq ToSet(q)
    BY TailIs
<1>2. Less(Tail(q), q) /\ \A y \in ToSet(Tail(q)) : Before(q, Head(q), y) BY TailLess
<1>3. Greets(s.n, q, p) /\ Told(r, s.n, q, p, s.db, d) BY DEF Holds, Whole, Half
<1>4. p.state \notin {"Down", "Init"} BY <1>1, <1>3 DEF Greets
<1>5. ToldOne(Head(q), s.n, s.db, d) BY <1>1, <1>3 DEF Told
<1>6. \A y \in ToSet(Tail(q)) : Older(Head(q), y) BY <1>1, <1>2, <1>3 DEF Told
<1>7. Head(q) \in SentDd BY <1>1, PacketKinds
<1>8. Holds(r, s, Tail(q), p, d, v) BY <1>2, LessHolds
<1> QED BY <1>1, <1>4, <1>5, <1>6, <1>7, <1>8 DEF IsDd

\* What the slave and the master make of a description.
SlaveDid(t, s, x) ==
    /\ t.db = s.db /\ Heard(t.n, s.n, x, s.db) /\ t.n.seq = x.seq /\ Said(t, s)
    /\ "M" \in x.flags \/ s.n.db_sum # {} => t.n.events = s.n.events
    /\ "M" \notin x.flags /\ s.n.db_sum = {} =>
          ToSet(t.n.events) = ToSet(s.n.events) \cup {"ExchangeDone"}
MasterDid(t, s, x) ==
    /\ t.db = s.db /\ Heard(t.n, s.n, x, s.db) /\ t.n.seq = s.n.seq + 1
    /\ "M" \in x.flags \/ "M" \in s.n.flags => Said(t, s) /\ t.n.events = s.n.events
    /\ "M" \notin x.flags /\ "M" \notin s.n.flags =>
          Silent(t, s) /\ ToSet(t.n.events) = ToSet(s.n.events) \cup {"ExchangeDone"}

LEMMA ProcSlave ==
    ASSUME NEW s \in Work, Once(s.n.db_sum), s.n.seq > 0, NEW x \in SentDd,
           "MS" \notin s.n.flags, NEW t, t = ProcDd(s, x)
    PROVE  t \in Work /\ SlaveDid(t, s, x)
<1>1. /\ t \in Work /\ t.db = s.db /\ Heard(t.n, s.n, x, s.db) /\ t.n.seq > 0
      /\ "MS" \in s.n.flags =>
            /\ t.n.seq = s.n.seq + 1
            /\ IF "M" \notin x.flags /\ "M" \notin s.n.flags
               THEN /\ Silent(t, s)
                    /\ ToSet(t.n.events) = ToSet(s.n.events) \cup {"ExchangeDone"}
               ELSE Said(t, s) /\ t.n.events = s.n.events
      /\ "MS" \notin s.n.flags =>
            /\ t.n.seq = x.seq /\ Said(t, s)
            /\ IF "M" \notin x.flags /\ s.n.db_sum = {}
               THEN ToSet(t.n.events) = ToSet(s.n.events) \cup {"ExchangeDone"}
               ELSE t.n.events = s.n.events
    BY ProcDdIs
<1> QED BY <1>1 DEF SlaveDid

LEMMA ProcMaster ==
    ASSUME NEW s \in Work, Once(s.n.db_sum), s.n.seq > 0, NEW x \in SentDd,
           "MS" \in s.n.flags, NEW t, t = ProcDd(s, x)
    PROVE  t \in Work /\ MasterDid(t, s, x)
<1>1. /\ t \in Work /\ t.db = s.db /\ Heard(t.n, s.n, x, s.db) /\ t.n.seq > 0
      /\ "MS" \in s.n.flags =>
            /\ t.n.seq = s.n.seq + 1
            /\ IF "M" \notin x.flags /\ "M" \notin s.n.flags
               THEN /\ Silent(t, s)
                    /\ ToSet(t.n.events) = ToSet(s.n.events) \cup {"ExchangeDone"}
               ELSE Said(t, s) /\ t.n.events = s.n.events
      /\ "MS" \notin s.n.flags =>
            /\ t.n.seq = x.seq /\ Said(t, s)
            /\ IF "M" \notin x.flags /\ s.n.db_sum = {}
               THEN ToSet(t.n.events) = ToSet(s.n.events) \cup {"ExchangeDone"}
               ELSE t.n.events = s.n.events
    BY ProcDdIs
<1> QED BY <1>1 DEF MasterDid

\* The slave agrees and answers.
LEMMA SlaveStarts ==
    ASSUME NEW s \in Work, NEW p \in Nbr, NEW d \in [Lsa -> Nat],
           NEW q \in Seq(Packet), NEW v \in Seq(Packet), q # <<>>, Head(q).kind = "dd",
           s.n.state = "ExStart", Sane(s.n), Holds(1, s, q, p, d, v),
           NEW t, t = Negotiate(s, Head(q), 1)
    PROVE  t \in Work /\ Holds(1, t, Tail(q), p, d, v)
<1> DEFINE n == s.n
           m == t.n
           D == s.db
           w == v \o s.out
           x == Head(q)
           a == Tail(q)
           u == Agreed(s, 10, {"MS", "I"})
<1>0. 1 \in Router /\ Peer(1) = 2 /\ Peer(1) > 1 BY DEF Router, Peer
<1>1. /\ x \in SentDd /\ IsDd(x) /\ a \in Seq(Packet)
      /\ ToldOne(x, n, D, d) /\ \A y \in ToSet(a) : Older(x, y)
      /\ p.state \notin {"Down", "Init"}
      /\ Holds(1, s, a, p, d, v)
    BY <1>0, DdCame
<1>2. n \in Nbr /\ D \in [Lsa -> Nat] /\ w \in Seq(Packet) BY WorkFields
<1>3. Greets(n, q, p) /\ Greets(p, w, n) /\ Session(n, p, q, w)
    BY DEF Holds, Whole, Half, Talk
<1>4. PhaseA(n, p, q, w)
    <2>1. ~SlaveIs(n) BY DEF SlaveIs, Exchanging
    <2> QED BY <1>3, <2>1 DEF Session, PhaseB, Asked, Answered, Finished
<1>5. AllDds(q, Hail) /\ AllDds(w, Hail) /\ p.state \in Early BY <1>4 DEF PhaseA
<1>6. x = Hail /\ AllDds(a, Hail)
    <2> HIDE DEF a
    <2>1. IsDd(Head(q)) BY <1>1
    <2> QED BY <1>5, <2>1, HeadAll DEF a
<1>7. p.state = "ExStart" BY <1>1, <1>5 DEF Early
<1>8. /\ n.ls_req = {} /\ n.rxmt = {} /\ n.events = <<>> /\ n.flags = Flag
      /\ p.ls_req = {} /\ p.db_sum = {} /\ p.sent = Hail
    BY <1>3, <1>7 DEF Greets, Blank, Early
<1>9. t = ProcDd(u, Hail)
    <2>1. AsSlave(x, 1) BY <1>0, <1>6, HailIs DEF AsSlave
    <2>2. t = ProcDd(Agreed(s, x.seq, {"MS", "I"}), x) BY <1>0, <2>1, NegotiateIs
    <2> QED BY <1>6, <2>2, HailIs
<1>10. /\ u \in Work /\ u.db = D /\ u.out = s.out
       /\ u.n.state = "Exchange" /\ u.n.seq = 10 /\ u.n.flags = n.flags \ {"MS", "I"}
       /\ u.n.db_sum = Has(D) /\ u.n.ls_req = n.ls_req /\ u.n.rxmt = n.rxmt
       /\ u.n.events = n.events
    BY AgreedIs
<1>11. u.n.flags = {"M"} BY <1>8, <1>10 DEF Flag
<1>12. Has(D) \in SUBSET Instance /\ Once(Has(D)) BY <1>2, HasIs
<1> HIDE DEF u
<1>13. /\ t \in Work /\ t.db = D /\ Heard(m, u.n, Hail, D)
       /\ m.seq = 10 /\ Said(t, u) /\ m.events = <<>>
    <2>1. u.n.seq > 0 BY <1>10
    <2>2. "MS" \notin u.n.flags /\ "M" \in Hail.flags BY <1>11, HailIs DEF Flag
    <2>3. Once(u.n.db_sum) BY <1>10, <1>12
    <2>4. u \in Work /\ Hail \in SentDd BY <1>10, HailIs
    <2>5. t \in Work /\ SlaveDid(t, u, Hail) BY <1>9, <2>1, <2>2, <2>3, <2>4, ProcSlave
    <2> QED BY <1>8, <1>10, <2>2, <2>5, HailIs DEF SlaveDid
<1>14. Speaks(m, u.n, D) /\ t.out = s.out \o <<m.sent>> BY <1>10, <1>13 DEF Said
<1>15. m \in Nbr /\ u.n \in Nbr BY <1>10, <1>13, WorkFields
<1>16. /\ m.state = "Exchange" /\ m.rxmt = {} /\ m.ls_req = {} /\ m.recv = Hail
       /\ m.ls_req = Asks(n, Hail, D) /\ m.rxmt = n.rxmt
    <2>1. m.ls_req = Asks(u.n, Hail, D) /\ m.state = u.n.state /\ m.rxmt = u.n.rxmt
        BY <1>13 DEF Heard
    <2>2. Asks(u.n, Hail, D) = {} /\ Asks(n, Hail, D) = {}
        BY <1>8, <1>10, HailIs DEF Asks, Wanted
    <2>3. m.recv = Hail BY <1>13, HailIs DEF Heard, Hail
    <2> QED BY <1>8, <1>10, <2>1, <2>2, <2>3
<1>17. SlaveIs(m)
    <2>1. m.flags = {"M"} \/ (m.flags = {} /\ Has(D) = {})
        BY <1>10, <1>11, <1>14 DEF Speaks
    <2>2. "M" \notin m.flags => m.db_sum = {} BY <1>10, <1>14, <2>1 DEF Speaks
    <2>3. m.flags = m.sent.flags /\ m.sent.seq = m.seq BY <1>14 DEF Speaks
    <2>4. ~Over(m) BY <1>13, <1>16 DEF Over, ToSet
    <2>5. "MS" \in m.recv.flags /\ "M" \in m.recv.flags /\ m.recv.seq = 10
        BY <1>16, HailIs DEF Flag
    <2>6. m.state \in Exchanging BY <1>16 DEF Exchanging
    <2>7. "MS" \notin m.flags /\ "I" \notin m.flags BY <2>1
    <2> QED BY <1>13, <2>2, <2>3, <2>4, <2>5, <2>6, <2>7 DEF SlaveIs
<1>18. m.sent \in SentDd /\ IsDd(m.sent) BY <1>14 DEF Speaks, SentDd, Description, IsDd
<1>19. Talk(1, m, a, p, w)
    <2>1. Queue(w, Hail, m.sent) BY <1>5, <1>18, NewQueue DEF Same
    <2>2. PhaseB(m, p, a, w)
        BY <1>6, <1>7, <1>13, <1>16, <1>17, <2>1 DEF PhaseB
    <2> QED BY <2>2 DEF Talk, Session
<1>20. Owed(1, m, p, D, d)
    <2>1. Unread(1, m, p) BY <1>5 DEF Unread
    <2> HIDE DEF m, D
    <2> QED BY <1>0, <1>2, <1>8, <1>10, <1>14, <1>15, <2>1, FirstOwed
<1>21. Learns(1, n, m, Hail, D, a, p, d)
    <2>1. \A i \in m.sent.says : i.ver <= D[i.id] BY <1>2, <1>14, <1>15, SaysAre
    <2>2. ToSay(2, p, n) = {} /\ ToSay(2, p, m) = {} BY <1>8, HailIs DEF ToSay
    <2>3. ToSet(m.events) = {} BY <1>13 DEF ToSet
    <2> QED BY <1>0, <1>1, <1>6, <1>8, <1>16, <2>1, <2>2, <2>3, HailIs DEF Learns
<1>22. Learnt(1, s, t, Hail, a, p, d, v)
    BY <1>13, <1>14, <1>18, <1>19, <1>20, <1>21 DEF Learnt
<1> HIDE DEF a
<1>23. Holds(1, t, a, p, d, v) BY <1>0, <1>1, <1>13, <1>22, HailIs, LearnHolds
<1> QED BY <1>13, <1>23 DEF a

\* A description that was read before changes nothing; the slave says its own again.
LEMMA AgainHolds ==
    ASSUME NEW r \in Router, NEW s \in Work, NEW p \in Nbr, NEW d \in [Lsa -> Nat],
           NEW q \in Seq(Packet), NEW v \in Seq(Packet), NEW x,
           s.n.state \in Exchanging, Sane(s.n), Same(x, s.n.recv), s.n.sent.seq > 0,
           Holds(r, s, q, p, d, v), NEW t, t = ReadDd(s, x, r)
    PROVE  t \in Work /\ Holds(r, t, q, p, d, v)
<1>1. Duplicate(s.n, x) BY DEF Duplicate, Same
<1>2. s.n.sent \in SentDd /\ s.n.sent # NoDd BY NoNbrIs DEF Sane
<1>3. s.n.state \notin {"Down", "Init", "ExStart"} BY DEF Exchanging
<1>4. t = s \/ t = ResendDd(s) BY <1>1, <1>2, <1>3, ReadDdIs
<1>5. CASE t = s BY <1>5
<1>6. CASE t = ResendDd(s)
    <2>1. t \in Work /\ t.n = s.n /\ t.db = s.db /\ t.out = s.out \o <<s.n.sent>>
        BY <1>2, <1>6, ResendDdIs
    <2>2. /\ <<s.n.sent>> \in Seq(Packet) /\ ToSet(<<s.n.sent>>) = {s.n.sent}
        BY <1>2, PacketsAre, OneIs
    <2>3. s.n.sent.kind = "dd" BY <1>2 DEF SentDd, Description
    <2>4. Sendable(s.n.sent, s.n, s.db) BY <1>3, <2>3 DEF Sendable
    <2>5. \A y \in ToSet(<<s.n.sent>>) : Sendable(y, s.n, s.db) BY <2>2, <2>4
    <2>6. Holds(r, t, q, p, d, v) BY <2>1, <2>2, <2>5, SayHolds
    <2> QED BY <2>1, <2>6
<1> QED BY <1>4, <1>5, <1>6

\* The slave reads what the master says.
LEMMA SlaveGoesOn ==
    ASSUME NEW s \in Work, NEW p \in Nbr, NEW d \in [Lsa -> Nat],
           NEW q \in Seq(Packet), NEW v \in Seq(Packet), q # <<>>, Head(q).kind = "dd",
           s.n.state \in Exchanging, Sane(s.n), s.n.events = <<>>, Holds(1, s, q, p, d, v),
           Asked(s.n, p, q, v \o s.out), Head(q) = p.sent, AllDds(Tail(q), p.sent),
           ~Same(Head(q), s.n.recv), NEW t, t = ReadDd(s, Head(q), 1)
    PROVE  t \in Work /\ Holds(1, t, Tail(q), p, d, v)
<1> DEFINE n == s.n
           m == t.n
           D == s.db
           w == v \o s.out
           x == Head(q)
           a == Tail(q)
<1>0. 1 \in Router /\ Peer(1) = 2 BY DEF Router, Peer
<1>1. /\ x \in SentDd /\ IsDd(x) /\ a \in Seq(Packet)
      /\ ToldOne(x, n, D, d) /\ \A y \in ToSet(a) : Older(x, y)
      /\ p.state \notin {"Down", "Init"}
      /\ Holds(1, s, a, p, d, v)
    BY <1>0, DdCame
<1>2. n \in Nbr /\ D \in [Lsa -> Nat] /\ w \in Seq(Packet) BY WorkFields
<1>3. /\ SlaveIs(n) /\ MasterIs(p) /\ ~Over(p) /\ ~Over(n)
      /\ p.seq = n.seq + 1 /\ p.sent.seq = p.seq /\ Same(p.recv, n.sent)
      /\ AllDds(w, n.sent)
    BY DEF Asked
<1>4. x = p.sent /\ AllDds(a, p.sent) /\ ~Same(x, n.recv) /\ n.events = <<>> OBVIOUS
<1>5. x.seq = n.seq + 1 /\ x.flags = p.flags /\ n.seq \in Nat BY <1>2, <1>3, <1>4, NbrFields DEF MasterIs
<1>6. n.state = "Exchange" BY <1>3 DEF Over, Exchanging
<1>7. t = ProcDd(s, x)
    <2>1. ~Duplicate(n, x) BY <1>4 DEF Duplicate, Same
    <2>2. "MS" \in x.flags /\ "I" \notin x.flags BY <1>3, <1>5 DEF MasterIs
    <2>3. "MS" \notin n.flags /\ "MS" \in n.recv.flags BY <1>3 DEF SlaveIs
    <2>4. Expected(n, x) BY <1>5, <2>2, <2>3 DEF Expected
    <2> QED BY <1>6, <2>1, <2>4, ReadDdIs
<1>8. t \in Work /\ SlaveDid(t, s, x)
    <2>1. Once(s.n.db_sum) /\ s.n.seq > 0 BY <1>6 DEF Sane
    <2>2. "MS" \notin s.n.flags BY <1>3 DEF SlaveIs
    <2> QED BY <1>1, <1>7, <2>1, <2>2, ProcSlave
<1>9. m \in Nbr BY <1>8, WorkFields
<1>10. /\ t.db = D /\ m.seq = x.seq /\ t.out = s.out \o <<m.sent>> /\ Speaks(m, n, D)
       /\ m.state = "Exchange" /\ m.recv = Dd(x.seq, x.flags, {}) /\ m.rxmt = n.rxmt
       /\ m.ls_req = Asks(n, x, D)
       /\ "M" \in x.flags \/ n.db_sum # {} => ToSet(m.events) = {}
       /\ "M" \notin x.flags /\ n.db_sum = {} => ToSet(m.events) = {"ExchangeDone"}
    <2>1. ToSet(n.events) = {} BY <1>4 DEF ToSet
    <2> QED BY <1>6, <1>8, <2>1 DEF SlaveDid, Said, Heard
<1>11. m.recv.seq = x.seq /\ m.recv.flags = x.flags BY <1>10 DEF Dd
<1>12. ToSet(m.events) \subseteq {"ExchangeDone"}
       /\ ("ExchangeDone" \in ToSet(m.events) <=> "M" \notin x.flags /\ n.db_sum = {})
    BY <1>10
<1>13. m.sent \in SentDd /\ IsDd(m.sent) BY <1>10 DEF Speaks, SentDd, Description, IsDd
<1>14. SlaveIs(m)
    <2>1. m.flags = IF n.db_sum = {} THEN n.flags \ {"M"} ELSE n.flags
        BY <1>6, <1>10 DEF Speaks, Exchanging
    <2>2. m.db_sum \subseteq n.db_sum /\ m.flags = m.sent.flags /\ m.sent.seq = m.seq
        BY <1>10 DEF Speaks
    <2>3. "M" \notin n.flags => n.db_sum = {} BY <1>3 DEF SlaveIs
    <2>4. "M" \notin m.flags <=> n.db_sum = {} BY <2>1, <2>3
    <2>5. "MS" \notin m.flags /\ "I" \notin m.flags BY <1>3, <2>1 DEF SlaveIs
    <2>6. "MS" \in m.recv.flags BY <1>3, <1>5, <1>11 DEF MasterIs
    <2>7. Over(m) <=> "M" \notin m.flags /\ "M" \notin m.recv.flags
        BY <1>10, <1>11, <1>12, <2>4 DEF Over
    <2>8. m.state \in Exchanging BY <1>10 DEF Exchanging
    <2>9. m.recv.seq = m.seq BY <1>10, <1>11
    <2>10. "M" \notin m.flags => m.db_sum = {} BY <2>2, <2>4
    <2> QED BY <2>2, <2>5, <2>6, <2>7, <2>8, <2>9, <2>10 DEF SlaveIs
<1>15. p.seq = m.seq BY <1>3, <1>5, <1>10
<1>16. Talk(1, m, a, p, w)
    <2>1. Queue(w, p.recv, m.sent)
        <3>1. Same(n.sent, p.recv) BY <1>3 DEF Same
        <3> QED BY <1>3, <1>13, <3>1, NewQueue
    <2>2. Same(m.recv, p.sent) BY <1>4, <1>11 DEF Same
    <2>3. Answered(m, p, a, w)
        BY <1>3, <1>4, <1>14, <1>15, <2>1, <2>2 DEF Answered
    <2> QED BY <2>3 DEF Talk, Session
<1>17. Owed(1, n, p, D, d) BY <1>0 DEF Holds, Whole, Half
<1>18. Owed(1, m, p, D, d)
    <2>1. p.state \notin Early BY <1>3 DEF MasterIs, Early, Exchanging
    <2>2. ~Unread(1, n, p) BY <1>3, <1>5, <2>1 DEF Unread
    <2>3. Unread(1, m, p) BY <1>15 DEF Unread
    <2>4. Once(n.db_sum) BY DEF Sane
    <2>5. n.state \in Exchanging BY <1>6 DEF Exchanging
    <2> HIDE DEF m, n, D
    <2> QED BY <1>0, <1>2, <1>9, <1>10, <1>17, <2>2, <2>3, <2>4, <2>5, NextOwed
<1>19. Learns(1, n, m, x, D, a, p, d)
    <2>1. \A i \in m.sent.says : i.ver <= D[i.id] BY <1>2, <1>10, SaysAre
    <2>2. ToSay(2, p, n) = p.db_sum \cup x.says
        <3>1. Unread(2, p, n) BY <1>4, <1>5 DEF Unread
        <3> QED BY <1>4, <3>1 DEF ToSay
    <2>3. ToSay(2, p, m) = p.db_sum
        <3>1. ~Unread(2, p, m) BY <1>4, <1>10 DEF Unread
        <3> QED BY <3>1 DEF ToSay
    <2> QED BY <1>0, <1>1, <1>4, <1>6, <1>10, <1>12, <2>1, <2>2, <2>3 DEF Learns
<1>20. t.out = s.out \/ (t.out = s.out \o <<t.n.sent>> /\ t.n.sent \in SentDd) BY <1>10, <1>13
<1>21. t \in Work /\ t.db = s.db BY <1>8, <1>10
<1>22. Learnt(1, s, t, x, a, p, d, v) BY <1>16, <1>18, <1>19, <1>20, <1>21 DEF Learnt
<1> HIDE DEF a, x
<1>23. Holds(1, t, a, p, d, v) BY <1>0, <1>1, <1>21, <1>22, LearnHolds
<1> QED BY <1>8, <1>23 DEF a

LEMMA SlaveReads ==
    ASSUME NEW s \in Work, NEW p \in Nbr, NEW d \in [Lsa -> Nat],
           NEW q \in Seq(Packet), NEW v \in Seq(Packet), q # <<>>, Head(q).kind = "dd",
           s.n.state \in Exchanging, Sane(s.n), s.n.events = <<>>, Holds(1, s, q, p, d, v),
           NEW t, t = ReadDd(s, Head(q), 1)
    PROVE  t \in Work /\ Holds(1, t, Tail(q), p, d, v)
<1> DEFINE n == s.n
           w == v \o s.out
           x == Head(q)
<1>0. 1 \in Router BY DEF Router
<1>1. IsDd(x) /\ Tail(q) \in Seq(Packet) /\ Holds(1, s, Tail(q), p, d, v) BY <1>0, DdCame
<1>2. Session(n, p, q, w) BY DEF Holds, Whole, Talk
<1>3. SlaveIs(n) => n.sent.seq > 0
    <2>1. n.seq > 0 BY DEF Sane, Exchanging
    <2> QED BY <2>1 DEF SlaveIs
<1>4. ASSUME SlaveIs(n), Same(x, n.recv) PROVE t \in Work /\ Holds(1, t, Tail(q), p, d, v)
    <2> DEFINE a == Tail(q)
    <2>1. s.n.sent.seq > 0 BY <1>3, <1>4
    <2>2. a \in Seq(Packet) /\ Holds(1, s, a, p, d, v) BY <1>1
    <2>3. t = ReadDd(s, x, 1) /\ Same(x, s.n.recv) BY <1>4
    <2> HIDE DEF a, x
    <2>4. t \in Work /\ Holds(1, t, a, p, d, v) BY <1>0, <2>1, <2>2, <2>3, AgainHolds
    <2> QED BY <2>4 DEF a
<1>5. CASE PhaseA(n, p, q, w) BY <1>5 DEF PhaseA, Early, Exchanging
<1>6. CASE PhaseB(n, p, q, w)
    <2>1. SlaveIs(n) /\ n.recv = Hail /\ AllDds(q, Hail) BY <1>6 DEF PhaseB
    <2>2. x = Hail BY <1>1, <2>1, HeadAll
    <2>3. Same(x, n.recv) BY <2>1, <2>2 DEF Same
    <2> QED BY <1>4, <2>1, <2>3
<1>7. CASE Answered(n, p, q, w) \/ Finished(n, p, q, w)
    <2>1. SlaveIs(n) /\ Same(n.recv, p.sent) /\ AllDds(q, p.sent)
        BY <1>7 DEF Answered, Finished
    <2>2. x = p.sent BY <1>1, <2>1, HeadAll
    <2>3. Same(x, n.recv) BY <2>1, <2>2 DEF Same
    <2> QED BY <1>4, <2>1, <2>3
<1>8. CASE Asked(n, p, q, w)
    <2>1. SlaveIs(n) /\ Queue(q, n.recv, p.sent) BY <1>8 DEF Asked
    <2>2. CASE Same(x, n.recv) BY <1>4, <2>1, <2>2
    <2>3. CASE ~Same(x, n.recv)
        <3>1. x = p.sent /\ AllDds(Tail(q), p.sent) BY <1>1, <2>1, <2>3, HeadQueue
        <3> QED BY <1>8, <2>3, <3>1, SlaveGoesOn
    <2> QED BY <2>2, <2>3
<1> QED BY <1>2, <1>5, <1>6, <1>7, <1>8 DEF Session

\* The master agrees and says its first.
LEMMA MasterAgrees ==
    ASSUME NEW s \in Work, NEW p \in Nbr, NEW d \in [Lsa -> Nat],
           NEW q \in Seq(Packet), NEW v \in Seq(Packet), q # <<>>, Head(q).kind = "dd",
           s.n.state = "ExStart", Sane(s.n), Holds(2, s, q, p, d, v),
           PhaseB(p, s.n, v \o s.out, q), Head(q) = p.sent, AllDds(Tail(q), p.sent),
           NEW t, t = Negotiate(s, Head(q), 2)
    PROVE  t \in Work /\ Holds(2, t, Tail(q), p, d, v)
<1> DEFINE n == s.n
           m == t.n
           D == s.db
           w == v \o s.out
           x == Head(q)
           a == Tail(q)
           u == Agreed(s, 10, {"I"})
<1>0. 2 \in Router /\ Peer(2) = 1 /\ Peer(2) < 2 /\ ~(Peer(2) > 2) BY DEF Router, Peer
<1>1. /\ x \in SentDd /\ IsDd(x) /\ a \in Seq(Packet)
      /\ ToldOne(x, n, D, d) /\ \A y \in ToSet(a) : Older(x, y)
      /\ p.state \notin {"Down", "Init"}
      /\ Holds(2, s, a, p, d, v)
    BY <1>0, DdCame
<1>2. n \in Nbr /\ D \in [Lsa -> Nat] /\ w \in Seq(Packet) BY WorkFields
<1>3. SlaveIs(p) /\ p.seq = 10 /\ p.recv = Hail /\ p.ls_req = {} /\ AllDds(w, Hail)
    BY DEF PhaseB
<1>4. x = p.sent /\ AllDds(a, p.sent) OBVIOUS
<1>5. Greets(n, q, p) BY DEF Holds, Whole, Half
<1>6. /\ n.ls_req = {} /\ n.rxmt = {} /\ n.events = <<>> /\ n.flags = Flag
      /\ n.seq = 10 /\ n.state = "ExStart"
    BY <1>5 DEF Greets, Blank, Early
<1>7. x.seq = 10 /\ x.flags = p.flags /\ "MS" \notin x.flags /\ "I" \notin x.flags
    BY <1>3, <1>4 DEF SlaveIs
<1>8. t = ProcDd(u, x)
    <2>1. x.flags \cap {"MS", "I"} = {} BY <1>7
    <2>2. ~AsSlave(x, 2) /\ AsMaster(n, x, 2) BY <1>0, <1>6, <1>7, <2>1 DEF AsSlave, AsMaster
    <2>3. t = ProcDd(Agreed(s, s.n.seq, {"I"}), x) BY <1>0, <2>2, NegotiateIs
    <2> QED BY <1>6, <2>3
<1>9. /\ u \in Work /\ u.db = D /\ u.out = s.out
      /\ u.n.state = "Exchange" /\ u.n.seq = 10 /\ u.n.flags = n.flags \ {"I"}
      /\ u.n.db_sum = Has(D) /\ u.n.ls_req = n.ls_req /\ u.n.rxmt = n.rxmt
      /\ u.n.events = n.events
    BY AgreedIs
<1>10. u.n.flags = {"MS", "M"} BY <1>6, <1>9 DEF Flag
<1>11. Has(D) \in SUBSET Instance /\ Once(Has(D)) BY <1>2, HasIs
<1> HIDE DEF u
<1>12. t \in Work /\ MasterDid(t, u, x)
    <2>1. Once(u.n.db_sum) /\ u.n.seq > 0 BY <1>9, <1>11
    <2>2. "MS" \in u.n.flags BY <1>10
    <2> QED BY <1>1, <1>8, <1>9, <2>1, <2>2, ProcMaster
<1>13. /\ t.db = D /\ m.seq = 11 /\ t.out = s.out \o <<m.sent>> /\ Speaks(m, u.n, D)
       /\ m.state = "Exchange" /\ m.recv = Dd(x.seq, x.flags, {}) /\ m.rxmt = n.rxmt
       /\ m.ls_req = Asks(u.n, x, D) /\ ToSet(m.events) = {}
    <2>1. ToSet(u.n.events) = {} BY <1>6, <1>9 DEF ToSet
    <2>2. "M" \in u.n.flags BY <1>10
    <2> QED BY <1>9, <1>12, <2>1, <2>2 DEF MasterDid, Said, Heard
<1>14. m \in Nbr /\ u.n \in Nbr BY <1>9, <1>12, WorkFields
<1>15. m.recv.seq = 10 /\ m.recv.flags = x.flags BY <1>7, <1>13 DEF Dd
<1>16. m.ls_req = Asks(n, x, D) BY <1>9, <1>13 DEF Asks
<1>17. m.sent \in SentDd /\ IsDd(m.sent) BY <1>13 DEF Speaks, SentDd, Description, IsDd
<1>18. MasterIs(m)
    <2>1. \/ m.flags = {"MS", "M"}
          \/ m.flags = {"MS"} /\ Has(D) = {}
        BY <1>9, <1>10, <1>13 DEF Speaks
    <2>2. "M" \notin m.flags => m.db_sum = {} BY <1>9, <1>13, <2>1 DEF Speaks
    <2>3. m.flags = m.sent.flags BY <1>13 DEF Speaks
    <2>4. "MS" \in m.flags /\ "I" \notin m.flags BY <2>1
    <2>5. "MS" \notin m.recv.flags /\ m.seq = m.recv.seq + 1 BY <1>7, <1>13, <1>15
    <2>6. m.state \in Exchanging BY <1>13 DEF Exchanging
    <2> QED BY <2>2, <2>3, <2>4, <2>5, <2>6 DEF MasterIs
<1>19. Talk(2, m, a, p, w)
    <2>1. Queue(w, p.recv, m.sent)
        <3>1. Same(Hail, p.recv) BY <1>3 DEF Same
        <3> QED BY <1>3, <1>17, <3>1, NewQueue
    <2>2. ~Over(m) BY <1>13 DEF Over
    <2>3. ~Over(p)
        <3>1. "M" \in p.recv.flags BY <1>3, HailIs DEF Flag
        <3> QED BY <1>3, <3>1 DEF SlaveIs
    <2>4. m.seq = p.seq + 1 /\ m.sent.seq = m.seq BY <1>3, <1>13 DEF Speaks
    <2>5. Same(m.recv, p.sent) BY <1>4, <1>7, <1>15 DEF Same
    <2>6. Asked(p, m, w, a)
        BY <1>3, <1>4, <1>18, <2>1, <2>2, <2>3, <2>4, <2>5 DEF Asked
    <2> QED BY <2>6 DEF Talk, Session
<1>20. Owed(2, m, p, D, d)
    <2>1. m.sent.seq = 11 BY <1>13 DEF Speaks
    <2>2. Unread(2, m, p) BY <1>3, <2>1 DEF Unread
    <2> HIDE DEF m, D
    <2> QED BY <1>0, <1>2, <1>3, <1>9, <1>13, <1>14, <2>2, FirstOwed
<1>21. Learns(2, n, m, x, D, a, p, d)
    <2>1. \A i \in m.sent.says : i.ver <= D[i.id] BY <1>2, <1>13, <1>14, SaysAre
    <2>2. ToSay(1, p, n) = p.db_sum \cup x.says
        <3>1. Unread(1, p, n) BY <1>6 DEF Unread, Early
        <3> QED BY <1>4, <3>1 DEF ToSay
    <2>3. ToSay(1, p, m) = p.db_sum
        <3>1. m.state \notin Early BY <1>13 DEF Early
        <3>2. ~Unread(1, p, m) BY <1>3, <1>13, <3>1 DEF Unread
        <3> QED BY <3>2 DEF ToSay
    <2> QED BY <1>0, <1>1, <1>4, <1>6, <1>13, <1>16, <2>1, <2>2, <2>3 DEF Learns
<1>22. t.out = s.out \/ (t.out = s.out \o <<t.n.sent>> /\ t.n.sent \in SentDd) BY <1>13, <1>17
<1>23. t \in Work /\ t.db = s.db BY <1>12, <1>13
<1>24. Learnt(2, s, t, x, a, p, d, v) BY <1>19, <1>20, <1>21, <1>22, <1>23 DEF Learnt
<1> HIDE DEF a, x
<1>25. Holds(2, t, a, p, d, v) BY <1>0, <1>1, <1>23, <1>24, LearnHolds
<1> QED BY <1>12, <1>25 DEF a

LEMMA MasterStarts ==
    ASSUME NEW s \in Work, NEW p \in Nbr, NEW d \in [Lsa -> Nat],
           NEW q \in Seq(Packet), NEW v \in Seq(Packet), q # <<>>, Head(q).kind = "dd",
           s.n.state = "ExStart", Sane(s.n), Holds(2, s, q, p, d, v),
           NEW t, t = Negotiate(s, Head(q), 2)
    PROVE  t \in Work /\ Holds(2, t, Tail(q), p, d, v)
<1> DEFINE n == s.n
           w == v \o s.out
           x == Head(q)
<1>0. 2 \in Router /\ Peer(2) = 1 /\ ~(Peer(2) > 2) BY DEF Router, Peer
<1>1. IsDd(x) /\ Tail(q) \in Seq(Packet) /\ Holds(2, s, Tail(q), p, d, v) BY <1>0, DdCame
<1>2. Session(p, n, w, q) BY DEF Holds, Whole, Talk
<1>3. ASSUME Same(x, Hail) PROVE t \in Work /\ Holds(2, t, Tail(q), p, d, v)
    <2>1. x.flags = Flag BY <1>3, HailIs DEF Same
    <2>2. ~AsSlave(x, 2) /\ ~AsMaster(n, x, 2) BY <1>0, <2>1 DEF AsSlave, AsMaster, Flag
    <2>3. t = s BY <1>0, <2>2, NegotiateIs
    <2> QED BY <1>1, <2>3
<1>4. CASE PhaseA(p, n, w, q)
    <2>1. x = Hail BY <1>1, <1>4, HeadAll DEF PhaseA
    <2> QED BY <1>3, <2>1 DEF Same
<1>5. CASE PhaseB(p, n, w, q)
    <2>1. Queue(q, Hail, p.sent) BY <1>5 DEF PhaseB
    <2>2. CASE Same(x, Hail) BY <1>3, <2>2
    <2>3. CASE x = p.sent /\ AllDds(Tail(q), p.sent) BY <1>5, <2>3, MasterAgrees
    <2>4. Same(x, Hail) \/ (x = p.sent /\ AllDds(Tail(q), p.sent)) BY <1>1, <2>1, HeadQueue
    <2> QED BY <2>2, <2>3, <2>4
<1>6. ~MasterIs(n) BY DEF MasterIs, Exchanging
<1> QED BY <1>2, <1>4, <1>5, <1>6 DEF Session, Asked, Answered, Finished

\* The master reads the answer: it says on, or it has said all.
LEMMA MasterGoesOn ==
    ASSUME NEW s \in Work, NEW p \in Nbr, NEW d \in [Lsa -> Nat],
           NEW q \in Seq(Packet), NEW v \in Seq(Packet), q # <<>>, Head(q).kind = "dd",
           s.n.state \in Exchanging, Sane(s.n), s.n.events = <<>>, Holds(2, s, q, p, d, v),
           Answered(p, s.n, v \o s.out, q), Head(q) = p.sent, AllDds(Tail(q), p.sent),
           ~Same(Head(q), s.n.recv), NEW t, t = ReadDd(s, Head(q), 2)
    PROVE  t \in Work /\ Holds(2, t, Tail(q), p, d, v)
<1> DEFINE n == s.n
           m == t.n
           D == s.db
           w == v \o s.out
           x == Head(q)
           a == Tail(q)
           last == "M" \notin x.flags /\ "M" \notin n.flags
<1>0. 2 \in Router /\ Peer(2) = 1 BY DEF Router, Peer
<1>1. /\ x \in SentDd /\ IsDd(x) /\ a \in Seq(Packet)
      /\ ToldOne(x, n, D, d) /\ \A y \in ToSet(a) : Older(x, y)
      /\ p.state \notin {"Down", "Init"}
      /\ Holds(2, s, a, p, d, v)
    BY <1>0, DdCame
<1>2. n \in Nbr /\ D \in [Lsa -> Nat] /\ w \in Seq(Packet) BY WorkFields
<1>3. /\ SlaveIs(p) /\ MasterIs(n) /\ ~Over(n)
      /\ n.seq = p.seq /\ n.sent.seq = n.seq /\ Same(p.recv, n.sent) /\ AllDds(w, n.sent)
    BY DEF Answered
<1>4. x = p.sent /\ AllDds(a, p.sent) /\ ~Same(x, n.recv) /\ n.events = <<>> OBVIOUS
<1>5. x.seq = n.seq /\ x.flags = p.flags /\ n.seq \in Nat
    BY <1>2, <1>3, <1>4, NbrFields DEF SlaveIs
<1>6. n.state = "Exchange" BY <1>3 DEF Over, Exchanging
<1>7. t = ProcDd(s, x)
    <2>1. ~Duplicate(n, x) BY <1>4 DEF Duplicate, Same
    <2>2. "MS" \notin x.flags /\ "I" \notin x.flags BY <1>3, <1>5 DEF SlaveIs
    <2>3. "MS" \in n.flags /\ "MS" \notin n.recv.flags BY <1>3 DEF MasterIs
    <2>4. Expected(n, x) BY <1>5, <2>2, <2>3 DEF Expected
    <2> QED BY <1>6, <2>1, <2>4, ReadDdIs
<1>8. t \in Work /\ MasterDid(t, s, x)
    <2>1. Once(s.n.db_sum) /\ s.n.seq > 0 BY <1>6 DEF Sane
    <2>2. "MS" \in s.n.flags BY <1>3 DEF MasterIs
    <2> QED BY <1>1, <1>7, <2>1, <2>2, ProcMaster
<1>9. m \in Nbr BY <1>8, WorkFields
<1>10. /\ t.db = D /\ m.seq = n.seq + 1
       /\ m.state = "Exchange" /\ m.recv = Dd(x.seq, x.flags, {}) /\ m.rxmt = n.rxmt
       /\ m.ls_req = Asks(n, x, D)
       /\ ~last => /\ ToSet(m.events) = {} /\ t.out = s.out \o <<m.sent>> /\ Speaks(m, n, D)
       /\ last => /\ ToSet(m.events) = {"ExchangeDone"} /\ t.out = s.out
                  /\ m.flags = n.flags /\ m.sent = n.sent /\ m.db_sum = n.db_sum
    <2>1. ToSet(n.events) = {} BY <1>4 DEF ToSet
    <2> QED BY <1>6, <1>8, <2>1 DEF MasterDid, Said, Heard, Silent
<1>11. m.recv.seq = x.seq /\ m.recv.flags = x.flags BY <1>10 DEF Dd
<1>12. n.state \in Exchanging /\ m.state \in Exchanging BY <1>6, <1>10 DEF Exchanging
<1>13. "MS" \notin m.recv.flags /\ m.seq = m.recv.seq + 1 /\ Same(m.recv, p.sent)
    BY <1>3, <1>4, <1>5, <1>10, <1>11 DEF SlaveIs, Same
<1>14. Owed(2, n, p, D, d) /\ \A i \in n.sent.says : i.ver <= D[i.id]
    BY <1>0 DEF Holds, Whole, Half, Told
<1>15. Over(p) <=> last
    <2>1. p.recv.flags = n.flags BY <1>3 DEF Same, MasterIs
    <2> QED BY <1>3, <1>5, <2>1 DEF SlaveIs
<1>16. ASSUME Owed(2, m, p, D, d), Talk(2, m, a, p, w), \A i \in m.sent.says : i.ver <= D[i.id],
              t.out = s.out \/ (t.out = s.out \o <<t.n.sent>> /\ t.n.sent \in SentDd)
       PROVE  Holds(2, t, a, p, d, v)
    <2>1. Learns(2, n, m, x, D, a, p, d)
        <3>1. ToSay(1, p, n) = p.db_sum \cup x.says
            <4>1. Unread(1, p, n) BY <1>3 DEF Unread
            <4> QED BY <1>4, <4>1 DEF ToSay
        <3>2. ToSay(1, p, m) = p.db_sum
            <4>1. m.state \notin Early BY <1>10 DEF Early
            <4>2. ~Unread(1, p, m) BY <1>3, <1>5, <1>10, <4>1 DEF Unread
            <4> QED BY <4>2 DEF ToSay
        <3>3. ToSet(m.events) \subseteq {"ExchangeDone"} BY <1>10
        <3> QED BY <1>0, <1>1, <1>4, <1>6, <1>10, <1>16, <3>1, <3>2, <3>3 DEF Learns
    <2>2. t \in Work /\ t.db = s.db BY <1>8, <1>10
    <2>3. Learnt(2, s, t, x, a, p, d, v) BY <1>16, <2>1, <2>2 DEF Learnt
    <2>4. a \in Seq(Packet) /\ x \in SentDd /\ Holds(2, s, a, p, d, v) BY <1>1
    <2> HIDE DEF a, x
    <2> QED BY <1>0, <2>2, <2>3, <2>4, LearnHolds
<1>17. CASE last
    <2>1. /\ ToSet(m.events) = {"ExchangeDone"} /\ t.out = s.out
          /\ m.flags = n.flags /\ m.sent = n.sent /\ m.db_sum = n.db_sum
        BY <1>10, <1>17
    <2>2. MasterIs(m) BY <1>3, <1>12, <1>13, <2>1 DEF MasterIs
    <2>3. Over(m) /\ Over(p) BY <1>15, <1>17, <2>1 DEF Over
    <2>4. m.seq = p.seq + 1 /\ m.sent.seq = p.seq /\ Same(p.recv, m.sent) /\ AllDds(w, m.sent)
        BY <1>3, <1>10, <2>1
    <2>5. "M" \notin m.flags BY <1>17, <2>1
    <2>6. Finished(p, m, w, a)
        BY <1>3, <1>4, <1>13, <2>2, <2>3, <2>4, <2>5 DEF Finished
    <2>7. Talk(2, m, a, p, w) BY <2>6 DEF Talk, Session
    <2>8. Owed(2, m, p, D, d)
        <3>1. ToSay(2, m, p) = ToSay(2, n, p) BY <2>1 DEF ToSay, Unread
        <3> QED BY <1>10, <1>12, <1>14, <2>1, <3>1 DEF Owed
    <2>9. Holds(2, t, a, p, d, v) BY <1>14, <1>16, <2>1, <2>7, <2>8
    <2> QED BY <1>8, <2>9
<1>18. CASE ~last
    <2>1. ToSet(m.events) = {} /\ t.out = s.out \o <<m.sent>> /\ Speaks(m, n, D)
        BY <1>10, <1>18
    <2>2. m.sent \in SentDd /\ IsDd(m.sent) BY <2>1 DEF Speaks, SentDd, Description, IsDd
    <2>3. MasterIs(m)
        <3>1. m.flags = IF n.db_sum = {} THEN n.flags \ {"M"} ELSE n.flags
            BY <1>12, <2>1 DEF Speaks
        <3>2. m.db_sum \subseteq n.db_sum /\ m.flags = m.sent.flags BY <2>1 DEF Speaks
        <3>3. "M" \notin n.flags => n.db_sum = {} BY <1>3 DEF MasterIs
        <3>4. "M" \notin m.flags => m.db_sum = {} BY <3>1, <3>2, <3>3
        <3>5. "MS" \in m.flags /\ "I" \notin m.flags BY <1>3, <3>1 DEF MasterIs
        <3> QED BY <1>12, <1>13, <3>2, <3>4, <3>5 DEF MasterIs
    <2>4. m.seq = p.seq + 1 /\ m.sent.seq = m.seq BY <1>3, <1>10, <2>1 DEF Speaks
    <2>5. ~Over(m) /\ ~Over(p) BY <1>10, <1>15, <1>18, <2>1 DEF Over
    <2>6. Queue(w, p.recv, m.sent)
        <3>1. Same(n.sent, p.recv) BY <1>3 DEF Same
        <3> QED BY <1>3, <2>2, <3>1, NewQueue
    <2>7. Asked(p, m, w, a)
        BY <1>3, <1>4, <1>13, <2>3, <2>4, <2>5, <2>6 DEF Asked
    <2>8. Talk(2, m, a, p, w) BY <2>7 DEF Talk, Session
    <2>9. Owed(2, m, p, D, d)
        <3>0. p.seq \in Nat BY NbrFields
        <3>1. ~Unread(2, n, p) BY <1>3 DEF Unread
        <3>2. Unread(2, m, p) BY <2>4, <3>0 DEF Unread
        <3>3. Once(n.db_sum) BY DEF Sane
        <3>4. m.rxmt = n.rxmt BY <1>10
        <3> HIDE DEF m, n, D
        <3> QED BY <1>0, <1>2, <1>9, <1>12, <1>14, <2>1, <3>1, <3>2, <3>3, <3>4, NextOwed
    <2>10. \A i \in m.sent.says : i.ver <= D[i.id] BY <1>2, <2>1, SaysAre
    <2>11. Holds(2, t, a, p, d, v) BY <1>16, <2>1, <2>2, <2>8, <2>9, <2>10
    <2> QED BY <1>8, <2>11
<1> QED BY <1>17, <1>18

LEMMA MasterReads ==
    ASSUME NEW s \in Work, NEW p \in Nbr, NEW d \in [Lsa -> Nat],
           NEW q \in Seq(Packet), NEW v \in Seq(Packet), q # <<>>, Head(q).kind = "dd",
           s.n.state \in Exchanging, Sane(s.n), s.n.events = <<>>, Holds(2, s, q, p, d, v),
           NEW t, t = ReadDd(s, Head(q), 2)
    PROVE  t \in Work /\ Holds(2, t, Tail(q), p, d, v)
<1> DEFINE n == s.n
           w == v \o s.out
           x == Head(q)
<1>0. 2 \in Router BY DEF Router
<1>1. IsDd(x) /\ Tail(q) \in Seq(Packet) /\ Holds(2, s, Tail(q), p, d, v) BY <1>0, DdCame
<1>2. Session(p, n, w, q) BY DEF Holds, Whole, Talk
<1>3. ASSUME MasterIs(n), Same(x, n.recv) PROVE t \in Work /\ Holds(2, t, Tail(q), p, d, v)
    <2>1. "MS" \in n.flags /\ Duplicate(n, x) BY <1>3 DEF MasterIs, Duplicate, Same
    <2>2. n.state \notin {"Down", "Init", "ExStart"} BY DEF Exchanging
    <2>3. t = s BY <2>1, <2>2, ReadDdIs
    <2> QED BY <1>1, <2>3
<1>4. CASE PhaseA(p, n, w, q) \/ PhaseB(p, n, w, q)
    BY <1>4 DEF PhaseA, PhaseB, Early, Exchanging
<1>5. CASE Asked(p, n, w, q) \/ Finished(p, n, w, q)
    <2>1. MasterIs(n) /\ Same(n.recv, p.sent) /\ AllDds(q, p.sent) BY <1>5 DEF Asked, Finished
    <2>2. x = p.sent BY <1>1, <2>1, HeadAll
    <2>3. Same(x, n.recv) BY <2>1, <2>2 DEF Same
    <2> QED BY <1>3, <2>1, <2>3
<1>6. CASE Answered(p, n, w, q)
    <2>1. MasterIs(n) /\ Queue(q, n.recv, p.sent) BY <1>6 DEF Answered
    <2>2. CASE Same(x, n.recv) BY <1>3, <2>1, <2>2
    <2>3. CASE ~Same(x, n.recv)
        <3>1. x = p.sent /\ AllDds(Tail(q), p.sent) BY <1>1, <2>1, <2>3, HeadQueue
        <3> QED BY <1>6, <2>3, <3>1, MasterGoesOn
    <2> QED BY <2>2, <2>3
<1> QED BY <1>2, <1>4, <1>5, <1>6 DEF Session

LEMMA ColdOrder ==
    ASSUME NEW q \in Seq(Packet), q # <<>>, NEW n, NEW p, Greets(n, q, p)
    PROVE  /\ ~Cold(Head(q)) => p.state # "Down" /\ \A y \in ToSet(q) : ~Cold(y)
           /\ Cold(Head(q)) => n.state \in {"Down", "Init"}
<1>1. /\ Head(q) \in ToSet(q) /\ ToSet(Tail(q)) \subseteq ToSet(q)
      /\ \A x \in ToSet(q) : x = Head(q) \/ x \in ToSet(Tail(q))
    BY TailIs
<1>2. \A y \in ToSet(Tail(q)) : Before(q, Head(q), y) BY TailLess
<1> QED BY <1>1, <1>2 DEF Greets

LEMMA DdHolds ==
    ASSUME NEW r \in Router, NEW s \in Work, NEW p \in Nbr, NEW d \in [Lsa -> Nat],
           NEW q \in Seq(Packet), NEW v \in Seq(Packet), q # <<>>, Head(q).kind = "dd",
           outages = 0, Sane(s.n), s.n.events = <<>>, Holds(r, s, q, p, d, v),
           NEW t, t = ReadDd(s, Head(q), r)
    PROVE  t \in Work /\ Holds(r, t, Tail(q), p, d, v)
<1> DEFINE x == Head(q)
           a == Tail(q)
<1>0. Holds(r, s, a, p, d, v) BY DdCame
<1>1. CASE s.n.state = "Down"
    <2>1. t = s BY <1>1, ReadDdIs DEF Exchanging
    <2> QED BY <1>0, <2>1
<1>2. ASSUME NEW u \in Work, u.n.state = "ExStart", Sane(u.n), Holds(r, u, q, p, d, v),
             t = Negotiate(u, x, r)
      PROVE  t \in Work /\ Holds(r, t, a, p, d, v)
    <2>1. CASE r = 1 BY <1>2, <2>1, SlaveStarts
    <2>2. CASE r = 2 BY <1>2, <2>2, MasterStarts
    <2> QED BY <2>1, <2>2 DEF Router
<1>3. CASE s.n.state = "Init"
    <2> DEFINE u == Start(s)
    <2>1. t = Negotiate(u, x, r) BY <1>3, ReadDdIs DEF Exchanging
    <2>2. Greets(s.n, q, p) BY DEF Holds, Whole, Half
    <2>3. ~Cold(x) BY DEF Cold
    <2>4. p.state # "Down" /\ \A y \in ToSet(q) : ~Cold(y) BY <2>2, <2>3, ColdOrder
    <2>5. s.n.state \in {"Down", "Init"} BY <1>3
    <2> HIDE DEF x, u
    <2>6. /\ u \in Work /\ u.db = s.db /\ u.n.state = "ExStart" /\ u.n.events = <<>>
          /\ Holds(r, u, q, p, d, v)
        BY <2>4, <2>5, StartHolds DEF u
    <2>7. Sane(u.n) BY SaneStart DEF u
    <2> QED BY <1>2, <2>1, <2>6, <2>7
<1>4. CASE s.n.state = "ExStart"
    <2>1. t = Negotiate(s, x, r) BY <1>4, ReadDdIs DEF Exchanging
    <2> QED BY <1>2, <1>4, <2>1
<1>5. CASE s.n.state \in Exchanging
    <2>1. CASE r = 1 BY <1>5, <2>1, SlaveReads
    <2>2. CASE r = 2 BY <1>5, <2>2, MasterReads
    <2> QED BY <2>1, <2>2 DEF Router
<1>6. s.n.state \in State BY WorkFields, NbrFields
<1> QED BY <1>1, <1>3, <1>4, <1>5, <1>6 DEF State

\* A neighbour heard of, not yet one that hears.
LEMMA WaitWhole ==
    ASSUME NEW r \in Router, NEW n \in Nbr, NEW m \in Nbr, NEW p \in Nbr,
           NEW D, NEW d, NEW q, NEW w,
           n.state \in {"Down", "Init"}, m.state = "Init", SameLists(m, n),
           m.seq = n.seq, m.flags = n.flags, m.recv = n.recv, m.sent = n.sent, m.events = n.events,
           Whole(r, n, D, q, p, d, w)
    PROVE  Whole(r, m, D, q, p, d, w)
<1>1. /\ Talk(r, n, q, p, w) /\ Greets(n, q, p) /\ Greets(p, w, n)
      /\ Told(r, n, q, p, D, d) /\ Told(Peer(r), p, w, n, d, D)
      /\ Owed(r, n, p, D, d) /\ Owed(Peer(r), p, n, d, D)
      /\ Loaded(p) /\ Calm(p) /\ Loaded(n) /\ Calm(n)
    BY DEF Whole, Half
<1>2. p.state \in Early /\ AllDds(q, Hail) /\ AllDds(w, Hail) BY <1>1, NotBegun
<1>3. Talk(r, m, q, p, w) BY <1>2 DEF Talk, Session, PhaseA, Early
<1>4. Blank(n) /\ Blank(m) BY <1>1 DEF Greets, Early, Blank, SameLists
<1>5. Greets(m, q, p) BY <1>1, <1>4 DEF Greets
<1>6. Greets(p, w, m) BY <1>1 DEF Greets
<1>7. Told(r, m, q, p, D, d) /\ Told(Peer(r), p, w, m, d, D)
    BY <1>1 DEF Told, ToldOne, SameLists
<1>8. ToSay(r, m, p) = ToSay(r, n, p) BY DEF ToSay, Unread, SameLists
<1>9. ToSay(Peer(r), p, m) = ToSay(Peer(r), p, n) BY DEF ToSay, Unread, SameLists, Early
<1>10. Owed(r, m, p, D, d)
    <2>1. m.state \notin Exchanging BY DEF Exchanging
    <2> QED BY <1>1, <1>8, <2>1 DEF Owed, SameLists
<1>11. Owed(Peer(r), p, m, d, D) BY <1>1, <1>9 DEF Owed, SameLists
<1>12. Loaded(m) /\ Calm(m) BY <1>1, <1>4 DEF Loaded, Calm, Blank
<1> QED BY <1>1, <1>3, <1>5, <1>6, <1>7, <1>10, <1>11, <1>12 DEF Whole, Half

LEMMA WaitHolds ==
    ASSUME NEW r \in Router, NEW s \in Work, NEW t \in Work, NEW p \in Nbr,
           NEW d, NEW q, NEW v, t.db = s.db, t.out = s.out,
           s.n.state \in {"Down", "Init"}, t.n.state = "Init", SameLists(t.n, s.n),
           t.n.seq = s.n.seq, t.n.flags = s.n.flags, t.n.recv = s.n.recv, t.n.sent = s.n.sent,
           t.n.events = s.n.events, Holds(r, s, q, p, d, v)
    PROVE  Holds(r, t, q, p, d, v)
<1> DEFINE n == s.n
           m == t.n
           D == s.db
           w == v \o s.out
<1>1. n \in Nbr /\ m \in Nbr BY WorkFields
<1>2. /\ n.state \in {"Down", "Init"} /\ m.state = "Init" /\ SameLists(m, n)
      /\ m.seq = n.seq /\ m.flags = n.flags /\ m.recv = n.recv /\ m.sent = n.sent
      /\ m.events = n.events
    OBVIOUS
<1>3. Whole(r, n, D, q, p, d, w) BY DEF Holds
<1> HIDE DEF n, m, D, w
<1>4. Whole(r, m, D, q, p, d, w) BY <1>1, <1>2, <1>3, WaitWhole
<1> QED BY <1>4 DEF Holds, m, D, w

LEMMA HelloHolds ==
    ASSUME NEW r \in Router, NEW s \in Work, NEW p \in Nbr, NEW d \in [Lsa -> Nat],
           NEW q \in Seq(Packet), NEW v \in Seq(Packet), q # <<>>, Head(q).kind = "hello",
           outages = 0, Holds(r, s, q, p, d, v), NEW t, t = ReadHello(s, Head(q).seen)
    PROVE  t \in Work /\ Holds(r, t, Tail(q), p, d, v)
<1> DEFINE x == Head(q)
           a == Tail(q)
<1>0. x \in Packet /\ a \in Seq(Packet) /\ ToSet(a) \subseteq ToSet(q) BY TailIs
<1>1. x.seen \in BOOLEAN BY <1>0, PacketKinds
<1>2. Less(a, q) BY TailLess
<1>3. Holds(r, s, a, p, d, v) BY <1>2, LessHolds
<1>4. Greets(s.n, q, p) BY DEF Holds, Whole, Half
<1>5. Blank(s.n) \/ s.n.state \notin {"Down", "Init"} BY <1>4 DEF Greets, Early
<1>6. \/ x.seen /\ s.n.state \in {"Down", "Init"} /\ t = Start(s)
      \/ x.seen /\ s.n.state \notin {"Down", "Init"} /\ t = s
      \/ ~x.seen /\ s.n.state = "Down" /\ t = WithState(s, "Init")
      \/ ~x.seen /\ s.n.state # "Down" /\ t = WithState(Reset(s), "Init")
    BY <1>1, ReadHelloIs
<1>7. CASE x.seen /\ s.n.state \in {"Down", "Init"} /\ t = Start(s)
    <2>1. ~Cold(x) BY <1>7 DEF Cold
    <2>2. p.state # "Down" /\ \A y \in ToSet(a) : ~Cold(y) BY <1>0, <1>4, <2>1, ColdOrder
    <2> HIDE DEF a
    <2>3. t \in Work /\ Holds(r, t, a, p, d, v) BY <1>0, <1>3, <1>7, <2>2, StartHolds
    <2> QED BY <2>3 DEF a
<1>8. CASE x.seen /\ s.n.state \notin {"Down", "Init"} /\ t = s BY <1>3, <1>8
<1>9. CASE ~x.seen /\ s.n.state = "Down" /\ t = WithState(s, "Init")
    <2>1. "Init" \in State BY DEF State
    <2>2. t \in Work /\ Sets(t, s, "state", "Init") BY <1>9, <2>1, PutState
    <2>3. /\ t.db = s.db /\ t.out = s.out /\ t.n.state = "Init" /\ SameLists(t.n, s.n)
          /\ t.n.seq = s.n.seq /\ t.n.flags = s.n.flags /\ t.n.recv = s.n.recv
          /\ t.n.sent = s.n.sent /\ t.n.events = s.n.events
        BY <2>2 DEF Sets, Field, SameLists
    <2>4. s.n.state \in {"Down", "Init"} BY <1>9
    <2> HIDE DEF a
    <2>5. Holds(r, t, a, p, d, v) BY <1>3, <2>2, <2>3, <2>4, WaitHolds
    <2> QED BY <2>2, <2>5 DEF a
<1>10. CASE ~x.seen /\ s.n.state # "Down" /\ t = WithState(Reset(s), "Init")
    <2>1. Cold(x) BY <1>10 DEF Cold
    <2>2. s.n.state \in {"Down", "Init"} BY <1>4, <2>1, ColdOrder
    <2>3. Blank(s.n) BY <1>5, <2>2
    <2> DEFINE u == Reset(s)
    <2>4. /\ u \in Work /\ u.db = s.db /\ u.out = s.out
          /\ u.n.state = s.n.state /\ u.n.seq = s.n.seq /\ u.n.flags = s.n.flags
          /\ u.n.recv = s.n.recv /\ u.n.sent = s.n.sent
          /\ u.n.db_sum = {} /\ u.n.ls_req = {} /\ u.n.rxmt = {} /\ u.n.events = <<>>
          /\ ~u.n.t_db_desc /\ ~u.n.t_ls_req
        BY ResetIs
    <2>5. "Init" \in State BY DEF State
    <2>6. t = WithState(u, "Init") BY <1>10
    <2> HIDE DEF u, a
    <2>7. t \in Work /\ Sets(t, u, "state", "Init") BY <2>4, <2>5, <2>6, PutState
    <2>8. /\ t.db = s.db /\ t.out = s.out /\ t.n.state = "Init"
          /\ t.n.seq = s.n.seq /\ t.n.flags = s.n.flags /\ t.n.recv = s.n.recv
          /\ t.n.sent = s.n.sent
          /\ t.n.events = <<>> /\ t.n.db_sum = {} /\ t.n.ls_req = {} /\ t.n.rxmt = {}
        BY <2>4, <2>7 DEF Sets, Field
    <2>9. SameLists(t.n, s.n) /\ t.n.events = s.n.events BY <2>3, <2>8 DEF SameLists, Blank
    <2>10. Holds(r, t, a, p, d, v) BY <1>3, <2>2, <2>7, <2>8, <2>9, WaitHolds
    <2> QED BY <2>7, <2>10 DEF a
<1> QED BY <1>6, <1>7, <1>8, <1>9, <1>10

----------------------------------------------------------------------------
(* The other packets.                                                       *)

\* What the neighbour has got need not be repeated to it.
LEMMA StrikeQuiet ==
    ASSUME NEW r \in Router, NEW n \in Nbr, NEW m \in Nbr, NEW p \in Nbr,
           NEW D \in [Lsa -> Nat], NEW d \in [Lsa -> Nat], NEW q,
           SameExchange(m, n), Loaded(m), Calm(m), m.ls_req = n.ls_req,
           n.state \in Early => m.events = <<>>,
           m.rxmt \subseteq n.rxmt, \A j \in n.rxmt \ m.rxmt : j.ver <= d[j.id],
           Told(r, n, q, p, D, d), Greets(n, q, p)
    PROVE  Quiet(r, n, m, D, D, d)
<1>1. n.state \in Early => m.ls_req = {} /\ m.rxmt = {} /\ m.events = <<>>
    BY DEF Greets, Blank
<1>2. \A a \in Lsa : D[a] <= D[a] OBVIOUS
<1>3. D[Peer(r)] <= d[Peer(r)] BY DEF Told
<1>4. \A i \in m.ls_req : D[i.id] < i.ver BY DEF Told
<1>5. \A i \in m.rxmt : i.id = r /\ i.ver = D[r] BY DEF Told
<1>6. \A a \in Lsa : D[a] > d[a] =>
         ([id |-> a, ver |-> D[a]] \in n.rxmt => [id |-> a, ver |-> D[a]] \in m.rxmt)
    <2> SUFFICES ASSUME NEW a \in Lsa, D[a] > d[a], NEW i, i = [id |-> a, ver |-> D[a]],
                        i \in n.rxmt, i \notin m.rxmt
        PROVE  FALSE
        OBVIOUS
    <2>1. i.ver = D[a] /\ i.id = a OBVIOUS
    <2>2. D[a] <= d[a] BY <2>1
    <2> QED BY <2>2
<1> QED BY <1>1, <1>2, <1>3, <1>4, <1>5, <1>6 DEF Quiet

LEMMA Whom ==
    ASSUME NEW r, NEW s, NEW q, NEW p, NEW d, NEW v, Holds(r, s, q, p, d, v)
    PROVE  /\ Greets(s.n, q, p) /\ Told(r, s.n, q, p, s.db, d) /\ Loaded(s.n) /\ Calm(s.n)
           /\ Told(Peer(r), p, v \o s.out, s.n, d, s.db)
BY DEF Holds, Whole, Half

LEMMA SameExchangeIs ==
    ASSUME NEW m, NEW n \in Nbr, SameTalk(m, n), m.db_sum = n.db_sum,
           "ExchangeDone" \in ToSet(m.events) <=> "ExchangeDone" \in ToSet(n.events)
    PROVE  SameExchange(m, n)
<1>1. n.state \in Early \/ n.state \in Exchanging BY NbrFields DEF State, Early
<1>2. (Over(m) \in BOOLEAN) /\ (Over(n) \in BOOLEAN) BY DEF Over
<1>3. Over(m) <=> Over(n) BY DEF Over, SameTalk
<1> QED BY <1>1, <1>2, <1>3 DEF SameExchange, SameTalk

\* A handler that only strikes off and sends.
LEMMA StrikeHolds ==
    ASSUME NEW r \in Router, NEW s \in Work, NEW t \in Work, NEW p \in Nbr,
           NEW d \in [Lsa -> Nat], NEW q \in Seq(Packet), NEW v \in Seq(Packet),
           NEW o \in Seq(Packet), t.out = s.out \o o, t.db = s.db,
           SameTalk(t.n, s.n), t.n.db_sum = s.n.db_sum, t.n.ls_req = s.n.ls_req,
           t.n.events = s.n.events,
           t.n.rxmt \subseteq s.n.rxmt, \A j \in s.n.rxmt \ t.n.rxmt : j.ver <= d[j.id],
           \A y \in ToSet(o) : Sendable(y, t.n, t.db), Holds(r, s, q, p, d, v)
    PROVE  Holds(r, t, q, p, d, v)
<1> DEFINE n == s.n
           m == t.n
<1>1. n \in Nbr /\ m \in Nbr /\ s.db \in [Lsa -> Nat] BY WorkFields
<1>2. Greets(n, q, p) /\ Told(r, n, q, p, s.db, d) /\ Loaded(n) /\ Calm(n) BY Whom
<1>3. SameExchange(m, n) BY <1>1, SameExchangeIs
<1>4. Loaded(m) /\ Calm(m) BY <1>2 DEF Loaded, Calm, SameTalk
<1>5. n.state \in Early => m.events = <<>> BY <1>2 DEF Greets, Blank
<1>6. /\ m.ls_req = n.ls_req /\ m.rxmt \subseteq n.rxmt
      /\ \A j \in n.rxmt \ m.rxmt : j.ver <= d[j.id]
    OBVIOUS
<1> HIDE DEF n, m
<1>7. Quiet(r, n, m, s.db, s.db, d)
    BY <1>1, <1>2, <1>3, <1>4, <1>5, <1>6, StrikeQuiet
<1>8. Quiet(r, s.n, t.n, s.db, t.db, d) BY <1>7 DEF n, m
<1> QED BY <1>8, MoveHolds

LEMMA NothingSent == <<>> \in Seq(Packet) /\ ToSet(<<>>) = {} /\ \A o \in Seq(Packet) : o \o <<>> = o
BY DEF ToSet

LEMMA RequestHolds ==
    ASSUME NEW r \in Router, NEW s \in Work, NEW p \in Nbr, NEW d \in [Lsa -> Nat],
           NEW q \in Seq(Packet), NEW v \in Seq(Packet), NEW x \in Packet, x.kind = "req",
           ToldOne(x, s.n, s.db, d), Holds(r, s, q, p, d, v),
           NEW t, t = ReadRequest(s, x.ids)
    PROVE  t \in Work /\ Holds(r, t, q, p, d, v)
<1>0. x.ids \in SUBSET Lsa BY PacketKinds
<1>1. \A a \in x.ids : s.db[a] # 0 BY DEF ToldOne
<1>2. \/ s.n.state \notin Exchanging /\ t = s
      \/ /\ s.n.state \in Exchanging /\ \E a \in x.ids : s.db[a] = 0
         /\ t = Schedule(s, "BadLSReq")
      \/ /\ s.n.state \in Exchanging /\ \A a \in x.ids : s.db[a] # 0
         /\ Replied(t, s, x.ids)
    BY <1>0, ReadRequestIs
<1>3. CASE t = s BY <1>3
<1>4. CASE s.n.state \in Exchanging /\ Replied(t, s, x.ids)
    <2>0. t \in Work /\ t.n = s.n /\ t.db = s.db BY <1>4 DEF Replied
    <2>1. PICK o : Replies(o, x.ids, s.db) /\ t.out = s.out \o o BY <1>4 DEF Replied
    <2>2. o \in Seq(Packet) BY <2>1 DEF Replies
    <2>3. ASSUME NEW y \in ToSet(o) PROVE Sendable(y, s.n, s.db)
        <3>1. PICK k \in DOMAIN o : y = o[k] BY DEF ToSet
        <3>2. PICK a \in x.ids : y = Update([id |-> a, ver |-> s.db[a]])
            BY <2>1, <3>1 DEF Replies
        <3>3. y.kind = "upd" /\ y.lsa.ver = s.db[y.lsa.id] BY <3>2 DEF Update
        <3> QED BY <1>4, <3>3 DEF Sendable
    <2>4. Holds(r, t, q, p, d, v) BY <2>0, <2>1, <2>2, <2>3, SayHolds
    <2> QED BY <2>0, <2>4
<1> QED BY <1>1, <1>2, <1>3, <1>4

LEMMA AckHolds ==
    ASSUME NEW r \in Router, NEW s \in Work, NEW p \in Nbr, NEW d \in [Lsa -> Nat],
           NEW q \in Seq(Packet), NEW v \in Seq(Packet), NEW x \in Packet, x.kind = "ack",
           ToldOne(x, s.n, s.db, d), Holds(r, s, q, p, d, v),
           NEW t, t = ReadAck(s, x.lsa)
    PROVE  t \in Work /\ Holds(r, t, q, p, d, v)
<1>0. x.lsa \in Instance BY PacketKinds
<1>1. /\ t \in Work /\ t.db = s.db /\ t.out = s.out /\ SameTalk(t.n, s.n)
      /\ t.n.db_sum = s.n.db_sum /\ t.n.ls_req = s.n.ls_req /\ t.n.events = s.n.events
      /\ t.n.rxmt = IF s.n.state \in Exchanging THEN s.n.rxmt \ {x.lsa} ELSE s.n.rxmt
    BY <1>0, ReadAckIs
<1>2. x.lsa.ver <= d[x.lsa.id] BY DEF ToldOne
<1>3. /\ t.n.rxmt \subseteq s.n.rxmt
      /\ \A j \in s.n.rxmt \ t.n.rxmt : j.ver <= d[j.id]
    BY <1>1, <1>2
<1>4. s.out \in Seq(Packet) BY WorkFields
<1>5. t.out = s.out \o <<>> BY <1>1, <1>4, NothingSent
<1>6. /\ t \in Work /\ t.db = s.db /\ SameTalk(t.n, s.n) /\ t.n.db_sum = s.n.db_sum
      /\ t.n.ls_req = s.n.ls_req /\ t.n.events = s.n.events
    BY <1>1
<1>7. Holds(r, t, q, p, d, v) BY <1>3, <1>5, <1>6, NothingSent, StrikeHolds
<1> QED BY <1>1, <1>7

\* A newer LSA is installed, flooded no further and acknowledged.
LEMMA InstallHolds ==
    ASSUME NEW r \in Router, NEW s \in Work, NEW p \in Nbr, NEW d \in [Lsa -> Nat],
           NEW q \in Seq(Packet), NEW v \in Seq(Packet), NEW i \in Instance,
           s.n.state \in Exchanging, i.ver > s.db[i.id], i.ver <= d[i.id],
           Holds(r, s, q, p, d, v), NEW t, t = Install(s, i)
    PROVE  t \in Work /\ Holds(r, t, q, p, d, v)
<1> DEFINE n == s.n
           m == t.n
           D == s.db
           E == t.db
<1>0. i.id \in Lsa /\ i.ver \in Nat /\ Peer(r) \in Lsa /\ r \in Lsa
    BY InstanceIs, PeerIs, LsaAssumption
<1>1. t \in Work /\ Installed(t, s, i) BY InstallIs
<1>2. n \in Nbr /\ m \in Nbr /\ D \in [Lsa -> Nat] /\ E \in [Lsa -> Nat] BY <1>1, WorkFields
<1>3. /\ E = [D EXCEPT ![i.id] = i.ver]
      /\ t.out = s.out \o <<Ack(i)>>
      /\ SameTalk(m, n) /\ m.db_sum = n.db_sum
      /\ m.ls_req = {j \in n.ls_req : j.id # i.id \/ j.ver > i.ver}
      /\ m.rxmt = {j \in n.rxmt : j.id # i.id}
      /\ \/ m.events = n.events
         \/ /\ n.state = "Loading" /\ m.ls_req = {}
            /\ ToSet(m.events) = ToSet(n.events) \cup {"LoadingDone"}
    BY <1>1 DEF Installed
<1>4. Told(r, n, q, p, D, d) /\ Loaded(n) /\ Calm(n) BY Whom
<1>5. E[i.id] = i.ver /\ \A a \in Lsa : a # i.id => E[a] = D[a] BY <1>0, <1>2, <1>3
<1>6. n.state \in Exchanging /\ i.ver > D[i.id] /\ i.ver <= d[i.id] OBVIOUS
<1>7. m.ls_req \subseteq n.ls_req /\ n.ls_req \in SUBSET Instance /\ n.rxmt \in SUBSET Instance
    BY <1>2, <1>3, NbrFields
<1>8. m.state = n.state BY <1>3 DEF SameTalk
<1>9. SameExchange(m, n)
    <2>1. "ExchangeDone" \in ToSet(m.events) <=> "ExchangeDone" \in ToSet(n.events) BY <1>3
    <2> QED BY <1>2, <1>3, <2>1, SameExchangeIs
<1>10. Loaded(m)
    <2>1. m.state = "Full" => m.ls_req = {} BY <1>4, <1>7, <1>8 DEF Loaded
    <2>2. ASSUME "LoadingDone" \in ToSet(m.events)
          PROVE  m.state \in {"Loading", "Full"} /\ m.ls_req = {}
        <3>1. CASE m.events = n.events BY <1>4, <1>7, <1>8, <2>2, <3>1 DEF Loaded
        <3>2. CASE n.state = "Loading" /\ m.ls_req = {} BY <1>8, <3>2
        <3> QED BY <1>3, <3>1, <3>2
    <2> QED BY <2>1, <2>2 DEF Loaded
<1>11. Calm(m) BY <1>3, <1>4 DEF Calm
<1>12. Ack(i) \in Packet /\ Ack(i).kind = "ack" /\ Ack(i).lsa = i BY PacketsAre
<1> DEFINE o == <<Ack(i)>>
<1>13. o \in Seq(Packet) /\ ToSet(o) = {Ack(i)} BY <1>12, OneIs
<1> HIDE DEF n, m, D, E
<1>14. Quiet(r, n, m, D, E, d)
    <2>1. n.state \notin Early BY <1>6 DEF Early, Exchanging
    <2>2. \A a \in Lsa : D[a] <= E[a]
        <3> SUFFICES ASSUME NEW a \in Lsa PROVE D[a] <= E[a] OBVIOUS
        <3>1. D[a] \in Nat /\ E[a] \in Nat BY <1>2
        <3>2. a = i.id => D[a] <= E[a] BY <1>0, <1>5, <1>6, <3>1
        <3> QED BY <1>5, <3>1, <3>2
    <2>3. E[Peer(r)] <= d[Peer(r)]
        <3>1. CASE Peer(r) = i.id BY <1>5, <1>6, <3>1
        <3>2. CASE Peer(r) # i.id BY <1>0, <1>4, <1>5, <3>2 DEF Told
        <3> QED BY <3>1, <3>2
    <2>4. ASSUME NEW j \in m.ls_req PROVE E[j.id] < j.ver
        <3>1. j \in n.ls_req /\ (j.id # i.id \/ j.ver > i.ver) BY <1>3, <2>4
        <3>2. j.id \in Lsa /\ j.ver \in Nat /\ D[j.id] < j.ver
            BY <1>4, <1>7, <3>1, InstanceIs DEF Told
        <3>3. CASE j.id # i.id BY <1>5, <3>2, <3>3
        <3>4. CASE j.id = i.id
            <4>1. j.ver > i.ver BY <3>1, <3>4
            <4>2. E[j.id] = i.ver BY <1>5, <3>4
            <4> QED BY <1>0, <3>2, <4>1, <4>2
        <3> QED BY <3>3, <3>4
    <2>5. ASSUME NEW j \in n.ls_req \ m.ls_req PROVE j.ver <= E[j.id]
        <3>1. j.id = i.id /\ ~(j.ver > i.ver) BY <1>3, <2>5
        <3>2. j.ver \in Nat BY <1>7, <2>5, InstanceIs
        <3>3. E[j.id] = i.ver BY <1>5, <3>1
        <3> QED BY <1>0, <3>1, <3>2, <3>3
    <2>6. ASSUME NEW j \in m.rxmt PROVE j.id = r /\ j.ver = E[r]
        <3>1. j \in n.rxmt /\ j.id # i.id BY <1>3, <2>6
        <3>2. j.id = r /\ j.ver = D[r] BY <1>4, <3>1 DEF Told
        <3> QED BY <1>0, <1>5, <3>1, <3>2
    <2>7. ASSUME NEW a \in Lsa, E[a] > d[a]
          PROVE  /\ E[a] = D[a]
                 /\ [id |-> a, ver |-> D[a]] \in n.rxmt => [id |-> a, ver |-> D[a]] \in m.rxmt
        <3>1. a # i.id
            <4>1. d[a] \in Nat /\ E[a] \in Nat BY <1>2
            <4> QED BY <1>5, <1>6, <2>7, <4>1
        <3>2. E[a] = D[a] BY <1>5, <3>1
        <3>3. ASSUME NEW j, j = [id |-> a, ver |-> D[a]], j \in n.rxmt PROVE j \in m.rxmt
            <4>1. j.id = a BY <3>3
            <4>2. j.id # i.id BY <3>1, <4>1
            <4> QED BY <1>3, <3>3, <4>2
        <3> QED BY <3>2, <3>3
    <2> QED BY <1>7, <1>9, <1>10, <1>11, <2>1, <2>2, <2>3, <2>4, <2>5, <2>6, <2>7 DEF Quiet
<1>15. \A y \in ToSet(o) : Sendable(y, t.n, t.db)
    <2>1. i.ver <= E[i.id] BY <1>0, <1>5
    <2>2. m.state \in Exchanging BY <1>6, <1>8
    <2>3. Sendable(Ack(i), m, E) BY <1>12, <2>1, <2>2 DEF Sendable
    <2> QED BY <1>13, <2>3 DEF m, E
<1>16. t.out = s.out \o o BY <1>3
<1>17. Quiet(r, s.n, t.n, s.db, t.db, d) BY <1>14 DEF n, m, D, E
<1> HIDE DEF o
<1>18. Holds(r, t, q, p, d, v) BY <1>1, <1>13, <1>15, <1>16, <1>17, MoveHolds
<1> QED BY <1>1, <1>18

LEMMA UpdateHolds ==
    ASSUME NEW r \in Router, NEW s \in Work, NEW p \in Nbr, NEW d \in [Lsa -> Nat],
           NEW q \in Seq(Packet), NEW v \in Seq(Packet), NEW x \in Packet, x.kind = "upd",
           ToldOne(x, s.n, s.db, d), Holds(r, s, q, p, d, v),
           NEW t, t = ReadUpdate(s, x.lsa)
    PROVE  t \in Work /\ Holds(r, t, q, p, d, v)
<1> DEFINE i == x.lsa
<1>0. i \in Instance /\ i.ver \in Nat /\ i.id \in Lsa BY PacketKinds, InstanceIs
<1>1. i.ver <= d[i.id] /\ \A j \in s.n.ls_req : j.id = i.id => j.ver <= i.ver BY DEF ToldOne
<1>2. s.db \in [Lsa -> Nat] /\ s.out \in Seq(Packet) /\ s.n \in Nbr BY WorkFields
<1>3. t = ReadUpdate(s, i) OBVIOUS
<1>4. Told(r, s.n, q, p, s.db, d) BY Whom
<1> HIDE DEF i
<1>5. \/ s.n.state \notin Exchanging /\ t = s
      \/ s.n.state \in Exchanging /\ i.ver > s.db[i.id] /\ t = Install(s, i)
      \/ /\ s.n.state \in Exchanging /\ ~(i.ver > s.db[i.id])
         /\ \E j \in s.n.ls_req : j.id = i.id
         /\ t = Schedule(s, "BadLSReq")
      \/ s.n.state \in Exchanging /\ ~(i.ver > s.db[i.id]) /\ Noted(t, s, i)
    BY <1>0, <1>3, ReadUpdateIs
<1>6. CASE t = s BY <1>6
<1>7. CASE s.n.state \in Exchanging /\ i.ver > s.db[i.id] /\ t = Install(s, i)
    BY <1>0, <1>1, <1>7, InstallHolds
<1>8. ~(~(i.ver > s.db[i.id]) /\ \E j \in s.n.ls_req : j.id = i.id)
    <2> SUFFICES ASSUME ~(i.ver > s.db[i.id]), NEW j \in s.n.ls_req, j.id = i.id
        PROVE  FALSE
        OBVIOUS
    <2>1. j \in Instance BY <1>2, NbrFields
    <2>2. j.ver \in Nat /\ s.db[i.id] \in Nat BY <1>0, <1>2, <2>1, InstanceIs
    <2>3. s.db[j.id] < j.ver BY <1>4 DEF Told
    <2>4. j.ver <= i.ver BY <1>1
    <2> QED BY <1>0, <2>2, <2>3, <2>4
<1>9. CASE s.n.state \in Exchanging /\ ~(i.ver > s.db[i.id]) /\ Noted(t, s, i)
    <2>1. /\ t \in Work /\ t.db = s.db /\ SameTalk(t.n, s.n)
          /\ t.n.db_sum = s.n.db_sum /\ t.n.ls_req = s.n.ls_req /\ t.n.events = s.n.events
        BY <1>9 DEF Noted
    <2>2. CASE t.n.rxmt = s.n.rxmt \ {i} /\ t.out = s.out
        <3>1. t.n.rxmt \subseteq s.n.rxmt /\ \A j \in s.n.rxmt \ t.n.rxmt : j.ver <= d[j.id]
            BY <1>1, <2>2
        <3>2. t.out = s.out \o <<>> BY <1>2, <2>2, NothingSent
        <3>3. Holds(r, t, q, p, d, v) BY <2>1, <3>1, <3>2, NothingSent, StrikeHolds
        <3> QED BY <2>1, <3>3
    <2>3. ASSUME NEW y \in {Ack(i), Update(Copy(s, i))},
                 t.n.rxmt = s.n.rxmt, t.out = s.out \o <<y>>
          PROVE  t \in Work /\ Holds(r, t, q, p, d, v)
        <3> DEFINE o == <<y>>
        <3>1. /\ y \in Packet
              /\ \/ y.kind = "ack" /\ y.lsa = i
                 \/ y.kind = "upd" /\ y.lsa.id = i.id /\ y.lsa.ver = s.db[i.id]
            BY <1>0, CopyIs, PacketsAre
        <3>2. o \in Seq(Packet) /\ ToSet(o) = {y} BY <3>1, OneIs
        <3>3. t.n.state = s.n.state BY <2>1 DEF SameTalk
        <3>4. i.ver <= t.db[i.id]
            <4>1. s.db[i.id] \in Nat BY <1>0, <1>2
            <4> QED BY <1>0, <1>9, <2>1, <4>1
        <3>5. Sendable(y, t.n, t.db) BY <1>9, <2>1, <3>1, <3>3, <3>4 DEF Sendable
        <3>6. \A z \in ToSet(o) : Sendable(z, t.n, t.db) BY <3>2, <3>5
        <3>7. t.n.rxmt \subseteq s.n.rxmt /\ \A j \in s.n.rxmt \ t.n.rxmt : j.ver <= d[j.id]
            BY <2>3
        <3>8. t.out = s.out \o o BY <2>3
        <3> HIDE DEF o
        <3>9. Holds(r, t, q, p, d, v) BY <2>1, <3>2, <3>6, <3>7, <3>8, StrikeHolds
        <3> QED BY <2>1, <3>9
    <2> QED BY <1>9, <2>2, <2>3 DEF Noted
<1> QED BY <1>5, <1>6, <1>7, <1>8, <1>9

----------------------------------------------------------------------------
(* The actions.                                                             *)

Holding(r) == Whole(r, nbr[r], db[r], link[r], nbr[Peer(r)], db[Peer(r)], link[Peer(r)])

\* Either router may be looked at first.
LEMMA Sides ==
    ASSUME NEW r \in Router
    PROVE  Inv <=> (outages = 0 => Holding(r))
<1>1. CASE r = 1
    <2>1. Peer(r) = 2 BY <1>1 DEF Peer
    <2> QED BY <1>1, <2>1 DEF Inv, Holding
<1>2. CASE r = 2
    <2>1. Peer(2) = 1 /\ Peer(1) = 2 /\ Peer(r) = 1 BY <1>2 DEF Peer
    <2>2. Talk(2, nbr[2], link[2], nbr[1], link[1]) <=> Talk(1, nbr[1], link[1], nbr[2], link[2])
        BY DEF Talk
    <2>3. Whole(2, nbr[2], db[2], link[2], nbr[1], db[1], link[1])
          <=> Whole(1, nbr[1], db[1], link[1], nbr[2], db[2], link[2])
        BY <2>1, <2>2 DEF Whole
    <2> QED BY <1>2, <2>1, <2>3 DEF Inv, Holding
<1> QED BY <1>1, <1>2 DEF Router

LEMMA TypedIs ==
    ASSUME TInv, NEW r \in Router
    PROVE  /\ nbr[r] \in Nbr /\ db[r] \in [Lsa -> Nat] /\ link[r] \in Seq(Packet) /\ Sane(nbr[r])
           /\ nbr[Peer(r)] \in Nbr /\ db[Peer(r)] \in [Lsa -> Nat]
           /\ link[Peer(r)] \in Seq(Packet)
BY PeerIs DEF TInv

LEMMA BeginHolds ==
    ASSUME TInv, NEW r \in Router, Holding(r)
    PROVE  Holds(r, Step(r), link[r], nbr[Peer(r)], db[Peer(r)], link[Peer(r)])
<1>1. Step(r).n = nbr[r] /\ Step(r).db = db[r] /\ Step(r).out = <<>> BY StepIs
<1>2. link[Peer(r)] \o <<>> = link[Peer(r)]
    <2>1. link[Peer(r)] \in Seq(Packet) BY TypedIs
    <2> QED BY <2>1, NothingSent
<1> QED BY <1>1, <1>2 DEF Holds, Holding

LEMMA EndHolds ==
    ASSUME TInv, NEW r \in Router, NEW t \in Work, NEW rest \in Seq(Packet), Done(r, t, rest),
           Holds(r, t, rest, nbr[Peer(r)], db[Peer(r)], link[Peer(r)])
    PROVE  Inv'
<1>1. /\ nbr'[r] = t.n /\ nbr'[Peer(r)] = nbr[Peer(r)]
      /\ db'[r] = t.db /\ db'[Peer(r)] = db[Peer(r)]
      /\ link'[r] = rest /\ link'[Peer(r)] = link[Peer(r)] \o t.out
    BY DoneIs
<1>2. Whole(r, t.n, t.db, rest, nbr[Peer(r)], db[Peer(r)], link[Peer(r)] \o t.out)
    BY DEF Holds
<1>3. Holding(r)' BY <1>1, <1>2 DEF Holding
<1>4. Inv' <=> (outages' = 0 => Holding(r)')
    <2>1. CASE r = 1
        <3>1. Peer(r) = 2 BY <2>1 DEF Peer
        <3> QED BY <2>1, <3>1 DEF Inv, Holding
    <2>2. CASE r = 2
        <3>1. Peer(2) = 1 /\ Peer(1) = 2 /\ Peer(r) = 1 BY <2>2 DEF Peer
        <3>2. Talk(2, nbr'[2], link'[2], nbr'[1], link'[1])
              <=> Talk(1, nbr'[1], link'[1], nbr'[2], link'[2])
            BY DEF Talk
        <3>3. Whole(2, nbr'[2], db'[2], link'[2], nbr'[1], db'[1], link'[1])
              <=> Whole(1, nbr'[1], db'[1], link'[1], nbr'[2], db'[2], link'[2])
            BY <3>1, <3>2 DEF Whole
        <3> QED BY <2>2, <3>1, <3>3 DEF Inv, Holding
    <2> QED BY <2>1, <2>2 DEF Router
<1> QED BY <1>3, <1>4

LEMMA ReadHolds ==
    ASSUME NEW r \in Router, NEW s \in Work, NEW p \in Nbr, NEW d \in [Lsa -> Nat],
           NEW q \in Seq(Packet), NEW v \in Seq(Packet), q # <<>>,
           outages = 0, Sane(s.n), s.n.events = <<>>, Holds(r, s, q, p, d, v),
           NEW t, t = Read(s, Head(q), r)
    PROVE  t \in Work /\ Holds(r, t, Tail(q), p, d, v)
<1> DEFINE x == Head(q)
           a == Tail(q)
<1>0. x \in Packet /\ x \in ToSet(q) /\ a \in Seq(Packet) BY TailIs
<1>1. Holds(r, s, a, p, d, v) BY TailLess, LessHolds
<1>2. ToldOne(x, s.n, s.db, d) BY <1>0, Whom DEF Told
<1>3. x.kind \in {"dd", "hello", "req", "upd", "ack"} BY <1>0, PacketKinds
<1>4. CASE x.kind = "hello"
    <2>1. t = ReadHello(s, x.seen) BY <1>4 DEF Read
    <2> QED BY <1>4, <2>1, HelloHolds
<1>5. CASE x.kind = "dd"
    <2>1. t = ReadDd(s, x, r) BY <1>5 DEF Read
    <2> QED BY <1>5, <2>1, DdHolds
<1>6. CASE x.kind = "req"
    <2>1. t = ReadRequest(s, x.ids) BY <1>6 DEF Read
    <2> HIDE DEF a, x
    <2>2. t \in Work /\ Holds(r, t, a, p, d, v) BY <1>0, <1>1, <1>2, <1>6, <2>1, RequestHolds
    <2> QED BY <2>2 DEF a
<1>7. CASE x.kind = "upd"
    <2>1. t = ReadUpdate(s, x.lsa) BY <1>7 DEF Read
    <2> HIDE DEF a, x
    <2>2. t \in Work /\ Holds(r, t, a, p, d, v) BY <1>0, <1>1, <1>2, <1>7, <2>1, UpdateHolds
    <2> QED BY <2>2 DEF a
<1>8. CASE x.kind = "ack"
    <2>1. t = ReadAck(s, x.lsa) BY <1>8 DEF Read
    <2> HIDE DEF a, x
    <2>2. t \in Work /\ Holds(r, t, a, p, d, v) BY <1>0, <1>1, <1>2, <1>8, <2>1, AckHolds
    <2> QED BY <2>2 DEF a
<1> QED BY <1>3, <1>4, <1>5, <1>6, <1>7, <1>8

LEMMA InvReceive == ASSUME TInv, NEW r \in Router, outages = 0, Inv, Receive(r) PROVE Inv'
<1> DEFINE s == Step(r)
           q == link[r]
           t == Read(s, Head(q), r)
           p == nbr[Peer(r)]
           d == db[Peer(r)]
           v == link[Peer(r)]
<1>1. nbr[r].events = <<>> /\ q # <<>> /\ Done(r, t, Tail(q)) BY DEF Receive
<1>2. s \in Work /\ s.n = nbr[r] /\ Sane(s.n) BY StepIs
<1>3. q \in Seq(Packet) /\ p \in Nbr /\ d \in [Lsa -> Nat] /\ v \in Seq(Packet) BY TypedIs
<1>4. Holding(r) BY Sides
<1>5. Holds(r, s, q, p, d, v) BY <1>4, BeginHolds
<1>6. s.n.events = <<>> BY <1>1, <1>2
<1> HIDE DEF s, q, p, d, v
<1>7. t \in Work /\ Holds(r, t, Tail(q), p, d, v)
    BY <1>1, <1>2, <1>3, <1>5, <1>6, ReadHolds
<1>8. Tail(q) \in Seq(Packet) BY <1>1, <1>3, TailIs
<1> HIDE DEF t
<1> QED BY <1>1, <1>7, <1>8, EndHolds DEF p, d, v

\* A quiet handler of router r sends o.
LEMMA QuietDone ==
    ASSUME TInv, NEW r \in Router, outages = 0, Inv, NEW t \in Work, NEW o \in Seq(Packet),
           t.out = o, Quiet(r, nbr[r], t.n, db[r], t.db, db[Peer(r)]),
           \A y \in ToSet(o) : Sendable(y, t.n, t.db), Done(r, t, link[r])
    PROVE  Inv'
<1> DEFINE s == Step(r)
           q == link[r]
           p == nbr[Peer(r)]
           d == db[Peer(r)]
           v == link[Peer(r)]
<1>1. s \in Work /\ s.n = nbr[r] /\ s.db = db[r] /\ s.out = <<>> BY StepIs
<1>2. q \in Seq(Packet) /\ p \in Nbr /\ d \in [Lsa -> Nat] /\ v \in Seq(Packet) BY TypedIs
<1>3. Holding(r) BY Sides
<1>4. Holds(r, s, q, p, d, v) BY <1>3, BeginHolds
<1>5. t.out = s.out \o o BY <1>1
<1>6. Quiet(r, s.n, t.n, s.db, t.db, d) BY <1>1
<1>7. Done(r, t, q) OBVIOUS
<1> HIDE DEF s, q, p, d, v
<1>8. Holds(r, t, q, p, d, v) BY <1>1, <1>2, <1>4, <1>5, <1>6, MoveHolds
<1> QED BY <1>2, <1>7, <1>8, EndHolds DEF p, d, v

LEMMA Here ==
    ASSUME TInv, NEW r \in Router, outages = 0, Inv
    PROVE  /\ Greets(nbr[r], link[r], nbr[Peer(r)])
           /\ Told(r, nbr[r], link[r], nbr[Peer(r)], db[r], db[Peer(r)])
           /\ Told(Peer(r), nbr[Peer(r)], link[Peer(r)], nbr[r], db[Peer(r)], db[r])
           /\ Loaded(nbr[r]) /\ Calm(nbr[r])
           /\ nbr[r].state \in Early => Blank(nbr[r])
           /\ nbr[r].state \notin Early => nbr[r].state \in Exchanging
<1>1. Holding(r) BY Sides
<1>2. nbr[r].state \in Early \/ nbr[r].state \in Exchanging
    BY TypedIs, NbrFields DEF State, Early
<1>3. Greets(nbr[r], link[r], nbr[Peer(r)]) BY <1>1 DEF Holding, Whole, Half
<1>4. /\ Told(r, nbr[r], link[r], nbr[Peer(r)], db[r], db[Peer(r)])
      /\ Told(Peer(r), nbr[Peer(r)], link[Peer(r)], nbr[r], db[Peer(r)], db[r])
      /\ Loaded(nbr[r]) /\ Calm(nbr[r])
    BY <1>1 DEF Holding, Whole, Half
<1> QED BY <1>2, <1>3, <1>4 DEF Greets

\* A handler that leaves the databases and the lists alone.
LEMMA SameDone ==
    ASSUME TInv, NEW r \in Router, outages = 0, Inv, NEW t \in Work, NEW o \in Seq(Packet),
           t.out = o, t.db = db[r], SameExchange(t.n, nbr[r]), SameLists(t.n, nbr[r]),
           Loaded(t.n), Calm(t.n), nbr[r].state \in Early => t.n.events = <<>>,
           \A y \in ToSet(o) : Sendable(y, t.n, t.db), Done(r, t, link[r])
    PROVE  Inv'
<1> DEFINE n == nbr[r]
           m == t.n
           D == db[r]
           d == db[Peer(r)]
           p == nbr[Peer(r)]
           q == link[r]
<1>1. n \in Nbr /\ D \in [Lsa -> Nat] /\ d \in [Lsa -> Nat] /\ p \in Nbr BY TypedIs
<1>2. m \in Nbr BY WorkFields
<1>3. Told(r, n, q, p, D, d) /\ Greets(n, q, p) BY Here
<1>4. /\ m.ls_req = n.ls_req /\ m.rxmt \subseteq n.rxmt
      /\ \A j \in n.rxmt \ m.rxmt : j.ver <= d[j.id]
    BY DEF SameLists
<1>5. SameExchange(m, n) /\ Loaded(m) /\ Calm(m) /\ (n.state \in Early => m.events = <<>>)
    OBVIOUS
<1> HIDE DEF n, m, D, d, p, q
<1>6. Quiet(r, n, m, D, D, d) BY <1>1, <1>2, <1>3, <1>4, <1>5, StrikeQuiet
<1>7. Quiet(r, nbr[r], t.n, db[r], t.db, db[Peer(r)]) BY <1>6 DEF n, m, D, d
<1> QED BY <1>7, QuietDone

\* Nothing but a packet: what a timer does.
LEMMA SayDone ==
    ASSUME TInv, NEW r \in Router, outages = 0, Inv, NEW t \in Work, NEW x \in Packet,
           t.out = <<x>>, t.db = db[r], SameTalk(t.n, nbr[r]), SameLists(t.n, nbr[r]),
           t.n.events = nbr[r].events, Sendable(x, t.n, t.db), Done(r, t, link[r])
    PROVE  Inv'
<1>1. nbr[r] \in Nbr BY TypedIs
<1>2. SameExchange(t.n, nbr[r]) BY <1>1, SameExchangeIs DEF SameLists
<1>3. Loaded(t.n) /\ Calm(t.n)
    <2>1. Loaded(nbr[r]) /\ Calm(nbr[r]) BY Here
    <2> QED BY <2>1 DEF Loaded, Calm, SameTalk, SameLists
<1>4. nbr[r].state \in Early => t.n.events = <<>> BY Here DEF Blank
<1> DEFINE o == <<x>>
<1>5. o \in Seq(Packet) /\ ToSet(o) = {x} BY OneIs
<1>6. t.out = o /\ \A y \in ToSet(o) : Sendable(y, t.n, t.db) BY <1>5
<1> HIDE DEF o
<1> QED BY <1>2, <1>3, <1>4, <1>5, <1>6, SameDone

LEMMA InvTimers ==
    ASSUME TInv, NEW r \in Router, outages = 0, Inv,
           DbDescTimer(r) \/ LsReqTimer(r) \/ LsUpdTimer(r) \/ HelloTimer(r)
    PROVE  Inv'
<1> DEFINE s == Step(r)
<1>1. s \in Work /\ s.n = nbr[r] /\ s.db = db[r] /\ s.out = <<>> /\ Sane(s.n) BY StepIs
<1>2. nbr[r] \in Nbr /\ db[r] \in [Lsa -> Nat] BY TypedIs
<1>3. /\ Told(r, nbr[r], link[r], nbr[Peer(r)], db[r], db[Peer(r)])
      /\ nbr[r].state \in Early => Blank(nbr[r])
      /\ nbr[r].state \notin Early => nbr[r].state \in Exchanging
    BY Here
<1>4. \A x : <<>> \o <<x>> = <<x>> OBVIOUS
<1> HIDE DEF s
<1>5. CASE DbDescTimer(r)
    <2> DEFINE t == ResendDd(s)
               x == nbr[r].sent
    <2>1. nbr[r].t_db_desc /\ Done(r, t, link[r]) BY <1>5 DEF DbDescTimer, s
    <2>2. nbr[r].state \in {"ExStart", "Exchange"} /\ x \in SentDd BY <1>1, <2>1 DEF Sane
    <2>3. t \in Work /\ t.n = s.n /\ t.db = s.db /\ t.out = s.out \o <<s.n.sent>>
        BY <1>1, <2>2, ResendDdIs
    <2>4. x \in Packet /\ x.kind = "dd" BY <2>2, PacketsAre DEF SentDd, Description
    <2>5. t.out = <<x>> BY <1>1, <1>4, <2>3
    <2>6. Sendable(x, t.n, t.db) BY <1>1, <2>2, <2>3, <2>4 DEF Sendable
    <2>7. t.db = db[r] /\ SameTalk(t.n, nbr[r]) /\ SameLists(t.n, nbr[r])
          /\ t.n.events = nbr[r].events
        BY <1>1, <2>3 DEF SameTalk, SameLists
    <2> HIDE DEF t, x
    <2> QED BY <2>1, <2>3, <2>4, <2>5, <2>6, <2>7, SayDone
<1>6. CASE LsReqTimer(r)
    <2> DEFINE t == SendRequest(s)
               x == Request({i.id : i \in s.n.ls_req})
    <2>1. nbr[r].ls_req # {} /\ Done(r, t, link[r]) BY <1>6 DEF LsReqTimer, s
    <2>2. /\ t \in Work /\ t.db = s.db
          /\ t.out = s.out \o <<Request({i.id : i \in s.n.ls_req})>>
          /\ SameTalk(t.n, s.n) /\ SameLists(t.n, s.n) /\ t.n.events = s.n.events
        BY <1>1, SendRequestIs
    <2>3. nbr[r].state \in Exchanging BY <1>3, <2>1 DEF Blank
    <2>4. {i.id : i \in s.n.ls_req} \in SUBSET Lsa BY <1>1, <1>2, NbrFields, InstanceIs
    <2>5. x \in Packet /\ x.kind = "req" /\ x.ids = {i.id : i \in s.n.ls_req}
        BY <2>4, PacketsAre
    <2>6. t.out = <<x>> BY <1>1, <1>4, <2>2
    <2>7. Sendable(x, t.n, t.db)
        BY <1>1, <2>2, <2>3, <2>5 DEF Sendable, SameTalk, SameLists
    <2>8. t.db = db[r] /\ SameTalk(t.n, nbr[r]) /\ SameLists(t.n, nbr[r])
          /\ t.n.events = nbr[r].events
        BY <1>1, <2>2
    <2> HIDE DEF t, x
    <2> QED BY <2>1, <2>2, <2>5, <2>6, <2>7, <2>8, SayDone
<1>7. CASE LsUpdTimer(r)
    <2>1. PICK i \in nbr[r].rxmt : Done(r, Emit(s, <<Update(i)>>), link[r])
        BY <1>7 DEF LsUpdTimer, s
    <2> DEFINE x == Update(i)
               t == Emit(s, <<x>>)
    <2>2. i \in Instance BY <1>2, NbrFields
    <2>3. x \in Packet /\ x.kind = "upd" /\ x.lsa = i BY <2>2, PacketsAre
    <2>4. i.id = r /\ i.ver = db[r][r] BY <1>3 DEF Told
    <2>5. nbr[r].state \in Exchanging BY <1>3 DEF Blank
    <2>6. <<x>> \in Seq(Packet) BY <2>3
    <2> HIDE DEF x
    <2>7. t \in Work /\ t.n = s.n /\ t.db = s.db /\ t.out = s.out \o <<x>>
        BY <1>1, <2>6, EmitIs
    <2>8. t.out = <<x>> BY <1>1, <1>4, <2>7
    <2>9. Sendable(x, t.n, t.db) BY <1>1, <2>3, <2>4, <2>5, <2>7 DEF Sendable
    <2>10. t.db = db[r] /\ SameTalk(t.n, nbr[r]) /\ SameLists(t.n, nbr[r])
           /\ t.n.events = nbr[r].events
        BY <1>1, <2>7 DEF SameTalk, SameLists
    <2>11. Done(r, t, link[r]) BY <2>1 DEF x
    <2> HIDE DEF t
    <2> QED BY <2>3, <2>7, <2>8, <2>9, <2>10, <2>11, SayDone
<1>8. CASE HelloTimer(r)
    <2> DEFINE x == Hello(nbr[r].state # "Down")
               t == Emit(s, <<x>>)
    <2>1. Done(r, t, link[r]) BY <1>8 DEF HelloTimer, s
    <2>2. (nbr[r].state # "Down") \in BOOLEAN OBVIOUS
    <2>3. x \in Packet /\ x.kind = "hello" /\ x.seen = (nbr[r].state # "Down")
        BY <2>2, PacketsAre
    <2>4. <<x>> \in Seq(Packet) BY <2>3
    <2> HIDE DEF x
    <2>5. t \in Work /\ t.n = s.n /\ t.db = s.db /\ t.out = s.out \o <<x>>
        BY <1>1, <2>4, EmitIs
    <2>6. t.out = <<x>> BY <1>1, <1>4, <2>5
    <2>7. Sendable(x, t.n, t.db) BY <1>1, <2>3, <2>5 DEF Sendable
    <2>8. t.db = db[r] /\ SameTalk(t.n, nbr[r]) /\ SameLists(t.n, nbr[r])
          /\ t.n.events = nbr[r].events
        BY <1>1, <2>5 DEF SameTalk, SameLists
    <2> HIDE DEF t
    <2> QED BY <2>1, <2>3, <2>5, <2>6, <2>7, <2>8, SayDone
<1> QED BY <1>5, <1>6, <1>7, <1>8

LEMMA InvRunEvent == ASSUME TInv, NEW r \in Router, outages = 0, Inv, RunEvent(r) PROVE Inv'
<1> DEFINE n == nbr[r]
           e == Head(n.events)
<1>0. n.events # <<>> BY DEF RunEvent
<1>1. PICK s : /\ s = [Step(r) EXCEPT !.n.events = Tail(@)]
               /\ Done(r, Handle(s, e), link[r])
    BY DEF RunEvent
<1>2. /\ s \in Work /\ s.db = db[r] /\ s.out = <<>> /\ Sane(s.n)
      /\ SameTalk(s.n, n) /\ SameLists(s.n, n)
      /\ ToSet(s.n.events) \subseteq ToSet(n.events)
      /\ \A f \in ToSet(n.events) : f = e \/ f \in ToSet(s.n.events)
      /\ e \in Event /\ e \in ToSet(n.events)
    BY <1>0, <1>1, EventIs
<1>3. /\ Loaded(n) /\ Calm(n) /\ (n.state \in Early => Blank(n))
      /\ n.state \notin Early => n.state \in Exchanging
    BY Here
<1>4. n.state \notin Early /\ n.state \in Exchanging BY <1>0, <1>3 DEF Blank
<1>5. PICK t : t = Handle(s, e) OBVIOUS
<1>6. Done(r, t, link[r]) BY <1>1, <1>5
<1>7. n \in Nbr BY TypedIs
<1>8. s.n.state = n.state BY <1>2 DEF SameTalk
<1> HIDE DEF e, n
<1>9. \/ e = "ExchangeDone" /\ s.n.state = "Exchange" /\ t = ExchangeDone(s)
      \/ /\ e = "LoadingDone" /\ s.n.state = "Loading"
         /\ t = [s EXCEPT !.n.state = "Full", !.n.t_ls_req = FALSE]
      \/ /\ e \in {"SeqNumberMismatch", "BadLSReq"} /\ s.n.state \in Exchanging
         /\ t = Start(Reset(s))
      \/ /\ t = s
         /\ ~(e = "ExchangeDone" /\ s.n.state = "Exchange")
         /\ ~(e = "LoadingDone" /\ s.n.state = "Loading")
         /\ ~(e \in {"SeqNumberMismatch", "BadLSReq"} /\ s.n.state \in Exchanging)
    BY <1>2, <1>5, HandleIs
<1>10. e \notin {"SeqNumberMismatch", "BadLSReq"} BY <1>2, <1>3 DEF Calm
<1>11. ASSUME t \in Work, t.db = s.db, NEW o \in Seq(Packet), t.out = o,
              t.n.state \in Exchanging, Over(t.n) <=> Over(n), SameLists(t.n, s.n),
              t.n.seq = s.n.seq, t.n.flags = s.n.flags, t.n.recv = s.n.recv,
              t.n.sent = s.n.sent, t.n.events = s.n.events,
              t.n.state = "Full" => t.n.ls_req = {},
              "LoadingDone" \in ToSet(t.n.events) =>
                  t.n.state \in {"Loading", "Full"} /\ t.n.ls_req = {},
              \A y \in ToSet(o) : Sendable(y, t.n, t.db)
       PROVE  Inv'
    <2>1. SameExchange(t.n, n)
        <3>1. Over(t.n) \in BOOLEAN /\ Over(n) \in BOOLEAN BY DEF Over
        <3>2. Over(t.n) = Over(n) BY <1>11, <3>1
        <3> QED BY <1>2, <1>4, <1>11, <3>2 DEF SameExchange, SameTalk, SameLists
    <2>2. SameLists(t.n, n) BY <1>2, <1>11 DEF SameLists
    <2>3. Loaded(t.n) BY <1>11 DEF Loaded
    <2>4. Calm(t.n) BY <1>2, <1>3, <1>11 DEF Calm
    <2>5. t.db = db[r] BY <1>2, <1>11
    <2>6. nbr[r].state \in Early => t.n.events = <<>> BY <1>4 DEF n
    <2>7. SameExchange(t.n, nbr[r]) /\ SameLists(t.n, nbr[r]) BY <2>1, <2>2 DEF n
    <2> QED BY <1>6, <1>11, <2>3, <2>4, <2>5, <2>6, <2>7, SameDone
<1>12. CASE e = "ExchangeDone" /\ s.n.state = "Exchange" /\ t = ExchangeDone(s)
    <2>1. /\ t \in Work /\ t.db = s.db
          /\ t.n.seq = s.n.seq /\ t.n.flags = s.n.flags /\ t.n.recv = s.n.recv
          /\ t.n.sent = s.n.sent /\ SameLists(t.n, s.n) /\ t.n.events = s.n.events
          /\ t.n.t_db_desc = FALSE
          /\ t.n.state = IF s.n.ls_req = {} THEN "Full" ELSE "Loading"
          /\ t.out = IF s.n.ls_req = {} THEN s.out
                     ELSE s.out \o <<Request({i.id : i \in s.n.ls_req})>>
        BY <1>2, <1>12, ExchangeDoneIs
    <2>2. Over(t.n) /\ Over(n) BY <1>2, <1>12, <2>1 DEF Over
    <2>3. "LoadingDone" \notin ToSet(t.n.events)
        <3>1. n.state = "Exchange" BY <1>8, <1>12
        <3>2. "LoadingDone" \notin ToSet(n.events) BY <1>3, <3>1 DEF Loaded
        <3> QED BY <1>2, <2>1, <3>2
    <2>4. t.n.state \in Exchanging BY <2>1 DEF Exchanging
    <2>5. t.n.ls_req = s.n.ls_req BY <2>1 DEF SameLists
    <2>6. CASE s.n.ls_req = {}
        <3>1. t.out = <<>> BY <1>2, <2>1, <2>6
        <3>2. \A y \in ToSet(<<>>) : Sendable(y, t.n, t.db) BY NothingSent
        <3>3. <<>> \in Seq(Packet) BY NothingSent
        <3>4. t.n.state = "Full" => t.n.ls_req = {} BY <2>5, <2>6
        <3> QED BY <1>11, <2>1, <2>2, <2>3, <2>4, <3>1, <3>2, <3>3, <3>4
    <2>7. CASE s.n.ls_req # {}
        <3> DEFINE x == Request({i.id : i \in s.n.ls_req})
                   o == <<x>>
        <3>1. {i.id : i \in s.n.ls_req} \in SUBSET Lsa BY <1>2, WorkFields, NbrFields, InstanceIs
        <3>2. x \in Packet /\ x.kind = "req" /\ x.ids = {i.id : i \in s.n.ls_req}
            BY <3>1, PacketsAre
        <3>3. t.out = <<x>> BY <1>2, <2>1, <2>7
        <3> HIDE DEF x
        <3>4. t.out = o /\ o \in Seq(Packet) /\ ToSet(o) = {x} BY <3>2, <3>3, OneIs
        <3>5. Sendable(x, t.n, t.db) BY <2>4, <2>5, <3>2 DEF Sendable
        <3>6. \A y \in ToSet(o) : Sendable(y, t.n, t.db) BY <3>4, <3>5
        <3>7. t.n.state = "Full" => t.n.ls_req = {} BY <2>1, <2>7
        <3> HIDE DEF o
        <3> QED BY <1>11, <2>1, <2>2, <2>3, <2>4, <3>4, <3>6, <3>7
    <2> QED BY <2>6, <2>7
<1>13. CASE /\ e = "LoadingDone" /\ s.n.state = "Loading"
            /\ t = [s EXCEPT !.n.state = "Full", !.n.t_ls_req = FALSE]
    <2>1. /\ t \in Work /\ t.db = s.db /\ t.out = s.out
          /\ t.n.seq = s.n.seq /\ t.n.flags = s.n.flags /\ t.n.recv = s.n.recv
          /\ t.n.sent = s.n.sent /\ SameLists(t.n, s.n) /\ t.n.events = s.n.events
          /\ t.n.t_db_desc = s.n.t_db_desc /\ t.n.state = "Full"
        BY <1>2, <1>13, LoadingDoneIs
    <2>2. Over(t.n) /\ Over(n) BY <1>8, <1>13, <2>1 DEF Over
    <2>3. n.ls_req = {} BY <1>2, <1>3, <1>13 DEF Loaded
    <2>4. t.n.ls_req = {} BY <1>2, <2>1, <2>3 DEF SameLists
    <2>5. t.n.state \in Exchanging /\ t.n.state \in {"Loading", "Full"} BY <2>1 DEF Exchanging
    <2>6. t.out = <<>> BY <1>2, <2>1
    <2>7. \A y \in ToSet(<<>>) : Sendable(y, t.n, t.db) BY NothingSent
    <2>8. <<>> \in Seq(Packet) BY NothingSent
    <2> QED BY <1>11, <2>1, <2>2, <2>4, <2>5, <2>6, <2>7, <2>8
<1>14. CASE /\ t = s
            /\ ~(e = "ExchangeDone" /\ s.n.state = "Exchange")
    <2>1. Over(t.n) <=> Over(n)
        <3>1. e = "ExchangeDone" => n.state \in {"Loading", "Full"}
            BY <1>4, <1>8, <1>14 DEF Exchanging
        <3> QED BY <1>2, <1>8, <1>14, <3>1 DEF Over
    <2>2. t \in Work /\ t.db = s.db /\ t.out = <<>> /\ SameLists(t.n, s.n)
          /\ t.n.state \in Exchanging
        BY <1>2, <1>4, <1>8, <1>14 DEF SameLists
    <2>3. t.n.ls_req = n.ls_req /\ t.n.state = n.state BY <1>2, <1>8, <1>14 DEF SameLists
    <2>4. t.n.state = "Full" => t.n.ls_req = {} BY <1>3, <2>3 DEF Loaded
    <2>5. "LoadingDone" \in ToSet(t.n.events) =>
              t.n.state \in {"Loading", "Full"} /\ t.n.ls_req = {}
        BY <1>2, <1>3, <1>14, <2>3 DEF Loaded
    <2>6. \A y \in ToSet(<<>>) : Sendable(y, t.n, t.db) BY NothingSent
    <2>7. <<>> \in Seq(Packet) BY NothingSent
    <2> QED BY <1>11, <1>14, <2>1, <2>2, <2>4, <2>5, <2>6, <2>7
<1> QED BY <1>9, <1>10, <1>12, <1>13, <1>14

LEMMA FloodQuiet ==
    ASSUME TInv, NEW r \in Router, outages = 0, Inv, NEW t, t = Flooded(r)
    PROVE  t \in Work /\ Quiet(r, nbr[r], t.n, db[r], t.db, db[Peer(r)])
<1> DEFINE n == nbr[r]
           m == t.n
           D == db[r]
           E == t.db
           d == db[Peer(r)]
           p == nbr[Peer(r)]
           f == Fresh(r)
<1>1. /\ t \in Work /\ E = [D EXCEPT ![r] = f.ver]
      /\ SameTalk(m, n) /\ m.db_sum = n.db_sum
      /\ m.ls_req = n.ls_req /\ m.events = n.events
      /\ m.rxmt = {i \in n.rxmt : i.id # r} \cup (IF n.state \in Exchanging THEN {f} ELSE {})
    BY FloodedIs
<1>2. n \in Nbr /\ D \in [Lsa -> Nat] /\ d \in [Lsa -> Nat] /\ p \in Nbr BY TypedIs
<1>3. /\ r \in Lsa /\ f \in Instance /\ f.id = r /\ f.ver = D[r] + 1 /\ D[r] \in Nat
      /\ f = [id |-> r, ver |-> f.ver]
    BY FreshIs DEF Fresh
<1>4. /\ D[Peer(r)] <= d[Peer(r)] /\ d[r] <= D[r]
      /\ \A i \in n.ls_req : D[i.id] < i.ver /\ i.ver <= d[i.id]
      /\ \A i \in n.rxmt : i.id = r /\ i.ver = D[r]
      /\ Loaded(n) /\ Calm(n) /\ (n.state \in Early => Blank(n))
    BY Here, PeerIs DEF Told
<1>5. Peer(r) \in Lsa /\ Peer(r) # r BY PeerIs, LsaAssumption
<1> HIDE DEF n, m, D, E, d, p, f
<1>6. E[r] = f.ver /\ \A a \in Lsa : a # r => E[a] = D[a] BY <1>1, <1>2, <1>3
<1>7. SameExchange(m, n)
    <2>1. "ExchangeDone" \in ToSet(m.events) <=> "ExchangeDone" \in ToSet(n.events) BY <1>1
    <2> QED BY <1>1, <1>2, <2>1, SameExchangeIs
<1>8. n.state \in Early => m.ls_req = {} /\ m.rxmt = {} /\ m.events = <<>>
    BY <1>1, <1>4 DEF Blank, Early, Exchanging
<1>9. \A a \in Lsa : D[a] <= E[a]
    <2> TAKE a \in Lsa
    <2>1. D[a] \in Nat BY <1>2
    <2>2. CASE a = r BY <1>3, <1>6, <2>2
    <2>3. CASE a # r BY <1>6, <2>1, <2>3
    <2> QED BY <2>2, <2>3
<1>10. E[Peer(r)] <= d[Peer(r)] BY <1>4, <1>5, <1>6
<1>11. m.ls_req \subseteq n.ls_req /\ \A i \in n.ls_req \ m.ls_req : i.ver <= E[i.id] BY <1>1
<1>12. \A i \in m.ls_req : E[i.id] < i.ver
    <2> TAKE i \in m.ls_req
    <2>1. i \in n.ls_req BY <1>1
    <2>2. i \in Instance BY <1>2, <2>1, NbrFields
    <2>3. i.id \in Lsa /\ i.ver \in Nat /\ D[i.id] \in Nat /\ d[i.id] \in Nat
        BY <1>2, <2>2, InstanceIs
    <2>4. D[i.id] < i.ver /\ i.ver <= d[i.id] BY <1>4, <2>1
    <2>5. i.id # r
        <3>1. SUFFICES ASSUME i.id = r PROVE FALSE OBVIOUS
        <3>2. d[i.id] <= D[i.id] BY <1>4, <3>1
        <3> QED BY <2>3, <2>4, <3>2
    <2> QED BY <1>6, <2>3, <2>4, <2>5
<1>13. \A i \in m.rxmt : i = f /\ n.state \in Exchanging BY <1>1, <1>4
<1>14. \A i \in m.rxmt : i.id = r /\ i.ver = E[r] BY <1>3, <1>6, <1>13
<1>15. n.state \in Exchanging =>
          \A a \in Lsa : E[a] > d[a] =>
              \/ [id |-> a, ver |-> E[a]] \in m.rxmt
              \/ /\ E[a] = D[a]
                 /\ [id |-> a, ver |-> D[a]] \in n.rxmt => [id |-> a, ver |-> D[a]] \in m.rxmt
    <2> SUFFICES ASSUME n.state \in Exchanging, NEW a \in Lsa
                 PROVE  \/ [id |-> a, ver |-> E[a]] \in m.rxmt
                        \/ /\ E[a] = D[a]
                           /\ [id |-> a, ver |-> D[a]] \in n.rxmt =>
                                [id |-> a, ver |-> D[a]] \in m.rxmt
        OBVIOUS
    <2>1. CASE a = r
        <3>1. f \in m.rxmt BY <1>1
        <3> QED BY <1>3, <1>6, <2>1, <3>1
    <2>2. CASE a # r
        <3>1. [id |-> a, ver |-> D[a]] \notin n.rxmt BY <1>4, <2>2
        <3> QED BY <1>6, <2>2, <3>1
    <2> QED BY <2>1, <2>2
<1>16. Loaded(m) /\ Calm(m) BY <1>1, <1>4 DEF Loaded, Calm, SameTalk
<1>17. Quiet(r, n, m, D, E, d)
    BY <1>7, <1>8, <1>9, <1>10, <1>11, <1>12, <1>14, <1>15, <1>16 DEF Quiet
<1> QED BY <1>1, <1>17 DEF n, m, D, E, d

LEMMA InvOriginate == ASSUME TInv, NEW r \in Router, outages = 0, Inv, Originate(r) PROVE Inv'
<1> DEFINE t == Flooded(r)
           x == Update(Fresh(r))
<1>1. Done(r, t, link[r]) BY DEF Originate, Flooded, Changed, Fresh
<1>2. t \in Work /\ Quiet(r, nbr[r], t.n, db[r], t.db, db[Peer(r)]) BY FloodQuiet
<1>3. /\ t.out = IF nbr[r].state \in Exchanging THEN <<x>> ELSE <<>>
      /\ t.db = [db[r] EXCEPT ![r] = Fresh(r).ver] /\ t.n.state = nbr[r].state
    BY FloodedIs DEF SameTalk
<1>4. db[r] \in [Lsa -> Nat] BY TypedIs
<1>5. t.db[Fresh(r).id] = Fresh(r).ver BY <1>3, <1>4, FreshIs
<1>6. x \in Packet /\ x.kind = "upd" /\ x.lsa = Fresh(r) BY FreshIs, PacketsAre
<1> HIDE DEF t, x
<1>7. CASE nbr[r].state \in Exchanging
    <2> DEFINE o == <<x>>
    <2>1. t.out = o /\ o \in Seq(Packet) /\ ToSet(o) = {x} BY <1>3, <1>6, <1>7, OneIs
    <2>2. Sendable(x, t.n, t.db) BY <1>3, <1>5, <1>6, <1>7 DEF Sendable
    <2>3. \A y \in ToSet(o) : Sendable(y, t.n, t.db) BY <2>1, <2>2
    <2> HIDE DEF o
    <2> QED BY <1>1, <1>2, <2>1, <2>3, QuietDone
<1>8. CASE nbr[r].state \notin Exchanging
    <2>1. t.out = <<>> BY <1>3, <1>8
    <2>2. <<>> \in Seq(Packet) /\ \A y \in ToSet(<<>>) : Sendable(y, t.n, t.db) BY NothingSent
    <2> QED BY <1>1, <1>2, <2>1, <2>2, QuietDone
<1> QED BY <1>7, <1>8

LEMMA InvLose == ASSUME TInv, NEW r \in Router, outages = 0, Inv, Lose(r) PROVE Inv'
<1> DEFINE t == Step(r)
           q == link[r]
           p == nbr[Peer(r)]
           d == db[Peer(r)]
           v == link[Peer(r)]
<1>1. q # <<>> /\ link' = [link EXCEPT ![r] = Tail(q)] /\ nbr' = nbr /\ db' = db
    BY DEF Lose
<1>2. /\ nbr[r] \in Nbr /\ db[r] \in [Lsa -> Nat] /\ q \in Seq(Packet) /\ v \in Seq(Packet)
    BY TypedIs
<1>3. /\ t \in Work /\ t.n = nbr[r] /\ t.db = db[r] /\ t.out = <<>> BY StepIs
<1>4. Tail(q) \in Seq(Packet) BY <1>1, <1>2, TailIs
<1>5. Holding(r) BY Sides
<1>6. Holds(r, t, q, p, d, v) BY <1>5, BeginHolds
<1>7. Less(Tail(q), q) BY <1>1, <1>2, TailLess
<1>8. Holds(r, t, Tail(q), p, d, v)
    <2> HIDE DEF t, q, p, d, v
    <2> QED BY <1>6, <1>7, LessHolds
<1>9. Done(r, t, Tail(q))
    <2>1. Peer(r) # r /\ v \o <<>> = v BY <1>2, PeerIs, NothingSent
    <2>2. nbr = [nbr EXCEPT ![r] = t.n] /\ db = [db EXCEPT ![r] = t.db] BY <1>3 DEF TInv
    <2>3. [link EXCEPT ![r] = Tail(q)]
          = [link EXCEPT ![r] = Tail(q), ![Peer(r)] = @ \o t.out]
        BY <1>3, <2>1 DEF TInv
    <2> QED BY <1>1, <2>2, <2>3 DEF Done
<1> HIDE DEF t, q
<1> QED BY <1>3, <1>4, <1>8, <1>9, EndHolds DEF p, d, v

LEMMA NothingOrdered ==
    /\ ToSet(<<>>) = {}
    /\ \A x, y : ~Before(<<>>, x, y)
    /\ \A d : AllDds(<<>>, d)
<1>1. ToSet(<<>>) = {} BY NothingSent
<1>2. DOMAIN <<>> = {} OBVIOUS
<1> QED BY <1>1, <1>2 DEF Before, AllDds

LEMMA HalfInit ==
    ASSUME NEW r \in Router, NEW D \in [Lsa -> Nat], NEW d \in [Lsa -> Nat],
           D[Peer(r)] <= d[Peer(r)]
    PROVE  Half(r, NoNbr, D, <<>>, NoNbr, d)
<1> DEFINE n == NoNbr
<1>1. /\ n.state = "Down" /\ n.seq = 0 /\ n.sent = NoDd /\ n.db_sum = {} /\ n.ls_req = {}
      /\ n.rxmt = {} /\ n.events = <<>>
    BY DEF NoNbr
<1>2. NoDd.says = {} BY NoNbrIs
<1> HIDE DEF n
<1>3. Blank(n) BY <1>1 DEF Blank
<1>4. Greets(n, <<>>, n) BY <1>1, <1>3, NothingOrdered DEF Greets, Early
<1>5. Told(r, n, <<>>, n, D, d) BY <1>1, <1>2, NothingOrdered DEF Told
<1>6. Owed(r, n, n, D, d)
    <2>1. ToSay(r, n, n) = {} BY <1>1, <1>2 DEF ToSay
    <2> QED BY <1>1, <2>1 DEF Owed, Exchanging
<1>7. Loaded(n) /\ Calm(n) BY <1>1, NothingOrdered DEF Loaded, Calm
<1> QED BY <1>4, <1>5, <1>6, <1>7 DEF Half, n

LEMMA InvInit == Init => Inv
<1> SUFFICES ASSUME Init PROVE Inv OBVIOUS
<1>1. /\ nbr[1] = NoNbr /\ nbr[2] = NoNbr /\ link[1] = <<>> /\ link[2] = <<>> /\ db = Known
    BY DEF Init, Router
<1>2. Peer(1) = 2 /\ Peer(2) = 1 /\ 1 \in Router /\ 2 \in Router BY DEF Peer, Router
<1>3. Known[1] \in [Lsa -> Nat] /\ Known[2] \in [Lsa -> Nat] BY <1>2, KnownAssumption
<1>4. Known[1][2] <= Known[2][2] /\ Known[2][1] <= Known[1][1] BY <1>2, OwnAssumption
<1>5. Half(1, NoNbr, Known[1], <<>>, NoNbr, Known[2])
      /\ Half(2, NoNbr, Known[2], <<>>, NoNbr, Known[1])
    BY <1>2, <1>3, <1>4, HalfInit
<1>6. Session(NoNbr, NoNbr, <<>>, <<>>)
    <2>1. NoNbr.state = "Down" BY DEF NoNbr
    <2>2. PhaseA(NoNbr, NoNbr, <<>>, <<>>) BY <2>1, NothingOrdered DEF PhaseA, Early
    <2> QED BY <2>2 DEF Session
<1>7. Talk(1, NoNbr, <<>>, NoNbr, <<>>) BY <1>6 DEF Talk
<1>8. Whole(1, NoNbr, Known[1], <<>>, NoNbr, Known[2], <<>>) BY <1>2, <1>5, <1>7 DEF Whole
<1> QED BY <1>1, <1>8 DEF Inv

LEMMA InvNext == TInv /\ Inv /\ [Next]_vars => Inv'
<1> SUFFICES ASSUME TInv, Inv, [Next]_vars PROVE Inv' OBVIOUS
<1>0. outages \in Nat BY DEF TInv
<1>1. CASE Next
    <2>1. PICK r \in Router :
            \/ Receive(r) \/ RunEvent(r)
            \/ DbDescTimer(r) \/ LsReqTimer(r) \/ LsUpdTimer(r) \/ HelloTimer(r)
            \/ Originate(r)
            \/ Lose(r) \/ InactivityTimer(r) \/ DbDescFreeTimer(r)
        BY <1>1 DEF Next
    <2>2. CASE InactivityTimer(r) \/ DbDescFreeTimer(r)
        <3>1. outages' = outages + 1 BY <2>2 DEF InactivityTimer, DbDescFreeTimer
        <3>2. outages' # 0 BY <1>0, <3>1
        <3> QED BY <3>2 DEF Inv
    <2>3. CASE ~(InactivityTimer(r) \/ DbDescFreeTimer(r))
        <3>1. outages' = outages
            BY <2>1, <2>3 DEF Receive, RunEvent, DbDescTimer, LsReqTimer, LsUpdTimer,
                              HelloTimer, Originate, Lose
        <3>2. CASE outages # 0 BY <3>1, <3>2 DEF Inv
        <3>3. CASE outages = 0
            BY <2>1, <2>3, <3>3, InvReceive, InvRunEvent, InvTimers, InvOriginate, InvLose
        <3> QED BY <3>2, <3>3
    <2> QED BY <2>2, <2>3
<1>2. CASE UNCHANGED vars
    <2>1. nbr' = nbr /\ db' = db /\ link' = link /\ outages' = outages BY <1>2 DEF vars
    <2> QED BY <2>1 DEF Inv
<1> QED BY <1>1, <1>2

\* The inductive invariant.
IInv == TInv /\ Inv

LEMMA IInvHolds == Spec => []IInv
<1>1. Init => IInv BY TInit, InvInit DEF IInv
<1>2. IInv /\ [Next]_vars => IInv' BY TNext, InvNext DEF IInv
<1> QED BY <1>1, <1>2, PTL DEF Spec

\* Without an outage no packet that is lost, repeated or overtaken by a new LSA is taken for
\* an error of the neighbour: neither SeqNumberMismatch nor BadLSReq is ever scheduled
\* (ospf_db_desc, ospf_ls_req and ospf_ls_upd_proc in ospf_packet.c).
THEOREM NeverDisturbed == Spec => []Undisturbed
<1>1. IInv => Undisturbed
    <2> SUFFICES ASSUME TInv, Inv, outages = 0, NEW r \in Router
                 PROVE  ToSet(nbr[r].events) \cap {"SeqNumberMismatch", "BadLSReq"} = {}
        BY DEF Undisturbed, IInv
    <2>1. Calm(nbr[r]) BY Here
    <2> QED BY <2>1 DEF Calm
<1> QED BY <1>1, IInvHolds, PTL

\* When both are full nothing is left to describe.
LEMMA AllSaid ==
    ASSUME NEW r \in Router, NEW n \in Nbr, NEW p \in Nbr, NEW q, NEW w, Talk(r, n, q, p, w),
           n.state = "Full", p.state = "Full"
    PROVE  ToSay(r, n, p) = {}
<1>1. ASSUME NEW S \in Nbr, NEW M \in Nbr, NEW q1, NEW q2, Session(S, M, q1, q2),
             S.state = "Full", M.state = "Full"
      PROVE  /\ S.db_sum = {} /\ M.db_sum = {}
             /\ ~Unread(1, S, M) /\ ~Unread(2, M, S)
    <2>1. S.state \notin Early /\ M.state \notin Early BY <1>1 DEF Early
    <2>2. ~PhaseA(S, M, q1, q2) BY <2>1 DEF PhaseA
    <2>3. ~PhaseB(S, M, q1, q2) BY <1>1 DEF PhaseB
    <2>4. Over(M) BY <1>1 DEF Over
    <2>5. ~Asked(S, M, q1, q2) BY <2>4 DEF Asked
    <2>6. ~Answered(S, M, q1, q2) BY <2>4 DEF Answered
    <2>7. Finished(S, M, q1, q2) BY <1>1, <2>2, <2>3, <2>5, <2>6 DEF Session
    <2>8. S.db_sum = {} /\ M.db_sum = {} BY <2>7 DEF Finished, SlaveIs, MasterIs
    <2>9. M.seq = S.seq + 1 /\ M.sent.seq = S.seq BY <2>7 DEF Finished
    <2>10. S.seq \in Nat BY NbrFields
    <2>11. M.seq # S.seq BY <2>9, <2>10
    <2> QED BY <2>1, <2>8, <2>9, <2>11 DEF Unread
<1>2. CASE r = 1
    <2>1. Session(n, p, q, w) BY <1>2 DEF Talk
    <2>2. n.db_sum = {} /\ ~Unread(r, n, p) BY <1>1, <1>2, <2>1
    <2> QED BY <2>2 DEF ToSay
<1>3. CASE r = 2
    <2>1. Session(p, n, w, q) BY <1>3 DEF Talk
    <2>2. n.db_sum = {} /\ ~Unread(r, n, p) BY <1>1, <1>3, <2>1
    <2> QED BY <2>2 DEF ToSay
<1> QED BY <1>2, <1>3 DEF Router

\* Without an outage two full routers have the same database, up to what one of them still
\* repeats to the other: what was described was asked for, what was asked for was got or is
\* on a retransmission list (ospf_db_desc_proc, ospf_flood, ospf_nfsm_exchange_done).
THEOREM StaysSynchronized == Spec => [](outages = 0 => Synchronized)
<1>1. IInv => (outages = 0 => Synchronized)
    <2> SUFFICES ASSUME TInv, Inv, outages = 0, Full, NEW r \in Router, NEW i \in Lsa,
                        db[r][i] > db[Peer(r)][i]
                 PROVE  [id |-> i, ver |-> db[r][i]] \in nbr[r].rxmt
        BY DEF Synchronized, IInv
    <2> DEFINE n == nbr[r]
               p == nbr[Peer(r)]
    <2>1. n.state = "Full" /\ p.state = "Full" BY PeerIs DEF Full
    <2>2. n \in Nbr /\ p \in Nbr BY TypedIs
    <2>3. Holding(r) BY Sides
    <2>4. Talk(r, n, link[r], p, link[Peer(r)]) /\ Owed(r, n, p, db[r], db[Peer(r)])
          /\ Loaded(p)
        BY <2>3 DEF Holding, Whole, Half
    <2> HIDE DEF n, p
    <2>5. ToSay(r, n, p) = {} BY <2>1, <2>2, <2>4, AllSaid
    <2>6. p.ls_req = {} BY <2>1, <2>4 DEF Loaded
    <2>7. n.state \in Exchanging BY <2>1 DEF Exchanging
    <2>8. [id |-> i, ver |-> db[r][i]] \in n.rxmt \cup p.ls_req \cup ToSay(r, n, p)
        BY <2>4, <2>7 DEF Owed
    <2>9. [id |-> i, ver |-> db[r][i]] \in n.rxmt BY <2>5, <2>6, <2>8
    <2> QED BY <2>9 DEF n
<1> QED BY <1>1, IInvHolds, PTL
=============================================================================
