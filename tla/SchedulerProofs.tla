--------------------------- MODULE SchedulerProofs ---------------------------
(***************************************************************************)
(* Scheduler.Spec keeps each invariant that TLC checks of it, lets nobody    *)
(* overtake and implements Dispatcher, whatever client code there is and     *)
(* however many threads.                                                    *)
(*                                                                         *)
(* ListedOnce and RefsLive are not inductive alone: to take a thread off the *)
(* list it names needs the list to hold it once, the slots to be sorted for   *)
(* thread_timer_wait to be right, the type of a thread to be that of its      *)
(* callback for select to forget the right descriptor.  IInv says all of it   *)
(* of the state of the thread master, s, before and after each call.         *)
(*                                                                         *)
(* The calls do only three things to the threads: one is Added, some are      *)
(* Cancelled, some are Requeued.  The first part proves for each operator of  *)
(* Scheduler which of them it does; the rest follows from what they do.       *)
(***************************************************************************)
EXTENDS Scheduler, SequenceTheorems, FiniteSetTheorems, TLAPS

----------------------------------------------------------------------------
(* Numbers and sequences.                                                  *)

LEMMA Least ==
    ASSUME NEW T \in SUBSET Nat, T # {}
    PROVE  \E x \in T : \A y \in T : x <= y
<1> DEFINE R == {ss \in Nat \X Nat : ss[1] < ss[2]}
<1>1. IsWellFoundedOn(R, Nat)
    BY NatLessThanWellFounded, Zenon DEF OpToRel
<1> HIDE DEF R
<1>2. PICK x \in T : \A y \in T : <<y, x>> \notin R
    BY <1>1, WFMin
<1>3. \A y \in T : ~(y < x)
    BY <1>2 DEF R
<1> QED BY <1>3

LEMMA MinIs ==
    ASSUME NEW T \in SUBSET Nat, T # {}
    PROVE  Min(T) \in T /\ \A y \in T : Min(T) <= y
BY Least DEF Min

LEMMA MaxIs ==
    ASSUME NEW n \in Nat, NEW T \in SUBSET (1..n), T # {}
    PROVE  Max(T) \in T /\ \A y \in T : y <= Max(T)
<1> DEFINE U == {n - y : y \in T}
<1>1. U \in SUBSET Nat
    OBVIOUS
<1>5. U # {}
    OBVIOUS
<1>2. PICK u \in U : \A v \in U : u <= v
    BY <1>1, <1>5, Least
<1>3. PICK x \in T : u = n - x
    BY <1>2
<1>4. ASSUME NEW y \in T PROVE y <= x
    <2>1. n - y \in U
        OBVIOUS
    <2> QED BY <1>2, <1>3, <2>1
<1> QED BY <1>3, <1>4 DEF Max

LEMMA PlaceIn ==
    ASSUME NEW S, NEW q \in Seq(S), IsInjective(q), NEW k \in 1..Len(q)
    PROVE  /\ {i \in 1..Len(q) : q[i] = q[k]} = {k}
           /\ Min({i \in 1..Len(q) : q[i] = q[k]}) = k
<1> DEFINE I == {i \in 1..Len(q) : q[i] = q[k]}
<1>1. I = {k}
    BY LenProperties DEF IsInjective
<1>2. Min(I) = k
    BY <1>1 DEF Min
<1> QED BY <1>1, <1>2

LEMMA ConcatInjective ==
    ASSUME NEW S, NEW a \in Seq(S), NEW b \in Seq(S), IsInjective(a), IsInjective(b),
           \A i \in 1..Len(a) : \A j \in 1..Len(b) : a[i] # b[j]
    PROVE  IsInjective(a \o b) /\ a \o b \in Seq(S)
<1> DEFINE q == a \o b
<1>1. /\ q \in Seq(S) /\ Len(q) = Len(a) + Len(b) /\ Len(a) \in Nat /\ Len(b) \in Nat
      /\ \A i \in 1..(Len(a) + Len(b)) : q[i] = IF i <= Len(a) THEN a[i] ELSE b[i - Len(a)]
    BY ConcatProperties, LenProperties
<1> HIDE DEF q
<1>2. \A i, j \in 1..Len(a) : a[i] = a[j] => i = j
    BY LenProperties DEF IsInjective
<1>3. \A i, j \in 1..Len(b) : b[i] = b[j] => i = j
    BY LenProperties DEF IsInjective
<1>4. ASSUME NEW i \in 1..Len(q), NEW j \in 1..Len(q), q[i] = q[j] PROVE i = j
    <2>1. CASE i <= Len(a) /\ j <= Len(a)
        BY <1>1, <1>2, <1>4, <2>1
    <2>2. CASE i <= Len(a) /\ ~(j <= Len(a))
        <3>1. q[i] = a[i] /\ i \in 1..Len(a) /\ q[j] = b[j - Len(a)] /\ j - Len(a) \in 1..Len(b)
            BY <1>1, <2>2
        <3> QED BY <1>4, <3>1
    <2>3. CASE ~(i <= Len(a)) /\ j <= Len(a)
        <3>1. q[j] = a[j] /\ j \in 1..Len(a) /\ q[i] = b[i - Len(a)] /\ i - Len(a) \in 1..Len(b)
            BY <1>1, <2>3
        <3> QED BY <1>4, <3>1
    <2>4. CASE ~(i <= Len(a)) /\ ~(j <= Len(a))
        <3>1. /\ q[j] = b[j - Len(a)] /\ j - Len(a) \in 1..Len(b)
              /\ q[i] = b[i - Len(a)] /\ i - Len(a) \in 1..Len(b)
            BY <1>1, <2>4
        <3>2. i - Len(a) = j - Len(a)
            BY <1>3, <1>4, <3>1
        <3> QED BY <1>1, <3>2
    <2> QED BY <2>1, <2>2, <2>3, <2>4
<1>5. DOMAIN q = 1..Len(q)
    BY <1>1, LenProperties
<1>6. IsInjective(q)
    BY <1>4, <1>5 DEF IsInjective
<1> QED BY <1>1, <1>6 DEF q

LEMMA RemoveFirstIs ==
    ASSUME NEW S, NEW q \in Seq(S), IsInjective(q), NEW k \in 1..Len(q)
    PROVE  LET r == RemoveFirst(q, q[k]) IN
           /\ r \in Seq(S) /\ Len(r) = Len(q) - 1
           /\ \A i \in 1..(Len(q) - 1) : r[i] = IF i < k THEN q[i] ELSE q[i + 1]
<1> DEFINE I == {i \in 1..Len(q) : q[i] = q[k]}
<1>1. I = {k} /\ Min(I) = k
    BY PlaceIn
<1>3. SelectInSeq(q, LAMBDA v : v = q[k]) = k
    BY <1>1 DEF SelectInSeq
<1>4. RemoveFirst(q, q[k]) = SubSeq(q, 1, k - 1) \o SubSeq(q, k + 1, Len(q))
    BY <1>3, Zenon DEF RemoveFirst, RemoveAt
<1> DEFINE a == SubSeq(q, 1, k - 1)
           b == SubSeq(q, k + 1, Len(q))
<1>9. RemoveFirst(q, q[k]) = a \o b
    BY <1>4
<1>5. a \in Seq(S) /\ Len(a) = k - 1 /\ \A i \in 1..(k - 1) : a[i] = q[i]
    BY SubSeqProperties, LenProperties
<1>6. b \in Seq(S) /\ Len(b) = Len(q) - k /\ \A i \in 1..(Len(q) - k) : b[i] = q[k + i]
    BY SubSeqProperties, LenProperties
<1> HIDE DEF a, b
<1>7. /\ a \o b \in Seq(S) /\ Len(a \o b) = Len(a) + Len(b)
      /\ \A i \in 1..(Len(a) + Len(b)) : (a \o b)[i] = IF i <= Len(a) THEN a[i] ELSE b[i - Len(a)]
    BY <1>5, <1>6, ConcatProperties
<1>8. ASSUME NEW i \in 1..(Len(q) - 1)
      PROVE  (a \o b)[i] = IF i < k THEN q[i] ELSE q[i + 1]
    <2>1. Len(q) \in Nat /\ i \in 1..(Len(a) + Len(b))
        BY <1>5, <1>6, LenProperties
    <2>2. CASE i < k
        BY <1>5, <1>7, <2>1, <2>2
    <2>3. CASE i >= k
        <3>1. (a \o b)[i] = b[i - (k - 1)] /\ i - (k - 1) \in 1..(Len(q) - k)
            BY <1>5, <1>6, <1>7, <2>1, <2>3
        <3>2. b[i - (k - 1)] = q[k + (i - (k - 1))]
            BY <1>6, <3>1
        <3>3. k + (i - (k - 1)) = i + 1
            BY <2>1
        <3>4. (a \o b)[i] = q[i + 1]
            BY <3>1, <3>2, <3>3, Zenon
        <3> QED BY <2>1, <2>3, <3>4
    <2> QED BY <2>1, <2>2, <2>3
<1>10. Len(a \o b) = Len(q) - 1
    BY <1>5, <1>6, <1>7, LenProperties
<1> QED BY <1>7, <1>8, <1>9, <1>10

LEMMA InsertAtIs ==
    ASSUME NEW S, NEW q \in Seq(S), NEW e \in S, NEW k \in 1..(Len(q) + 1)
    PROVE  LET r == InsertAt(q, k, e) IN
           /\ r \in Seq(S) /\ Len(r) = Len(q) + 1
           /\ \A i \in 1..(Len(q) + 1) :
                 r[i] = IF i < k THEN q[i] ELSE IF i = k THEN e ELSE q[i - 1]
<1> DEFINE a == SubSeq(q, 1, k - 1)
           b == SubSeq(q, k, Len(q))
<1>1. a \in Seq(S) /\ Len(a) = k - 1 /\ \A i \in 1..(k - 1) : a[i] = q[i]
    BY SubSeqProperties, LenProperties
<1>2. b \in Seq(S) /\ Len(b) = Len(q) - k + 1 /\ \A i \in 1..(Len(q) - k + 1) : b[i] = q[k + i - 1]
    BY SubSeqProperties, LenProperties
<1>3. InsertAt(q, k, e) = (a \o <<e>>) \o b
    BY DEF InsertAt
<1>4. <<e>> \in Seq(S) /\ Len(<<e>>) = 1 /\ <<e>>[1] = e
    OBVIOUS
<1> DEFINE c == a \o <<e>>
<1>9. InsertAt(q, k, e) = c \o b
    BY <1>3
<1> HIDE DEF a, b
<1>5. /\ c \in Seq(S) /\ Len(c) = k
      /\ \A i \in 1..k : c[i] = IF i < k THEN q[i] ELSE e
    BY <1>1, <1>4, ConcatProperties
<1> HIDE DEF c
<1>6. /\ c \o b \in Seq(S) /\ Len(c \o b) = Len(c) + Len(b)
      /\ \A i \in 1..(Len(c) + Len(b)) : (c \o b)[i] = IF i <= Len(c) THEN c[i] ELSE b[i - Len(c)]
    BY <1>2, <1>5, ConcatProperties
<1>7. ASSUME NEW i \in 1..(Len(q) + 1)
      PROVE  (c \o b)[i] = IF i < k THEN q[i] ELSE IF i = k THEN e ELSE q[i - 1]
    <2>1. Len(q) \in Nat /\ i \in 1..(Len(c) + Len(b))
        BY <1>2, <1>5, LenProperties
    <2>2. CASE i <= k
        BY <1>5, <1>6, <2>1, <2>2
    <2>3. CASE i > k
        <3>1. (c \o b)[i] = b[i - k] /\ i - k \in 1..(Len(q) - k + 1)
            BY <1>2, <1>5, <1>6, <2>1, <2>3
        <3> QED BY <1>2, <2>1, <2>3, <3>1
    <2> QED BY <2>1, <2>2, <2>3
<1>8. Len(c \o b) = Len(q) + 1
    BY <1>2, <1>5, <1>6, LenProperties
<1> QED BY <1>6, <1>7, <1>8, <1>9

----------------------------------------------------------------------------
(* Places: the lists of the thread master and the slots of the timers.     *)

Fds == {Fd[c] : c \in Callback}

Masters ==
    [list : [ListName -> Seq(Thread)], timer : [Slot -> Seq(Thread)],
     thread : [Thread -> ThreadRecord], index : Slot, alloc : 0..MaxThreads,
     readfd : SUBSET Fds, writefd : SUBSET Fds]

Places == ({"timer"} \X Slot) \cup (ListName \X {0})
Place(r) == IF r.type = "TIMER" THEN <<"timer", r.slot>> ELSE <<Home(r), 0>>
At(s, h) == IF h[1] = "timer" THEN s.timer[h[2]] ELSE s.list[h[1]]

LEMMA Names ==
    /\ DOMAIN Waiting = {"READ", "READ_HIGH", "WRITE", "TIMER", "EVENT", "EVENT_LOW", "READ_PEND"}
    /\ DOMAIN Queue = {"HIGH", "MIDDLE", "LOW"}
    /\ Waiting["READ"] = "read" /\ Waiting["READ_HIGH"] = "read_high"
    /\ Waiting["WRITE"] = "write" /\ Waiting["EVENT"] = "event"
    /\ Waiting["EVENT_LOW"] = "event_low" /\ Waiting["READ_PEND"] = "read_pend"
    /\ Queue["HIGH"] = "queue_high" /\ Queue["MIDDLE"] = "queue_middle" /\ Queue["LOW"] = "queue_low"
    /\ ListName = {"read", "read_high", "write", "event", "event_low", "read_pend",
                   "queue_high", "queue_middle", "queue_low", "unuse"}
<1>1. /\ DOMAIN Waiting = {"READ", "READ_HIGH", "WRITE", "TIMER", "EVENT", "EVENT_LOW", "READ_PEND"}
      /\ DOMAIN Queue = {"HIGH", "MIDDLE", "LOW"}
      /\ Waiting["READ"] = "read" /\ Waiting["READ_HIGH"] = "read_high"
      /\ Waiting["WRITE"] = "write" /\ Waiting["EVENT"] = "event"
      /\ Waiting["EVENT_LOW"] = "event_low" /\ Waiting["READ_PEND"] = "read_pend"
      /\ Queue["HIGH"] = "queue_high" /\ Queue["MIDDLE"] = "queue_middle" /\ Queue["LOW"] = "queue_low"
    BY DEF Waiting, Queue
<1>2. ListName = {"read", "read_high", "write", "event", "event_low", "read_pend",
                  "queue_high", "queue_middle", "queue_low", "unuse"}
    BY <1>1 DEF ListName
<1> QED BY <1>1, <1>2

LEMMA PlaceType ==
    ASSUME NEW r \in ThreadRecord
    PROVE  Place(r) \in Places /\ (r.type # "TIMER" => Home(r) \in ListName)
BY Names DEF ThreadRecord, Place, Places, Home

LEMMA Fields ==
    ASSUME NEW s \in Masters
    PROVE  /\ s.alloc \in Nat /\ s.alloc <= MaxThreads /\ MaxThreads \in Nat /\ Thread = 1..MaxThreads
           /\ 1..s.alloc \subseteq Thread
           /\ \A t \in Thread : s.thread[t] \in ThreadRecord /\ Place(s.thread[t]) \in Places
BY ClientAssumption, PlaceType DEF Masters, Thread

LEMMA AtType ==
    ASSUME NEW s \in Masters, NEW h \in Places
    PROVE  At(s, h) \in Seq(Thread)
BY Names DEF Masters, Places, At

----------------------------------------------------------------------------
(* Every allocated thread, but for those in T, is in its place and only there. *)

PlacedBut(s, T) ==
    /\ \A h \in Places : \A i \in 1..Len(At(s, h)) :
          At(s, h)[i] \in (1..s.alloc) \ T /\ Place(s.thread[At(s, h)[i]]) = h
    /\ \A h \in Places : IsInjective(At(s, h))
    /\ \A t \in (1..s.alloc) \ T : \E i \in 1..Len(At(s, Place(s.thread[t]))) :
          At(s, Place(s.thread[t]))[i] = t
    /\ \A t \in Thread : t > s.alloc => s.thread[t].type = "UNUSED"

Placed(s) == PlacedBut(s, {})

LEMMA Take ==
    ASSUME NEW s \in Masters, NEW z \in Masters, NEW t \in 1..s.alloc, Placed(s),
           z.thread = s.thread, z.alloc = s.alloc,
           \A h \in Places : At(z, h) = IF h = Place(s.thread[t]) THEN RemoveFirst(At(s, h), t)
                                        ELSE At(s, h)
    PROVE  PlacedBut(z, {t})
<1> DEFINE g == Place(s.thread[t])
           q == At(s, g)
<1>1. g \in Places /\ q \in Seq(Thread) /\ IsInjective(q)
    BY Fields, AtType DEF Placed, PlacedBut
<1>2. PICK k \in 1..Len(q) : q[k] = t
    BY DEF Placed, PlacedBut
<1> DEFINE r == RemoveFirst(q, t)
<1>3. /\ r \in Seq(Thread) /\ Len(r) = Len(q) - 1
      /\ \A i \in 1..(Len(q) - 1) : r[i] = IF i < k THEN q[i] ELSE q[i + 1]
    <2> HIDE DEF q, g
    <2>1. /\ RemoveFirst(q, q[k]) \in Seq(Thread) /\ Len(RemoveFirst(q, q[k])) = Len(q) - 1
          /\ \A i \in 1..(Len(q) - 1) : RemoveFirst(q, q[k])[i] = IF i < k THEN q[i] ELSE q[i + 1]
        BY <1>1, RemoveFirstIs
    <2> QED BY <1>2, <2>1
<1>4. At(z, g) = r
    BY <1>1
<1>5. \A h \in Places : h # g => At(z, h) = At(s, h)
    OBVIOUS
<1>6. Len(q) \in Nat /\ \A i, j \in 1..Len(q) : q[i] = q[j] => i = j
    BY <1>1, LenProperties DEF IsInjective
<1> HIDE DEF q, r, g
<1>7. \A i \in 1..Len(r) : \E j \in 1..Len(q) : r[i] = q[j] /\ j # k
    BY <1>2, <1>3, <1>6
<1>8. IsInjective(r)
    BY <1>2, <1>3, <1>6, LenProperties DEF IsInjective
<1>9. \A j \in 1..Len(q) : j # k => \E i \in 1..Len(r) : r[i] = q[j]
    <2>1. ASSUME NEW j \in 1..Len(q), j # k PROVE \E i \in 1..Len(r) : r[i] = q[j]
        <3>1. CASE j < k
            BY <1>2, <1>3, <1>6, <2>1, <3>1
        <3>2. CASE j > k
            <4>1. j - 1 \in 1..(Len(q) - 1) /\ r[j - 1] = q[j]
                BY <1>2, <1>3, <1>6, <2>1, <3>2
            <4> QED BY <1>3, <4>1
        <3> QED BY <1>2, <1>6, <2>1, <3>1, <3>2
    <2> QED BY <2>1
<1>10. \A h \in Places : \A i \in 1..Len(At(z, h)) :
            At(z, h)[i] \in (1..z.alloc) \ {t} /\ Place(z.thread[At(z, h)[i]]) = h
    <2>1. ASSUME NEW h \in Places, NEW i \in 1..Len(At(z, h))
          PROVE  At(z, h)[i] \in (1..z.alloc) \ {t} /\ Place(z.thread[At(z, h)[i]]) = h
        <3>1. CASE h = g
            <4>1. PICK j \in 1..Len(q) : r[i] = q[j] /\ j # k
                BY <1>4, <1>7, <2>1, <3>1
            <4>2. q[j] \in 1..s.alloc /\ Place(s.thread[q[j]]) = g /\ q[j] # t
                BY <1>1, <1>2, <1>6, <4>1 DEF Placed, PlacedBut, q
            <4> QED BY <1>4, <3>1, <4>1, <4>2
        <3>2. CASE h # g
            <4>1. At(s, h)[i] \in 1..s.alloc /\ Place(s.thread[At(s, h)[i]]) = h
                BY <1>5, <2>1, <3>2 DEF Placed, PlacedBut
            <4> QED BY <1>5, <3>2, <4>1 DEF g
        <3> QED BY <3>1, <3>2
    <2> QED BY <2>1
<1>11. \A h \in Places : IsInjective(At(z, h))
    BY <1>4, <1>5, <1>8 DEF Placed, PlacedBut
<1>12. ASSUME NEW u \in (1..z.alloc) \ {t}
       PROVE  \E i \in 1..Len(At(z, Place(z.thread[u]))) : At(z, Place(z.thread[u]))[i] = u
    <2> DEFINE h == Place(s.thread[u])
    <2>1. h \in Places
        BY Fields
    <2>2. PICK j \in 1..Len(At(s, h)) : At(s, h)[j] = u
        BY DEF Placed, PlacedBut
    <2>3. CASE h = g
        <3>1. j \in 1..Len(q) /\ q[j] = u /\ j # k
            BY <1>2, <2>2, <2>3 DEF q
        <3> QED BY <1>4, <1>9, <2>3, <3>1
    <2>4. CASE h # g
        BY <1>5, <2>1, <2>2, <2>4
    <2> QED BY <2>3, <2>4
<1>13. \A u \in Thread : u > z.alloc => z.thread[u].type = "UNUSED"
    BY DEF Placed, PlacedBut
<1> QED BY <1>10, <1>11, <1>12, <1>13 DEF PlacedBut

Inserted(r, q, k, e) ==
    /\ r \in Seq(Thread) /\ Len(r) = Len(q) + 1
    /\ \A i \in 1..(Len(q) + 1) : r[i] = IF i < k THEN q[i] ELSE IF i = k THEN e ELSE q[i - 1]

LEMMA InsertThread ==
    ASSUME NEW q \in Seq(Thread), NEW t \in Thread, NEW k \in 1..(Len(q) + 1)
    PROVE  Inserted(InsertAt(q, k, t), q, k, t)
BY InsertAtIs DEF Inserted

LEMMA Put ==
    ASSUME NEW s \in Masters, NEW z \in Masters, NEW t \in 1..s.alloc, PlacedBut(s, {t}),
           \A u \in Thread \ {t} : z.thread[u] = s.thread[u], z.alloc = s.alloc,
           NEW k \in 1..(Len(At(s, Place(z.thread[t]))) + 1),
           \A h \in Places : At(z, h) = IF h = Place(z.thread[t]) THEN InsertAt(At(s, h), k, t)
                                        ELSE At(s, h)
    PROVE  Placed(z)
<1> DEFINE g == Place(z.thread[t])
           q == At(s, g)
           r == InsertAt(q, k, t)
<1>1. g \in Places /\ q \in Seq(Thread) /\ IsInjective(q) /\ t \in Thread
    BY Fields, AtType DEF PlacedBut
<1>2. /\ r \in Seq(Thread) /\ Len(r) = Len(q) + 1
      /\ \A i \in 1..(Len(q) + 1) : r[i] = IF i < k THEN q[i] ELSE IF i = k THEN t ELSE q[i - 1]
    <2> HIDE DEF q, g, r
    <2>1. k \in 1..(Len(q) + 1)
        BY DEF q, g
    <2>2. Inserted(InsertAt(q, k, t), q, k, t)
        BY <1>1, <2>1, InsertThread
    <2> QED BY <2>2 DEF Inserted, r
<1>3. At(z, g) = r
    BY <1>1
<1>4. \A h \in Places : h # g => At(z, h) = At(s, h)
    OBVIOUS
<1>5. Len(q) \in Nat /\ \A i, j \in 1..Len(q) : q[i] = q[j] => i = j
    BY <1>1, LenProperties DEF IsInjective
<1>6. \A i \in 1..Len(q) : q[i] \in (1..s.alloc) \ {t} /\ Place(s.thread[q[i]]) = g
    BY <1>1 DEF PlacedBut
<1>k. k \in 1..(Len(q) + 1)
    OBVIOUS
<1> HIDE DEF q, r, g
<1>7. \A i \in 1..Len(r) : r[i] = t \/ \E j \in 1..Len(q) : r[i] = q[j]
    <2>1. ASSUME NEW i \in 1..Len(r) PROVE r[i] = t \/ \E j \in 1..Len(q) : r[i] = q[j]
        <3>1. CASE i <= k
            BY <1>2, <1>5, <1>k, <3>1
        <3>2. CASE i > k
            <4>1. i - 1 \in 1..Len(q) /\ r[i] = q[i - 1]
                BY <1>2, <1>5, <1>k, <3>2
            <4> QED BY <4>1
        <3> QED BY <1>2, <1>5, <1>k, <3>1, <3>2
    <2> QED BY <2>1
<1>8. \A j \in 1..Len(q) : \E i \in 1..Len(r) : r[i] = q[j]
    <2>1. ASSUME NEW j \in 1..Len(q) PROVE \E i \in 1..Len(r) : r[i] = q[j]
        <3>1. CASE j < k
            BY <1>2, <1>5, <1>k, <3>1
        <3>2. CASE j >= k
            <4>1. j + 1 \in 1..Len(r) /\ r[j + 1] = q[j]
                BY <1>2, <1>5, <1>k, <3>2
            <4> QED BY <4>1
        <3> QED BY <1>5, <1>k, <3>1, <3>2
    <2> QED BY <2>1
<1>9. k \in 1..Len(r) /\ r[k] = t
    BY <1>2, <1>5, <1>k
<1>10. IsInjective(r)
    <2>1. ASSUME NEW i \in 1..Len(r), NEW j \in 1..Len(r), r[i] = r[j], i < j
          PROVE  FALSE
        <3>1. CASE j < k
            BY <1>2, <1>5, <1>k, <2>1, <3>1
        <3>2. CASE i = k \/ j = k
            BY <1>2, <1>5, <1>6, <1>k, <2>1, <3>2
        <3>3. CASE i < k /\ k < j
            <4>1. r[i] = q[i] /\ r[j] = q[j - 1] /\ i # j - 1 /\ i \in 1..Len(q) /\ j - 1 \in 1..Len(q)
                BY <1>2, <1>5, <1>k, <2>1, <3>3
            <4> QED BY <1>5, <2>1, <4>1
        <3>4. CASE k < i
            <4>1. r[i] = q[i - 1] /\ r[j] = q[j - 1] /\ i - 1 # j - 1 /\ i - 1 \in 1..Len(q) /\ j - 1 \in 1..Len(q)
                BY <1>2, <1>5, <1>k, <2>1, <3>4
            <4> QED BY <1>5, <2>1, <4>1
        <3> QED BY <1>2, <1>5, <1>k, <2>1, <3>1, <3>2, <3>3, <3>4
    <2>2. DOMAIN r = 1..Len(r) /\ Len(r) \in Nat
        BY <1>2, LenProperties
    <2>3. ASSUME NEW i \in 1..Len(r), NEW j \in 1..Len(r), r[i] = r[j] PROVE i = j
        BY <2>1, <2>2, <2>3
    <2> QED BY <2>2, <2>3 DEF IsInjective
<1>11. ASSUME NEW h \in Places, NEW i \in 1..Len(At(z, h))
       PROVE  At(z, h)[i] \in 1..z.alloc /\ Place(z.thread[At(z, h)[i]]) = h
    <2>1. CASE h = g
        <3>1. CASE r[i] = t
            BY <1>3, <2>1, <3>1 DEF g
        <3>2. CASE r[i] # t
            <4>1. PICK j \in 1..Len(q) : r[i] = q[j]
                BY <1>3, <1>7, <1>11, <2>1, <3>2
            <4>2. q[j] \in Thread \ {t}
                BY <1>6, Fields
            <4> QED BY <1>3, <1>6, <2>1, <4>1, <4>2
        <3> QED BY <3>1, <3>2
    <2>2. CASE h # g
        <3>1. At(s, h)[i] \in (1..s.alloc) \ {t} /\ Place(s.thread[At(s, h)[i]]) = h
            BY <1>4, <1>11, <2>2 DEF PlacedBut
        <3>2. At(s, h)[i] \in Thread \ {t}
            BY <3>1, Fields
        <3> QED BY <1>4, <2>2, <3>1, <3>2
    <2> QED BY <2>1, <2>2
<1>12. \A h \in Places : IsInjective(At(z, h))
    BY <1>3, <1>4, <1>10 DEF PlacedBut
<1>13. ASSUME NEW u \in 1..z.alloc
       PROVE  \E i \in 1..Len(At(z, Place(z.thread[u]))) : At(z, Place(z.thread[u]))[i] = u
    <2>1. CASE u = t
        BY <1>3, <1>9, <2>1 DEF g
    <2>2. CASE u # t
        <3> DEFINE h == Place(s.thread[u])
        <3>1. h \in Places /\ z.thread[u] = s.thread[u]
            BY <2>2, Fields
        <3>2. PICK j \in 1..Len(At(s, h)) : At(s, h)[j] = u
            BY <2>2 DEF PlacedBut
        <3>3. CASE h = g
            <4>1. j \in 1..Len(q) /\ q[j] = u
                BY <3>2, <3>3 DEF q
            <4>2. At(z, Place(z.thread[u])) = r
                BY <1>3, <3>1, <3>3
            <4>3. PICK i \in 1..Len(r) : r[i] = u
                BY <1>8, <4>1
            <4> QED BY <4>2, <4>3, Zenon
        <3>4. CASE h # g
            <4>1. At(z, h) = At(s, h) /\ Place(z.thread[u]) = h
                BY <1>4, <3>1, <3>4
            <4> QED BY <3>2, <4>1, Zenon
        <3> QED BY <3>3, <3>4
    <2> QED BY <2>1, <2>2
<1>14. ASSUME NEW u \in Thread, u > z.alloc PROVE z.thread[u].type = "UNUSED"
    <2>1. u # t
        BY Fields, <1>14
    <2> QED BY <1>14, <2>1 DEF PlacedBut
<1> QED BY <1>11, <1>12, <1>13, <1>14 DEF Placed, PlacedBut

----------------------------------------------------------------------------
(* The state of the thread master between two calls.                       *)

\* The timers of a slot are in the order they are due.
Sorted(s) ==
    \A i \in Slot : \A j, k \in 1..Len(s.timer[i]) :
        j <= k => s.thread[s.timer[i][j]].left <= s.thread[s.timer[i][k]].left

\* A thread is what its callback is armed as, until it is queued.
Fits(s) ==
    \A t \in Thread :
        LET r == s.thread[t] IN
        /\ r.type \in {Kind[r.callback], "QUEUE", "UNUSED"}
        /\ r.type # "TIMER" => r.left = 0
        /\ r.type = "QUEUE" /\ Kind[r.callback] = "EVENT" => r.priority = "HIGH"

Readers(s) == {t \in Thread : s.thread[t].type \in {"READ", "READ_HIGH"}}
Writers(s) == {t \in Thread : s.thread[t].type = "WRITE"}

\* What select watches is what somebody waits for; one thread alone waits to write
\* to a descriptor.
Watching(s) ==
    /\ s.readfd = {Fd[s.thread[t].callback] : t \in Readers(s)}
    /\ s.writefd = {Fd[s.thread[t].callback] : t \in Writers(s)}
    /\ \A t, u \in Writers(s) : Fd[s.thread[t].callback] = Fd[s.thread[u].callback] => t = u

Live(s) == {t \in Thread : s.thread[t].type # "UNUSED"}

\* A callback whose pointer is kept is armed once at most.
Single(s) ==
    \A t, u \in Live(s) :
        s.thread[t].callback = s.thread[u].callback /\ s.thread[t].callback \in Kept => t = u

Sound(s) == s \in Masters /\ Placed(s) /\ Sorted(s) /\ Fits(s) /\ Watching(s) /\ Single(s)

LEMMA LiveListed ==
    ASSUME NEW s \in Masters, NEW T, PlacedBut(s, T), NEW t \in Live(s)
    PROVE  t \in 1..s.alloc
BY Fields DEF PlacedBut, Live

LEMMA UnusedType ==
    Unused \in ThreadRecord /\ Unused.type = "UNUSED" /\ Unused.left = 0 /\ Unused.callback \in Callback
<1>1. PICK d : d = CHOOSE c \in Callback : TRUE
    OBVIOUS
<1>2. d \in Callback
    BY <1>1, ClientAssumption
<1>3. Unused = [type |-> "UNUSED", priority |-> "HIGH", slot |-> 1, left |-> 0, callback |-> d]
    BY <1>1 DEF Unused
<1>4. 1 \in Slot
    BY ClientAssumption DEF Slot
<1>5. Unused \in ThreadRecord
    BY <1>2, <1>3, <1>4, Names DEF ThreadRecord
<1> QED BY <1>2, <1>3, <1>5

LEMMA WithLists ==
    ASSUME NEW s \in Masters, NEW L \in [ListName -> Seq(Thread)]
    PROVE  [s EXCEPT !.list = L] \in Masters
BY DEF Masters

LEMMA WithTimers ==
    ASSUME NEW s \in Masters, NEW L \in [Slot -> Seq(Thread)]
    PROVE  [s EXCEPT !.timer = L] \in Masters
BY DEF Masters

LEMMA WithThreads ==
    ASSUME NEW s \in Masters, NEW L \in [Thread -> ThreadRecord]
    PROVE  [s EXCEPT !.thread = L] \in Masters
BY DEF Masters

LEMMA WithWritefd ==
    ASSUME NEW s \in Masters, NEW L \in SUBSET Fds
    PROVE  [s EXCEPT !.writefd = L] \in Masters
BY DEF Masters

LEMMA AppendIs ==
    ASSUME NEW S, NEW q \in Seq(S), NEW e \in S
    PROVE  Append(q, e) = InsertAt(q, Len(q) + 1, e)
<1>1. Len(q) \in Nat
    BY LenProperties
<1>2. SubSeq(q, 1, Len(q)) = q /\ SubSeq(q, Len(q) + 1, Len(q)) = <<>>
    BY <1>1, SubSeqFull, SubSeqEmpty
<1>3. InsertAt(q, Len(q) + 1, e) = (q \o <<e>>) \o <<>>
    <2>1. (Len(q) + 1) - 1 = Len(q)
        BY <1>1
    <2> QED BY <1>2, <2>1, Zenon DEF InsertAt
<1>4. q \o <<e>> \in Seq(S) /\ q \o <<e>> = Append(q, e)
    BY <1>1
<1> QED BY <1>3, <1>4, ConcatEmptySeq

LEMMA UnlinkIs ==
    ASSUME NEW s \in Masters, NEW t \in 1..s.alloc, Placed(s), s.thread[t].type # "UNUSED"
    PROVE  LET z == Unlink(s, t) IN
           /\ z \in Masters
           /\ z.thread = s.thread /\ z.alloc = s.alloc /\ z.index = s.index
           /\ z.readfd = s.readfd /\ z.writefd = s.writefd
           /\ \A h \in Places : At(z, h) = IF h = Place(s.thread[t]) THEN RemoveFirst(At(s, h), t)
                                           ELSE At(s, h)
<1> DEFINE r == s.thread[t]
           g == Place(r)
           q == At(s, g)
<1>1. r \in ThreadRecord /\ g \in Places /\ q \in Seq(Thread) /\ IsInjective(q)
    BY Fields, AtType DEF Placed, PlacedBut
<1>2. PICK k \in 1..Len(q) : q[k] = t
    BY DEF Placed, PlacedBut
<1>3. RemoveFirst(q, t) \in Seq(Thread)
    <2> HIDE DEF q
    <2> QED BY <1>1, <1>2, RemoveFirstIs
<1>4. CASE r.type = "TIMER"
    <2>1. Unlink(s, t) = [s EXCEPT !.timer[r.slot] = RemoveFirst(@, t)]
        BY <1>4 DEF Unlink
    <2>2. g = <<"timer", r.slot>> /\ r.slot \in Slot /\ q = s.timer[r.slot]
        BY <1>1, <1>4 DEF Place, At, ThreadRecord
    <2> HIDE DEF q, g, r
    <2>3. Unlink(s, t) = [s EXCEPT !.timer = [s.timer EXCEPT ![r.slot] = RemoveFirst(q, t)]]
        BY <2>1, <2>2
    <2>4. Unlink(s, t) \in Masters
        <3>1. [s.timer EXCEPT ![r.slot] = RemoveFirst(q, t)] \in [Slot -> Seq(Thread)]
            BY <1>3, <2>2 DEF Masters
        <3> QED BY <2>3, <3>1, WithTimers, ZenonT(40)
    <2>5. /\ Unlink(s, t).thread = s.thread /\ Unlink(s, t).alloc = s.alloc
          /\ Unlink(s, t).index = s.index
          /\ Unlink(s, t).readfd = s.readfd /\ Unlink(s, t).writefd = s.writefd
          /\ Unlink(s, t).list = s.list
          /\ Unlink(s, t).timer = [s.timer EXCEPT ![r.slot] = RemoveFirst(q, t)]
        BY <2>3 DEF Masters
    <2>6. ASSUME NEW h \in Places
          PROVE  At(Unlink(s, t), h) = IF h = g THEN RemoveFirst(At(s, h), t) ELSE At(s, h)
        <3>1. CASE h[1] = "timer"
            <4>1. h = <<"timer", h[2]>> /\ h[2] \in Slot
                BY <3>1, Names DEF Places
            <4> QED BY <2>2, <2>5, <3>1, <4>1 DEF At, Masters
        <3>2. CASE h[1] # "timer"
            BY <2>2, <2>5, <3>2 DEF At
        <3> QED BY <3>1, <3>2
    <2> QED BY <2>4, <2>5, <2>6 DEF g, r
<1>5. CASE r.type # "TIMER"
    <2>1. Unlink(s, t) = [s EXCEPT !.list[Home(r)] = RemoveFirst(@, t)]
        BY <1>5 DEF Unlink, Home
    <2>2. g = <<Home(r), 0>> /\ Home(r) \in ListName /\ Home(r) # "timer" /\ q = s.list[Home(r)]
        BY <1>1, <1>5, PlaceType, Names DEF Place, At
    <2> HIDE DEF q, g, r
    <2>3. Unlink(s, t) = [s EXCEPT !.list = [s.list EXCEPT ![Home(r)] = RemoveFirst(q, t)]]
        BY <2>1, <2>2
    <2>4. Unlink(s, t) \in Masters
        <3>1. [s.list EXCEPT ![Home(r)] = RemoveFirst(q, t)] \in [ListName -> Seq(Thread)]
            BY <1>3, <2>2 DEF Masters
        <3> QED BY <2>3, <3>1, WithLists, Zenon
    <2>5. /\ Unlink(s, t).thread = s.thread /\ Unlink(s, t).alloc = s.alloc
          /\ Unlink(s, t).index = s.index
          /\ Unlink(s, t).readfd = s.readfd /\ Unlink(s, t).writefd = s.writefd
          /\ Unlink(s, t).timer = s.timer
          /\ Unlink(s, t).list = [s.list EXCEPT ![Home(r)] = RemoveFirst(q, t)]
        BY <2>3 DEF Masters
    <2>6. ASSUME NEW h \in Places
          PROVE  At(Unlink(s, t), h) = IF h = g THEN RemoveFirst(At(s, h), t) ELSE At(s, h)
        <3>1. CASE h[1] = "timer"
            BY <2>2, <2>5, <3>1 DEF At
        <3>2. CASE h[1] # "timer"
            <4>1. h = <<h[1], 0>> /\ h[1] \in ListName
                BY <3>2 DEF Places
            <4> QED BY <2>2, <2>5, <3>2, <4>1 DEF At, Masters
        <3> QED BY <3>1, <3>2
    <2> QED BY <2>4, <2>5, <2>6 DEF g, r
<1> QED BY <1>4, <1>5

\* A thread leaves its list for the end of another and gets the record r.
Move(s, t, r) == [Unlink(s, t) EXCEPT !.list[Home(r)] = Append(@, t), !.thread[t] = r]

Moved(s, z, t, r) ==
    /\ z.thread = [s.thread EXCEPT ![t] = r] /\ z.alloc = s.alloc /\ z.index = s.index
    /\ \A h \in Places : At(z, h) = IF h = Place(s.thread[t]) THEN RemoveFirst(At(s, h), t)
                                    ELSE IF h = Place(r) THEN Append(At(s, h), t)
                                    ELSE At(s, h)

LEMMA MoveIs ==
    ASSUME NEW s \in Masters, Placed(s), NEW t \in Live(s), NEW r \in ThreadRecord, r.type # "TIMER",
           Place(r) # Place(s.thread[t])
    PROVE  LET z == Move(s, t, r) IN
           /\ z \in Masters /\ Placed(z) /\ Moved(s, z, t, r)
           /\ z.readfd = s.readfd /\ z.writefd = s.writefd
<1>1. t \in 1..s.alloc /\ t \in Thread /\ s.thread[t].type # "UNUSED"
    BY LiveListed, Fields DEF Live, Placed
<1> DEFINE y == Unlink(s, t)
           z == Move(s, t, r)
<1>2. /\ y \in Masters
      /\ y.thread = s.thread /\ y.alloc = s.alloc /\ y.index = s.index
      /\ y.readfd = s.readfd /\ y.writefd = s.writefd
      /\ \A h \in Places : At(y, h) = IF h = Place(s.thread[t]) THEN RemoveFirst(At(s, h), t)
                                      ELSE At(s, h)
    BY <1>1, UnlinkIs
<1>3. z = [y EXCEPT !.list[Home(r)] = Append(@, t), !.thread[t] = r]
    BY DEF Move
<1> HIDE DEF y, z
<1>4. PlacedBut(y, {t})
    BY <1>1, <1>2, Take
<1>5. Home(r) \in ListName /\ Home(r) # "timer" /\ Place(r) = <<Home(r), 0>>
    BY PlaceType, Names DEF Place
<1>6. y.list[Home(r)] \in Seq(Thread) /\ Append(y.list[Home(r)], t) \in Seq(Thread)
    BY <1>1, <1>2, <1>5 DEF Masters
<1>7. z \in Masters
    BY <1>1, <1>2, <1>3, <1>5, <1>6 DEF Masters
<1>8. /\ z.thread = [y.thread EXCEPT ![t] = r] /\ z.alloc = y.alloc /\ z.index = y.index
      /\ z.readfd = y.readfd /\ z.writefd = y.writefd /\ z.timer = y.timer
      /\ z.list = [y.list EXCEPT ![Home(r)] = Append(@, t)]
    BY <1>2, <1>3 DEF Masters
<1>9. z.thread[t] = r /\ \A u \in Thread \ {t} : z.thread[u] = y.thread[u]
    BY <1>1, <1>2, <1>8 DEF Masters
<1> DEFINE k == Len(At(y, Place(r))) + 1
<1>10. k \in 1..(Len(At(y, Place(r))) + 1) /\ At(y, Place(r)) = y.list[Home(r)]
    BY <1>5, <1>6, LenProperties DEF At
<1>11. ASSUME NEW h \in Places
       PROVE  At(z, h) = IF h = Place(r) THEN InsertAt(At(y, h), k, t) ELSE At(y, h)
    <2>1. CASE h = Place(r)
        <3>1. At(z, h) = Append(y.list[Home(r)], t)
            BY <1>2, <1>5, <1>8, <2>1 DEF At, Masters
        <3> QED BY <1>1, <1>6, <1>10, <2>1, <3>1, AppendIs
    <2>2. CASE h # Place(r)
        BY <1>2, <1>5, <1>8, <2>2 DEF At, Masters, Places
    <2> QED BY <2>1, <2>2
<1> HIDE DEF k
<1>12. Placed(z)
    <2>1. /\ \A u \in Thread \ {t} : z.thread[u] = y.thread[u]
          /\ z.alloc = y.alloc /\ t \in 1..y.alloc
          /\ k \in 1..(Len(At(y, Place(z.thread[t]))) + 1)
          /\ \A h \in Places : At(z, h) = IF h = Place(z.thread[t]) THEN InsertAt(At(y, h), k, t)
                                          ELSE At(y, h)
        BY <1>1, <1>2, <1>8, <1>9, <1>10, <1>11
    <2> QED BY <1>2, <1>4, <1>7, <2>1, Put
<1>13. ASSUME NEW h \in Places
       PROVE  At(z, h) = IF h = Place(s.thread[t]) THEN RemoveFirst(At(s, h), t)
                         ELSE IF h = Place(r) THEN Append(At(s, h), t) ELSE At(s, h)
    <2>1. CASE h = Place(r)
        <3>1. At(y, h) = At(s, h) /\ h # Place(s.thread[t])
            BY <1>2, <2>1
        <3>2. At(y, h) = y.list[Home(r)] /\ At(z, h) = z.list[Home(r)]
            BY <1>5, <2>1 DEF At
        <3>3. z.list[Home(r)] = Append(y.list[Home(r)], t)
            BY <1>2, <1>5, <1>8 DEF Masters
        <3> QED BY <2>1, <3>1, <3>2, <3>3, Zenon
    <2>2. CASE h # Place(r)
        BY <1>2, <1>11, <2>2
    <2> QED BY <2>1, <2>2
<1>14. Moved(s, z, t, r)
    BY <1>2, <1>8, <1>13 DEF Moved
<1> QED BY <1>2, <1>7, <1>8, <1>12, <1>14 DEF z


LEMMA UnwatchIs ==
    ASSUME NEW s \in Masters, NEW t \in Thread
    PROVE  LET z == Unwatch(s, t)
               r == s.thread[t] IN
           /\ z \in Masters
           /\ z.list = s.list /\ z.timer = s.timer /\ z.thread = s.thread
           /\ z.alloc = s.alloc /\ z.index = s.index
           /\ z.readfd = IF r.type \in {"READ", "READ_HIGH"} THEN s.readfd \ {Fd[r.callback]} ELSE s.readfd
           /\ z.writefd = IF r.type = "WRITE" THEN s.writefd \ {Fd[r.callback]} ELSE s.writefd
           /\ (r.type \notin {"READ", "READ_HIGH", "WRITE"} => z = s)
<1>1. CASE s.thread[t].type \in {"READ", "READ_HIGH"}
    <2>1. Unwatch(s, t) = [s EXCEPT !.readfd = s.readfd \ {Fd[s.thread[t].callback]}]
        BY <1>1 DEF Unwatch
    <2> QED BY <1>1, <2>1 DEF Masters
<1>2. CASE s.thread[t].type = "WRITE"
    <2>1. Unwatch(s, t) = [s EXCEPT !.writefd = s.writefd \ {Fd[s.thread[t].callback]}]
        BY <1>2 DEF Unwatch
    <2>2. s.thread[t].type \notin {"READ", "READ_HIGH"}
        BY <1>2
    <2>3. Unwatch(s, t) \in Masters
        <3>1. s.writefd \ {Fd[s.thread[t].callback]} \in SUBSET Fds
            BY DEF Masters
        <3> QED BY <2>1, <3>1, WithWritefd, Zenon
    <2>4. /\ Unwatch(s, t).list = s.list /\ Unwatch(s, t).timer = s.timer
          /\ Unwatch(s, t).thread = s.thread /\ Unwatch(s, t).alloc = s.alloc
          /\ Unwatch(s, t).index = s.index /\ Unwatch(s, t).readfd = s.readfd
          /\ Unwatch(s, t).writefd = s.writefd \ {Fd[s.thread[t].callback]}
        BY <2>1 DEF Masters
    <2> QED BY <1>2, <2>2, <2>3, <2>4
<1>3. CASE s.thread[t].type \notin {"READ", "READ_HIGH", "WRITE"}
    BY <1>3 DEF Unwatch
<1> QED BY <1>1, <1>2, <1>3

LEMMA NoUnwatch ==
    ASSUME NEW s, NEW t, s.thread[t].type \notin {"READ", "READ_HIGH", "WRITE"}
    PROVE  Unwatch(s, t) = s
BY DEF Unwatch

LEMMA SamePlaces ==
    ASSUME NEW s \in Masters, NEW z \in Masters, z.list = s.list, z.timer = s.timer
    PROVE  \A h \in Places : At(z, h) = At(s, h)
BY DEF At

LEMMA SamePlaced ==
    ASSUME NEW s \in Masters, NEW z \in Masters, z.list = s.list, z.timer = s.timer,
           z.thread = s.thread, z.alloc = s.alloc
    PROVE  Placed(s) => Placed(z)
<1>1. \A h \in Places : At(z, h) = At(s, h)
    BY SamePlaces
<1>2. \A t \in 1..s.alloc : Place(s.thread[t]) \in Places
    BY Fields
<1> QED BY <1>1, <1>2 DEF Placed, PlacedBut

LEMMA SortedRemove ==
    ASSUME NEW q \in Seq(Thread), IsInjective(q), NEW k \in 1..Len(q),
           NEW left \in [Thread -> Nat],
           \A i, j \in 1..Len(q) : i <= j => left[q[i]] <= left[q[j]]
    PROVE  LET r == RemoveFirst(q, q[k]) IN
           \A i, j \in 1..Len(r) : i <= j => left[r[i]] <= left[r[j]] /\ r[i] # q[k]
<1> DEFINE r == RemoveFirst(q, q[k])
<1>1. /\ r \in Seq(Thread) /\ Len(r) = Len(q) - 1 /\ Len(q) \in Nat
      /\ \A i \in 1..(Len(q) - 1) : r[i] = IF i < k THEN q[i] ELSE q[i + 1]
    BY RemoveFirstIs, LenProperties
<1>2. \A i, j \in 1..Len(q) : q[i] = q[j] => i = j
    BY <1>1 DEF IsInjective
<1> HIDE DEF r
<1>3. ASSUME NEW i \in 1..Len(r), NEW j \in 1..Len(r), i <= j
      PROVE  left[r[i]] <= left[r[j]] /\ r[i] # q[k]
    <2>0. i \in 1..(Len(q) - 1) /\ j \in 1..(Len(q) - 1) /\ k \in 1..Len(q) /\ Len(q) \in Nat
        BY <1>1, <1>3
    <2> DEFINE a == IF i < k THEN i ELSE i + 1
               b == IF j < k THEN j ELSE j + 1
    <2>4. r[i] = q[a] /\ r[j] = q[b]
        BY <1>1, <2>0
    <2>5. a \in 1..Len(q) /\ b \in 1..Len(q) /\ a <= b /\ a # k
        BY <1>3, <2>0
    <2> HIDE DEF a, b
    <2>1. a \in 1..Len(q) /\ b \in 1..Len(q) /\ a <= b /\ a # k /\ r[i] = q[a] /\ r[j] = q[b]
        BY <2>4, <2>5
    <2>2. left[q[a]] <= left[q[b]]
        BY <2>1
    <2>3. q[a] # q[k]
        BY <1>2, <2>1
    <2> QED BY <2>1, <2>2, <2>3
<1> QED BY <1>3 DEF r


LEMMA TimerPlace ==
    ASSUME NEW s \in Masters, NEW i \in Slot
    PROVE  /\ <<"timer", i>> \in Places /\ At(s, <<"timer", i>>) = s.timer[i]
           /\ s.timer[i] \in Seq(Thread)
BY DEF Places, At, Masters

LEMMA MovedSorted ==
    ASSUME NEW s \in Masters, Placed(s), Sorted(s), NEW t \in Live(s), NEW z \in Masters,
           NEW r \in ThreadRecord, r.type # "TIMER", Placed(z), Moved(s, z, t, r)
    PROVE  Sorted(z)
<1>0. t \in 1..s.alloc /\ t \in Thread
    BY LiveListed, Fields DEF Live, Placed
<1>1. Home(r) # "timer" /\ Place(r) = <<Home(r), 0>>
    BY PlaceType, Names DEF Place
<1> DEFINE left == [u \in Thread |-> s.thread[u].left]
<1>2. left \in [Thread -> Nat]
    BY Fields DEF ThreadRecord
<1>3. \A u \in Thread \ {t} : z.thread[u].left = left[u]
    BY <1>0 DEF Moved, Masters
<1> SUFFICES ASSUME NEW i \in Slot, NEW j \in 1..Len(z.timer[i]), NEW k \in 1..Len(z.timer[i]), j <= k
             PROVE  z.thread[z.timer[i][j]].left <= z.thread[z.timer[i][k]].left
    BY DEF Sorted
<1> DEFINE h == <<"timer", i>>
           q == s.timer[i]
           w == z.timer[i]
<1>4. h \in Places /\ q = At(s, h) /\ w = At(z, h) /\ q \in Seq(Thread) /\ IsInjective(q) /\ h # Place(r)
    BY <1>1, TimerPlace DEF Placed, PlacedBut
<1>5. \A a, b \in 1..Len(q) : a <= b => left[q[a]] <= left[q[b]]
    <2>1. \A a \in 1..Len(q) : q[a] \in Thread
        BY <1>4
    <2> QED BY <2>1 DEF Sorted
<1>6. CASE h = Place(s.thread[t])
    <2>1. w = RemoveFirst(q, t)
        BY <1>4, <1>6 DEF Moved
    <2>2. PICK n \in 1..Len(q) : q[n] = t
        <3>1. \E n \in 1..Len(At(s, Place(s.thread[t]))) : At(s, Place(s.thread[t]))[n] = t
            BY <1>0 DEF Placed, PlacedBut
        <3> QED BY <1>4, <1>6, <3>1, Zenon
    <2>3. w \in Seq(Thread)
        BY TimerPlace
    <2> HIDE DEF q, w, left
    <2>4. \A a, b \in 1..Len(w) : a <= b => left[w[a]] <= left[w[b]] /\ w[a] # t
        BY <1>2, <1>4, <1>5, <2>1, <2>2, SortedRemove
    <2>5. j \in 1..Len(w) /\ k \in 1..Len(w) /\ k <= k
        BY DEF w
    <2>6. w[j] \in Thread \ {t} /\ w[k] \in Thread \ {t} /\ left[w[j]] <= left[w[k]]
        BY <2>3, <2>4, <2>5
    <2> QED BY <1>3, <2>6 DEF w
<1>7. CASE h # Place(s.thread[t])
    <2>1. w = q
        BY <1>4, <1>7 DEF Moved
    <2>2. \A a \in 1..Len(q) : q[a] \in Thread \ {t}
        <3>1. ASSUME NEW a \in 1..Len(q) PROVE q[a] \in Thread \ {t}
            <4>1. q[a] \in Thread /\ Place(s.thread[q[a]]) = h
                BY <1>4 DEF Placed, PlacedBut
            <4>2. q[a] # t
                BY <1>7, <4>1, Zenon
            <4> QED BY <4>1, <4>2
        <3> QED BY <3>1
    <2> HIDE DEF q, left
    <2> QED BY <1>3, <1>5, <2>1, <2>2
<1> QED BY <1>6, <1>7

LEMMA MovedSound ==
    ASSUME NEW s, Sound(s), NEW t \in Live(s), NEW z \in Masters, Placed(z),
           NEW r \in ThreadRecord, Moved(s, z, t, r), r.type \in {"QUEUE", "UNUSED"}, r.left = 0,
           r.type = "QUEUE" => /\ r.callback = s.thread[t].callback
                               /\ Kind[r.callback] = "EVENT" => r.priority = "HIGH",
           z.readfd = Unwatch(s, t).readfd, z.writefd = Unwatch(s, t).writefd
    PROVE  Sound(z)
<1>1. s \in Masters /\ Placed(s) /\ Sorted(s) /\ Fits(s) /\ Watching(s) /\ Single(s)
    BY DEF Sound
<1>2. t \in Thread /\ s.thread[t].type # "UNUSED" /\ s.thread[t] \in ThreadRecord
    BY <1>1, Fields DEF Live
<1>3. Sorted(z)
    BY <1>1, MovedSorted
<1>4. z.thread[t] = r /\ \A u \in Thread \ {t} : z.thread[u] = s.thread[u]
    BY <1>1, <1>2 DEF Moved, Masters
<1>5. Fits(z)
    BY <1>1, <1>4 DEF Fits
<1>6. Live(z) \subseteq Live(s) /\ \A u \in Live(z) : z.thread[u].callback = s.thread[u].callback
    BY <1>2, <1>4 DEF Live
<1>7. Single(z)
    BY <1>1, <1>6 DEF Single
<1>8. Readers(z) = Readers(s) \ {t} /\ Writers(z) = Writers(s) \ {t}
    BY <1>2, <1>4 DEF Readers, Writers
<1>9. z.readfd = {Fd[z.thread[u].callback] : u \in Readers(z)}
    <2>1. \A u \in Readers(z) : z.thread[u] = s.thread[u]
        BY <1>4, <1>8 DEF Readers
    <2>2. CASE s.thread[t].type \in {"READ", "READ_HIGH"}
        <3>1. z.readfd = s.readfd \ {Fd[s.thread[t].callback]}
            BY <1>1, <1>2, <2>2, UnwatchIs
        <3>2. ASSUME NEW u \in Readers(s), Fd[s.thread[u].callback] = Fd[s.thread[t].callback]
              PROVE  u = t
            <4>1. u \in Live(s) /\ s.thread[u] \in ThreadRecord
                BY <1>1, Fields DEF Readers, Live
            <4>2. Kind[s.thread[u].callback] = s.thread[u].type /\ Kind[s.thread[t].callback] = s.thread[t].type
                BY <1>1, <1>2, <2>2 DEF Fits, Readers
            <4>3. s.thread[u].callback \in Callback /\ s.thread[t].callback \in Callback
                BY <1>2, <4>1 DEF ThreadRecord
            <4>4. Reads(s.thread[u].callback) /\ Reads(s.thread[t].callback)
                BY <2>2, <4>2 DEF Reads, Readers
            <4>5. s.thread[u].callback = s.thread[t].callback
                BY <3>2, <4>3, <4>4, ClientAssumption
            <4>6. s.thread[u].callback \in Kept
                BY <4>2, <4>3, <4>4, ClientAssumption DEF Reads
            <4> QED BY <1>1, <4>1, <4>5, <4>6 DEF Single
        <3> QED BY <1>1, <1>8, <2>1, <2>2, <3>1, <3>2 DEF Watching
    <2>3. CASE s.thread[t].type \notin {"READ", "READ_HIGH"}
        <3>1. Readers(z) = Readers(s)
            BY <1>8, <2>3 DEF Readers
        <3>2. z.readfd = s.readfd
            BY <1>1, <1>2, <2>3, UnwatchIs
        <3> QED BY <1>1, <2>1, <3>1, <3>2 DEF Watching
    <2> QED BY <2>2, <2>3
<1>10. z.writefd = {Fd[z.thread[u].callback] : u \in Writers(z)}
    <2>1. \A u \in Writers(z) : z.thread[u] = s.thread[u]
        BY <1>4, <1>8 DEF Writers
    <2>2. CASE s.thread[t].type = "WRITE"
        <3>1. z.writefd = s.writefd \ {Fd[s.thread[t].callback]}
            BY <1>1, <1>2, <2>2, UnwatchIs
        <3>2. t \in Writers(s)
            BY <1>2, <2>2 DEF Writers
        <3> QED BY <1>1, <1>8, <2>1, <3>1, <3>2 DEF Watching
    <2>3. CASE s.thread[t].type # "WRITE"
        <3>1. Writers(z) = Writers(s)
            BY <1>8, <2>3 DEF Writers
        <3>2. z.writefd = s.writefd
            BY <1>1, <1>2, <2>3, UnwatchIs
        <3> QED BY <1>1, <2>1, <3>1, <3>2 DEF Watching
    <2> QED BY <2>2, <2>3
<1>11. Watching(z)
    <2>1. \A u, v \in Writers(z) : Fd[z.thread[u].callback] = Fd[z.thread[v].callback] => u = v
        BY <1>1, <1>4, <1>8 DEF Watching, Writers
    <2> QED BY <1>9, <1>10, <2>1 DEF Watching
<1> QED BY <1>1, <1>3, <1>5, <1>7, <1>11 DEF Sound


LEMMA CancelSound ==
    ASSUME NEW s, Sound(s), NEW t \in Live(s)
    PROVE  LET z == ThreadCancel(s, t) IN Sound(z) /\ Moved(s, z, t, Unused)
<1>1. s \in Masters /\ Placed(s)
    BY DEF Sound
<1>2. t \in 1..s.alloc /\ t \in Thread /\ s.thread[t].type # "UNUSED"
    BY <1>1, LiveListed, Fields DEF Live, Placed
<1>3. Unused \in ThreadRecord /\ Unused.type = "UNUSED" /\ Unused.left = 0
    BY UnusedType
<1>4. Place(Unused) # Place(s.thread[t]) /\ Home(Unused) = "unuse"
    <2>1. s.thread[t] \in ThreadRecord
        BY <1>1, <1>2, Fields
    <2>2. Home(Unused) = "unuse" /\ Place(Unused) = <<"unuse", 0>>
        BY <1>3 DEF Home, Place
    <2> HIDE DEF Unused
    <2>3. Home(s.thread[t]) # "unuse" \/ s.thread[t].type = "TIMER"
        BY <1>2, <2>1, Names DEF Home, ThreadRecord
    <2> QED BY <2>2, <2>3 DEF Place
<1> DEFINE y == Unlink(s, t)
           x == Unwatch(y, t)
           m == Move(s, t, Unused)
           z == ThreadCancel(s, t)
<1>5. /\ y \in Masters
      /\ y.thread = s.thread /\ y.alloc = s.alloc /\ y.index = s.index
      /\ y.readfd = s.readfd /\ y.writefd = s.writefd
    BY <1>1, <1>2, UnlinkIs
<1>6. /\ m \in Masters /\ Placed(m) /\ Moved(s, m, t, Unused)
      /\ m.readfd = s.readfd /\ m.writefd = s.writefd
    BY <1>1, <1>3, <1>4, MoveIs
<1>7. m = [y EXCEPT !.list["unuse"] = Append(@, t), !.thread[t] = Unused]
    BY <1>4 DEF Move
<1> HIDE DEF m, y
<1>8. /\ x \in Masters /\ x.list = y.list /\ x.timer = y.timer /\ x.thread = s.thread
      /\ x.alloc = s.alloc /\ x.index = s.index
      /\ x.readfd = Unwatch(s, t).readfd /\ x.writefd = Unwatch(s, t).writefd
    <2> DEFINE r == s.thread[t]
               readers == IF r.type \in {"READ", "READ_HIGH"} THEN s.readfd \ {Fd[r.callback]} ELSE s.readfd
               writers == IF r.type = "WRITE" THEN s.writefd \ {Fd[r.callback]} ELSE s.writefd
    <2>1. Unwatch(s, t).readfd = readers /\ Unwatch(s, t).writefd = writers
        BY <1>1, <1>2, UnwatchIs
    <2>2. /\ x \in Masters /\ x.list = y.list /\ x.timer = y.timer /\ x.thread = y.thread
          /\ x.alloc = y.alloc /\ x.index = y.index
          /\ x.readfd = readers /\ x.writefd = writers
        BY <1>2, <1>5, UnwatchIs
    <2> QED BY <1>5, <2>1, <2>2, Zenon
<1>9. z = [x EXCEPT !.thread[t] = Unused, !.list["unuse"] = Append(@, t)]
    BY DEF ThreadCancel, AddUnuse, y
<1> HIDE DEF x, z
<1>10. /\ m.thread = [y.thread EXCEPT ![t] = Unused] /\ m.alloc = y.alloc /\ m.index = y.index
       /\ m.timer = y.timer
       /\ m.list = [y.list EXCEPT !["unuse"] = Append(@, t)]
    BY <1>5, <1>7 DEF Masters
<1>11. /\ z.thread = [x.thread EXCEPT ![t] = Unused] /\ z.alloc = x.alloc /\ z.index = x.index
       /\ z.timer = x.timer /\ z.readfd = x.readfd /\ z.writefd = x.writefd
       /\ z.list = [x.list EXCEPT !["unuse"] = Append(@, t)]
    BY <1>8, <1>9 DEF Masters
<1>12. z \in Masters
    <2>1. z.list = m.list /\ z.thread = m.thread
        BY <1>5, <1>8, <1>10, <1>11
    <2>2. z = [[x EXCEPT !.thread = m.thread] EXCEPT !.list = m.list]
        BY <1>8, <1>9, <1>11, <2>1 DEF Masters
    <2>3. m.list \in [ListName -> Seq(Thread)] /\ m.thread \in [Thread -> ThreadRecord]
        BY <1>6 DEF Masters
    <2>4. [x EXCEPT !.thread = m.thread] \in Masters
        BY <1>8, <2>3, WithThreads
    <2> QED BY <2>2, <2>3, <2>4, WithLists
<1>13. Placed(z)
    BY <1>5, <1>6, <1>8, <1>10, <1>11, <1>12, SamePlaced
<1>14. Moved(s, z, t, Unused)
    <2>1. \A h \in Places : At(z, h) = At(m, h)
        BY <1>6, <1>8, <1>10, <1>11, <1>12, SamePlaces
    <2> QED BY <1>5, <1>6, <1>8, <1>10, <1>11, <2>1 DEF Moved
<1>15. Sound(z)
    BY <1>3, <1>8, <1>11, <1>12, <1>13, <1>14, MovedSound
<1> QED BY <1>14, <1>15 DEF z

Queued(p, c) == [Unused EXCEPT !.type = "QUEUE", !.priority = p, !.callback = c]

LEMMA EnqueueSound ==
    ASSUME NEW s, Sound(s), NEW t \in Live(s), NEW p \in DOMAIN Queue,
           s.thread[t].type # "QUEUE", s.thread[t].left = 0,
           Kind[s.thread[t].callback] = "EVENT" => p = "HIGH"
    PROVE  LET z == Enqueue(Unwatch(s, t), t, p)
               r == Queued(p, s.thread[t].callback)
           IN  /\ r \in ThreadRecord /\ r.type = "QUEUE" /\ r.left = 0 /\ r.priority = p
               /\ r.callback = s.thread[t].callback /\ Place(r) = <<Queue[p], 0>>
               /\ Sound(z) /\ Moved(s, z, t, r)
<1> DEFINE r == Queued(p, s.thread[t].callback)
           x == Unwatch(s, t)
           z == Enqueue(x, t, p)
<1>1. s \in Masters /\ Placed(s)
    BY DEF Sound
<1>2. t \in 1..s.alloc /\ t \in Thread /\ s.thread[t].type # "UNUSED" /\ s.thread[t] \in ThreadRecord
    BY <1>1, LiveListed, Fields DEF Live, Placed
<1>3. /\ r \in ThreadRecord /\ r.type = "QUEUE" /\ r.left = 0 /\ r.priority = p
      /\ r.callback = s.thread[t].callback
    BY <1>2, UnusedType DEF ThreadRecord, Queued
<1> HIDE DEF r
<1>4. Home(r) = Queue[p] /\ Place(r) = <<Queue[p], 0>>
    BY <1>3 DEF Home, Place
<1>5. Place(r) # Place(s.thread[t])
    <2>1. Home(s.thread[t]) # Queue[p] \/ s.thread[t].type = "TIMER"
        BY <1>2, Names DEF Home, ThreadRecord
    <2>2. Queue[p] # "timer"
        BY Names
    <2> QED BY <1>4, <2>1, <2>2 DEF Place
<1>6. /\ x \in Masters
      /\ x.list = s.list /\ x.timer = s.timer /\ x.thread = s.thread
      /\ x.alloc = s.alloc /\ x.index = s.index
    BY <1>1, <1>2, UnwatchIs
<1> HIDE DEF x
<1>7. Placed(x) /\ t \in Live(x)
    BY <1>1, <1>2, <1>6, SamePlaced DEF Live
<1>8. z = Move(x, t, r)
    BY <1>4, <1>6 DEF Enqueue, Move, Queued, r
<1> HIDE DEF z
<1>9. z \in Masters /\ Placed(z) /\ Moved(x, z, t, r) /\ z.readfd = x.readfd /\ z.writefd = x.writefd
    BY <1>3, <1>5, <1>6, <1>7, <1>8, MoveIs
<1>10. Moved(s, z, t, r)
    <2>1. \A h \in Places : At(x, h) = At(s, h)
        BY <1>1, <1>6, SamePlaces
    <2> QED BY <1>6, <1>9, <2>1 DEF Moved
<1>11. Sound(z)
    BY <1>3, <1>9, <1>10, MovedSound DEF x
<1> QED BY <1>3, <1>4, <1>10, <1>11 DEF r, z, x

----------------------------------------------------------------------------
(* Induction, for what ForEach does.                                       *)

LEMMA Induction ==
    ASSUME NEW n \in Nat, NEW R, 0 \in R, \A i \in 1..n : i - 1 \in R => i \in R
    PROVE  \A i \in 0..n : i \in R
<1> DEFINE T == {i \in 0..n : i \notin R}
<1>1. SUFFICES ASSUME T # {} PROVE FALSE
    OBVIOUS
<1>2. T \in SUBSET Nat
    OBVIOUS
<1>3. PICK x \in T : \A y \in T : x <= y
    BY <1>1, <1>2, Least
<1>4. x \in 1..n /\ x - 1 \in 0..n /\ x - 1 \notin T
    BY <1>3
<1> QED BY <1>3, <1>4

\* A queue of the loop has u before t.
Follows(q, u, t) == \E i, j \in 1..Len(q) : i < j /\ q[i] = u /\ q[j] = t
Precedes(s, u, t) == \E p \in DOMAIN Queue : Follows(s.list[Queue[p]], u, t)

\* The threads outside T are as they were and nothing came before one of them.
Only(s, z, T) ==
    \A t \in Thread \ T :
        z.thread[t] = s.thread[t] /\ \A u \in Thread : Precedes(z, u, t) => Precedes(s, u, t)

LEMMA OnlyMore ==
    ASSUME NEW s, NEW m, NEW z, NEW T, NEW U, Only(s, m, T), Only(m, z, U)
    PROVE  Only(s, z, T \cup U)
BY DEF Only

LEMMA QueuePlace ==
    ASSUME NEW s \in Masters, NEW p \in DOMAIN Queue
    PROVE  /\ <<Queue[p], 0>> \in Places /\ At(s, <<Queue[p], 0>>) = s.list[Queue[p]]
           /\ s.list[Queue[p]] \in Seq(Thread) /\ Queue[p] \in ListName
BY Names DEF Places, At, Masters

LEMMA OrderRemove ==
    ASSUME NEW q \in Seq(Thread), IsInjective(q), NEW k \in 1..Len(q), NEW u, NEW v,
           Follows(RemoveFirst(q, q[k]), u, v)
    PROVE  Follows(q, u, v)
<1> DEFINE w == RemoveFirst(q, q[k])
<1>1. /\ Len(w) = Len(q) - 1 /\ Len(q) \in Nat
      /\ \A a \in 1..(Len(q) - 1) : w[a] = IF a < k THEN q[a] ELSE q[a + 1]
    BY RemoveFirstIs, LenProperties
<1>2. PICK i, j \in 1..Len(w) : i < j /\ w[i] = u /\ w[j] = v
    BY DEF Follows
<1>3. i \in 1..Len(w) /\ j \in 1..Len(w)
    OBVIOUS
<1> HIDE DEF w
<1> DEFINE a == IF i < k THEN i ELSE i + 1
           b == IF j < k THEN j ELSE j + 1
<1>4. w[i] = q[a] /\ w[j] = q[b]
    BY <1>1, <1>3
<1>5. a \in 1..Len(q) /\ b \in 1..Len(q) /\ a < b
    BY <1>1, <1>2, <1>3
<1> HIDE DEF a, b
<1> QED BY <1>2, <1>4, <1>5 DEF Follows

LEMMA OrderAppend ==
    ASSUME NEW q \in Seq(Thread), NEW t \in Thread, NEW u, NEW v, v # t,
           Follows(Append(q, t), u, v)
    PROVE  Follows(q, u, v)
<1>1. /\ Len(Append(q, t)) = Len(q) + 1 /\ Append(q, t)[Len(q) + 1] = t /\ Len(q) \in Nat
      /\ \A a \in 1..Len(q) : Append(q, t)[a] = q[a]
    BY LenProperties
<1>2. PICK i, j \in 1..Len(Append(q, t)) : i < j /\ Append(q, t)[i] = u /\ Append(q, t)[j] = v
    BY DEF Follows
<1>3. i \in 1..Len(q) /\ j \in 1..Len(q)
    BY <1>1, <1>2
<1> QED BY <1>1, <1>2, <1>3 DEF Follows

LEMMA MovedOnly ==
    ASSUME NEW s \in Masters, Placed(s), NEW t \in Live(s), NEW z \in Masters,
           NEW r \in ThreadRecord, r.type # "TIMER", Placed(z), Moved(s, z, t, r)
    PROVE  Only(s, z, {t})
<1>1. t \in 1..s.alloc /\ t \in Thread
    BY LiveListed, Fields DEF Live, Placed
<1>2. \A v \in Thread \ {t} : z.thread[v] = s.thread[v]
    BY <1>1 DEF Moved, Masters
<1>3. ASSUME NEW v \in Thread \ {t}, NEW u \in Thread, Precedes(z, u, v)
      PROVE  Precedes(s, u, v)
    <2>1. PICK p \in DOMAIN Queue : Follows(z.list[Queue[p]], u, v)
        BY <1>3 DEF Precedes
    <2>2. PICK h \in Places, q \in Seq(Thread) :
              /\ h = <<Queue[p], 0>> /\ q = s.list[Queue[p]] /\ q = At(s, h)
              /\ z.list[Queue[p]] = At(z, h) /\ IsInjective(q)
        <3>1. /\ <<Queue[p], 0>> \in Places /\ At(s, <<Queue[p], 0>>) = s.list[Queue[p]]
              /\ s.list[Queue[p]] \in Seq(Thread) /\ z.list[Queue[p]] = At(z, <<Queue[p], 0>>)
            BY QueuePlace
        <3>2. IsInjective(At(s, <<Queue[p], 0>>))
            BY <3>1 DEF Placed, PlacedBut
        <3> QED BY <3>1, <3>2
    <2>3. Follows(At(z, h), u, v)
        BY <2>1, <2>2
    <2>4. CASE h = Place(s.thread[t])
        <3>1. At(z, h) = RemoveFirst(q, t)
            BY <2>2, <2>4 DEF Moved
        <3>2. \E k \in 1..Len(At(s, Place(s.thread[t]))) : At(s, Place(s.thread[t]))[k] = t
            BY <1>1 DEF Placed, PlacedBut
        <3>3. PICK k \in 1..Len(q) : q[k] = t
            BY <2>2, <2>4, <3>2
        <3>4. Follows(RemoveFirst(q, q[k]), u, v)
            BY <2>3, <3>1, <3>3
        <3>5. Follows(q, u, v)
            BY <2>2, <3>4, OrderRemove
        <3> QED BY <2>2, <3>5 DEF Precedes
    <2>5. CASE h # Place(s.thread[t]) /\ h = Place(r)
        <3>1. Follows(Append(q, t), u, v)
            BY <2>2, <2>3, <2>5 DEF Moved
        <3>2. Follows(q, u, v)
            BY <1>1, <3>1, OrderAppend
        <3> QED BY <2>2, <3>2 DEF Precedes
    <2>6. CASE h # Place(s.thread[t]) /\ h # Place(r)
        BY <2>2, <2>3, <2>6 DEF Moved, Precedes
    <2> QED BY <2>4, <2>5, <2>6
<1> QED BY <1>2, <1>3 DEF Only


LEMMA CancelStep ==
    ASSUME NEW s, Sound(s), NEW t \in Live(s)
    PROVE  LET z == ThreadCancel(s, t) IN
           Sound(z) /\ Only(s, z, {t}) /\ z.thread[t] = Unused
<1> DEFINE z == ThreadCancel(s, t)
<1>1. Sound(z) /\ Moved(s, z, t, Unused)
    BY CancelSound
<1> HIDE DEF z
<1>2. s \in Masters /\ z \in Masters /\ Placed(s) /\ Placed(z) /\ t \in Thread
    BY <1>1 DEF Sound, Live
<1>3. Unused \in ThreadRecord /\ Unused.type # "TIMER"
    BY UnusedType
<1>4. Only(s, z, {t})
    BY <1>1, <1>2, <1>3, MovedOnly
<1>5. z.thread[t] = Unused
    BY <1>1, <1>2 DEF Moved, Masters
<1> QED BY <1>1, <1>4, <1>5 DEF z

LEMMA EnqueueStep ==
    ASSUME NEW s, Sound(s), NEW t \in Live(s), NEW p \in DOMAIN Queue,
           s.thread[t].type # "QUEUE", s.thread[t].left = 0,
           Kind[s.thread[t].callback] = "EVENT" => p = "HIGH"
    PROVE  LET z == Enqueue(Unwatch(s, t), t, p) IN
           Sound(z) /\ Only(s, z, {t}) /\ z.thread[t] = Queued(p, s.thread[t].callback)
<1> DEFINE z == Enqueue(Unwatch(s, t), t, p)
           r == Queued(p, s.thread[t].callback)
<1>1. r \in ThreadRecord /\ r.type # "TIMER" /\ Sound(z) /\ Moved(s, z, t, r)
    BY EnqueueSound
<1> HIDE DEF z, r
<1>2. s \in Masters /\ z \in Masters /\ Placed(s) /\ Placed(z) /\ t \in Thread
    BY <1>1 DEF Sound, Live
<1>4. Only(s, z, {t})
    BY <1>1, <1>2, MovedOnly
<1>5. z.thread[t] = r
    BY <1>1, <1>2 DEF Moved, Masters
<1> QED BY <1>1, <1>4, <1>5 DEF z, r

\* What ForEach does, for each of the operators it is given.
LEMMA CancelLoop ==
    ASSUME NEW s, NEW q, Len(q) \in Nat
    PROVE  \E after : /\ after[0] = s
                      /\ \A i \in 1..Len(q) : after[i] = ThreadCancel(after[i - 1], q[i])
                      /\ after[Len(q)] = ForEach(ThreadCancel, s, q)
<1> DEFINE n == Len(q)
           Loop(f, k) == f = [i \in 0..k |-> IF i = 0 THEN s ELSE ThreadCancel(f[i - 1], q[i])]
           L == {k \in 0..n : \E f : Loop(f, k)}
<1>1. 0 \in L
    <2>1. Loop([i \in 0..0 |-> s], 0)
        OBVIOUS
    <2> HIDE DEF Loop
    <2> QED BY <2>1
<1>2. ASSUME NEW k \in 1..n, k - 1 \in L PROVE k \in L
    <2>1. PICK f : Loop(f, k - 1)
        BY <1>2
    <2> DEFINE g == [i \in 0..k |-> IF i = k THEN ThreadCancel(f[k - 1], q[k]) ELSE f[i]]
    <2>2. Loop(g, k)
        BY <2>1
    <2> HIDE DEF Loop, g
    <2> QED BY <2>2
<1> HIDE DEF L
<1>3. n \in L
    <2>1. \A i \in 0..n : i \in L
        BY <1>1, <1>2, Induction
    <2> QED BY <2>1
<1> DEFINE after == CHOOSE f : Loop(f, n)
<1>4. Loop(after, n)
    BY <1>3 DEF L
<1>5. ForEach(ThreadCancel, s, q) = after[n]
    BY DEF ForEach
<1> HIDE DEF after
<1> QED BY <1>4, <1>5

LEMMA HighLoop ==
    ASSUME NEW s, NEW q, Len(q) \in Nat
    PROVE  \E after : /\ after[0] = s
                      /\ \A i \in 1..Len(q) : after[i] = EnqueueHigh(after[i - 1], q[i])
                      /\ after[Len(q)] = ForEach(EnqueueHigh, s, q)
<1> DEFINE n == Len(q)
           Loop(f, k) == f = [i \in 0..k |-> IF i = 0 THEN s ELSE EnqueueHigh(f[i - 1], q[i])]
           L == {k \in 0..n : \E f : Loop(f, k)}
<1>1. 0 \in L
    <2>1. Loop([i \in 0..0 |-> s], 0)
        OBVIOUS
    <2> HIDE DEF Loop
    <2> QED BY <2>1
<1>2. ASSUME NEW k \in 1..n, k - 1 \in L PROVE k \in L
    <2>1. PICK f : Loop(f, k - 1)
        BY <1>2
    <2> DEFINE g == [i \in 0..k |-> IF i = k THEN EnqueueHigh(f[k - 1], q[k]) ELSE f[i]]
    <2>2. Loop(g, k)
        BY <2>1
    <2> HIDE DEF Loop, g
    <2> QED BY <2>2
<1> HIDE DEF L
<1>3. n \in L
    <2>1. \A i \in 0..n : i \in L
        BY <1>1, <1>2, Induction
    <2> QED BY <2>1
<1> DEFINE after == CHOOSE f : Loop(f, n)
<1>4. Loop(after, n)
    BY <1>3 DEF L
<1>5. ForEach(EnqueueHigh, s, q) = after[n]
    BY DEF ForEach
<1> HIDE DEF after
<1> QED BY <1>4, <1>5

LEMMA MiddleLoop ==
    ASSUME NEW s, NEW q, Len(q) \in Nat
    PROVE  \E after : /\ after[0] = s
                      /\ \A i \in 1..Len(q) : after[i] = EnqueueMiddle(after[i - 1], q[i])
                      /\ after[Len(q)] = ForEach(EnqueueMiddle, s, q)
<1> DEFINE n == Len(q)
           Loop(f, k) == f = [i \in 0..k |-> IF i = 0 THEN s ELSE EnqueueMiddle(f[i - 1], q[i])]
           L == {k \in 0..n : \E f : Loop(f, k)}
<1>1. 0 \in L
    <2>1. Loop([i \in 0..0 |-> s], 0)
        OBVIOUS
    <2> HIDE DEF Loop
    <2> QED BY <2>1
<1>2. ASSUME NEW k \in 1..n, k - 1 \in L PROVE k \in L
    <2>1. PICK f : Loop(f, k - 1)
        BY <1>2
    <2> DEFINE g == [i \in 0..k |-> IF i = k THEN EnqueueMiddle(f[k - 1], q[k]) ELSE f[i]]
    <2>2. Loop(g, k)
        BY <2>1
    <2> HIDE DEF Loop, g
    <2> QED BY <2>2
<1> HIDE DEF L
<1>3. n \in L
    <2>1. \A i \in 0..n : i \in L
        BY <1>1, <1>2, Induction
    <2> QED BY <2>1
<1> DEFINE after == CHOOSE f : Loop(f, n)
<1>4. Loop(after, n)
    BY <1>3 DEF L
<1>5. ForEach(EnqueueMiddle, s, q) = after[n]
    BY DEF ForEach
<1> HIDE DEF after
<1> QED BY <1>4, <1>5

LEMMA ExpireLoop ==
    ASSUME NEW s, NEW q, Len(q) \in Nat
    PROVE  \E after : /\ after[0] = s
                      /\ \A i \in 1..Len(q) : after[i] = Expire(after[i - 1], q[i])
                      /\ after[Len(q)] = ForEach(Expire, s, q)
<1> DEFINE n == Len(q)
           Loop(f, k) == f = [i \in 0..k |-> IF i = 0 THEN s ELSE Expire(f[i - 1], q[i])]
           L == {k \in 0..n : \E f : Loop(f, k)}
<1>1. 0 \in L
    <2>1. Loop([i \in 0..0 |-> s], 0)
        OBVIOUS
    <2> HIDE DEF Loop
    <2> QED BY <2>1
<1>2. ASSUME NEW k \in 1..n, k - 1 \in L PROVE k \in L
    <2>1. PICK f : Loop(f, k - 1)
        BY <1>2
    <2> DEFINE g == [i \in 0..k |-> IF i = k THEN Expire(f[k - 1], q[k]) ELSE f[i]]
    <2>2. Loop(g, k)
        BY <2>1
    <2> HIDE DEF Loop, g
    <2> QED BY <2>2
<1> HIDE DEF L
<1>3. n \in L
    <2>1. \A i \in 0..n : i \in L
        BY <1>1, <1>2, Induction
    <2> QED BY <2>1
<1> DEFINE after == CHOOSE f : Loop(f, n)
<1>4. Loop(after, n)
    BY <1>3 DEF L
<1>5. ForEach(Expire, s, q) = after[n]
    BY DEF ForEach
<1> HIDE DEF after
<1> QED BY <1>4, <1>5

CancelEach(s, q, o) == LET cancel(m, t) == CancelOf(m, t, o) IN ForEach(cancel, s, q)

LEMMA CancelOfLoop ==
    ASSUME NEW o, NEW s, NEW q, Len(q) \in Nat
    PROVE  \E after : /\ after[0] = s
                      /\ \A i \in 1..Len(q) : after[i] = CancelOf(after[i - 1], q[i], o)
                      /\ after[Len(q)] = CancelEach(s, q, o)
<1> DEFINE n == Len(q)
           Loop(f, k) == f = [i \in 0..k |-> IF i = 0 THEN s ELSE CancelOf(f[i - 1], q[i], o)]
           L == {k \in 0..n : \E f : Loop(f, k)}
<1>1. 0 \in L
    <2>1. Loop([i \in 0..0 |-> s], 0)
        OBVIOUS
    <2> HIDE DEF Loop
    <2> QED BY <2>1
<1>2. ASSUME NEW k \in 1..n, k - 1 \in L PROVE k \in L
    <2>1. PICK f : Loop(f, k - 1)
        BY <1>2
    <2> DEFINE g == [i \in 0..k |-> IF i = k THEN CancelOf(f[k - 1], q[k], o) ELSE f[i]]
    <2>2. Loop(g, k)
        BY <2>1
    <2> HIDE DEF Loop, g
    <2> QED BY <2>2
<1> HIDE DEF L
<1>3. n \in L
    <2>1. \A i \in 0..n : i \in L
        BY <1>1, <1>2, Induction
    <2> QED BY <2>1
<1> DEFINE after == CHOOSE f : Loop(f, n)
<1>4. Loop(after, n)
    BY <1>3 DEF L
<1>5. CancelEach(s, q, o) = after[n]
    BY DEF ForEach, CancelEach
<1> HIDE DEF after
<1> QED BY <1>4, <1>5

TakeEach(s, q, ready) == LET take(m, t) == TakeReady(m, t, ready) IN ForEach(take, s, q)

LEMMA TakeLoop ==
    ASSUME NEW ready, NEW s, NEW q, Len(q) \in Nat
    PROVE  \E after : /\ after[0] = s
                      /\ \A i \in 1..Len(q) : after[i] = TakeReady(after[i - 1], q[i], ready)
                      /\ after[Len(q)] = TakeEach(s, q, ready)
<1> DEFINE n == Len(q)
           Loop(f, k) == f = [i \in 0..k |-> IF i = 0 THEN s ELSE TakeReady(f[i - 1], q[i], ready)]
           L == {k \in 0..n : \E f : Loop(f, k)}
<1>1. 0 \in L
    <2>1. Loop([i \in 0..0 |-> s], 0)
        OBVIOUS
    <2> HIDE DEF Loop
    <2> QED BY <2>1
<1>2. ASSUME NEW k \in 1..n, k - 1 \in L PROVE k \in L
    <2>1. PICK f : Loop(f, k - 1)
        BY <1>2
    <2> DEFINE g == [i \in 0..k |-> IF i = k THEN TakeReady(f[k - 1], q[k], ready) ELSE f[i]]
    <2>2. Loop(g, k)
        BY <2>1
    <2> HIDE DEF Loop, g
    <2> QED BY <2>2
<1> HIDE DEF L
<1>3. n \in L
    <2>1. \A i \in 0..n : i \in L
        BY <1>1, <1>2, Induction
    <2> QED BY <2>1
<1> DEFINE after == CHOOSE f : Loop(f, n)
<1>4. Loop(after, n)
    BY <1>3 DEF L
<1>5. TakeEach(s, q, ready) = after[n]
    BY DEF ForEach, TakeEach
<1> HIDE DEF after
<1> QED BY <1>4, <1>5

\* A loop over threads that are all different which does for those of the indices C
\* what gives them the records rec, and nothing for the others.
Stepwise(s, q, after, C, rec) ==
    \A i \in 1..Len(q) :
       Sound(after[i - 1]) /\ after[i - 1].thread[q[i]] = s.thread[q[i]] =>
          IF i \in C THEN /\ Sound(after[i]) /\ Only(after[i - 1], after[i], {q[i]})
                          /\ after[i].thread[q[i]] = rec[i]
                     ELSE after[i] = after[i - 1]

Changed(s, z, q, C, rec) ==
    /\ Sound(z) /\ Only(s, z, {q[j] : j \in C})
    /\ \A j \in C : z.thread[q[j]] = rec[j]

LEMMA Chain ==
    ASSUME NEW s, Sound(s), NEW q \in Seq(Thread), IsInjective(q), NEW after, after[0] = s,
           NEW C \in SUBSET (1..Len(q)), NEW rec, Stepwise(s, q, after, C, rec)
    PROVE  Changed(s, after[Len(q)], q, C, rec)
<1> DEFINE n == Len(q)
           Upto(i) == {q[j] : j \in C \cap (1..i)}
           Done(m, i) == /\ Sound(m) /\ Only(s, m, Upto(i))
                         /\ \A j \in C \cap (1..i) : m.thread[q[j]] = rec[j]
           K == {i \in 0..n : Done(after[i], i)}
<1>1. n \in Nat /\ (\A i, j \in 1..n : q[i] = q[j] => i = j) /\ \A i \in 1..n : q[i] \in Thread
    BY LenProperties DEF IsInjective
<1>2. 0 \in K
    <2>1. Done(s, 0)
        BY DEF Only
    <2> HIDE DEF Done
    <2> QED BY <1>1, <2>1
<1>3. ASSUME NEW i \in 1..n, i - 1 \in K PROVE i \in K
    <2> DEFINE m == after[i - 1]
               z == after[i]
    <2>1. Done(m, i - 1)
        BY <1>3
    <2>2. q[i] \in Thread \ Upto(i - 1)
        BY <1>1
    <2>3. m.thread[q[i]] = s.thread[q[i]]
        BY <2>1, <2>2 DEF Only
    <2>4. CASE i \in C
        <3>1. Sound(z) /\ Only(m, z, {q[i]}) /\ z.thread[q[i]] = rec[i]
            BY <2>1, <2>3, <2>4 DEF Stepwise
        <3>2. Upto(i) = Upto(i - 1) \cup {q[i]}
            <4>1. C \cap (1..i) = (C \cap (1..(i - 1))) \cup {i}
                BY <1>1, <2>4
            <4> QED BY <4>1
        <3>3. Only(s, z, Upto(i))
            <4> HIDE DEF Upto, z, m
            <4>1. Only(s, z, Upto(i - 1) \cup {q[i]})
                BY <2>1, <3>1, OnlyMore
            <4> QED BY <3>2, <4>1
        <3>4. ASSUME NEW j \in C \cap (1..i) PROVE z.thread[q[j]] = rec[j]
            <4>1. CASE j = i
                BY <3>1, <4>1
            <4>2. CASE j # i
                <5>1. j \in C \cap (1..(i - 1)) /\ q[j] # q[i] /\ q[j] \in Thread
                    BY <1>1, <4>2
                <5>2. z.thread[q[j]] = m.thread[q[j]]
                    BY <3>1, <5>1 DEF Only
                <5> QED BY <2>1, <5>1, <5>2
            <4> QED BY <4>1, <4>2
        <3>5. Done(z, i)
            BY <3>1, <3>3, <3>4
        <3> HIDE DEF Done
        <3> QED BY <3>5
    <2>5. CASE i \notin C
        <3>1. z = m
            BY <2>1, <2>3, <2>5 DEF Stepwise
        <3>2. C \cap (1..i) = C \cap (1..(i - 1))
            BY <1>1, <2>5
        <3>3. Done(z, i)
            BY <2>1, <3>1, <3>2
        <3> HIDE DEF Done
        <3> QED BY <3>3
    <2> QED BY <2>4, <2>5
<1>4. n \in K
    <2> HIDE DEF K
    <2>1. \A i \in 0..n : i \in K
        BY <1>1, <1>2, <1>3, Induction
    <2> QED BY <1>1, <2>1
<1>5. C \cap (1..n) = C
    OBVIOUS
<1> QED BY <1>4, <1>5 DEF Changed

\* Cancelling each of q, whose threads are in use.
LEMMA CancelAll ==
    ASSUME NEW s, Sound(s), NEW q \in Seq(Thread), IsInjective(q), \A i \in 1..Len(q) : q[i] \in Live(s)
    PROVE  LET z == ForEach(ThreadCancel, s, q) IN
           /\ Sound(z) /\ Only(s, z, {q[j] : j \in 1..Len(q)})
           /\ \A j \in 1..Len(q) : z.thread[q[j]] = Unused
<1>1. Len(q) \in Nat
    BY LenProperties
<1>2. PICK after : /\ after[0] = s
                   /\ \A i \in 1..Len(q) : after[i] = ThreadCancel(after[i - 1], q[i])
                   /\ after[Len(q)] = ForEach(ThreadCancel, s, q)
    BY <1>1, CancelLoop
<1> DEFINE C == 1..Len(q)
           rec == [i \in C |-> Unused]
<1>3. ASSUME NEW i \in 1..Len(q), Sound(after[i - 1]), after[i - 1].thread[q[i]] = s.thread[q[i]]
      PROVE  /\ Sound(after[i]) /\ Only(after[i - 1], after[i], {q[i]})
             /\ after[i].thread[q[i]] = Unused
    <2>1. q[i] \in Live(after[i - 1])
        BY <1>3 DEF Live
    <2>2. after[i] = ThreadCancel(after[i - 1], q[i])
        BY <1>2
    <2>3. PICK m : m = after[i - 1]
        OBVIOUS
    <2>4. Sound(m) /\ q[i] \in Live(m)
        BY <1>3, <2>1, <2>3
    <2>5. /\ Sound(ThreadCancel(m, q[i])) /\ Only(m, ThreadCancel(m, q[i]), {q[i]})
          /\ ThreadCancel(m, q[i]).thread[q[i]] = Unused
        BY <2>4, CancelStep
    <2> QED BY <2>2, <2>3, <2>5
<1>4. \A i \in C : rec[i] = Unused
    OBVIOUS
<1>5. C \in SUBSET (1..Len(q))
    OBVIOUS
<1>6. Stepwise(s, q, after, C, rec)
    BY <1>3, <1>4 DEF Stepwise
<1>7. Changed(s, after[Len(q)], q, C, rec)
    <2> HIDE DEF C, rec
    <2> QED BY <1>2, <1>5, <1>6, Chain
<1> QED BY <1>2, <1>7 DEF Changed


\* Cancelling those of q that are armed for object o.
LEMMA CancelOfAll ==
    ASSUME NEW s, Sound(s), NEW q \in Seq(Thread), IsInjective(q), NEW o,
           \A i \in 1..Len(q) : q[i] \in Live(s)
    PROVE  Changed(s, CancelEach(s, q, o), q, {i \in 1..Len(q) : Arg[s.thread[q[i]].callback] = o},
                   [i \in 1..Len(q) |-> Unused])
<1>1. Len(q) \in Nat
    BY LenProperties
<1>2. PICK after : /\ after[0] = s
                   /\ \A i \in 1..Len(q) : after[i] = CancelOf(after[i - 1], q[i], o)
                   /\ after[Len(q)] = CancelEach(s, q, o)
    BY <1>1, CancelOfLoop
<1> DEFINE C == {i \in 1..Len(q) : Arg[s.thread[q[i]].callback] = o}
           rec == [i \in 1..Len(q) |-> Unused]
<1>3. ASSUME NEW i \in 1..Len(q), Sound(after[i - 1]), after[i - 1].thread[q[i]] = s.thread[q[i]]
      PROVE  IF i \in C THEN /\ Sound(after[i]) /\ Only(after[i - 1], after[i], {q[i]})
                             /\ after[i].thread[q[i]] = rec[i]
                        ELSE after[i] = after[i - 1]
    <2>1. q[i] \in Live(after[i - 1])
        BY <1>3 DEF Live
    <2>2. CASE i \in C
        <3>1. after[i] = ThreadCancel(after[i - 1], q[i])
            BY <1>2, <1>3, <2>2 DEF CancelOf
        <3> QED BY <1>3, <2>1, <2>2, <3>1, CancelStep
    <2>3. CASE i \notin C
        BY <1>2, <1>3, <2>3 DEF CancelOf
    <2> QED BY <2>2, <2>3
<1>4. C \in SUBSET (1..Len(q))
    OBVIOUS
<1>5. Stepwise(s, q, after, C, rec)
    <2> HIDE DEF C, rec
    <2> QED BY <1>3 DEF Stepwise
<1>6. Changed(s, after[Len(q)], q, C, rec)
    <2> HIDE DEF C, rec
    <2> QED BY <1>2, <1>4, <1>5, Chain
<1> QED BY <1>2, <1>6

\* Queueing each of q, whose threads wait and are due.
LEMMA HighAll ==
    ASSUME NEW s, Sound(s), NEW q \in Seq(Thread), IsInjective(q),
           \A i \in 1..Len(q) : s.thread[q[i]].type = "EVENT"
    PROVE  Changed(s, ForEach(EnqueueHigh, s, q), q, 1..Len(q),
                   [i \in 1..Len(q) |-> Queued("HIGH", s.thread[q[i]].callback)])
<1>1. Len(q) \in Nat
    BY LenProperties
<1>2. PICK after : /\ after[0] = s
                   /\ \A i \in 1..Len(q) : after[i] = EnqueueHigh(after[i - 1], q[i])
                   /\ after[Len(q)] = ForEach(EnqueueHigh, s, q)
    BY <1>1, HighLoop
<1> DEFINE C == 1..Len(q)
           rec == [i \in 1..Len(q) |-> Queued("HIGH", s.thread[q[i]].callback)]
<1>3. ASSUME NEW i \in 1..Len(q), Sound(after[i - 1]), after[i - 1].thread[q[i]] = s.thread[q[i]]
      PROVE  /\ Sound(after[i]) /\ Only(after[i - 1], after[i], {q[i]})
             /\ after[i].thread[q[i]] = Queued("HIGH", s.thread[q[i]].callback)
    <2> DEFINE m == after[i - 1]
               t == q[i]
    <2>1. t \in Thread /\ m.thread[t].type = "EVENT" /\ t \in Live(m) /\ m \in Masters
        BY <1>3 DEF Live, Sound
    <2>2. m.thread[t].left = 0
        BY <1>3, <2>1 DEF Sound, Fits
    <2>3. Unwatch(m, t) = m
        <3> HIDE DEF m, t
        <3> QED BY <2>1, NoUnwatch
    <2>4. "HIGH" \in DOMAIN Queue
        BY Names
    <2>5. after[i] = Enqueue(Unwatch(m, t), t, "HIGH")
        BY <1>2, <2>3 DEF EnqueueHigh
    <2> HIDE DEF m, t
    <2>6. /\ Sound(Enqueue(Unwatch(m, t), t, "HIGH")) /\ Only(m, Enqueue(Unwatch(m, t), t, "HIGH"), {t})
          /\ Enqueue(Unwatch(m, t), t, "HIGH").thread[t] = Queued("HIGH", m.thread[t].callback)
        <3>1. Sound(m) /\ m.thread[t].type # "QUEUE"
            BY <1>3, <2>1 DEF m
        <3> QED BY <2>1, <2>2, <2>4, <3>1, EnqueueStep
    <2> QED BY <1>3, <2>5, <2>6 DEF m, t
<1>4. C \in SUBSET (1..Len(q))
    OBVIOUS
<1>5. Stepwise(s, q, after, C, rec)
    BY <1>3 DEF Stepwise
<1>6. Changed(s, after[Len(q)], q, C, rec)
    <2> HIDE DEF C, rec
    <2> QED BY <1>2, <1>4, <1>5, Chain
<1> QED BY <1>2, <1>6

LEMMA MiddleAll ==
    ASSUME NEW s, Sound(s), NEW q \in Seq(Thread), IsInjective(q),
           \A i \in 1..Len(q) : s.thread[q[i]].type = "TIMER" /\ s.thread[q[i]].left = 0
    PROVE  Changed(s, ForEach(EnqueueMiddle, s, q), q, 1..Len(q),
                   [i \in 1..Len(q) |-> Queued("MIDDLE", s.thread[q[i]].callback)])
<1>1. Len(q) \in Nat
    BY LenProperties
<1>2. PICK after : /\ after[0] = s
                   /\ \A i \in 1..Len(q) : after[i] = EnqueueMiddle(after[i - 1], q[i])
                   /\ after[Len(q)] = ForEach(EnqueueMiddle, s, q)
    BY <1>1, MiddleLoop
<1> DEFINE C == 1..Len(q)
           rec == [i \in 1..Len(q) |-> Queued("MIDDLE", s.thread[q[i]].callback)]
<1>3. ASSUME NEW i \in 1..Len(q), Sound(after[i - 1]), after[i - 1].thread[q[i]] = s.thread[q[i]]
      PROVE  /\ Sound(after[i]) /\ Only(after[i - 1], after[i], {q[i]})
             /\ after[i].thread[q[i]] = Queued("MIDDLE", s.thread[q[i]].callback)
    <2> DEFINE m == after[i - 1]
               t == q[i]
    <2>1. t \in Thread /\ m.thread[t].type = "TIMER" /\ t \in Live(m) /\ m \in Masters
        BY <1>3 DEF Live, Sound
    <2>2. m.thread[t].left = 0 /\ Kind[m.thread[t].callback] = "TIMER"
        BY <1>3, <2>1 DEF Sound, Fits
    <2>3. Unwatch(m, t) = m
        <3> HIDE DEF m, t
        <3> QED BY <2>1, NoUnwatch
    <2>4. "MIDDLE" \in DOMAIN Queue
        BY Names
    <2>5. after[i] = Enqueue(Unwatch(m, t), t, "MIDDLE")
        BY <1>2, <2>3 DEF EnqueueMiddle
    <2> HIDE DEF m, t
    <2>6. /\ Sound(Enqueue(Unwatch(m, t), t, "MIDDLE")) /\ Only(m, Enqueue(Unwatch(m, t), t, "MIDDLE"), {t})
          /\ Enqueue(Unwatch(m, t), t, "MIDDLE").thread[t] = Queued("MIDDLE", m.thread[t].callback)
        <3>1. Sound(m) /\ m.thread[t].type # "QUEUE" /\ Kind[m.thread[t].callback] # "EVENT"
            BY <1>3, <2>1, <2>2 DEF m
        <3> QED BY <2>1, <2>2, <2>4, <3>1, EnqueueStep
    <2> QED BY <1>3, <2>5, <2>6 DEF m, t
<1>4. C \in SUBSET (1..Len(q))
    OBVIOUS
<1>5. Stepwise(s, q, after, C, rec)
    BY <1>3 DEF Stepwise
<1>6. Changed(s, after[Len(q)], q, C, rec)
    <2> HIDE DEF C, rec
    <2> QED BY <1>2, <1>4, <1>5, Chain
<1> QED BY <1>2, <1>6

LEMMA TakeAll ==
    ASSUME NEW s, Sound(s), NEW q \in Seq(Thread), IsInjective(q), NEW ready,
           \A i \in 1..Len(q) : s.thread[q[i]].type \in {"READ", "READ_HIGH", "WRITE"}
    PROVE  Changed(s, TakeEach(s, q, ready), q,
                   {i \in 1..Len(q) : Fd[s.thread[q[i]].callback] \in ready},
                   [i \in 1..Len(q) |-> Queued("MIDDLE", s.thread[q[i]].callback)])
<1>1. Len(q) \in Nat
    BY LenProperties
<1>2. PICK after : /\ after[0] = s
                   /\ \A i \in 1..Len(q) : after[i] = TakeReady(after[i - 1], q[i], ready)
                   /\ after[Len(q)] = TakeEach(s, q, ready)
    BY <1>1, TakeLoop
<1> DEFINE C == {i \in 1..Len(q) : Fd[s.thread[q[i]].callback] \in ready}
           rec == [i \in 1..Len(q) |-> Queued("MIDDLE", s.thread[q[i]].callback)]
<1>3. ASSUME NEW i \in 1..Len(q), Sound(after[i - 1]), after[i - 1].thread[q[i]] = s.thread[q[i]]
      PROVE  IF i \in C THEN /\ Sound(after[i]) /\ Only(after[i - 1], after[i], {q[i]})
                             /\ after[i].thread[q[i]] = rec[i]
                        ELSE after[i] = after[i - 1]
    <2> DEFINE m == after[i - 1]
               t == q[i]
    <2>1. t \in Thread /\ m.thread[t].type \in {"READ", "READ_HIGH", "WRITE"} /\ t \in Live(m) /\ m \in Masters
        BY <1>3 DEF Live, Sound
    <2>2. m.thread[t].left = 0 /\ Kind[m.thread[t].callback] # "EVENT"
        BY <1>3, <2>1 DEF Sound, Fits
    <2>3. CASE i \in C
        <3>1. after[i] = Enqueue(Unwatch(m, t), t, "MIDDLE")
            BY <1>2, <1>3, <2>3 DEF TakeReady, EnqueueMiddle
        <3>2. "MIDDLE" \in DOMAIN Queue
            BY Names
        <3>3. rec[i] = Queued("MIDDLE", m.thread[t].callback)
            BY <1>3
        <3> HIDE DEF m, t, rec
        <3>4. /\ Sound(Enqueue(Unwatch(m, t), t, "MIDDLE")) /\ Only(m, Enqueue(Unwatch(m, t), t, "MIDDLE"), {t})
              /\ Enqueue(Unwatch(m, t), t, "MIDDLE").thread[t] = Queued("MIDDLE", m.thread[t].callback)
            <4>1. Sound(m) /\ m.thread[t].type # "QUEUE"
                BY <1>3, <2>1 DEF m
            <4> QED BY <2>1, <2>2, <3>2, <4>1, EnqueueStep
        <3> HIDE DEF C
        <3> QED BY <2>3, <3>1, <3>3, <3>4 DEF m, t
    <2>4. CASE i \notin C
        BY <1>2, <1>3, <2>4 DEF TakeReady
    <2> QED BY <2>3, <2>4
<1>4. C \in SUBSET (1..Len(q))
    OBVIOUS
<1>5. Stepwise(s, q, after, C, rec)
    <2> HIDE DEF C, rec
    <2> QED BY <1>3 DEF Stepwise
<1>6. Changed(s, after[Len(q)], q, C, rec)
    <2> HIDE DEF C, rec
    <2> QED BY <1>2, <1>4, <1>5, Chain
<1> QED BY <1>2, <1>6

----------------------------------------------------------------------------
(* Threads that are queued: what thread_fetch does before it sleeps and    *)
(* after it wakes.                                                         *)

NotQueued(s) == {t \in Thread : s.thread[t].type # "QUEUE"}

\* Some threads that were due are now queued with a priority of P.
Requeued(s, z, P) ==
    /\ Sound(z) /\ Only(s, z, NotQueued(s))
    /\ \A t \in Thread :
          \/ z.thread[t] = s.thread[t]
          \/ /\ s.thread[t].type \notin {"QUEUE", "UNUSED"} /\ s.thread[t].left = 0
             /\ \E p \in P : z.thread[t] = Queued(p, s.thread[t].callback)

LEMMA RequeuedNone ==
    ASSUME NEW s, Sound(s), NEW P
    PROVE  Requeued(s, s, P)
BY DEF Requeued, Only

LEMMA QueuedIs ==
    ASSUME NEW p, NEW c
    PROVE  Queued(p, c).type = "QUEUE" /\ Queued(p, c).priority = p /\ Queued(p, c).callback = c
           /\ Queued(p, c).left = 0
BY DEF Queued, Unused

LEMMA RequeuedMore ==
    ASSUME NEW s, NEW m, NEW z, NEW P, NEW Q, Requeued(s, m, P), Requeued(m, z, Q)
    PROVE  Requeued(s, z, P \cup Q)
<1>1. \A t \in Thread : m.thread[t] = s.thread[t] \/ m.thread[t].type = "QUEUE"
    BY QueuedIs DEF Requeued
<1>2. NotQueued(m) \subseteq NotQueued(s)
    BY <1>1 DEF NotQueued
<1>3. Only(s, z, NotQueued(s))
    BY <1>2 DEF Requeued, Only
<1>4. ASSUME NEW t \in Thread
      PROVE  \/ z.thread[t] = s.thread[t]
             \/ /\ s.thread[t].type \notin {"QUEUE", "UNUSED"} /\ s.thread[t].left = 0
                /\ \E p \in P \cup Q : z.thread[t] = Queued(p, s.thread[t].callback)
    <2>1. CASE m.thread[t] = s.thread[t]
        BY <2>1 DEF Requeued
    <2>2. CASE m.thread[t] # s.thread[t]
        <3>1. m.thread[t].type = "QUEUE"
            BY <1>1, <2>2
        <3>2. z.thread[t] = m.thread[t]
            BY <3>1 DEF Requeued
        <3> QED BY <2>2, <3>2 DEF Requeued
    <2> QED BY <2>1, <2>2
<1> QED BY <1>3, <1>4 DEF Requeued

Queueing(s, q, C, rec, p) ==
    \A i \in C : /\ rec[i] = Queued(p, s.thread[q[i]].callback)
                 /\ s.thread[q[i]].type \notin {"QUEUE", "UNUSED"} /\ s.thread[q[i]].left = 0

LEMMA ChangedRequeued ==
    ASSUME NEW s, Sound(s), NEW z, NEW q \in Seq(Thread), NEW C \in SUBSET (1..Len(q)), NEW rec, NEW p,
           Changed(s, z, q, C, rec), Queueing(s, q, C, rec, p)
    PROVE  Requeued(s, z, {p})
<1> USE DEF Queueing
<1> DEFINE T == {q[j] : j \in C}
<1>1. T \subseteq NotQueued(s)
    BY DEF NotQueued
<1>2. Sound(z) /\ Only(s, z, T) /\ \A j \in C : z.thread[q[j]] = rec[j]
    BY DEF Changed
<1>3. Only(s, z, NotQueued(s))
    <2> HIDE DEF T
    <2> QED BY <1>1, <1>2 DEF Only
<1>4. ASSUME NEW t \in Thread
      PROVE  \/ z.thread[t] = s.thread[t]
             \/ /\ s.thread[t].type \notin {"QUEUE", "UNUSED"} /\ s.thread[t].left = 0
                /\ \E r \in {p} : z.thread[t] = Queued(r, s.thread[t].callback)
    <2>1. CASE t \in T
        BY <1>2, <2>1
    <2>2. CASE t \notin T
        BY <1>2, <2>2 DEF Only
    <2> QED BY <2>1, <2>2
<1> QED BY <1>2, <1>3, <1>4 DEF Requeued

\* Each thread in a list of the master is one that belongs there, once.
LEMMA ListIs ==
    ASSUME NEW s, Sound(s), NEW l \in ListName
    PROVE  /\ s.list[l] \in Seq(Thread) /\ IsInjective(s.list[l])
           /\ \A i \in 1..Len(s.list[l]) :
                 LET r == s.thread[s.list[l][i]] IN r.type # "TIMER" /\ Home(r) = l
<1> DEFINE h == <<l, 0>>
<1>1. s \in Masters /\ Placed(s) /\ h \in Places /\ At(s, h) = s.list[l]
    BY Names DEF Sound, Places, At
<1>2. ASSUME NEW i \in 1..Len(s.list[l])
      PROVE  LET r == s.thread[s.list[l][i]] IN r.type # "TIMER" /\ Home(r) = l
    <2>1. Place(s.thread[s.list[l][i]]) = <<l, 0>>
        BY <1>1 DEF Placed, PlacedBut
    <2>2. l # "timer"
        BY Names
    <2> QED BY <2>1, <2>2 DEF Place
<1> QED BY <1>1, <1>2 DEF Placed, PlacedBut, Masters

LEMMA TimerIs ==
    ASSUME NEW s, Sound(s), NEW i \in Slot
    PROVE  /\ s.timer[i] \in Seq(Thread) /\ IsInjective(s.timer[i])
           /\ \A j \in 1..Len(s.timer[i]) :
                 s.thread[s.timer[i][j]].type = "TIMER" /\ s.thread[s.timer[i][j]].slot = i
<1> DEFINE h == <<"timer", i>>
<1>1. s \in Masters /\ Placed(s) /\ h \in Places /\ At(s, h) = s.timer[i] /\ s.timer[i] \in Seq(Thread)
    BY TimerPlace DEF Sound
<1>2. ASSUME NEW j \in 1..Len(s.timer[i])
      PROVE  s.thread[s.timer[i][j]].type = "TIMER" /\ s.thread[s.timer[i][j]].slot = i
    <2>1. Place(s.thread[s.timer[i][j]]) = <<"timer", i>> /\ s.timer[i][j] \in Thread
        BY <1>1 DEF Placed, PlacedBut
    <2>2. s.thread[s.timer[i][j]].type # "TIMER" => Home(s.thread[s.timer[i][j]]) \in ListName
        BY <1>1, <2>1, Fields, PlaceType
    <2>3. "timer" \notin ListName
        BY Names
    <2> QED BY <2>1, <2>2, <2>3 DEF Place
<1> QED BY <1>1, <1>2 DEF Placed, PlacedBut


LEMMA DueIs ==
    ASSUME NEW s, Sound(s), NEW i \in Slot
    PROVE  /\ Due(s, i) \in Seq(Thread) /\ IsInjective(Due(s, i))
           /\ \A j \in 1..Len(Due(s, i)) :
                 s.thread[Due(s, i)[j]].type = "TIMER" /\ s.thread[Due(s, i)[j]].left = 0
<1> DEFINE q == s.timer[i]
           due == {n \in 1..Len(q) : \A j \in 1..n : s.thread[q[j]].left = 0}
<1>1. /\ q \in Seq(Thread) /\ IsInjective(q) /\ Len(q) \in Nat
      /\ \A j \in 1..Len(q) : s.thread[q[j]].type = "TIMER"
    BY TimerIs, LenProperties
<1>2. Due(s, i) = SubSeq(q, 1, Cardinality(due))
    BY DEF Due
<1> HIDE DEF q
<1>3. PICK d \in 0..Len(q) : due = 1..d
    <2>1. CASE due = {}
        BY <1>1, <2>1
    <2>2. CASE due # {}
        <3>1. PICK m \in due : \A n \in due : n <= m
            BY <1>1, <2>2, MaxIs
        <3>2. m \in 1..Len(q) /\ \A j \in 1..m : s.thread[q[j]].left = 0
            BY <3>1
        <3>3. \A n \in 1..m : n \in due
            BY <1>1, <3>2
        <3>4. \A n \in due : n \in 1..m
            BY <1>1, <3>1
        <3> QED BY <1>1, <3>2, <3>3, <3>4
    <2> QED BY <2>1, <2>2
<1>4. Cardinality(due) = d
    <2>0. d \in Nat /\ d \in Int /\ 1 \in Int
        BY <1>1
    <2>2. Cardinality(1..d) = IF 1 > d THEN 0 ELSE d - 1 + 1
        BY <2>0, FS_Interval, Zenon
    <2>1. Cardinality(1..d) = d
        BY <2>0, <2>2
    <2> QED BY <1>3, <2>1, Zenon
<1>5. \A n \in 1..d : s.thread[q[n]].left = 0
    BY <1>1, <1>3
<1> DEFINE e == SubSeq(q, 1, d)
<1>6. e \in Seq(Thread) /\ Len(e) = d /\ \A n \in 1..d : e[n] = q[n]
    BY <1>1, SubSeqProperties
<1>7. Due(s, i) = e
    BY <1>2, <1>4
<1> HIDE DEF e, due
<1>8. IsInjective(e)
    BY <1>1, <1>6, LenProperties DEF IsInjective
<1>9. \A n \in 1..Len(e) : s.thread[e[n]].type = "TIMER" /\ s.thread[e[n]].left = 0
    BY <1>1, <1>5, <1>6
<1> QED BY <1>6, <1>7, <1>8, <1>9

LEMMA ExpireRequeued ==
    ASSUME NEW s, Sound(s), NEW i \in Slot
    PROVE  Requeued(s, Expire(s, i), {"MIDDLE"})
<1> DEFINE q == Due(s, i)
           C == 1..Len(q)
           rec == [j \in C |-> Queued("MIDDLE", s.thread[q[j]].callback)]
           z == Expire(s, i)
<1>1. /\ q \in Seq(Thread) /\ IsInjective(q)
      /\ \A j \in 1..Len(q) : s.thread[q[j]].type = "TIMER" /\ s.thread[q[j]].left = 0
    BY DueIs
<1>2. Changed(s, z, q, C, rec)
    <2> HIDE DEF q
    <2> QED BY <1>1, MiddleAll DEF Expire, q
<1>3. Queueing(s, q, C, rec, "MIDDLE")
    <2> HIDE DEF q
    <2> QED BY <1>1 DEF Queueing
<1>4. C \in SUBSET (1..Len(q))
    OBVIOUS
<1> HIDE DEF q, C, rec, z
<1>5. Requeued(s, z, {"MIDDLE"})
    BY <1>1, <1>2, <1>3, <1>4, ChangedRequeued
<1> QED BY <1>5 DEF z

LEMMA ExpireAll ==
    ASSUME NEW s, Sound(s)
    PROVE  Requeued(s, ForEach(Expire, s, [i \in Slot |-> i]), {"MIDDLE"})
<1> DEFINE q == [i \in Slot |-> i]
<1>1. TimerSlots \in Nat /\ q \in Seq(Slot) /\ Len(q) = TimerSlots /\ \A i \in 1..TimerSlots : q[i] = i /\ i \in Slot
    BY ClientAssumption DEF Slot
<1> HIDE DEF q
<1>2. PICK after : /\ after[0] = s
                   /\ \A i \in 1..Len(q) : after[i] = Expire(after[i - 1], q[i])
                   /\ after[Len(q)] = ForEach(Expire, s, q)
    BY <1>1, ExpireLoop
<1> DEFINE K == {i \in 0..TimerSlots : Requeued(s, after[i], {"MIDDLE"})}
<1>3. 0 \in K
    BY <1>1, <1>2, RequeuedNone
<1>4. ASSUME NEW i \in 1..TimerSlots, i - 1 \in K PROVE i \in K
    <2>1. after[i] = Expire(after[i - 1], i) /\ i \in Slot
        BY <1>1, <1>2
    <2>2. Requeued(s, after[i - 1], {"MIDDLE"}) /\ Sound(after[i - 1])
        BY <1>4 DEF Requeued
    <2>3. Requeued(after[i - 1], after[i], {"MIDDLE"})
        BY <2>1, <2>2, ExpireRequeued
    <2>4. Requeued(s, after[i], {"MIDDLE"} \cup {"MIDDLE"})
        BY <2>2, <2>3, RequeuedMore
    <2>5. {"MIDDLE"} \cup {"MIDDLE"} = {"MIDDLE"}
        OBVIOUS
    <2>6. Requeued(s, after[i], {"MIDDLE"})
        BY <2>4, <2>5, Zenon
    <2> QED BY <1>1, <2>6
<1>5. TimerSlots \in K
    <2> HIDE DEF K
    <2>1. \A i \in 0..TimerSlots : i \in K
        BY <1>1, <1>3, <1>4, Induction
    <2> QED BY <1>1, <2>1
<1> QED BY <1>1, <1>2, <1>5 DEF q

LEMMA CollectRequeued ==
    ASSUME NEW s, Sound(s)
    PROVE  Requeued(s, CollectInto(s), {"HIGH", "MIDDLE"})
<1> DEFINE q == s.list["event"]
           C == 1..Len(q)
           rec == [j \in C |-> Queued("HIGH", s.thread[q[j]].callback)]
           high == ForEach(EnqueueHigh, s, q)
           z == CollectInto(s)
<1>1. q \in Seq(Thread) /\ IsInjective(q) /\ \A j \in 1..Len(q) : q[j] \in Thread
    BY ListIs, Names
<1>2. \A j \in 1..Len(q) : s.thread[q[j]].type = "EVENT" /\ s.thread[q[j]].left = 0
    <2>1. ASSUME NEW j \in 1..Len(q) PROVE s.thread[q[j]].type = "EVENT" /\ s.thread[q[j]].left = 0
        <3> DEFINE r == s.thread[q[j]]
        <3>1. r.type # "TIMER" /\ Home(r) = "event" /\ r \in ThreadRecord
            BY <1>1, ListIs, Names, Fields DEF Sound
        <3>2. r.left = 0
            BY <1>1, <3>1 DEF Sound, Fits
        <3> HIDE DEF r
        <3>3. r.type = "EVENT"
            BY <3>1, Names DEF Home, ThreadRecord
        <3> QED BY <3>2, <3>3, SMTT(30) DEF r
    <2> QED BY <2>1
<1>3. Changed(s, high, q, C, rec)
    <2> HIDE DEF q
    <2> QED BY <1>1, <1>2, HighAll
<1>4. Queueing(s, q, C, rec, "HIGH")
    <2> HIDE DEF q
    <2> QED BY <1>2 DEF Queueing
<1>5. C \in SUBSET (1..Len(q))
    OBVIOUS
<1>6. z = ForEach(Expire, high, [i \in Slot |-> i])
    BY DEF CollectInto
<1> HIDE DEF q, C, rec, high, z
<1>7. Requeued(s, high, {"HIGH"})
    BY <1>1, <1>3, <1>4, <1>5, ChangedRequeued
<1>8. Requeued(high, z, {"MIDDLE"})
    BY <1>6, <1>7, ExpireAll DEF Requeued
<1>9. Requeued(s, z, {"HIGH"} \cup {"MIDDLE"})
    BY <1>7, <1>8, RequeuedMore
<1>10. {"HIGH"} \cup {"MIDDLE"} = {"HIGH", "MIDDLE"}
    OBVIOUS
<1> QED BY <1>9, <1>10 DEF z

LEMMA ProcessRequeued ==
    ASSUME NEW s, Sound(s), NEW l \in {"read_high", "read", "write"}, NEW ready
    PROVE  Requeued(s, ProcessFd(s, l, ready), {"MIDDLE"})
<1> DEFINE q == s.list[l]
           C == {i \in 1..Len(q) : Fd[s.thread[q[i]].callback] \in ready}
           rec == [i \in 1..Len(q) |-> Queued("MIDDLE", s.thread[q[i]].callback)]
           z == ProcessFd(s, l, ready)
<1>0. l \in ListName /\ s \in Masters
    BY Names DEF Sound
<1>1. q \in Seq(Thread) /\ IsInjective(q) /\ \A j \in 1..Len(q) : q[j] \in Thread
    BY <1>0, ListIs
<1>2. \A j \in 1..Len(q) : s.thread[q[j]].type \in {"READ", "READ_HIGH", "WRITE"} /\ s.thread[q[j]].left = 0
    <2>1. ASSUME NEW j \in 1..Len(q)
          PROVE  s.thread[q[j]].type \in {"READ", "READ_HIGH", "WRITE"} /\ s.thread[q[j]].left = 0
        <3> DEFINE r == s.thread[q[j]]
        <3>1. r.type # "TIMER" /\ Home(r) = l /\ r \in ThreadRecord
            BY <1>0, <1>1, ListIs, Fields
        <3>2. r.left = 0
            BY <1>1, <3>1 DEF Sound, Fits
        <3> HIDE DEF r
        <3>3. r.type \in {"READ", "READ_HIGH", "WRITE"}
            BY <3>1, Names DEF Home, ThreadRecord
        <3> QED BY <3>2, <3>3 DEF r
    <2> QED BY <2>1
<1>3. z = TakeEach(s, q, ready)
    BY DEF ProcessFd, TakeEach
<1>4. Changed(s, z, q, C, rec)
    <2> HIDE DEF q, z
    <2> QED BY <1>1, <1>2, <1>3, TakeAll
<1>5. Queueing(s, q, C, rec, "MIDDLE")
    <2> HIDE DEF q
    <2> QED BY <1>2 DEF Queueing
<1>6. C \in SUBSET (1..Len(q))
    OBVIOUS
<1> HIDE DEF q, C, rec, z
<1>7. Requeued(s, z, {"MIDDLE"})
    BY <1>1, <1>4, <1>5, <1>6, ChangedRequeued
<1> QED BY <1>7 DEF z

LEMMA HeadIs ==
    ASSUME NEW s, Sound(s), NEW l \in ListName, s.list[l] # <<>>
    PROVE  LET t == Head(s.list[l])
               r == s.thread[t] IN
           /\ t \in Thread /\ r \in ThreadRecord /\ r.type # "TIMER" /\ Home(r) = l
           /\ t \in 1..s.alloc /\ r.left = 0
<1>1. /\ s.list[l] \in Seq(Thread) /\ s \in Masters /\ Placed(s)
      /\ \A i \in 1..Len(s.list[l]) :
            LET r == s.thread[s.list[l][i]] IN r.type # "TIMER" /\ Home(r) = l
    BY ListIs DEF Sound
<1>2. PICK t \in Thread : t = Head(s.list[l]) /\ 1 \in 1..Len(s.list[l]) /\ t = s.list[l][1]
    BY <1>1
<1>3. s.thread[t].type # "TIMER" /\ Home(s.thread[t]) = l /\ s.thread[t] \in ThreadRecord
    BY <1>1, <1>2, Fields
<1>4. s.thread[t].left = 0
    BY <1>3 DEF Sound, Fits
<1>5. t \in 1..s.alloc
    <2>1. <<l, 0>> \in Places /\ At(s, <<l, 0>>) = s.list[l]
        BY Names DEF Places, At
    <2> QED BY <1>1, <1>2, <2>1 DEF Placed, PlacedBut
<1> QED BY <1>2, <1>3, <1>4, <1>5

LEMMA LowRequeued ==
    ASSUME NEW s, Sound(s)
    PROVE  Requeued(s, LowEvent(s), {"LOW"})
<1>1. CASE s.list["event_low"] = <<>>
    BY <1>1, RequeuedNone DEF LowEvent
<1>2. CASE s.list["event_low"] # <<>>
    <2> DEFINE t == Head(s.list["event_low"])
               r == s.thread[t]
               z == LowEvent(s)
    <2>1. t \in Thread /\ r \in ThreadRecord /\ r.type # "TIMER" /\ Home(r) = "event_low" /\ r.left = 0
        BY <1>2, HeadIs, Names, ZenonT(30)
    <2>2. r.type = "EVENT_LOW"
        <3> HIDE DEF r
        <3> QED BY <2>1, Names DEF Home, ThreadRecord
    <2>3. t \in Live(s) /\ Kind[r.callback] = "EVENT_LOW"
        BY <2>1, <2>2 DEF Live, Sound, Fits
    <2>4. Unwatch(s, t) = s
        <3> HIDE DEF t
        <3> QED BY <2>2, NoUnwatch
    <2>5. z = Enqueue(Unwatch(s, t), t, "LOW")
        BY <1>2, <2>4 DEF LowEvent
    <2> HIDE DEF t, z
    <2>6. Sound(z) /\ Only(s, z, {t}) /\ z.thread[t] = Queued("LOW", r.callback)
        BY <2>1, <2>2, <2>3, <2>5, EnqueueStep, Names
    <2>7. \A u \in Thread \ {t} : z.thread[u] = s.thread[u]
        BY <2>6 DEF Only
    <2>8. Only(s, z, NotQueued(s))
        BY <2>1, <2>2, <2>6 DEF Only, NotQueued
    <2> QED BY <2>1, <2>2, <2>6, <2>7, <2>8, SMTT(30) DEF Requeued, z
<1> QED BY <1>1, <1>2

LEMMA SelectRequeued ==
    ASSUME NEW s, Sound(s), NEW r, NEW w
    PROVE  Requeued(s, LowEvent(ProcessFd(ProcessFd(ProcessFd(s, "read_high", r), "read", r), "write", w)),
                    {"MIDDLE", "LOW"})
<1> DEFINE a == ProcessFd(s, "read_high", r)
           b == ProcessFd(a, "read", r)
           c == ProcessFd(b, "write", w)
           z == LowEvent(c)
<1>1. Requeued(s, a, {"MIDDLE"})
    BY ProcessRequeued
<1> HIDE DEF a
<1>2. Requeued(a, b, {"MIDDLE"})
    BY <1>1, ProcessRequeued DEF Requeued
<1> HIDE DEF b
<1>3. Requeued(b, c, {"MIDDLE"})
    BY <1>2, ProcessRequeued DEF Requeued
<1> HIDE DEF c
<1>4. Requeued(c, z, {"LOW"})
    BY <1>3, LowRequeued DEF Requeued
<1> HIDE DEF z
<1>5. Requeued(s, z, (({"MIDDLE"} \cup {"MIDDLE"}) \cup {"MIDDLE"}) \cup {"LOW"})
    BY <1>1, <1>2, <1>3, <1>4, RequeuedMore
<1>6. (({"MIDDLE"} \cup {"MIDDLE"}) \cup {"MIDDLE"}) \cup {"LOW"} = {"MIDDLE", "LOW"}
    OBVIOUS
<1> QED BY <1>5, <1>6 DEF a, b, c, z


LEMMA FetchStep ==
    ASSUME NEW s, Sound(s), NEW l \in {"read_pend", "queue_high", "queue_middle", "queue_low"},
           s.list[l] # <<>>
    PROVE  LET t == Head(s.list[l])
               z == FetchFrom(s, l) IN
           /\ t \in Live(s) /\ s.thread[t].left = 0 /\ s.thread[t].type # "TIMER" /\ Home(s.thread[t]) = l
           /\ Sound(z) /\ Only(s, z, {t}) /\ z.thread[t] = Unused
<1> DEFINE t == Head(s.list[l])
           z == FetchFrom(s, l)
<1>1. l \in ListName /\ s \in Masters /\ Placed(s)
    BY Names DEF Sound
<1>2. /\ t \in Thread /\ s.thread[t] \in ThreadRecord /\ s.thread[t].type # "TIMER"
      /\ Home(s.thread[t]) = l /\ t \in 1..s.alloc /\ s.thread[t].left = 0
    BY <1>1, HeadIs
<1>3. z = AddUnuse(Unlink(s, t), t)
    BY DEF FetchFrom
<1> HIDE DEF t, z
<1>4. s.thread[t].type \in {"READ_PEND", "QUEUE"}
    BY <1>2, Names DEF Home, ThreadRecord
<1>5. Unlink(s, t).thread = s.thread
    BY <1>1, <1>2, <1>4, UnlinkIs
<1>6. Unwatch(Unlink(s, t), t) = Unlink(s, t)
    BY <1>4, <1>5, NoUnwatch
<1>7. z = ThreadCancel(s, t)
    BY <1>3, <1>6 DEF ThreadCancel
<1>8. t \in Live(s)
    BY <1>2, <1>4 DEF Live
<1>9. Sound(z) /\ Only(s, z, {t}) /\ z.thread[t] = Unused
    BY <1>7, <1>8, CancelStep
<1> QED BY <1>2, <1>8, <1>9 DEF t, z

----------------------------------------------------------------------------
(* Adding a thread.                                                        *)

LEMMA TailIs ==
    ASSUME NEW S, NEW q \in Seq(S), IsInjective(q), q # <<>>
    PROVE  RemoveFirst(q, Head(q)) = Tail(q)
<1>1. Len(q) \in Nat /\ Len(q) > 0 /\ 1 \in 1..Len(q) /\ q[1] = Head(q)
    BY LenProperties, EmptySeq
<1>2. Tail(q) \in Seq(S) /\ Len(Tail(q)) = Len(q) - 1 /\ \A i \in 1..(Len(q) - 1) : Tail(q)[i] = q[i + 1]
    BY <1>1, HeadTailProperties
<1> DEFINE r == RemoveFirst(q, q[1])
<1>3. r \in Seq(S) /\ Len(r) = Len(q) - 1 /\ \A i \in 1..(Len(q) - 1) : r[i] = IF i < 1 THEN q[i] ELSE q[i + 1]
    BY <1>1, RemoveFirstIs
<1> HIDE DEF r
<1>4. \A i \in 1..(Len(q) - 1) : r[i] = Tail(q)[i]
    BY <1>1, <1>2, <1>3
<1>5. r = Tail(q)
    BY <1>2, <1>3, <1>4, SeqEqual
<1> QED BY <1>1, <1>5 DEF r

Armed(c, delay) == [Unused EXCEPT !.type = Kind[c], !.callback = c, !.left = delay]

LEMMA ArmedIs ==
    ASSUME NEW c \in Callback, NEW delay \in Nat
    PROVE  LET r == Armed(c, delay) IN
           /\ r \in ThreadRecord /\ r.type = Kind[c] /\ r.callback = c /\ r.left = delay
           /\ r.type \notin {"QUEUE", "UNUSED"}
<1>1. Kind[c] \in DOMAIN Waiting
    BY ClientAssumption
<1> QED BY <1>1, UnusedType, Names DEF Armed, ThreadRecord

LEMMA PlacedButSame ==
    ASSUME NEW s \in Masters, NEW z \in Masters, NEW t \in 1..s.alloc, PlacedBut(s, {t}),
           z.list = s.list, z.timer = s.timer, z.alloc = s.alloc,
           \A u \in Thread \ {t} : z.thread[u] = s.thread[u]
    PROVE  PlacedBut(z, {t})
<1>1. \A h \in Places : At(z, h) = At(s, h)
    BY SamePlaces
<1>2. \A h \in Places : \A i \in 1..Len(At(z, h)) :
          At(z, h)[i] \in (1..z.alloc) \ {t} /\ Place(z.thread[At(z, h)[i]]) = h
    <2> SUFFICES ASSUME NEW h \in Places, NEW i \in 1..Len(At(z, h))
                 PROVE  At(z, h)[i] \in (1..z.alloc) \ {t} /\ Place(z.thread[At(z, h)[i]]) = h
        OBVIOUS
    <2>1. At(s, h)[i] \in (1..s.alloc) \ {t} /\ Place(s.thread[At(s, h)[i]]) = h
        BY <1>1 DEF PlacedBut
    <2>2. At(s, h)[i] \in Thread \ {t}
        BY <2>1, Fields
    <2> QED BY <1>1, <2>1, <2>2
<1>3. \A h \in Places : IsInjective(At(z, h))
    BY <1>1 DEF PlacedBut
<1>4. ASSUME NEW u \in (1..z.alloc) \ {t}
      PROVE  \E i \in 1..Len(At(z, Place(z.thread[u]))) : At(z, Place(z.thread[u]))[i] = u
    <2>1. z.thread[u] = s.thread[u] /\ Place(s.thread[u]) \in Places
        BY Fields
    <2>2. \E i \in 1..Len(At(s, Place(s.thread[u]))) : At(s, Place(s.thread[u]))[i] = u
        BY DEF PlacedBut
    <2> QED BY <1>1, <2>1, <2>2
<1>5. ASSUME NEW u \in Thread, u > z.alloc PROVE z.thread[u].type = "UNUSED"
    <2>1. u # t
        BY <1>5, Fields
    <2> QED BY <1>5, <2>1 DEF PlacedBut
<1> QED BY <1>2, <1>3, <1>4, <1>5 DEF PlacedBut

\* thread_get: t was out of use and is in no list, with the record r.
Got(s, g, t, r) ==
    /\ t \in Thread /\ s.thread[t].type = "UNUSED"
    /\ g \in Masters /\ t \in 1..g.alloc /\ PlacedBut(g, {t})
    /\ g.thread = [s.thread EXCEPT ![t] = r]
    /\ g.timer = s.timer /\ g.index = s.index /\ g.readfd = s.readfd /\ g.writefd = s.writefd
    /\ \A l \in ListName \ {"unuse"} : g.list[l] = s.list[l]

LEMMA GetIs ==
    ASSUME NEW s, Sound(s), NEW c \in Callback, NEW delay \in Nat, ~Exhausted(s)
    PROVE  Got(s, ThreadGet(s, c, delay), Fresh(s), Armed(c, delay))
<1> DEFINE t == Fresh(s)
           g == ThreadGet(s, c, delay)
           r == Armed(c, delay)
<1>1. s \in Masters /\ Placed(s) /\ "unuse" \in ListName
    BY Names DEF Sound
<1>2. r \in ThreadRecord
    BY ArmedIs
<1>3. CASE s.list["unuse"] # <<>>
    <2> DEFINE y == [s EXCEPT !.list = [s.list EXCEPT !["unuse"] = Tail(s.list["unuse"])]]
    <2>1. t = Head(s.list["unuse"])
        BY <1>3 DEF Fresh
    <2>2. /\ t \in Thread /\ s.thread[t] \in ThreadRecord /\ s.thread[t].type # "TIMER"
          /\ Home(s.thread[t]) = "unuse" /\ t \in 1..s.alloc
        BY <1>1, <1>3, <2>1, HeadIs
    <2>3. g = [y EXCEPT !.thread = [s.thread EXCEPT ![t] = r]]
        <3>1. g = [s EXCEPT !.list["unuse"] = Tail(@), !.thread[t] = r]
            BY <1>3 DEF ThreadGet, Armed
        <3> HIDE DEF g, r, t
        <3> QED BY <3>1
    <2> HIDE DEF t, g, r
    <2>4. s.thread[t].type = "UNUSED"
        BY <2>2, Names DEF Home, ThreadRecord
    <2>5. Place(s.thread[t]) = <<"unuse", 0>> /\ <<"unuse", 0>> \in Places
        BY <1>1, <2>2 DEF Place, Places
    <2>6. s.list["unuse"] \in Seq(Thread) /\ IsInjective(s.list["unuse"])
        BY <1>1, ListIs
    <2>7. Tail(s.list["unuse"]) = RemoveFirst(s.list["unuse"], t) /\ Tail(s.list["unuse"]) \in Seq(Thread)
        BY <1>3, <2>1, <2>6, TailIs, HeadTailProperties
    <2>8. [s.list EXCEPT !["unuse"] = Tail(s.list["unuse"])] \in [ListName -> Seq(Thread)]
        BY <1>1, <2>7 DEF Masters
    <2>9. y \in Masters
        BY <1>1, <2>8, WithLists, Zenon
    <2>10. /\ y.list = [s.list EXCEPT !["unuse"] = Tail(s.list["unuse"])] /\ y.timer = s.timer
           /\ y.thread = s.thread /\ y.alloc = s.alloc /\ y.index = s.index
           /\ y.readfd = s.readfd /\ y.writefd = s.writefd
        BY <1>1 DEF Masters
    <2> HIDE DEF y
    <2>11. ASSUME NEW h \in Places
           PROVE  At(y, h) = IF h = Place(s.thread[t]) THEN RemoveFirst(At(s, h), t) ELSE At(s, h)
        <3>1. CASE h[1] = "timer"
            BY <2>5, <2>10, <3>1 DEF At
        <3>2. CASE h[1] # "timer"
            <4>1. h = <<h[1], 0>> /\ h[1] \in ListName
                BY <3>2 DEF Places
            <4>2. CASE h[1] = "unuse"
                <5>1. At(y, h) = Tail(s.list["unuse"]) /\ At(s, h) = s.list["unuse"]
                    BY <1>1, <2>10, <3>2, <4>2 DEF At, Masters
                <5>2. h = Place(s.thread[t])
                    BY <2>5, <4>1, <4>2
                <5> QED BY <2>7, <5>1, <5>2
            <4>3. CASE h[1] # "unuse"
                BY <1>1, <2>5, <2>10, <3>2, <4>1, <4>3 DEF At, Masters
            <4> QED BY <4>2, <4>3
        <3> QED BY <3>1, <3>2
    <2>12. PlacedBut(y, {t})
        BY <1>1, <2>2, <2>9, <2>10, <2>11, Take
    <2>13. [s.thread EXCEPT ![t] = r] \in [Thread -> ThreadRecord]
        BY <1>1, <1>2, <2>2 DEF Masters, r
    <2>14. g \in Masters
        BY <2>3, <2>9, <2>13, WithThreads
    <2>15. /\ g.list = y.list /\ g.timer = y.timer /\ g.thread = [s.thread EXCEPT ![t] = r]
           /\ g.alloc = y.alloc /\ g.index = y.index /\ g.readfd = y.readfd /\ g.writefd = y.writefd
        BY <2>3, <2>9 DEF Masters
    <2>16. \A u \in Thread \ {t} : g.thread[u] = y.thread[u]
        BY <1>1, <2>2, <2>10, <2>15 DEF Masters
    <2>17. PlacedBut(g, {t})
        BY <2>2, <2>9, <2>10, <2>12, <2>14, <2>15, <2>16, PlacedButSame
    <2>18. \A l \in ListName \ {"unuse"} : g.list[l] = s.list[l]
        BY <1>1, <2>10, <2>15 DEF Masters
    <2> QED BY <2>2, <2>4, <2>10, <2>14, <2>15, <2>17, <2>18 DEF t, g, r, Got
<1>4. CASE s.list["unuse"] = <<>>
    <2> DEFINE y == [s EXCEPT !.alloc = s.alloc + 1]
    <2>1. t = s.alloc + 1 /\ s.alloc # MaxThreads
        BY <1>4 DEF Fresh, Exhausted
    <2>2. t \in Thread /\ s.alloc + 1 \in 0..MaxThreads /\ t \in 1..(s.alloc + 1) /\ s.alloc \in Nat
        BY <1>1, <2>1, Fields
    <2>3. g = [y EXCEPT !.thread = [s.thread EXCEPT ![t] = r]]
        <3>1. g = [s EXCEPT !.alloc = @ + 1, !.thread[t] = r]
            BY <1>4 DEF ThreadGet, Armed
        <3> HIDE DEF g, r, t
        <3> QED BY <3>1
    <2> HIDE DEF t, g, r
    <2>4. s.thread[t].type = "UNUSED"
        BY <1>1, <2>1, <2>2 DEF Placed, PlacedBut
    <2>5. y \in Masters
        BY <1>1, <2>2 DEF Masters
    <2>6. /\ y.list = s.list /\ y.timer = s.timer /\ y.thread = s.thread /\ y.alloc = s.alloc + 1
          /\ y.index = s.index /\ y.readfd = s.readfd /\ y.writefd = s.writefd
        BY <1>1 DEF Masters
    <2> HIDE DEF y
    <2>7. \A h \in Places : At(y, h) = At(s, h)
        BY <1>1, <2>5, <2>6, SamePlaces
    <2>8. PlacedBut(y, {t})
        <3>1. (1..y.alloc) \ {t} = 1..s.alloc
            BY <2>1, <2>2, <2>6
        <3>2. \A u \in 1..s.alloc : Place(s.thread[u]) \in Places
            BY <1>1, Fields
        <3>3. \A u \in Thread : u > y.alloc => u > s.alloc
            BY <1>1, <2>2, <2>6, Fields
        <3> QED BY <1>1, <2>6, <2>7, <3>1, <3>2, <3>3 DEF Placed, PlacedBut
    <2>13. [s.thread EXCEPT ![t] = r] \in [Thread -> ThreadRecord]
        BY <1>1, <1>2, <2>2 DEF Masters, r
    <2>14. g \in Masters
        BY <2>3, <2>5, <2>13, WithThreads
    <2>15. /\ g.list = y.list /\ g.timer = y.timer /\ g.thread = [s.thread EXCEPT ![t] = r]
           /\ g.alloc = y.alloc /\ g.index = y.index /\ g.readfd = y.readfd /\ g.writefd = y.writefd
        BY <2>3, <2>5 DEF Masters
    <2>16. \A u \in Thread \ {t} : g.thread[u] = y.thread[u]
        BY <1>1, <2>2, <2>6, <2>15 DEF Masters
    <2>17. PlacedBut(g, {t})
        BY <2>2, <2>5, <2>6, <2>8, <2>14, <2>15, <2>16, PlacedButSame
    <2> QED BY <2>2, <2>4, <2>6, <2>14, <2>15, <2>17 DEF t, g, r, Got
<1> QED BY <1>3, <1>4


\* thread_add_timer_common keeps a slot sorted.
InOrder(s, q) == \A i, j \in 1..Len(q) : i <= j => s.thread[q[i]].left <= s.thread[q[j]].left

LEMMA InsertSorted ==
    ASSUME NEW s \in Masters, NEW q \in Seq(Thread), NEW t \in Thread, InOrder(s, q)
    PROVE  \E k \in 1..(Len(q) + 1) :
              /\ InsertTimer(s, q, t) = InsertAt(q, k, t)
              /\ InsertAt(q, k, t) \in Seq(Thread) /\ InOrder(s, InsertAt(q, k, t))
<1>0. \A i, j \in 1..Len(q) : i <= j => s.thread[q[i]].left <= s.thread[q[j]].left
    BY DEF InOrder
<1> DEFINE left == [u \in Thread |-> s.thread[u].left]
           earlier == {i \in 1..Len(q) : s.thread[q[i]].left <= s.thread[t].left}
           k == IF earlier = {} THEN 1 ELSE Max(earlier) + 1
<1>1. Len(q) \in Nat /\ \A i \in 1..Len(q) : q[i] \in Thread
    BY LenProperties
<1>2. left \in [Thread -> Nat] /\ \A u \in Thread : left[u] = s.thread[u].left
    BY Fields DEF ThreadRecord
<1>3. earlier \in SUBSET (1..Len(q)) /\ \A i \in 1..Len(q) : i \in earlier <=> left[q[i]] <= left[t]
    BY <1>1
<1>4. \A i, j \in 1..Len(q) : i <= j => left[q[i]] <= left[q[j]]
    BY <1>0, <1>1
<1>5. InsertTimer(s, q, t) = InsertAt(q, k, t)
    BY DEF InsertTimer
<1> HIDE DEF left, earlier
<1>6. /\ k \in 1..(Len(q) + 1)
      /\ \A i \in 1..Len(q) : i < k => left[q[i]] <= left[t]
      /\ \A i \in 1..Len(q) : i >= k => left[t] <= left[q[i]]
    <2>1. CASE earlier = {}
        <3>1. k = 1
            BY <2>1
        <3>2. \A i \in 1..Len(q) : left[t] <= left[q[i]]
            BY <1>1, <1>2, <1>3, <2>1
        <3> HIDE DEF k
        <3> QED BY <1>1, <3>1, <3>2
    <2>2. CASE earlier # {}
        <3>1. PICK m \in 1..Len(q) : m = Max(earlier) /\ m \in earlier /\ \A i \in earlier : i <= m
            BY <1>1, <1>3, <2>2, MaxIs
        <3>2. k = m + 1
            BY <2>2, <3>1
        <3> HIDE DEF k
        <3>3. \A i \in 1..Len(q) : i <= m => left[q[i]] <= left[t]
            <4>1. left[q[m]] <= left[t]
                BY <1>3, <3>1
            <4> QED BY <1>1, <1>2, <1>4, <4>1
        <3>4. \A i \in 1..Len(q) : i > m => left[t] <= left[q[i]]
            <4>1. \A i \in 1..Len(q) : i > m => ~(left[q[i]] <= left[t])
                BY <1>1, <1>3, <3>1
            <4> QED BY <1>1, <1>2, <4>1
        <3> QED BY <1>1, <3>1, <3>2, <3>3, <3>4
    <2> QED BY <2>1, <2>2
<1> HIDE DEF k
<1> DEFINE r == InsertAt(q, k, t)
<1>7. /\ r \in Seq(Thread) /\ Len(r) = Len(q) + 1
      /\ \A i \in 1..(Len(q) + 1) : r[i] = IF i < k THEN q[i] ELSE IF i = k THEN t ELSE q[i - 1]
    <2>1. k \in 1..(Len(q) + 1) /\ q \in Seq(Thread) /\ t \in Thread
        BY <1>6
    <2> QED BY <2>1, InsertAtIs
<1> HIDE DEF r
<1>8. ASSUME NEW i \in 1..Len(r), NEW j \in 1..Len(r), i <= j
      PROVE  left[r[i]] <= left[r[j]]
    <2>1. i \in 1..(Len(q) + 1) /\ j \in 1..(Len(q) + 1) /\ k \in 1..(Len(q) + 1)
        BY <1>6, <1>7
    <2>2. CASE i = j
        <3>1. r[j] \in Thread
            BY <1>7
        <3> QED BY <1>2, <2>2, <3>1
    <2>3. CASE i < j /\ j < k
        <3>1. r[i] = q[i] /\ r[j] = q[j] /\ i \in 1..Len(q) /\ j \in 1..Len(q)
            BY <1>1, <1>7, <2>1, <2>3
        <3> QED BY <1>4, <1>8, <3>1
    <2>4. CASE i < j /\ j = k
        <3>1. r[i] = q[i] /\ r[j] = t /\ i \in 1..Len(q)
            BY <1>1, <1>7, <2>1, <2>4
        <3> QED BY <1>6, <2>4, <3>1
    <2>5. CASE i < k /\ k < j
        <3>1. r[i] = q[i] /\ r[j] = q[j - 1] /\ i \in 1..Len(q) /\ j - 1 \in 1..Len(q) /\ i <= j - 1
            BY <1>1, <1>7, <2>1, <2>5
        <3> QED BY <1>4, <3>1
    <2>6. CASE i = k /\ k < j
        <3>1. r[i] = t /\ r[j] = q[j - 1] /\ j - 1 \in 1..Len(q) /\ j - 1 >= k
            BY <1>1, <1>7, <2>1, <2>6
        <3> QED BY <1>6, <3>1
    <2>7. CASE k < i /\ i < j
        <3>1. r[i] = q[i - 1] /\ r[j] = q[j - 1] /\ i - 1 \in 1..Len(q) /\ j - 1 \in 1..Len(q) /\ i - 1 <= j - 1
            BY <1>1, <1>7, <2>1, <2>7
        <3> QED BY <1>4, <3>1
    <2> QED BY <1>8, <2>1, <2>2, <2>3, <2>4, <2>5, <2>6, <2>7
<1>9. InOrder(s, r)
    <2>1. \A i \in 1..Len(r) : r[i] \in Thread
        BY <1>7
    <2> QED BY <1>2, <1>8, <2>1 DEF InOrder
<1> QED BY <1>5, <1>6, <1>7, <1>9 DEF r

\* What client code sees to: a timer alone has a delay, and what has a pointer is not armed.
Adding(s, c, delay) ==
    /\ ~Refused(s, c) /\ (Kind[c] # "TIMER" => delay = 0)
    /\ c \in Kept => \A u \in Live(s) : s.thread[u].callback # c

\* Select watches what c waits for as well.
Watches(s, z, c) ==
    /\ z.readfd = IF Reads(c) THEN s.readfd \cup {Fd[c]} ELSE s.readfd
    /\ z.writefd = IF Kind[c] = "WRITE" THEN s.writefd \cup {Fd[c]} ELSE s.writefd

\* What is common to the lists a thread may be added to: it is put somewhere in one of
\* them with the record r.
LEMMA AddedSound ==
    ASSUME NEW s, Sound(s), NEW c \in Callback, NEW delay \in Nat, Adding(s, c, delay),
           NEW z \in Masters, Placed(z), Sorted(z), NEW t \in Thread, s.thread[t].type = "UNUSED",
           z.thread[t].type = Kind[c], z.thread[t].callback = c, z.thread[t].left = delay,
           \A u \in Thread \ {t} : z.thread[u] = s.thread[u], Watches(s, z, c)
    PROVE  Sound(z)
<1>1. s \in Masters /\ Fits(s) /\ Watching(s) /\ Single(s)
    BY DEF Sound
<1>2. Kind[c] \in {"READ", "READ_HIGH", "WRITE", "TIMER", "EVENT", "EVENT_LOW", "READ_PEND"}
    BY ClientAssumption, Names
<1>3. Fits(z)
    BY <1>1, <1>2 DEF Fits, Adding
<1>4. Live(z) = Live(s) \cup {t} /\ t \notin Live(s)
    BY <1>2 DEF Live
<1>5. Single(z)
    <2>1. \A u \in Live(s) : z.thread[u] = s.thread[u]
        BY <1>4 DEF Live
    <2> QED BY <1>1, <1>4, <2>1 DEF Single, Adding
<1>6. \A u \in Readers(s) \cup Writers(s) : u # t /\ z.thread[u] = s.thread[u]
    BY DEF Readers, Writers
<1>7. Readers(z) = IF Reads(c) THEN Readers(s) \cup {t} ELSE Readers(s)
    BY <1>2 DEF Readers, Reads
<1>8. Writers(z) = IF Kind[c] = "WRITE" THEN Writers(s) \cup {t} ELSE Writers(s)
    BY <1>2 DEF Writers
<1>9. z.readfd = {Fd[z.thread[u].callback] : u \in Readers(z)}
    BY <1>1, <1>6, <1>7 DEF Watching, Watches
<1>10. z.writefd = {Fd[z.thread[u].callback] : u \in Writers(z)}
    BY <1>1, <1>6, <1>8 DEF Watching, Watches
<1>11. \A u, v \in Writers(z) : Fd[z.thread[u].callback] = Fd[z.thread[v].callback] => u = v
    <2>1. CASE Kind[c] = "WRITE"
        <3>1. Fd[c] \notin s.writefd
            BY <2>1 DEF Refused, Adding
        <3>2. \A u \in Writers(s) : Fd[s.thread[u].callback] # Fd[c]
            BY <1>1, <3>1 DEF Watching
        <3> QED BY <1>1, <1>6, <1>8, <2>1, <3>2 DEF Watching
    <2>2. CASE Kind[c] # "WRITE"
        BY <1>1, <1>6, <1>8, <2>2 DEF Watching
    <2> QED BY <2>1, <2>2
<1> QED BY <1>3, <1>5, <1>9, <1>10, <1>11 DEF Sound, Watching


Added(s, z, t, c, delay) ==
    /\ Sound(z) /\ Only(s, z, {t}) /\ t \in Thread /\ s.thread[t].type = "UNUSED"
    /\ z.thread[t].type = Kind[c] /\ z.thread[t].callback = c /\ z.thread[t].left = delay

LEMMA QueuesSame ==
    ASSUME NEW s, NEW z, NEW t, \A u \in Thread \ {t} : z.thread[u] = s.thread[u],
           \A p \in DOMAIN Queue : z.list[Queue[p]] = s.list[Queue[p]]
    PROVE  Only(s, z, {t})
BY DEF Only, Precedes

LEMMA AddTimer ==
    ASSUME NEW s, Sound(s), NEW c \in Callback, NEW delay \in Nat, Adding(s, c, delay), Kind[c] = "TIMER"
    PROVE  Added(s, ThreadAdd(s, c, delay), Fresh(s), c, delay)
<1> DEFINE t == Fresh(s)
           g == ThreadGet(s, c, delay)
           z == ThreadAdd(s, c, delay)
           r == Armed(c, delay)
           i == g.index
           q == g.timer[i]
           w == InsertTimer(g, q, t)
           p == [r EXCEPT !.slot = i]
<1>0. Got(s, g, t, r)
    <2>1. ~Exhausted(s)
        BY DEF Adding, Refused
    <2> QED BY <2>1, GetIs
<1>2. r \in ThreadRecord /\ r.type = "TIMER" /\ r.callback = c /\ r.left = delay
    BY ArmedIs
<1>3. s \in Masters /\ Placed(s) /\ Sorted(s)
    BY DEF Sound
<1>23. z = AddTimerCommon(g, t)
    <2>1. ~Reads(c) /\ Kind[c] # "WRITE"
        BY DEF Reads
    <2> HIDE DEF t, g
    <2> QED BY <2>1 DEF ThreadAdd, z, t, g
<1> HIDE DEF t, g, z, r
<1>1. /\ t \in Thread /\ s.thread[t].type = "UNUSED"
      /\ g \in Masters /\ t \in 1..g.alloc /\ PlacedBut(g, {t})
      /\ g.thread = [s.thread EXCEPT ![t] = r]
      /\ g.timer = s.timer /\ g.index = s.index /\ g.readfd = s.readfd /\ g.writefd = s.writefd
      /\ \A l \in ListName \ {"unuse"} : g.list[l] = s.list[l]
    BY <1>0 DEF Got
<1>4. z = [g EXCEPT !.thread[t].slot = i, !.timer[i] = w, !.index = (i % TimerSlots) + 1]
    BY <1>23, Zenon DEF AddTimerCommon
<1>5. i \in Slot /\ (i % TimerSlots) + 1 \in Slot /\ q \in Seq(Thread)
    <2>1. TimerSlots \in Nat \ {0} /\ i \in 1..TimerSlots /\ g.timer \in [Slot -> Seq(Thread)]
        BY <1>1, ClientAssumption DEF Masters, Slot
    <2>2. i % TimerSlots \in 0..(TimerSlots - 1)
        BY <2>1
    <2> QED BY <2>1, <2>2 DEF Slot
<1>6. g.thread[t] = r /\ \A u \in Thread \ {t} : g.thread[u] = s.thread[u]
    BY <1>1, <1>3 DEF Masters
<1>7. p \in ThreadRecord /\ p.type = "TIMER" /\ p.callback = c /\ p.left = delay /\ p.slot = i
    BY <1>2, <1>5 DEF ThreadRecord
<1> HIDE DEF p
<1>8. \A a \in 1..Len(q) : q[a] \in Thread \ {t}
    <2>1. <<"timer", i>> \in Places /\ At(g, <<"timer", i>>) = q
        BY <1>1, <1>5, TimerPlace
    <2> QED BY <1>1, <1>5, <2>1 DEF PlacedBut
<1>9. InOrder(g, q)
    <2>1. q = s.timer[i]
        BY <1>1
    <2> HIDE DEF q, i
    <2>2. ASSUME NEW a \in 1..Len(q), NEW b \in 1..Len(q), a <= b
          PROVE  g.thread[q[a]].left <= g.thread[q[b]].left
        <3>1. s.thread[q[a]].left <= s.thread[q[b]].left
            BY <1>3, <1>5, <2>1, <2>2 DEF Sorted
        <3>2. g.thread[q[a]] = s.thread[q[a]] /\ g.thread[q[b]] = s.thread[q[b]]
            BY <1>6, <1>8
        <3> QED BY <3>1, <3>2
    <2> QED BY <2>2 DEF InOrder
<1>10. PICK k \in 1..(Len(q) + 1) :
          w = InsertAt(q, k, t) /\ w \in Seq(Thread) /\ InOrder(g, w)
    <2> HIDE DEF q
    <2> QED BY <1>1, <1>5, <1>9, InsertSorted
<1>11. k \in 1..(Len(q) + 1)
    OBVIOUS
<1> HIDE DEF w
<1>12. z = [[[g EXCEPT !.thread = [g.thread EXCEPT ![t] = p]]
                EXCEPT !.timer = [g.timer EXCEPT ![i] = w]]
                EXCEPT !.index = (i % TimerSlots) + 1]
    <2>1. [g.thread EXCEPT ![t].slot = i] = [g.thread EXCEPT ![t] = p]
        BY <1>1, <1>6 DEF p, Masters
    <2>2. z = [[[g EXCEPT !.thread = [g.thread EXCEPT ![t].slot = i]]
                EXCEPT !.timer = [g.timer EXCEPT ![i] = w]]
                EXCEPT !.index = (i % TimerSlots) + 1]
        BY <1>1, <1>4 DEF Masters
    <2> QED BY <2>1, <2>2
<1>13. /\ [g.thread EXCEPT ![t] = p] \in [Thread -> ThreadRecord]
       /\ [g.timer EXCEPT ![i] = w] \in [Slot -> Seq(Thread)]
    BY <1>1, <1>5, <1>7, <1>10 DEF Masters
<1>14. z \in Masters
    <2>1. [g EXCEPT !.thread = [g.thread EXCEPT ![t] = p]] \in Masters
        BY <1>1, <1>13, WithThreads
    <2>2. [[g EXCEPT !.thread = [g.thread EXCEPT ![t] = p]]
                EXCEPT !.timer = [g.timer EXCEPT ![i] = w]] \in Masters
        BY <1>13, <2>1, WithTimers
    <2> HIDE DEF i
    <2> QED BY <1>5, <1>12, <2>2 DEF Masters
<1>15. /\ z.thread = [g.thread EXCEPT ![t] = p] /\ z.timer = [g.timer EXCEPT ![i] = w]
       /\ z.list = g.list /\ z.alloc = g.alloc /\ z.readfd = g.readfd /\ z.writefd = g.writefd
    BY <1>1, <1>12 DEF Masters
<1>16. z.thread[t] = p /\ \A u \in Thread \ {t} : z.thread[u] = g.thread[u]
    BY <1>1, <1>15 DEF Masters
<1>17. Place(p) = <<"timer", i>> /\ <<"timer", i>> \in Places /\ At(g, <<"timer", i>>) = q
    BY <1>1, <1>5, <1>7, TimerPlace DEF Place
<1> HIDE DEF i, q
<1>18. ASSUME NEW h \in Places
       PROVE  At(z, h) = IF h = Place(p) THEN InsertAt(At(g, h), k, t) ELSE At(g, h)
    <2>1. CASE h[1] = "timer"
        <3>1. h = <<"timer", h[2]>> /\ h[2] \in Slot
            BY <2>1, Names DEF Places
        <3>2. At(z, h) = z.timer[h[2]] /\ At(g, h) = g.timer[h[2]]
            BY <2>1 DEF At
        <3>3. CASE h[2] = i
            <4>1. z.timer[h[2]] = w
                BY <1>1, <1>5, <1>15, <3>3 DEF Masters
            <4>2. g.timer[h[2]] = q
                BY <3>3 DEF q
            <4> QED BY <1>10, <1>17, <3>1, <3>2, <3>3, <4>1, <4>2
        <3>4. CASE h[2] # i
            <4>1. z.timer[h[2]] = g.timer[h[2]]
                BY <1>1, <1>5, <1>15, <3>1, <3>4 DEF Masters
            <4>2. h # Place(p)
                BY <1>17, <3>1, <3>4
            <4> QED BY <3>2, <4>1, <4>2
        <3> QED BY <3>3, <3>4
    <2>2. CASE h[1] # "timer"
        BY <1>15, <1>17, <2>2 DEF At
    <2> QED BY <2>1, <2>2
<1>19. Placed(z)
    <2>1. /\ \A u \in Thread \ {t} : z.thread[u] = g.thread[u]
          /\ z.alloc = g.alloc
          /\ k \in 1..(Len(At(g, Place(z.thread[t]))) + 1)
          /\ \A h \in Places : At(z, h) = IF h = Place(z.thread[t]) THEN InsertAt(At(g, h), k, t)
                                          ELSE At(g, h)
        BY <1>11, <1>15, <1>16, <1>17, <1>18
    <2> QED BY <1>1, <1>14, <2>1, Put
<1>20. Sorted(z)
    <2>1. \A u \in Thread : z.thread[u].left = g.thread[u].left
        BY <1>2, <1>6, <1>7, <1>16
    <2> SUFFICES ASSUME NEW n \in Slot, NEW a \in 1..Len(z.timer[n]), NEW b \in 1..Len(z.timer[n]), a <= b
                 PROVE  z.thread[z.timer[n][a]].left <= z.thread[z.timer[n][b]].left
        BY DEF Sorted
    <2>0. z.timer[n] \in Seq(Thread) /\ a \in 1..Len(z.timer[n]) /\ b \in 1..Len(z.timer[n]) /\ a <= b
        BY <1>14 DEF Masters
    <2>2. z.timer[n][a] \in Thread /\ z.timer[n][b] \in Thread
        BY <2>0
    <2>3. g.thread[z.timer[n][a]].left <= g.thread[z.timer[n][b]].left
        <3>1. CASE n = i
            <4>1. z.timer[n] = w
                BY <1>1, <1>5, <1>15, <3>1 DEF Masters
            <4> QED BY <1>10, <2>0, <4>1 DEF InOrder
        <3>2. CASE n # i
            <4>1. z.timer[n] = s.timer[n]
                BY <1>1, <1>5, <1>15, <3>2 DEF Masters
            <4>2. <<"timer", n>> \in Places /\ At(g, <<"timer", n>>) = s.timer[n]
                BY <1>1, TimerPlace
            <4>3. s.timer[n][a] \in Thread \ {t} /\ s.timer[n][b] \in Thread \ {t}
                BY <1>1, <2>0, <2>2, <4>1, <4>2 DEF PlacedBut
            <4>4. s.thread[s.timer[n][a]].left <= s.thread[s.timer[n][b]].left
                BY <1>3, <2>0, <4>1 DEF Sorted
            <4> QED BY <1>6, <4>1, <4>3, <4>4
        <3> QED BY <3>1, <3>2
    <2> QED BY <2>1, <2>2, <2>3
<1>21. \A u \in Thread \ {t} : z.thread[u] = s.thread[u]
    BY <1>6, <1>16
<1>22. Sound(z)
    <2>1. ~Reads(c) /\ Kind[c] # "WRITE"
        BY DEF Reads
    <2>2. /\ z.thread[t].type = Kind[c] /\ z.thread[t].callback = c /\ z.thread[t].left = delay
          /\ Watches(s, z, c)
        BY <1>1, <1>7, <1>15, <1>16, <2>1 DEF Watches
    <2>3. /\ s.thread[t].type = "UNUSED" /\ \A u \in Thread \ {t} : z.thread[u] = s.thread[u]
          /\ t \in Thread /\ z \in Masters /\ Placed(z) /\ Sorted(z)
        BY <1>1, <1>14, <1>19, <1>20, <1>21
    <2> QED BY <2>2, <2>3, AddedSound
<1>25. \A n \in DOMAIN Queue : z.list[Queue[n]] = s.list[Queue[n]]
    <2>1. \A n \in DOMAIN Queue : Queue[n] \in ListName \ {"unuse"}
        BY Names
    <2> QED BY <1>1, <1>15, <2>1
<1>24. Only(s, z, {t})
    BY <1>21, <1>25, QueuesSame
<1> QED BY <1>1, <1>7, <1>16, <1>22, <1>24 DEF Added, t, z


LEMMA SortedSame ==
    ASSUME NEW s, Sound(s), NEW z, z.timer = s.timer, NEW t, s.thread[t].type = "UNUSED",
           \A u \in Thread \ {t} : z.thread[u] = s.thread[u]
    PROVE  Sorted(z)
<1> SUFFICES ASSUME NEW n \in Slot, NEW a \in 1..Len(s.timer[n]), NEW b \in 1..Len(s.timer[n]), a <= b
             PROVE  z.thread[s.timer[n][a]].left <= z.thread[s.timer[n][b]].left
    BY DEF Sorted
<1>1. s.thread[s.timer[n][a]].left <= s.thread[s.timer[n][b]].left
    BY DEF Sound, Sorted
<1>2. /\ s.timer[n] \in Seq(Thread)
      /\ \A i \in 1..Len(s.timer[n]) : s.thread[s.timer[n][i]].type = "TIMER"
    BY TimerIs
<1>3. s.timer[n][a] \in Thread \ {t} /\ s.timer[n][b] \in Thread \ {t}
    BY <1>2
<1> QED BY <1>1, <1>3

LEMMA AddOther ==
    ASSUME NEW s, Sound(s), NEW c \in Callback, NEW delay \in Nat, Adding(s, c, delay), Kind[c] # "TIMER"
    PROVE  Added(s, ThreadAdd(s, c, delay), Fresh(s), c, delay)
<1> DEFINE t == Fresh(s)
           g == ThreadGet(s, c, delay)
           z == ThreadAdd(s, c, delay)
           r == Armed(c, delay)
           l == Waiting[Kind[c]]
           w == [g.list EXCEPT ![l] = Append(@, t)]
<1>1. Got(s, g, t, r)
    <2>1. ~Exhausted(s)
        BY DEF Adding, Refused
    <2> QED BY <2>1, GetIs
<1>2. r \in ThreadRecord /\ r.type = Kind[c] /\ r.callback = c /\ r.left = delay
    BY ArmedIs
<1>3. /\ Kind[c] \in {"READ", "READ_HIGH", "WRITE", "EVENT", "EVENT_LOW", "READ_PEND"}
      /\ l \in ListName \ {"unuse"} /\ l # "timer" /\ (Kind[c] = "WRITE" => l = "write")
      /\ \A p \in DOMAIN Queue : l # Queue[p] /\ Queue[p] \in ListName \ {"unuse"}
    BY ClientAssumption, Names
<1>4. s \in Masters /\ Placed(s)
    BY DEF Sound
<1>5. z = IF Reads(c) THEN [[g EXCEPT !.list = w] EXCEPT !.readfd = g.readfd \cup {Fd[c]}]
          ELSE IF Kind[c] = "WRITE" THEN [[g EXCEPT !.list = w] EXCEPT !.writefd = g.writefd \cup {Fd[c]}]
          ELSE [g EXCEPT !.list = w]
    <2>1. Reads(c) => Kind[c] # "WRITE"
        BY DEF Reads
    <2>2. g \in Masters
        BY <1>1 DEF Got
    <2> HIDE DEF t, g, l
    <2>3. z = CASE Reads(c) -> [g EXCEPT !.readfd = @ \cup {Fd[c]}, !.list[l] = Append(@, t)]
                [] Kind[c] = "WRITE" -> [g EXCEPT !.writefd = @ \cup {Fd[c]},
                                                  !.list["write"] = Append(@, t)]
                [] OTHER -> [g EXCEPT !.list[l] = Append(@, t)]
        BY <2>1 DEF ThreadAdd, z, t, g, l
    <2> HIDE DEF z
    <2>4. CASE Reads(c)
        BY <2>1, <2>2, <2>3, <2>4 DEF Masters
    <2>5. CASE Kind[c] = "WRITE"
        BY <1>3, <2>1, <2>2, <2>3, <2>5 DEF Masters
    <2>6. CASE ~Reads(c) /\ Kind[c] # "WRITE"
        BY <2>2, <2>3, <2>6 DEF Masters
    <2> QED BY <2>1, <2>4, <2>5, <2>6
<1> HIDE DEF t, g, z, r, l
<1>6. /\ t \in Thread /\ s.thread[t].type = "UNUSED"
      /\ g \in Masters /\ t \in 1..g.alloc /\ PlacedBut(g, {t})
      /\ g.thread = [s.thread EXCEPT ![t] = r]
      /\ g.timer = s.timer /\ g.index = s.index /\ g.readfd = s.readfd /\ g.writefd = s.writefd
      /\ \A n \in ListName \ {"unuse"} : g.list[n] = s.list[n]
    BY <1>1 DEF Got
<1>7. g.list[l] \in Seq(Thread) /\ w \in [ListName -> Seq(Thread)]
    BY <1>3, <1>6 DEF Masters
<1> DEFINE y == [g EXCEPT !.list = w]
<1>8. y \in Masters
    BY <1>6, <1>7, WithLists
<1>9. /\ y.list = w /\ y.timer = g.timer /\ y.thread = g.thread /\ y.alloc = g.alloc
      /\ y.readfd = s.readfd /\ y.writefd = s.writefd
    BY <1>6 DEF Masters
<1> HIDE DEF w
<1>10. z = IF Reads(c) THEN [y EXCEPT !.readfd = s.readfd \cup {Fd[c]}]
           ELSE IF Kind[c] = "WRITE" THEN [y EXCEPT !.writefd = s.writefd \cup {Fd[c]}]
           ELSE y
    BY <1>5, <1>6
<1> HIDE DEF y
<1>11. s.readfd \cup {Fd[c]} \in SUBSET Fds /\ s.writefd \cup {Fd[c]} \in SUBSET Fds
    BY <1>4 DEF Masters, Fds
<1>12. /\ z \in Masters /\ z.list = w /\ z.timer = g.timer /\ z.thread = g.thread /\ z.alloc = g.alloc
       /\ Watches(s, z, c)
    <2>1. Reads(c) => Kind[c] # "WRITE"
        BY DEF Reads
    <2>2. CASE Reads(c)
        BY <1>8, <1>9, <1>10, <1>11, <2>1, <2>2 DEF Masters, Watches
    <2>3. CASE ~Reads(c) /\ Kind[c] = "WRITE"
        BY <1>8, <1>9, <1>10, <1>11, <2>3 DEF Masters, Watches
    <2>4. CASE ~Reads(c) /\ Kind[c] # "WRITE"
        BY <1>8, <1>9, <1>10, <2>4 DEF Watches
    <2> QED BY <2>2, <2>3, <2>4
<1>13. z.thread[t] = r /\ \A u \in Thread \ {t} : z.thread[u] = g.thread[u] /\ z.thread[u] = s.thread[u]
    BY <1>4, <1>6, <1>12 DEF Masters
<1>14. Place(r) = <<l, 0>> /\ <<l, 0>> \in Places /\ At(g, <<l, 0>>) = g.list[l]
    <2>1. Home(r) = l
        BY <1>2, <1>3 DEF Home, l
    <2> QED BY <1>2, <1>3, <2>1 DEF Place, Places, At
<1> DEFINE k == Len(At(g, Place(r))) + 1
<1>15. k \in 1..(Len(At(g, Place(r))) + 1) /\ k = Len(g.list[l]) + 1
    BY <1>7, <1>14, LenProperties
<1>16. ASSUME NEW h \in Places
       PROVE  At(z, h) = IF h = Place(r) THEN InsertAt(At(g, h), k, t) ELSE At(g, h)
    <2>1. CASE h = Place(r)
        <3>1. At(z, h) = Append(g.list[l], t)
            BY <1>3, <1>6, <1>12, <1>14, <2>1 DEF At, Masters, w
        <3>2. Append(g.list[l], t) = InsertAt(g.list[l], Len(g.list[l]) + 1, t)
            BY <1>6, <1>7, AppendIs
        <3> HIDE DEF k
        <3> QED BY <1>14, <1>15, <2>1, <3>1, <3>2
    <2>2. CASE h # Place(r)
        <3>1. CASE h[1] = "timer"
            BY <1>12, <2>2, <3>1 DEF At
        <3>2. CASE h[1] # "timer"
            <4>1. h = <<h[1], 0>> /\ h[1] \in ListName
                BY <3>2 DEF Places
            <4>2. h[1] # l
                BY <1>14, <2>2, <4>1
            <4>3. z.list[h[1]] = g.list[h[1]]
                BY <1>6, <1>12, <4>1, <4>2 DEF Masters, w
            <4> QED BY <2>2, <3>2, <4>3 DEF At
        <3> QED BY <3>1, <3>2
    <2> QED BY <2>1, <2>2
<1> HIDE DEF k
<1>17. Placed(z)
    <2>1. /\ \A u \in Thread \ {t} : z.thread[u] = g.thread[u]
          /\ z.alloc = g.alloc
          /\ k \in 1..(Len(At(g, Place(z.thread[t]))) + 1)
          /\ \A h \in Places : At(z, h) = IF h = Place(z.thread[t]) THEN InsertAt(At(g, h), k, t)
                                          ELSE At(g, h)
        BY <1>12, <1>13, <1>15, <1>16
    <2> QED BY <1>6, <1>12, <2>1, Put
<1>18. \A u \in Thread \ {t} : z.thread[u] = s.thread[u]
    BY <1>13
<1>19. Sorted(z)
    <2>1. z.timer = s.timer
        BY <1>6, <1>12
    <2> QED BY <1>6, <1>18, <2>1, SortedSame
<1>20. Sound(z)
    <2>1. z.thread[t].type = Kind[c] /\ z.thread[t].callback = c /\ z.thread[t].left = delay
        BY <1>2, <1>13
    <2>2. t \in Thread /\ s.thread[t].type = "UNUSED" /\ z \in Masters /\ Watches(s, z, c)
        BY <1>6, <1>12
    <2> QED BY <1>17, <1>18, <1>19, <2>1, <2>2, AddedSound
<1>21. \A n \in DOMAIN Queue : z.list[Queue[n]] = s.list[Queue[n]]
    <2> SUFFICES ASSUME NEW n \in DOMAIN Queue PROVE z.list[Queue[n]] = s.list[Queue[n]]
        OBVIOUS
    <2>1. Queue[n] # l /\ Queue[n] \in ListName \ {"unuse"}
        BY <1>3
    <2>2. z.list[Queue[n]] = g.list[Queue[n]]
        BY <1>6, <1>12, <2>1 DEF Masters, w
    <2> QED BY <1>6, <2>1, <2>2
<1>22. Only(s, z, {t})
    BY <1>18, <1>21, QueuesSame
<1> QED BY <1>2, <1>6, <1>13, <1>20, <1>22 DEF Added, t, z

\* Adding a thread arms c, with its delay, on a thread that was out of use.
LEMMA AddStep ==
    ASSUME NEW s, Sound(s), NEW c \in Callback, NEW delay \in Nat, Adding(s, c, delay)
    PROVE  Added(s, ThreadAdd(s, c, delay), Fresh(s), c, delay)
<1>1. CASE Kind[c] = "TIMER"
    BY <1>1, AddTimer
<1>2. CASE Kind[c] # "TIMER"
    BY <1>2, AddOther
<1> QED BY <1>1, <1>2

----------------------------------------------------------------------------
(* Cancelling some threads: one, the head of a list, all those of an object. *)

Cancelled(s, z, T) ==
    /\ Sound(z) /\ T \subseteq Live(s) /\ Only(s, z, T)
    /\ \A t \in T : z.thread[t] = Unused

Doomed(s, o) == {t \in Live(s) : Arg[s.thread[t].callback] = o}

LEMMA SetToSeqIs ==
    ASSUME NEW S \in SUBSET Thread
    PROVE  LET q == SetToSeq(S) IN
           q \in Seq(Thread) /\ IsInjective(q) /\ {q[i] : i \in 1..Len(q)} = S
<1> DEFINE n == Cardinality(S)
           q == SetToSeq(S)
<1>1. IsFiniteSet(Thread)
    <2>1. MaxThreads \in Int /\ 1 \in Int
        BY ClientAssumption
    <2> QED BY <2>1, FS_Interval DEF Thread
<1>2. IsFiniteSet(S)
    BY <1>1, FS_Subset
<1>3. n \in Nat /\ ExistsBijection(1..n, S)
    BY <1>2, FS_CardinalityType
<1>4. \E f \in [1..n -> S] : IsInjective(f)
    BY <1>3 DEF ExistsBijection, Bijection, Injection, IsInjective
<1>5. q \in [1..n -> S] /\ IsInjective(q)
    BY <1>4 DEF SetToSeq
<1>6. q \in Injection(1..n, S)
    BY <1>5 DEF Injection, IsInjective
<1>7. Cardinality(1..n) = n
    BY <1>3, FS_Interval
<1>8. q \in Surjection(1..n, S)
    BY <1>2, <1>6, <1>7, FS_Injection
<1> HIDE DEF q, n
<1>9. q \in Seq(Thread) /\ Len(q) = n
    BY <1>3, <1>5
<1>10. {q[i] : i \in 1..n} = S
    BY <1>5, <1>8 DEF Surjection
<1> QED BY <1>5, <1>9, <1>10 DEF q


\* thread_cancel_event cancels threads of object o alone, and every event of it.
LEMMA CancelEventStep ==
    ASSUME NEW s, Sound(s), NEW o
    PROVE  \E T \in SUBSET Doomed(s, o) :
              /\ Cancelled(s, CancelEvent(s, o), T)
              /\ \A t \in Doomed(s, o) : Kind[s.thread[t].callback] = "EVENT" => t \in T
<1> DEFINE a == s.list["event"]
           b == s.list["queue_high"]
           q == a \o b
           C == {i \in 1..Len(q) : Arg[s.thread[q[i]].callback] = o}
           T == {q[i] : i \in C}
           z == CancelEvent(s, o)
<1>0. s \in Masters /\ Placed(s) /\ "event" \in ListName /\ "queue_high" \in ListName
    BY Names DEF Sound
<1>1. /\ a \in Seq(Thread) /\ IsInjective(a)
      /\ \A i \in 1..Len(a) : Home(s.thread[a[i]]) = "event" /\ a[i] \in Live(s)
    <2>1. a \in Seq(Thread) /\ IsInjective(a) /\ \A i \in 1..Len(a) : Home(s.thread[a[i]]) = "event"
        BY <1>0, ListIs
    <2>2. ASSUME NEW i \in 1..Len(a) PROVE a[i] \in Live(s)
        <3> DEFINE t == a[i]
        <3>1. t \in Thread /\ Home(s.thread[t]) = "event"
            BY <2>1
        <3> HIDE DEF t
        <3> QED BY <3>1 DEF Live, Home, t
    <2> QED BY <2>1, <2>2
<1>2. /\ b \in Seq(Thread) /\ IsInjective(b)
      /\ \A i \in 1..Len(b) : Home(s.thread[b[i]]) = "queue_high" /\ b[i] \in Live(s)
    <2>1. b \in Seq(Thread) /\ IsInjective(b) /\ \A i \in 1..Len(b) : Home(s.thread[b[i]]) = "queue_high"
        BY <1>0, ListIs
    <2>2. ASSUME NEW i \in 1..Len(b) PROVE b[i] \in Live(s)
        <3> DEFINE t == b[i]
        <3>1. t \in Thread /\ Home(s.thread[t]) = "queue_high"
            BY <2>1
        <3> HIDE DEF t
        <3> QED BY <3>1 DEF Live, Home, t
    <2> QED BY <2>1, <2>2
<1>3. z = CancelEach(s, q, o)
    BY DEF CancelEvent, CancelEach
<1> HIDE DEF a, b
<1>4. /\ q \in Seq(Thread) /\ Len(q) = Len(a) + Len(b) /\ Len(a) \in Nat /\ Len(b) \in Nat
      /\ \A i \in 1..(Len(a) + Len(b)) : q[i] = IF i <= Len(a) THEN a[i] ELSE b[i - Len(a)]
    BY <1>1, <1>2, ConcatProperties, LenProperties
<1> HIDE DEF q, z
<1>5. \A i \in 1..Len(q) : q[i] \in Live(s)
    BY <1>1, <1>2, <1>4, SMTT(30)
<1>6. IsInjective(q)
    <2>1. \A i \in 1..Len(a) : \A j \in 1..Len(b) : a[i] # b[j]
        BY <1>1, <1>2
    <2> QED BY <1>1, <1>2, <2>1, ConcatInjective DEF q
<1>7. Changed(s, z, q, C, [i \in 1..Len(q) |-> Unused])
    BY <1>3, <1>4, <1>5, <1>6, CancelOfAll
<1>8. T \in SUBSET Doomed(s, o)
    BY <1>5 DEF Doomed
<1>9. Cancelled(s, z, T)
    <2>1. Sound(z) /\ Only(s, z, T) /\ \A j \in C : z.thread[q[j]] = Unused
        BY <1>7 DEF Changed
    <2>2. T \subseteq Live(s)
        BY <1>5
    <2>3. \A t \in T : z.thread[t] = Unused
        BY <2>1
    <2> HIDE DEF T
    <2> QED BY <2>1, <2>2, <2>3 DEF Cancelled
<1>10. ASSUME NEW t \in Doomed(s, o), Kind[s.thread[t].callback] = "EVENT" PROVE t \in T
    <2> DEFINE r == s.thread[t]
    <2>1. t \in Thread /\ t \in 1..s.alloc /\ r \in ThreadRecord /\ r.type # "UNUSED"
        BY <1>0, LiveListed, Fields DEF Doomed, Live, Placed
    <2>2. Place(r) = <<"event", 0>> \/ Place(r) = <<"queue_high", 0>>
        <3>1. r.type \in {"EVENT", "QUEUE"} /\ (r.type = "QUEUE" => r.priority = "HIGH")
            BY <1>10, <2>1 DEF Sound, Fits
        <3> HIDE DEF r
        <3> QED BY <3>1, Names DEF Place, Home
    <2>3. At(s, <<"event", 0>>) = a /\ At(s, <<"queue_high", 0>>) = b
        BY DEF At, a, b
    <2>4. \E i \in 1..Len(At(s, Place(r))) : At(s, Place(r))[i] = t
        BY <1>0, <2>1 DEF Placed, PlacedBut
    <2>5. \E i \in 1..Len(q) : q[i] = t
        <3>1. CASE Place(r) = <<"event", 0>>
            <4>1. PICK i \in 1..Len(a) : a[i] = t
                BY <2>3, <2>4, <3>1
            <4>2. i \in 1..Len(q) /\ q[i] = t
                BY <1>4, <4>1
            <4> QED BY <4>2
        <3>2. CASE Place(r) = <<"queue_high", 0>>
            <4>1. PICK i \in 1..Len(b) : b[i] = t
                BY <2>3, <2>4, <3>2
            <4>2. /\ i + Len(a) \in 1..(Len(a) + Len(b)) /\ ~(i + Len(a) <= Len(a))
                  /\ (i + Len(a)) - Len(a) = i
                BY <1>4
            <4>3. i + Len(a) \in 1..Len(q) /\ q[i + Len(a)] = t
                BY <1>4, <4>1, <4>2
            <4> QED BY <4>3
        <3> QED BY <2>2, <3>1, <3>2
    <2> QED BY <2>5 DEF Doomed
<1> QED BY <1>8, <1>9, <1>10 DEF z

\* Client code's pointers f and the threads of s agree.
Pointed(s, f) ==
    /\ \A c \in Kept : f[c] # NoThread => f[c] \in Live(s) /\ s.thread[f[c]].callback = c
    /\ \A t \in Live(s) : s.thread[t].callback \in Kept => f[s.thread[t].callback] = t

\* What client code turns off before it cancels the events of an object.
TurnedOff(f, o) == {c \in Kept : Arg[c] = o /\ Kind[c] # "EVENT" /\ f[c] # NoThread}
Without(s, f, o) == ForEach(ThreadCancel, s, SetToSeq({f[c] : c \in TurnedOff(f, o)}))

LEMMA DestroyStep ==
    ASSUME NEW s, Sound(s), NEW f, Pointed(s, f), NEW o
    PROVE  Cancelled(s, CancelEvent(Without(s, f, o), o), Doomed(s, o))
<1> DEFINE R == {f[c] : c \in TurnedOff(f, o)}
           q == SetToSeq(R)
           y == Without(s, f, o)
           z == CancelEvent(y, o)
<1>1. \A t \in R : t \in Doomed(s, o) /\ Kind[s.thread[t].callback] # "EVENT"
    BY DEF Pointed, TurnedOff, Doomed
<1>2. \A t \in Doomed(s, o) : Kind[s.thread[t].callback] # "EVENT" => t \in R
    <2>1. ASSUME NEW t \in Doomed(s, o), Kind[s.thread[t].callback] # "EVENT" PROVE t \in R
        <3> DEFINE c == s.thread[t].callback
        <3>1. c \in Callback
            BY Fields DEF Sound, Doomed, Live, ThreadRecord
        <3>2. c \in Kept /\ Arg[c] = o /\ t \in Thread /\ t \in Live(s)
            BY <2>1, <3>1, ClientAssumption DEF Doomed, Live
        <3>3. f[c] = t /\ t # NoThread
            BY <3>2, ClientAssumption DEF Pointed
        <3> QED BY <2>1, <3>2, <3>3 DEF TurnedOff
    <2> QED BY <2>1
<1>3. y = ForEach(ThreadCancel, s, q)
    BY DEF Without
<1>4. R \in SUBSET Thread
    BY <1>1 DEF Doomed, Live
<1> HIDE DEF R
<1>5. q \in Seq(Thread) /\ IsInjective(q) /\ {q[i] : i \in 1..Len(q)} = R
    BY <1>4, SetToSeqIs
<1> HIDE DEF q, y
<1>6. \A i \in 1..Len(q) : q[i] \in Live(s)
    BY <1>1, <1>5 DEF Doomed
<1>7. Sound(y) /\ Only(s, y, R) /\ \A t \in R : y.thread[t] = Unused
    <2>1. /\ Sound(y) /\ Only(s, y, {q[j] : j \in 1..Len(q)})
          /\ \A j \in 1..Len(q) : y.thread[q[j]] = Unused
        BY <1>3, <1>5, <1>6, CancelAll
    <2> QED BY <1>5, <2>1
<1>8. \A t \in Thread \ R : y.thread[t] = s.thread[t]
    BY <1>7 DEF Only
<1>9. Doomed(y, o) = Doomed(s, o) \ R
    BY <1>7, <1>8, UnusedType DEF Doomed, Live
<1>10. PICK T \in SUBSET Doomed(y, o) :
          Cancelled(y, z, T) /\ \A t \in Doomed(y, o) : Kind[y.thread[t].callback] = "EVENT" => t \in T
    BY <1>7, CancelEventStep
<1> HIDE DEF z
<1>11. Doomed(s, o) \subseteq R \cup T
    <2>1. ASSUME NEW t \in Doomed(s, o), t \notin R PROVE t \in T
        <3>1. Kind[s.thread[t].callback] = "EVENT" /\ t \in Doomed(y, o) /\ y.thread[t] = s.thread[t]
            BY <1>2, <1>8, <1>9, <2>1 DEF Doomed, Live
        <3> QED BY <1>10, <3>1
    <2> QED BY <2>1
<1>12. R \cup T = Doomed(s, o) /\ T \cap R = {}
    BY <1>1, <1>9, <1>10, <1>11
<1>13. Only(s, z, R \cup T)
    BY <1>7, <1>10, OnlyMore DEF Cancelled
<1>14. Only(s, z, Doomed(s, o))
    BY <1>12, <1>13
<1>15. \A t \in Doomed(s, o) : z.thread[t] = Unused
    <2>1. ASSUME NEW t \in R PROVE z.thread[t] = Unused
        <3>1. t \in Thread \ T
            BY <1>4, <1>12
        <3>2. z.thread[t] = y.thread[t]
            BY <1>10, <3>1 DEF Cancelled, Only
        <3> QED BY <1>7, <3>2
    <2>2. \A t \in T : z.thread[t] = Unused
        BY <1>10 DEF Cancelled
    <2> QED BY <1>12, <2>1, <2>2
<1>16. Doomed(s, o) \subseteq Live(s)
    BY DEF Doomed
<1>17. Cancelled(s, z, Doomed(s, o))
    BY <1>10, <1>14, <1>15, <1>16 DEF Cancelled
<1> QED BY <1>17 DEF z, y

----------------------------------------------------------------------------
(* What the three kinds of step keep of client code's pointers.             *)

LEMMA LiveAdded ==
    ASSUME NEW s, NEW z, NEW t, NEW c \in Callback, NEW delay, Added(s, z, t, c, delay)
    PROVE  Live(z) = Live(s) \cup {t} /\ t \notin Live(s) /\ t \in Thread
           /\ \A u \in Thread \ {t} : z.thread[u] = s.thread[u]
BY ClientAssumption, Names DEF Live, Added, Only

LEMMA LiveCancelled ==
    ASSUME NEW s, NEW z, NEW T, Cancelled(s, z, T)
    PROVE  Live(z) = Live(s) \ T /\ \A u \in Thread \ T : z.thread[u] = s.thread[u]
BY UnusedType DEF Live, Cancelled, Only

LEMMA LiveRequeued ==
    ASSUME NEW s, NEW z, NEW P, Requeued(s, z, P)
    PROVE  /\ Live(z) = Live(s)
           /\ \A u \in Live(s) : z.thread[u].callback = s.thread[u].callback
                                 /\ z.thread[u].left = s.thread[u].left
BY QueuedIs DEF Live, Requeued

LEMMA PointedFree ==
    ASSUME NEW s, NEW f, Pointed(s, f), NEW c \in Kept, f[c] = NoThread
    PROVE  \A u \in Live(s) : s.thread[u].callback # c
<1>1. \A u \in Live(s) : u # NoThread
    BY ClientAssumption DEF Live
<1> QED BY <1>1 DEF Pointed

LEMMA PointedAdded ==
    ASSUME NEW s, NEW z, NEW t, NEW c \in Callback, NEW delay, Added(s, z, t, c, delay),
           NEW f, Pointed(s, f), c \in Kept => f[c] = NoThread
    PROVE  Pointed(z, [e \in Kept |-> IF e = c THEN t ELSE f[e]])
<1>1. Live(z) = Live(s) \cup {t} /\ t \notin Live(s) /\ t \in Thread
      /\ \A u \in Thread \ {t} : z.thread[u] = s.thread[u]
    BY LiveAdded
<1>2. \A u \in Live(s) : z.thread[u] = s.thread[u]
    BY <1>1 DEF Live
<1>3. z.thread[t].callback = c
    BY DEF Added
<1>4. c \in Kept => \A u \in Live(s) : s.thread[u].callback # c
    BY PointedFree
<1> QED BY <1>1, <1>2, <1>3, <1>4 DEF Pointed

LEMMA PointedCancelled ==
    ASSUME NEW s, NEW z, NEW T, Cancelled(s, z, T), NEW f, NEW g, Pointed(s, f),
           \A c \in Kept : IF f[c] \in T THEN g[c] = NoThread ELSE g[c] \in {f[c], NoThread},
           \A t \in Live(s) \ T : s.thread[t].callback \in Kept =>
                g[s.thread[t].callback] = f[s.thread[t].callback]
    PROVE  Pointed(z, g)
<1>1. Live(z) = Live(s) \ T /\ \A u \in Thread \ T : z.thread[u] = s.thread[u]
    BY LiveCancelled
<1>2. \A u \in Live(z) : z.thread[u] = s.thread[u]
    BY <1>1 DEF Live
<1> QED BY <1>1, <1>2 DEF Pointed

LEMMA PointedRequeued ==
    ASSUME NEW s, NEW z, NEW P, Requeued(s, z, P), NEW f, Pointed(s, f)
    PROVE  Pointed(z, f)
BY LiveRequeued DEF Pointed

----------------------------------------------------------------------------
(* Sleeping.                                                               *)

Wakes(s, d) == \A t \in Thread : s.thread[t].type = "TIMER" => d # Forever /\ d <= s.thread[t].left

LEMMA TimerWaitIs ==
    ASSUME NEW s, Sound(s)
    PROVE  TimerWait(s) \in Nat \cup {Forever} /\ Wakes(s, TimerWait(s))
<1> DEFINE J == {j \in Slot : s.timer[j] # <<>>}
           heads == {Head(s.timer[i]) : i \in J}
           lefts == {s.thread[t].left : t \in heads}
<1>1. s \in Masters /\ Placed(s) /\ Sorted(s)
    BY DEF Sound
<1>2. ASSUME NEW i \in J
      PROVE  /\ 1 \in 1..Len(s.timer[i]) /\ Head(s.timer[i]) = s.timer[i][1]
             /\ s.timer[i][1] \in Thread /\ s.thread[s.timer[i][1]].left \in Nat
    <2>1. i \in Slot /\ s.timer[i] \in Seq(Thread) /\ s.timer[i] # <<>>
        BY <1>1, <1>2, TimerPlace
    <2>2. 1 \in 1..Len(s.timer[i]) /\ Head(s.timer[i]) = s.timer[i][1] /\ s.timer[i][1] \in Thread
        BY <2>1
    <2> QED BY <1>1, <2>2, Fields DEF ThreadRecord
<1>3. lefts \in SUBSET Nat
    BY <1>2, SMTT(30)
<1>4. ASSUME NEW t \in Thread, s.thread[t].type = "TIMER"
      PROVE  \E x \in lefts : x <= s.thread[t].left
    <2> DEFINE i == s.thread[t].slot
    <2>1. t \in Live(s)
        BY <1>4 DEF Live
    <2>2. t \in 1..s.alloc /\ i \in Slot /\ Place(s.thread[t]) = <<"timer", i>>
        BY <1>1, <1>4, <2>1, LiveListed, Fields DEF Place, ThreadRecord, Placed
    <2>3. At(s, <<"timer", i>>) = s.timer[i] /\ s.timer[i] \in Seq(Thread)
        BY <1>1, <2>2, TimerPlace
    <2>4. PICK n \in 1..Len(s.timer[i]) : s.timer[i][n] = t
        BY <1>1, <2>2, <2>3 DEF Placed, PlacedBut
    <2>5. i \in J
        BY <2>2, <2>4
    <2>6. s.thread[s.timer[i][1]].left <= s.thread[s.timer[i][n]].left
        <3>1. 1 \in 1..Len(s.timer[i]) /\ 1 <= n
            BY <1>2, <2>4, <2>5
        <3> QED BY <1>1, <2>2, <2>4, <3>1 DEF Sorted
    <2> DEFINE x == s.thread[Head(s.timer[i])].left
    <2>7. x \in lefts
        BY <2>5
    <2>8. x <= s.thread[t].left
        BY <1>2, <2>4, <2>5, <2>6
    <2> QED BY <2>7, <2>8
<1>5. CASE heads = {}
    <2>1. lefts = {} /\ TimerWait(s) = Forever
        BY <1>5 DEF TimerWait
    <2> QED BY <1>4, <2>1 DEF Wakes
<1>6. CASE heads # {}
    <2>1. lefts # {} /\ TimerWait(s) = Min(lefts)
        BY <1>6 DEF TimerWait
    <2> HIDE DEF lefts
    <2>2. Min(lefts) \in lefts /\ \A y \in lefts : Min(lefts) <= y
        BY <1>3, <2>1, MinIs
    <2>3. TimerWait(s) \in Nat /\ \A y \in lefts : TimerWait(s) <= y
        BY <1>3, <2>1, <2>2
    <2>4. TimerWait(s) # Forever
        BY <2>3 DEF Forever
    <2>5. ASSUME NEW t \in Thread, s.thread[t].type = "TIMER"
          PROVE  TimerWait(s) <= s.thread[t].left
        <3>1. PICK x \in lefts : x <= s.thread[t].left
            BY <1>4, <2>5
        <3>2. s.thread[t].left \in Nat /\ x \in Nat /\ TimerWait(s) <= x
            BY <1>1, <1>3, <2>3, Fields DEF ThreadRecord
        <3> QED BY <2>3, <3>1, <3>2
    <2> QED BY <2>3, <2>4, <2>5 DEF Wakes
<1> QED BY <1>5, <1>6

LEMMA QueuedListed ==
    ASSUME NEW s, Sound(s), NEW t \in Thread, s.thread[t].type = "QUEUE"
    PROVE  /\ s.thread[t].priority \in DOMAIN Queue
           /\ \E i \in 1..Len(s.list[Queue[s.thread[t].priority]]) :
                 s.list[Queue[s.thread[t].priority]][i] = t
<1> DEFINE p == s.thread[t].priority
<1>1. s \in Masters /\ Placed(s) /\ t \in Live(s)
    BY DEF Sound, Live
<1>2. t \in 1..s.alloc /\ p \in DOMAIN Queue /\ Place(s.thread[t]) = <<Queue[p], 0>>
    BY <1>1, LiveListed, Fields DEF Place, Home, ThreadRecord, Placed
<1>3. At(s, <<Queue[p], 0>>) = s.list[Queue[p]]
    BY <1>1, <1>2, QueuePlace
<1> QED BY <1>1, <1>2, <1>3 DEF Placed, PlacedBut

LEMMA QueueMembers ==
    ASSUME NEW s, Sound(s), NEW p \in DOMAIN Queue
    PROVE  /\ s.list[Queue[p]] \in Seq(Thread) /\ IsInjective(s.list[Queue[p]])
           /\ \A i \in 1..Len(s.list[Queue[p]]) :
                 s.thread[s.list[Queue[p]][i]].type = "QUEUE"
                 /\ s.thread[s.list[Queue[p]][i]].priority = p
<1> DEFINE q == s.list[Queue[p]]
<1>1. s \in Masters /\ Queue[p] \in ListName
    BY QueuePlace DEF Sound
<1>2. q \in Seq(Thread) /\ IsInjective(q)
      /\ \A i \in 1..Len(q) : s.thread[q[i]].type # "TIMER" /\ Home(s.thread[q[i]]) = Queue[p]
    BY <1>1, ListIs
<1>3. ASSUME NEW i \in 1..Len(q)
      PROVE  s.thread[q[i]].type = "QUEUE" /\ s.thread[q[i]].priority = p
    <2> DEFINE r == s.thread[q[i]]
    <2>1. r \in ThreadRecord /\ Home(r) = Queue[p] /\ r.type # "TIMER"
        BY <1>1, <1>2, Fields
    <2> HIDE DEF r
    <2> QED BY <2>1, Names, ZenonT(30) DEF Home, ThreadRecord, r
<1> QED BY <1>2, <1>3

LEMMA IdleQueues ==
    ASSUME NEW s, Sound(s), \A p \in DOMAIN Queue : s.list[Queue[p]] = <<>>
    PROVE  \A t \in Thread : s.thread[t].type # "QUEUE"
BY QueuedListed

\* What is queued when the loop collects is not of low priority.
LEMMA NoLow ==
    ASSUME NEW s, Sound(s), \A t \in Thread : s.thread[t].type # "QUEUE", NEW z,
           Requeued(s, z, {"HIGH", "MIDDLE"})
    PROVE  z.list["queue_low"] = <<>>
<1>1. Sound(z) /\ "LOW" \in DOMAIN Queue /\ Queue["LOW"] = "queue_low"
    BY Names DEF Requeued
<1> DEFINE q == z.list["queue_low"]
<1>2. q \in Seq(Thread) /\ \A i \in 1..Len(q) : z.thread[q[i]].type = "QUEUE" /\ z.thread[q[i]].priority = "LOW"
    BY <1>1, QueueMembers
<1>3. ASSUME q # <<>> PROVE FALSE
    <2>1. 1 \in 1..Len(q) /\ q[1] \in Thread
        BY <1>2, <1>3
    <2> QED BY <1>2, <2>1, QueuedIs DEF Requeued
<1> QED BY <1>3

----------------------------------------------------------------------------
(* Time passes.                                                            *)

Ticked(s, z) ==
    /\ z.list = s.list /\ z.timer = s.timer /\ z.alloc = s.alloc
    /\ z.readfd = s.readfd /\ z.writefd = s.writefd
    /\ \A t \in Thread :
          z.thread[t] = [s.thread[t] EXCEPT !.left = IF s.thread[t].left > 0 THEN s.thread[t].left - 1 ELSE 0]

LEMMA TickedIs ==
    ASSUME NEW s \in Masters, NEW z, Ticked(s, z), NEW t \in Thread
    PROVE  LET r == s.thread[t]
               v == z.thread[t] IN
           /\ v \in ThreadRecord /\ v.type = r.type /\ v.priority = r.priority /\ v.slot = r.slot
           /\ v.callback = r.callback /\ v.left = (IF r.left > 0 THEN r.left - 1 ELSE 0)
           /\ Place(v) = Place(r) /\ r \in ThreadRecord
<1>1. s.thread[t] \in ThreadRecord
    BY Fields
<1>2. z.thread[t] = [s.thread[t] EXCEPT !.left = IF s.thread[t].left > 0 THEN s.thread[t].left - 1 ELSE 0]
    BY DEF Ticked
<1> DEFINE r == s.thread[t]
           v == z.thread[t]
<1> HIDE DEF r, v
<1>3. r \in ThreadRecord /\ v = [r EXCEPT !.left = IF r.left > 0 THEN r.left - 1 ELSE 0]
    BY <1>1, <1>2 DEF r, v
<1>4. /\ v \in ThreadRecord /\ v.type = r.type /\ v.priority = r.priority /\ v.slot = r.slot
      /\ v.callback = r.callback /\ v.left = (IF r.left > 0 THEN r.left - 1 ELSE 0)
    BY <1>3 DEF ThreadRecord
<1>5. Place(v) = Place(r)
    BY <1>4 DEF Place, Home
<1> QED BY <1>3, <1>4, <1>5 DEF r, v

LEMMA TickSound ==
    ASSUME NEW s, Sound(s), NEW z \in Masters, Ticked(s, z)
    PROVE  Sound(z) /\ Live(z) = Live(s)
<1>1. s \in Masters /\ Placed(s) /\ Sorted(s) /\ Fits(s) /\ Watching(s) /\ Single(s)
    BY DEF Sound
<1>2. /\ z.list = s.list /\ z.timer = s.timer /\ z.alloc = s.alloc
      /\ z.readfd = s.readfd /\ z.writefd = s.writefd
    BY DEF Ticked
<1>3. ASSUME NEW t \in Thread
      PROVE  /\ z.thread[t].type = s.thread[t].type /\ z.thread[t].priority = s.thread[t].priority
             /\ z.thread[t].callback = s.thread[t].callback
             /\ z.thread[t].left = (IF s.thread[t].left > 0 THEN s.thread[t].left - 1 ELSE 0)
             /\ Place(z.thread[t]) = Place(s.thread[t]) /\ s.thread[t].left \in Nat
    BY <1>1, TickedIs DEF ThreadRecord
<1>4. Placed(z)
    <2>1. \A h \in Places : At(z, h) = At(s, h)
        BY <1>1, <1>2, SamePlaces
    <2>2. \A t \in 1..s.alloc : t \in Thread /\ Place(s.thread[t]) \in Places
        BY <1>1, Fields
    <2>3. \A h \in Places : \A i \in 1..Len(At(z, h)) :
              At(z, h)[i] \in 1..z.alloc /\ Place(z.thread[At(z, h)[i]]) = h
        <3> SUFFICES ASSUME NEW h \in Places, NEW i \in 1..Len(At(s, h))
                     PROVE  At(s, h)[i] \in 1..s.alloc /\ Place(z.thread[At(s, h)[i]]) = h
            BY <1>2, <2>1
        <3>1. At(s, h)[i] \in 1..s.alloc /\ Place(s.thread[At(s, h)[i]]) = h
            BY <1>1 DEF Placed, PlacedBut
        <3> QED BY <1>3, <2>2, <3>1
    <2>4. \A h \in Places : IsInjective(At(z, h))
        BY <1>1, <2>1 DEF Placed, PlacedBut
    <2>5. ASSUME NEW t \in 1..z.alloc
          PROVE  \E i \in 1..Len(At(z, Place(z.thread[t]))) : At(z, Place(z.thread[t]))[i] = t
        <3>1. t \in 1..s.alloc /\ t \in Thread /\ Place(s.thread[t]) \in Places
            BY <1>2, <2>2
        <3>2. \E i \in 1..Len(At(s, Place(s.thread[t]))) : At(s, Place(s.thread[t]))[i] = t
            BY <1>1, <3>1 DEF Placed, PlacedBut
        <3> QED BY <1>3, <2>1, <3>1, <3>2
    <2>6. \A t \in Thread : t > z.alloc => z.thread[t].type = "UNUSED"
        BY <1>1, <1>2, <1>3 DEF Placed, PlacedBut
    <2> QED BY <2>3, <2>4, <2>5, <2>6 DEF Placed, PlacedBut
<1>5. Sorted(z)
    <2> SUFFICES ASSUME NEW n \in Slot, NEW a \in 1..Len(s.timer[n]), NEW b \in 1..Len(s.timer[n]), a <= b
                 PROVE  z.thread[s.timer[n][a]].left <= z.thread[s.timer[n][b]].left
        BY <1>2 DEF Sorted
    <2>1. s.timer[n] \in Seq(Thread)
        BY <1>1, TimerPlace
    <2>2. s.timer[n][a] \in Thread /\ s.timer[n][b] \in Thread
        BY <2>1
    <2>3. s.thread[s.timer[n][a]].left <= s.thread[s.timer[n][b]].left
        BY <1>1 DEF Sorted
    <2>4. ASSUME NEW t \in Thread, NEW u \in Thread, s.thread[t].left <= s.thread[u].left
          PROVE  z.thread[t].left <= z.thread[u].left
        BY <1>3, <2>4
    <2> QED BY <2>2, <2>3, <2>4
<1>6. Fits(z)
    BY <1>1, <1>3 DEF Fits
<1>7. Readers(z) = Readers(s) /\ Writers(z) = Writers(s) /\ Live(z) = Live(s)
    BY <1>3 DEF Readers, Writers, Live
<1>8. \A t \in Readers(s) \cup Writers(s) \cup Live(s) : z.thread[t].callback = s.thread[t].callback
    BY <1>3 DEF Readers, Writers, Live
<1>9. Watching(z)
    BY <1>1, <1>2, <1>7, <1>8 DEF Watching
<1>10. Single(z)
    BY <1>1, <1>7, <1>8 DEF Single
<1> QED BY <1>4, <1>5, <1>6, <1>7, <1>9, <1>10 DEF Sound

----------------------------------------------------------------------------
(* The inductive invariant.                                                *)

\* No thread is queued with a low priority while select sleeps, and select wakes
\* before the first timer is due.
Sleeping ==
    timeout # Awake =>
        running = Nobody /\ list["queue_low"] = <<>> /\ Wakes(State, timeout)

Types ==
    /\ ref \in [Kept -> Thread \cup {NoThread}] /\ objects \subseteq Object
    /\ running \in Callback \cup {Main, Nobody}
    /\ timeout \in Nat \cup {Awake, Forever}

IInv == Sound(State) /\ Pointed(State, ref) /\ Types /\ Sleeping

LEMMA Primed ==
    ASSUME NEW z \in Masters, Becomes(z)
    PROVE  State' = z
<1>1. z = [list |-> z.list, timer |-> z.timer, thread |-> z.thread, index |-> z.index,
           alloc |-> z.alloc, readfd |-> z.readfd, writefd |-> z.writefd]
    BY DEF Masters
<1>2. State' = [list |-> z.list, timer |-> z.timer, thread |-> z.thread, index |-> z.index,
                alloc |-> z.alloc, readfd |-> z.readfd, writefd |-> z.writefd]
    BY DEF Becomes, State
<1> QED BY <1>1, <1>2

LEMMA Parts ==
    /\ State.list = list /\ State.timer = timer /\ State.thread = thread /\ State.index = index
    /\ State.alloc = alloc /\ State.readfd = readfd /\ State.writefd = writefd
BY DEF State

LEMMA OnStep ==
    ASSUME IInv, NEW c \in Callback, NEW delay \in Delays \cup {0}, On(c, delay)
    PROVE  Added(State, State', Fresh(State), c, delay)
<1>1. PICK s : s = State
    OBVIOUS
<1>2. Sound(s) /\ Pointed(s, ref)
    BY <1>1 DEF IInv
<1>3. /\ (c \in Kept => ref[c] = NoThread) /\ (Kind[c] # "TIMER" => delay = 0)
      /\ ~Refused(s, c) /\ Becomes(ThreadAdd(s, c, delay))
    BY <1>1 DEF On
<1>4. delay \in Nat
    BY ClientAssumption
<1>5. Adding(s, c, delay)
    BY <1>2, <1>3, PointedFree DEF Adding
<1>6. Added(s, ThreadAdd(s, c, delay), Fresh(s), c, delay)
    BY <1>2, <1>4, <1>5, AddStep
<1>7. PICK z : z = ThreadAdd(s, c, delay)
    OBVIOUS
<1>8. Becomes(z) /\ z \in Masters /\ Added(s, z, Fresh(s), c, delay)
    BY <1>3, <1>6, <1>7 DEF Added, Sound
<1>9. State' = z
    BY <1>8, Primed
<1> QED BY <1>1, <1>8, <1>9

LEMMA OffStep ==
    ASSUME IInv, NEW c \in Kept, Off(c)
    PROVE  Cancelled(State, State', {ref[c]})
<1>1. PICK s : s = State
    OBVIOUS
<1>2. PICK t : t = ref[c]
    OBVIOUS
<1>3. PICK z : z = ThreadCancel(s, t)
    OBVIOUS
<1>4. Sound(s) /\ Pointed(s, ref) /\ t # NoThread /\ Becomes(z)
    BY <1>1, <1>2, <1>3 DEF IInv, Off
<1>5. t \in Live(s)
    BY <1>2, <1>4 DEF Pointed
<1>6. Sound(z) /\ Only(s, z, {t}) /\ z.thread[t] = Unused
    BY <1>3, <1>4, <1>5, CancelStep
<1>7. Cancelled(s, z, {t})
    BY <1>5, <1>6 DEF Cancelled
<1>8. State' = z
    BY <1>4, <1>6, Primed DEF Sound
<1> QED BY <1>1, <1>2, <1>7, <1>8

LEMMA DestroyIs ==
    ASSUME IInv, NEW o \in Object, Destroy(o)
    PROVE  Cancelled(State, State', Doomed(State, o))
<1>1. PICK s : s = State
    OBVIOUS
<1>2. PICK z : z = CancelEvent(Without(s, ref, o), o)
    OBVIOUS
<1>3. Sound(s) /\ Pointed(s, ref)
    BY <1>1 DEF IInv
<1>4. Becomes(z)
    BY <1>1, <1>2 DEF Destroy, Without, TurnedOff
<1>5. Cancelled(s, z, Doomed(s, o))
    BY <1>2, <1>3, DestroyStep
<1>6. State' = z
    BY <1>4, <1>5, Primed DEF Cancelled, Sound
<1> QED BY <1>1, <1>5, <1>6

LEMMA FetchIs ==
    ASSUME IInv, Fetch
    PROVE  \E t \in Live(State) :
              /\ Cancelled(State, State', {t}) /\ State.thread[t].left = 0
              /\ running' = State.thread[t].callback /\ running = Nobody /\ timeout = Awake
              /\ ref' = [e \in Kept |-> IF e = State.thread[t].callback THEN NoThread ELSE ref[e]]
              /\ UNCHANGED <<objects, timeout>>
<1>1. PICK i \in DOMAIN Ready :
          LET c == thread[Head(list[Ready[i]])].callback IN
          /\ list[Ready[i]] # <<>>
          /\ Becomes(FetchFrom(State, Ready[i]))
          /\ running' = c
          /\ ref' = [e \in Kept |-> IF e = c THEN NoThread ELSE ref[e]]
    BY DEF Fetch
<1>2. PICK s : s = State
    OBVIOUS
<1>3. PICK l : l = Ready[i]
    OBVIOUS
<1>4. PICK z : z = FetchFrom(s, l)
    OBVIOUS
<1>5. PICK t : t = Head(s.list[l])
    OBVIOUS
<1>6. l \in {"read_pend", "queue_high", "queue_middle", "queue_low"}
    BY <1>3 DEF Ready
<1>7. Sound(s) /\ s.list[l] # <<>> /\ Becomes(z)
    BY <1>1, <1>2, <1>3, <1>4, Parts DEF IInv
<1>8. t \in Live(s) /\ s.thread[t].left = 0 /\ Sound(z) /\ Only(s, z, {t}) /\ z.thread[t] = Unused
    BY <1>4, <1>5, <1>6, <1>7, FetchStep
<1>9. Cancelled(s, z, {t})
    BY <1>8 DEF Cancelled
<1>10. State' = z
    BY <1>7, <1>8, Primed DEF Sound
<1>11. /\ running' = s.thread[t].callback
       /\ ref' = [e \in Kept |-> IF e = s.thread[t].callback THEN NoThread ELSE ref[e]]
    BY <1>1, <1>2, <1>3, <1>5, Parts
<1>12. running = Nobody /\ timeout = Awake /\ UNCHANGED <<objects, timeout>>
    BY DEF Fetch
<1> QED BY <1>2, <1>8, <1>9, <1>10, <1>11, <1>12

LEMMA CollectIs ==
    ASSUME IInv, Collect
    PROVE  /\ Requeued(State, State', {"HIGH", "MIDDLE"})
           /\ \A t \in Thread : State.thread[t].type # "QUEUE"
           /\ list'["queue_low"] = <<>>
           /\ timeout' \in Nat \cup {Forever} /\ Wakes(State', timeout') /\ running = Nobody
           /\ UNCHANGED <<ref, objects, running>>
<1>1. PICK s : s = State
    OBVIOUS
<1>2. PICK z : z = CollectInto(s)
    OBVIOUS
<1>3. Sound(s) /\ Becomes(z) /\ \A p \in DOMAIN Queue : s.list[Queue[p]] = <<>>
    <2>1. \A p \in DOMAIN Queue : \E i \in DOMAIN Ready : Queue[p] = Ready[i]
        <3>1. /\ 2 \in DOMAIN Ready /\ 3 \in DOMAIN Ready /\ 4 \in DOMAIN Ready
              /\ Ready[2] = "queue_high" /\ Ready[3] = "queue_middle" /\ Ready[4] = "queue_low"
            BY DEF Ready
        <3> QED BY <3>1, Names
    <2> QED BY <1>1, <1>2, <2>1, Parts DEF IInv, Collect, Idle
<1>4. Requeued(s, z, {"HIGH", "MIDDLE"})
    BY <1>2, <1>3, CollectRequeued
<1>5. Sound(z) /\ State' = z
    BY <1>3, <1>4, Primed DEF Requeued, Sound
<1>6. \A t \in Thread : s.thread[t].type # "QUEUE"
    BY <1>3, IdleQueues
<1>7. z.list["queue_low"] = <<>>
    BY <1>3, <1>4, <1>6, NoLow
<1>8. timeout' = IF \E p \in DOMAIN Queue : z.list[Queue[p]] # <<>> THEN 0 ELSE TimerWait(z)
    BY <1>1, <1>2 DEF Collect
<1>9. timeout' \in Nat \cup {Forever} /\ Wakes(z, timeout')
    <2>1. Wakes(z, 0)
        BY <1>5, Fields DEF Wakes, Forever, Sound, ThreadRecord
    <2>2. TimerWait(z) \in Nat \cup {Forever} /\ Wakes(z, TimerWait(z))
        BY <1>5, TimerWaitIs
    <2> QED BY <1>8, <2>1, <2>2
<1>10. list' = z.list
    BY <1>3 DEF Becomes
<1> QED BY <1>1, <1>4, <1>5, <1>6, <1>7, <1>9, <1>10 DEF Collect, Idle

LEMMA SelectIs ==
    ASSUME IInv, NEW r, NEW w, Select(r, w)
    PROVE  /\ Requeued(State, State', {"MIDDLE", "LOW"})
           /\ State.list["queue_low"] = <<>> /\ timeout' = Awake
           /\ UNCHANGED <<ref, objects, running>>
<1>1. PICK s : s = State
    OBVIOUS
<1>2. PICK z : z = LowEvent(ProcessFd(ProcessFd(ProcessFd(s, "read_high", r), "read", r), "write", w))
    OBVIOUS
<1>3. Sound(s) /\ Becomes(z)
    BY <1>1, <1>2 DEF IInv, Select
<1>4. Requeued(s, z, {"MIDDLE", "LOW"})
    BY <1>2, <1>3, SelectRequeued
<1>5. State' = z
    BY <1>3, <1>4, Primed DEF Requeued, Sound
<1>6. State.list["queue_low"] = <<>>
    BY Parts DEF IInv, Sleeping, Select
<1> QED BY <1>1, <1>4, <1>5, <1>6 DEF Select

LEMMA TickIs ==
    ASSUME IInv, Tick
    PROVE  Sound(State') /\ Ticked(State, State')
<1>1. PICK s : s = State
    OBVIOUS
<1>2. PICK z : z = State'
    OBVIOUS
<1>3. Sound(s) /\ s \in Masters
    BY <1>1 DEF IInv, Sound
<1>4. /\ z.list = s.list /\ z.timer = s.timer /\ z.alloc = s.alloc /\ z.index = s.index
      /\ z.readfd = s.readfd /\ z.writefd = s.writefd
      /\ z.thread = [t \in Thread |-> [s.thread[t] EXCEPT !.left =
                        IF s.thread[t].left > 0 THEN s.thread[t].left - 1 ELSE 0]]
      /\ z = [list |-> z.list, timer |-> z.timer, thread |-> z.thread, index |-> z.index,
              alloc |-> z.alloc, readfd |-> z.readfd, writefd |-> z.writefd]
    BY <1>1, <1>2 DEF Tick, State
<1>5. Ticked(s, z)
    BY <1>4 DEF Ticked
<1>6. z.thread \in [Thread -> ThreadRecord]
    <2>1. \A t \in Thread : z.thread[t] \in ThreadRecord
        BY <1>3, <1>5, TickedIs
    <2> QED BY <1>4, <2>1
<1>7. z \in Masters
    BY <1>3, <1>4, <1>6 DEF Masters
<1>8. Sound(z)
    BY <1>3, <1>5, <1>7, TickSound
<1> QED BY <1>1, <1>2, <1>5, <1>8


LEMMA InitIInv == Init => IInv
<1> SUFFICES ASSUME Init PROVE IInv
    OBVIOUS
<1>1. PICK s : s = State
    OBVIOUS
<1>2. /\ s.list = [l \in ListName |-> <<>>] /\ s.timer = [i \in Slot |-> <<>>]
      /\ s.thread = [t \in Thread |-> Unused] /\ s.index = 1 /\ s.alloc = 0
      /\ s.readfd = {} /\ s.writefd = {}
    BY <1>1, Parts DEF Init
<1>3. s \in Masters
    <2>1. 1 \in Slot /\ 0 \in 0..MaxThreads
        BY ClientAssumption DEF Slot
    <2>2. s = [list |-> s.list, timer |-> s.timer, thread |-> s.thread, index |-> s.index,
               alloc |-> s.alloc, readfd |-> s.readfd, writefd |-> s.writefd]
        BY <1>1 DEF State
    <2>3. s.list \in [ListName -> Seq(Thread)] /\ s.timer \in [Slot -> Seq(Thread)]
        BY <1>2
    <2>4. s.thread \in [Thread -> ThreadRecord]
        BY <1>2, UnusedType
    <2> QED BY <1>2, <2>1, <2>2, <2>3, <2>4 DEF Masters
<1>4. \A t \in Thread : s.thread[t].type = "UNUSED" /\ s.thread[t].left = 0
    BY <1>2, UnusedType
<1>5. \A h \in Places : At(s, h) = <<>>
    BY <1>2, Names DEF At, Places
<1>6. Placed(s)
    <2>1. \A h \in Places : IsInjective(At(s, h)) /\ 1..Len(At(s, h)) = {}
        BY <1>5 DEF IsInjective
    <2>2. 1..s.alloc = {}
        BY <1>2
    <2> QED BY <1>4, <2>1, <2>2 DEF Placed, PlacedBut
<1>7. Sorted(s)
    <2>1. \A i \in Slot : 1..Len(s.timer[i]) = {}
        BY <1>2
    <2> QED BY <2>1 DEF Sorted
<1>8. Readers(s) = {} /\ Writers(s) = {} /\ Live(s) = {}
    BY <1>4 DEF Readers, Writers, Live
<1>9. Fits(s) /\ Watching(s) /\ Single(s)
    BY <1>2, <1>4, <1>8 DEF Fits, Watching, Single
<1>10. Sound(s)
    BY <1>3, <1>6, <1>7, <1>9 DEF Sound
<1>11. Pointed(s, ref)
    BY <1>8 DEF Init, Pointed
<1>12. Types
    BY DEF Init, Types
<1>13. Sleeping
    BY DEF Init, Sleeping
<1> QED BY <1>1, <1>10, <1>11, <1>12, <1>13 DEF IInv

LEMMA PointedOff ==
    ASSUME NEW s, NEW z, NEW T, Cancelled(s, z, T), NEW f, Pointed(s, f), NEW D \in SUBSET Kept,
           \A t \in Live(s) : s.thread[t].callback \in Kept =>
                (t \in T <=> s.thread[t].callback \in D)
    PROVE  Pointed(z, [c \in Kept |-> IF c \in D THEN NoThread ELSE f[c]])
<1> DEFINE g == [c \in Kept |-> IF c \in D THEN NoThread ELSE f[c]]
<1>1. ASSUME NEW c \in Kept
      PROVE  IF f[c] \in T THEN g[c] = NoThread ELSE g[c] \in {f[c], NoThread}
    <2>1. CASE f[c] \in T
        <3>1. f[c] \in Live(s) /\ f[c] # NoThread
            BY <2>1, ClientAssumption DEF Cancelled, Live
        <3>2. s.thread[f[c]].callback = c
            BY <3>1 DEF Pointed
        <3> QED BY <2>1, <3>1, <3>2
    <2>2. CASE f[c] \notin T
        BY <2>2
    <2> QED BY <2>1, <2>2
<1>2. \A t \in Live(s) \ T : s.thread[t].callback \in Kept => g[s.thread[t].callback] = f[s.thread[t].callback]
    OBVIOUS
<1> HIDE DEF g
<1>3. Pointed(z, g)
    BY <1>1, <1>2, PointedCancelled
<1> QED BY <1>3 DEF g

LEMMA NextIInv == IInv /\ [Next]_vars => IInv'
<1> SUFFICES ASSUME IInv, [Next]_vars PROVE IInv'
    OBVIOUS
<1>0. PICK s : s = State
    OBVIOUS
<1>1. PICK z : z = State'
    OBVIOUS
<1>2. Sound(s) /\ Pointed(s, ref) /\ Types /\ Sleeping /\ s \in Masters
    BY <1>0 DEF IInv, Sound
<1>3. Awake \notin Nat /\ Forever \notin Nat /\ Awake # Forever /\ Nobody # Main /\ Nobody \notin Callback
    BY ClientAssumption DEF Awake, Forever
<1>4. Sound(z) /\ Pointed(z, ref') /\ Types' /\ (Sleeping') => IInv'
    BY <1>1 DEF IInv
<1>5. timeout' = Awake => Sleeping'
    BY DEF Sleeping
<1>6. Calls => timeout = Awake /\ timeout' = Awake /\ running' = running
    BY <1>2 DEF Sleeping, Calls
<1>7. ASSUME NEW c \in Callback, NEW delay \in Delays \cup {0}, On(c, delay)
      PROVE  IInv'
    <2> DEFINE t == Fresh(s)
    <2>1. Added(s, z, t, c, delay)
        BY <1>0, <1>1, <1>7, OnStep
    <2>2. ref' = [e \in Kept |-> IF e = c THEN t ELSE ref[e]] /\ (c \in Kept => ref[c] = NoThread)
          /\ objects' = objects /\ Calls
        BY <1>0, <1>7 DEF On
    <2> HIDE DEF t
    <2>3. Pointed(z, ref')
        BY <1>2, <2>1, <2>2, PointedAdded
    <2>4. Sound(z) /\ t \in Thread
        BY <2>1 DEF Added
    <2>5. Types'
        BY <1>2, <1>6, <2>2, <2>4 DEF Types
    <2> QED BY <1>4, <1>5, <1>6, <2>2, <2>3, <2>4, <2>5
<1>8. ASSUME NEW c \in Callback, Off(c)
      PROVE  IInv'
    <2>1. c \in Kept /\ ref[c] # NoThread /\ ref' = [ref EXCEPT ![c] = NoThread] /\ objects' = objects /\ Calls
        BY <1>8 DEF Off
    <2>2. PICK t : t = ref[c]
        OBVIOUS
    <2>3. Cancelled(s, z, {t})
        BY <1>0, <1>1, <1>8, <2>1, <2>2, OffStep
    <2> DEFINE D == {c}
               T == {t}
    <2>4. ref' = [e \in Kept |-> IF e \in D THEN NoThread ELSE ref[e]]
        BY <1>2, <2>1 DEF Types
    <2>5. \A u \in Live(s) : s.thread[u].callback \in Kept => (u \in T <=> s.thread[u].callback \in D)
        BY <1>2, <2>1, <2>2 DEF Pointed
    <2>9. D \in SUBSET Kept /\ Cancelled(s, z, T)
        BY <2>1, <2>3
    <2>6. Pointed(z, ref')
        <3> HIDE DEF D, T
        <3> QED BY <1>2, <2>4, <2>5, <2>9, PointedOff
    <2>7. Sound(z)
        BY <2>3 DEF Cancelled
    <2>8. Types'
        BY <1>2, <1>6, <2>1, <2>4 DEF Types
    <2> QED BY <1>4, <1>5, <1>6, <2>1, <2>6, <2>7, <2>8
<1>9. ASSUME NEW o \in Object, Create(o)
      PROVE  IInv'
    <2>1. z = s
        BY <1>0, <1>1, <1>9 DEF Create, master, State
    <2>2. Types'
        BY <1>2, <1>6, <1>9 DEF Types, Create
    <2>3. ref' = ref /\ Calls
        BY <1>9 DEF Create
    <2> QED BY <1>2, <1>4, <1>5, <1>6, <2>1, <2>2, <2>3
<1>10. ASSUME NEW o \in Object, Destroy(o)
       PROVE  IInv'
    <2>1. Cancelled(s, z, Doomed(s, o))
        BY <1>0, <1>1, <1>10, DestroyIs
    <2>2. /\ ref' = [c \in Kept |-> IF Arg[c] = o THEN NoThread ELSE ref[c]]
          /\ objects' = objects \ {o} /\ Calls
        BY <1>10 DEF Destroy
    <2> DEFINE D == {c \in Kept : Arg[c] = o}
    <2>3. ref' = [c \in Kept |-> IF c \in D THEN NoThread ELSE ref[c]]
        BY <2>2
    <2>4. \A t \in Live(s) : s.thread[t].callback \in Kept => (t \in Doomed(s, o) <=> s.thread[t].callback \in D)
        BY DEF Doomed
    <2>5. D \in SUBSET Kept
        OBVIOUS
    <2> HIDE DEF D
    <2>6. Pointed(z, ref')
        BY <1>2, <2>1, <2>3, <2>4, <2>5, PointedOff
    <2>7. Sound(z)
        BY <2>1 DEF Cancelled
    <2>8. Types'
        BY <1>2, <1>6, <2>2 DEF Types
    <2> QED BY <1>4, <1>5, <1>6, <2>2, <2>6, <2>7, <2>8
<1>11. CASE Return
    <2>1. z = s
        BY <1>0, <1>1, <1>11 DEF Return, master, State
    <2>2. ref' = ref /\ objects' = objects /\ running' = Nobody /\ timeout' = timeout /\ timeout = Awake
        BY <1>2, <1>11 DEF Return, Sleeping
    <2>3. Types'
        BY <1>2, <2>2 DEF Types
    <2> QED BY <1>2, <1>4, <1>5, <2>1, <2>2, <2>3
<1>12. CASE Fetch
    <2>1. PICK t \in Live(s) :
              /\ Cancelled(s, z, {t})
              /\ running' = s.thread[t].callback /\ timeout = Awake
              /\ ref' = [e \in Kept |-> IF e = s.thread[t].callback THEN NoThread ELSE ref[e]]
              /\ UNCHANGED <<objects, timeout>>
        BY <1>0, <1>1, <1>12, FetchIs
    <2> DEFINE c == s.thread[t].callback
               D == {e \in Kept : e = c}
    <2>2. c \in Callback
        BY <1>2, Fields DEF Live, ThreadRecord
    <2>3. ref' = [e \in Kept |-> IF e \in D THEN NoThread ELSE ref[e]]
        BY <2>1
    <2>4. \A u \in Live(s) : s.thread[u].callback \in Kept => (u \in {t} <=> s.thread[u].callback \in D)
        BY <1>2, <2>1 DEF Pointed
    <2>5. D \in SUBSET Kept
        OBVIOUS
    <2> HIDE DEF D
    <2>6. Pointed(z, ref')
        BY <1>2, <2>1, <2>3, <2>4, <2>5, PointedOff
    <2>7. Sound(z)
        BY <2>1 DEF Cancelled
    <2>8. Types'
        BY <1>2, <2>1, <2>2, <2>3 DEF Types
    <2> QED BY <1>4, <1>5, <2>1, <2>6, <2>7, <2>8
<1>13. CASE Collect
    <2>1. /\ Requeued(s, z, {"HIGH", "MIDDLE"}) /\ list'["queue_low"] = <<>>
          /\ timeout' \in Nat \cup {Forever} /\ Wakes(z, timeout') /\ running = Nobody
          /\ UNCHANGED <<ref, objects, running>>
        BY <1>0, <1>1, <1>13, CollectIs
    <2>2. Sound(z) /\ Pointed(z, ref')
        BY <1>2, <2>1, PointedRequeued DEF Requeued
    <2>3. Types'
        BY <1>2, <2>1 DEF Types
    <2>4. Sleeping'
        BY <1>1, <2>1 DEF Sleeping
    <2> QED BY <1>4, <2>2, <2>3, <2>4
<1>14. CASE SelectReturns
    <2>1. PICK r \in SUBSET readfd, w \in SUBSET writefd : Select(r, w)
        BY <1>14 DEF SelectReturns
    <2>2. /\ Requeued(s, z, {"MIDDLE", "LOW"}) /\ timeout' = Awake
          /\ UNCHANGED <<ref, objects, running>>
        BY <1>0, <1>1, <2>1, SelectIs
    <2>3. Sound(z) /\ Pointed(z, ref')
        BY <1>2, <2>2, PointedRequeued DEF Requeued
    <2>4. Types'
        BY <1>2, <2>2 DEF Types
    <2> QED BY <1>4, <1>5, <2>2, <2>3, <2>4
<1>15. CASE Interrupt
    <2>1. z = s /\ timeout' = Awake /\ UNCHANGED <<ref, objects, running>>
        BY <1>0, <1>1, <1>15 DEF Interrupt, master, State
    <2>2. Types'
        BY <1>2, <2>1 DEF Types
    <2> QED BY <1>2, <1>4, <1>5, <2>1, <2>2
<1>16. CASE Tick
    <2>1. Sound(z) /\ Ticked(s, z)
        BY <1>0, <1>1, <1>16, TickIs
    <2>2. /\ UNCHANGED <<list, ref, objects, running>>
          /\ timeout' = (IF timeout > 0 THEN timeout - 1 ELSE timeout) /\ timeout # 0
        BY <1>16 DEF Tick
    <2>3. \A t \in Thread : z.thread[t].type = s.thread[t].type /\ z.thread[t].callback = s.thread[t].callback
                            /\ z.thread[t].left = (IF s.thread[t].left > 0 THEN s.thread[t].left - 1 ELSE 0)
                            /\ s.thread[t].left \in Nat
        BY <1>2, <2>1, TickedIs DEF ThreadRecord
    <2>4. Pointed(z, ref')
        <3>1. Live(z) = Live(s)
            BY <2>3 DEF Live
        <3>2. \A t \in Live(s) : z.thread[t].callback = s.thread[t].callback
            BY <2>3 DEF Live
        <3> QED BY <1>2, <2>2, <3>1, <3>2 DEF Pointed
    <2>5. timeout \in Nat \cup {Awake, Forever} /\ timeout' \in Nat \cup {Awake, Forever}
          /\ (timeout' = Forever <=> timeout = Forever) /\ (timeout' = Awake <=> timeout = Awake)
        BY <1>2, <2>2 DEF Types, Awake, Forever
    <2>6. Types'
        BY <1>2, <2>2, <2>5 DEF Types
    <2>7. Sleeping'
        <3> SUFFICES ASSUME timeout # Awake
                     PROVE  running' = Nobody /\ list'["queue_low"] = <<>> /\ Wakes(z, timeout')
            BY <1>1, <2>5 DEF Sleeping
        <3>1. running = Nobody /\ list["queue_low"] = <<>> /\ Wakes(s, timeout)
            BY <1>0, <1>2 DEF Sleeping
        <3>2. ASSUME NEW t \in Thread, z.thread[t].type = "TIMER"
              PROVE  timeout' # Forever /\ timeout' <= z.thread[t].left
            <4>1. timeout # Forever /\ timeout <= s.thread[t].left
                BY <2>3, <3>1, <3>2 DEF Wakes
            <4>2. timeout \in Nat
                BY <2>5, <4>1
            <4> QED BY <2>2, <2>3, <2>5, <4>1, <4>2
        <3> QED BY <2>2, <3>1, <3>2 DEF Wakes
    <2> QED BY <1>4, <2>1, <2>4, <2>6, <2>7
<1>17. CASE UNCHANGED vars
    <2>1. z = s /\ UNCHANGED <<list, ref, objects, running, timeout>>
        BY <1>0, <1>1, <1>17 DEF vars, master, State
    <2>2. Types'
        BY <1>2, <2>1 DEF Types
    <2>3. Sleeping'
        BY <1>0, <1>1, <1>2, <2>1 DEF Sleeping
    <2> QED BY <1>2, <1>4, <2>1, <2>2, <2>3
<1> QED BY <1>7, <1>8, <1>9, <1>10, <1>11, <1>12, <1>13, <1>14, <1>15, <1>16, <1>17
        DEF Next, ClientStep

\* The lists of threads, client code's pointers and the time select sleeps stay right.
THEOREM Invariant == Spec => []IInv
<1>1. Init => IInv
    BY InitIInv
<1>2. IInv /\ [Next]_vars => IInv'
    BY NextIInv
<1> QED BY <1>1, <1>2, PTL DEF Spec

----------------------------------------------------------------------------
(* The safety invariants.                                                  *)

\* Every variable of the thread master and of client code has its type.
THEOREM TypeCorrect == Spec => []TypeOK
<1>1. IInv => TypeOK
    <2> SUFFICES ASSUME IInv PROVE TypeOK
        OBVIOUS
    <2>1. State \in Masters /\ Types
        BY DEF IInv, Sound
    <2>2. /\ list \in [ListName -> Seq(Thread)] /\ timer \in [Slot -> Seq(Thread)]
          /\ thread \in [Thread -> ThreadRecord] /\ index \in Slot /\ alloc \in 0..MaxThreads
          /\ readfd \subseteq Fds /\ writefd \subseteq Fds
        BY <2>1, Parts DEF Masters
    <2> QED BY <2>1, <2>2 DEF TypeOK, Types, Fds
<1> QED BY <1>1, Invariant, PTL

LEMMA ListedOnceIs == IInv => ListedOnce
<1> SUFFICES ASSUME IInv PROVE ListedOnce
    OBVIOUS
<1>1. PICK s : s = State
    OBVIOUS
<1>2. Sound(s) /\ s \in Masters /\ Placed(s)
    BY <1>1 DEF IInv, Sound
<1>3. list = s.list /\ timer = s.timer /\ thread = s.thread /\ alloc = s.alloc
    BY <1>1, Parts
<1>4. ASSUME NEW t \in 1..s.alloc
      PROVE  LET r == s.thread[t] IN
             Contains(IF r.type = "TIMER" THEN s.timer[r.slot] ELSE s.list[Home(r)], t)
    <2> DEFINE r == s.thread[t]
               q == At(s, Place(r))
    <2>1. r \in ThreadRecord /\ Place(r) \in Places
        BY <1>2, Fields
    <2>2. q = IF r.type = "TIMER" THEN s.timer[r.slot] ELSE s.list[Home(r)]
        <3>1. r.type # "TIMER" => Home(r) # "timer"
            BY <2>1, PlaceType, Names
        <3> HIDE DEF r
        <3> QED BY <3>1 DEF At, Place
    <2>3. \E i \in 1..Len(q) : q[i] = t
        BY <1>2 DEF Placed, PlacedBut
    <2> HIDE DEF q
    <2>4. Contains(q, t)
        BY <2>3 DEF Contains
    <2> QED BY <2>2, <2>4
<1>5. ASSUME NEW l \in ListName
      PROVE  IsInjective(s.list[l]) /\ \A t \in ToSet(s.list[l]) : t <= s.alloc /\ Home(s.thread[t]) = l
    <2>1. /\ s.list[l] \in Seq(Thread) /\ IsInjective(s.list[l])
          /\ \A i \in 1..Len(s.list[l]) : Home(s.thread[s.list[l][i]]) = l
        BY <1>2, ListIs
    <2>2. <<l, 0>> \in Places /\ At(s, <<l, 0>>) = s.list[l]
        BY Names DEF Places, At
    <2>3. \A i \in 1..Len(s.list[l]) : s.list[l][i] \in 1..s.alloc
        BY <1>2, <2>2 DEF Placed, PlacedBut
    <2>4. DOMAIN s.list[l] = 1..Len(s.list[l])
        BY <2>1, LenProperties
    <2> QED BY <2>1, <2>3, <2>4 DEF ToSet
<1>6. ASSUME NEW i \in Slot
      PROVE  IsInjective(s.timer[i]) /\ \A t \in ToSet(s.timer[i]) :
                t <= s.alloc /\ s.thread[t].type = "TIMER" /\ s.thread[t].slot = i
    <2>1. /\ s.timer[i] \in Seq(Thread) /\ IsInjective(s.timer[i])
          /\ \A j \in 1..Len(s.timer[i]) :
                s.thread[s.timer[i][j]].type = "TIMER" /\ s.thread[s.timer[i][j]].slot = i
        BY <1>2, TimerIs
    <2>2. <<"timer", i>> \in Places /\ At(s, <<"timer", i>>) = s.timer[i]
        BY <1>2, TimerPlace
    <2>3. \A j \in 1..Len(s.timer[i]) : s.timer[i][j] \in 1..s.alloc
        BY <1>2, <2>2 DEF Placed, PlacedBut
    <2>4. DOMAIN s.timer[i] = 1..Len(s.timer[i])
        BY <2>1, LenProperties
    <2> QED BY <2>1, <2>3, <2>4 DEF ToSet
<1> QED BY <1>3, <1>4, <1>5, <1>6 DEF ListedOnce

\* Every thread that was allocated is in one list, once: the one thread_cancel
\* looks for it in.
THEOREM ListedOnceAlways == Spec => []ListedOnce
<1>1. IInv => ListedOnce
    BY ListedOnceIs
<1> QED BY <1>1, Invariant, PTL

\* Client code's pointers are to threads in use that were armed for them, and every
\* thread of a callback with a pointer has one.
THEOREM RefsAlwaysLive == Spec => []RefsLive
<1>1. IInv => RefsLive
    BY Parts DEF IInv, Pointed, RefsLive, LiveThread, Live
<1> QED BY <1>1, Invariant, PTL

LEMMA Members ==
    ASSUME NEW s, Sound(s), NEW k \in {"READ", "READ_HIGH", "WRITE"}
    PROVE  ToSet(s.list[Waiting[k]]) = {t \in Thread : s.thread[t].type = k}
<1> DEFINE l == Waiting[k]
           q == s.list[l]
<1>1. /\ s \in Masters /\ Placed(s) /\ l \in ListName /\ l # "timer"
      /\ l = (CASE k = "READ" -> "read" [] k = "READ_HIGH" -> "read_high" [] OTHER -> "write")
    BY Names DEF Sound
<1>2. q \in Seq(Thread) /\ \A i \in 1..Len(q) : s.thread[q[i]].type # "TIMER" /\ Home(s.thread[q[i]]) = l
    BY <1>1, ListIs
<1>3. ASSUME NEW t \in Thread, s.thread[t].type # "TIMER", Home(s.thread[t]) = l
      PROVE  s.thread[t].type = k
    <2> DEFINE r == s.thread[t]
    <2>1. r \in ThreadRecord /\ r.type # "TIMER" /\ Home(r) = l
        BY <1>1, <1>3, Fields
    <2> HIDE DEF r, l
    <2> QED BY <1>1, <2>1, Names DEF Home, ThreadRecord, r
<1>4. ASSUME NEW t \in Thread, s.thread[t].type = k
      PROVE  \E i \in 1..Len(q) : q[i] = t
    <2>1. t \in Live(s)
        BY <1>4 DEF Live
    <2>2. t \in 1..s.alloc /\ Place(s.thread[t]) = <<l, 0>>
        BY <1>1, <1>4, <2>1, LiveListed DEF Place, Home, Placed
    <2>3. At(s, <<l, 0>>) = q
        BY <1>1 DEF At
    <2> QED BY <1>1, <2>2, <2>3 DEF Placed, PlacedBut
<1> HIDE DEF l, q
<1>5. ToSet(q) = {q[i] : i \in 1..Len(q)}
    BY <1>2, LenProperties DEF ToSet
<1>6. \A i \in 1..Len(q) : q[i] \in Thread
    BY <1>2
<1>7. \A i \in 1..Len(q) : s.thread[q[i]].type = k
    BY <1>2, <1>3, <1>6
<1>8. ToSet(q) = {t \in Thread : s.thread[t].type = k}
    BY <1>4, <1>5, <1>6, <1>7
<1> QED BY <1>8 DEF q, l

\* Select watches the descriptors somebody waits for and no other.
THEOREM AlwaysWatched == Spec => []Watched
<1>1. ASSUME IInv PROVE Watched
    <2>1. PICK s : s = State
        OBVIOUS
    <2>2. Sound(s) /\ Watching(s)
        BY <1>1, <2>1 DEF IInv, Sound
    <2>3. list = s.list /\ thread = s.thread /\ readfd = s.readfd /\ writefd = s.writefd
        BY <2>1, Parts
    <2>4. /\ ToSet(s.list["read"]) = {t \in Thread : s.thread[t].type = "READ"}
          /\ ToSet(s.list["read_high"]) = {t \in Thread : s.thread[t].type = "READ_HIGH"}
          /\ ToSet(s.list["write"]) = Writers(s)
        BY <2>2, Members, Names DEF Writers
    <2>5. Readers(s) = ToSet(s.list["read"]) \cup ToSet(s.list["read_high"])
        BY <2>4 DEF Readers
    <2>6. s.readfd = {Fd[s.thread[t].callback] : t \in ToSet(s.list["read"])}
                     \cup {Fd[s.thread[t].callback] : t \in ToSet(s.list["read_high"])}
        BY <2>2, <2>5 DEF Watching
    <2>7. s.writefd = {Fd[s.thread[t].callback] : t \in ToSet(s.list["write"])}
        BY <2>2, <2>4 DEF Watching
    <2> QED BY <2>3, <2>6, <2>7 DEF Watched
<1> QED BY <1>1, Invariant, PTL

\* Select never sleeps past the time any timer is due.
THEOREM NeverLate == Spec => []NeverOversleeps
<1>1. IInv => NeverOversleeps
    BY Parts DEF IInv, Sleeping, Wakes, NeverOversleeps
<1> QED BY <1>1, Invariant, PTL

----------------------------------------------------------------------------
(* The order in which ready threads run.                                   *)

In(q, u) == \E i \in 1..Len(q) : q[i] = u

LEMMA FollowsConcat ==
    ASSUME NEW S, NEW a \in Seq(S), NEW b \in Seq(S), NEW u, NEW t
    PROVE  /\ In(a \o b, u) <=> In(a, u) \/ In(b, u)
           /\ Follows(a \o b, u, t) <=> Follows(a, u, t) \/ Follows(b, u, t) \/ (In(a, u) /\ In(b, t))
<1> DEFINE q == a \o b
<1>1. /\ q \in Seq(S) /\ Len(q) = Len(a) + Len(b) /\ Len(a) \in Nat /\ Len(b) \in Nat
      /\ \A i \in 1..(Len(a) + Len(b)) : q[i] = IF i <= Len(a) THEN a[i] ELSE b[i - Len(a)]
    BY ConcatProperties, LenProperties
<1> HIDE DEF q
<1>2. \A i \in 1..Len(a) : i \in 1..Len(q) /\ q[i] = a[i]
    BY <1>1
<1>3. \A i \in 1..Len(b) : i + Len(a) \in 1..Len(q) /\ q[i + Len(a)] = b[i]
    <2> SUFFICES ASSUME NEW i \in 1..Len(b)
                 PROVE  i + Len(a) \in 1..Len(q) /\ q[i + Len(a)] = b[i]
        OBVIOUS
    <2>1. i + Len(a) \in 1..(Len(a) + Len(b)) /\ ~(i + Len(a) <= Len(a)) /\ (i + Len(a)) - Len(a) = i
        BY <1>1
    <2> QED BY <1>1, <2>1
<1>4. \A i \in 1..Len(q) : \/ i \in 1..Len(a) /\ q[i] = a[i]
                           \/ i - Len(a) \in 1..Len(b) /\ q[i] = b[i - Len(a)] /\ i > Len(a)
    BY <1>1
<1>5. In(q, u) <=> In(a, u) \/ In(b, u)
    BY <1>2, <1>3, <1>4 DEF In
<1>6. ASSUME Follows(q, u, t)
      PROVE  Follows(a, u, t) \/ Follows(b, u, t) \/ (In(a, u) /\ In(b, t))
    <2>1. PICK i \in 1..Len(q), j \in 1..Len(q) : i < j /\ q[i] = u /\ q[j] = t
        BY <1>6 DEF Follows
    <2>2. CASE i \in 1..Len(a) /\ j \in 1..Len(a)
        BY <1>2, <2>1, <2>2 DEF Follows
    <2>3. CASE i \in 1..Len(a) /\ j \notin 1..Len(a)
        BY <1>2, <1>4, <2>1, <2>3 DEF In
    <2>4. CASE i \notin 1..Len(a)
        <3>1. /\ i - Len(a) \in 1..Len(b) /\ q[i] = b[i - Len(a)]
              /\ j - Len(a) \in 1..Len(b) /\ q[j] = b[j - Len(a)]
            BY <1>1, <1>4, <2>1, <2>4
        <3>2. i - Len(a) < j - Len(a)
            BY <1>1, <2>1
        <3> QED BY <2>1, <3>1, <3>2 DEF Follows
    <2> QED BY <2>2, <2>3, <2>4
<1>7. ASSUME Follows(a, u, t) PROVE Follows(q, u, t)
    BY <1>2, <1>7 DEF Follows
<1>8. ASSUME Follows(b, u, t) PROVE Follows(q, u, t)
    <2>1. PICK i \in 1..Len(b), j \in 1..Len(b) : i < j /\ b[i] = u /\ b[j] = t
        BY <1>8 DEF Follows
    <2>2. i + Len(a) < j + Len(a)
        BY <1>1, <2>1
    <2> QED BY <1>3, <2>1, <2>2 DEF Follows
<1>9. ASSUME In(a, u), In(b, t) PROVE Follows(q, u, t)
    <2>1. PICK i \in 1..Len(a), j \in 1..Len(b) : a[i] = u /\ b[j] = t
        BY <1>9 DEF In
    <2>2. i < j + Len(a)
        BY <1>1
    <2> QED BY <1>2, <1>3, <2>1, <2>2 DEF Follows
<1> QED BY <1>5, <1>6, <1>7, <1>8, <1>9 DEF q

\* Ahead, of a record.
AheadIn(s, t) ==
    LET q == s.list["queue_high"] \o s.list["queue_middle"] \o s.list["queue_low"]
        place == SelectInSeq(q, LAMBDA x : x = t)
    IN  {q[i] : i \in 1..(place - 1)}

Above == {<<"HIGH", "MIDDLE">>, <<"HIGH", "LOW">>, <<"MIDDLE", "LOW">>}

Waits(s, t) == t \in Thread /\ s.thread[t].type = "QUEUE"

LEMMA AheadIs ==
    ASSUME NEW s, Sound(s), NEW t, Waits(s, t), NEW u
    PROVE  u \in AheadIn(s, t) <=>
              /\ Waits(s, u)
              /\ <<s.thread[u].priority, s.thread[t].priority>> \in Above \/ Precedes(s, u, t)
<1> DEFINE a == s.list["queue_high"]
           b == s.list["queue_middle"]
           c == s.list["queue_low"]
           d == a \o b
           q == d \o c
<1>1. /\ a = s.list[Queue["HIGH"]] /\ b = s.list[Queue["MIDDLE"]] /\ c = s.list[Queue["LOW"]]
      /\ DOMAIN Queue = {"HIGH", "MIDDLE", "LOW"}
    BY Names
<1>2. ASSUME NEW p \in DOMAIN Queue
      PROVE  /\ s.list[Queue[p]] \in Seq(Thread) /\ IsInjective(s.list[Queue[p]])
             /\ \A v : In(s.list[Queue[p]], v) <=> Waits(s, v) /\ s.thread[v].priority = p
    <2>1. /\ s.list[Queue[p]] \in Seq(Thread) /\ IsInjective(s.list[Queue[p]])
          /\ \A i \in 1..Len(s.list[Queue[p]]) :
                s.thread[s.list[Queue[p]][i]].type = "QUEUE" /\ s.thread[s.list[Queue[p]][i]].priority = p
        BY QueueMembers
    <2>2. ASSUME NEW v, In(s.list[Queue[p]], v) PROVE Waits(s, v) /\ s.thread[v].priority = p
        BY <2>1, <2>2 DEF In, Waits
    <2>3. ASSUME NEW v, Waits(s, v), s.thread[v].priority = p PROVE In(s.list[Queue[p]], v)
        BY <2>3, QueuedListed DEF In, Waits
    <2> QED BY <2>1, <2>2, <2>3
<1>3. /\ a \in Seq(Thread) /\ IsInjective(a)
      /\ \A v : In(a, v) <=> Waits(s, v) /\ s.thread[v].priority = "HIGH"
    BY <1>1, <1>2
<1>4. /\ b \in Seq(Thread) /\ IsInjective(b)
      /\ \A v : In(b, v) <=> Waits(s, v) /\ s.thread[v].priority = "MIDDLE"
    BY <1>1, <1>2
<1>5. /\ c \in Seq(Thread) /\ IsInjective(c)
      /\ \A v : In(c, v) <=> Waits(s, v) /\ s.thread[v].priority = "LOW"
    BY <1>1, <1>2
<1>6. \A v : Waits(s, v) => s.thread[v].priority \in {"HIGH", "MIDDLE", "LOW"}
    BY <1>1, QueuedListed DEF Waits
<1>7. Precedes(s, u, t) <=> Follows(a, u, t) \/ Follows(b, u, t) \/ Follows(c, u, t)
    BY <1>1 DEF Precedes
<1>8. AheadIn(s, t) = {q[i] : i \in 1..(SelectInSeq(q, LAMBDA x : x = t) - 1)}
    BY DEF AheadIn
<1> HIDE DEF a, b, c
<1>9. d \in Seq(Thread) /\ IsInjective(d)
    <2>1. \A i \in 1..Len(a) : \A j \in 1..Len(b) : a[i] # b[j]
        BY <1>3, <1>4 DEF In
    <2> QED BY <1>3, <1>4, <2>1, ConcatInjective
<1>10. \A v : In(d, v) <=> In(a, v) \/ In(b, v)
    BY <1>3, <1>4, FollowsConcat
<1>11. Follows(d, u, t) <=> Follows(a, u, t) \/ Follows(b, u, t) \/ (In(a, u) /\ In(b, t))
    BY <1>3, <1>4, FollowsConcat
<1> HIDE DEF d
<1>12. q \in Seq(Thread) /\ IsInjective(q)
    <2>1. \A i \in 1..Len(d) : \A j \in 1..Len(c) : d[i] # c[j]
        <3>1. ASSUME NEW i \in 1..Len(d), NEW j \in 1..Len(c), d[i] = c[j] PROVE FALSE
            <4>1. In(d, c[j]) /\ In(c, c[j])
                BY <3>1 DEF In
            <4> QED BY <1>3, <1>4, <1>5, <1>10, <4>1
        <3> QED BY <3>1
    <2> QED BY <1>5, <1>9, <2>1, ConcatInjective
<1>13. \A v : In(q, v) <=> In(d, v) \/ In(c, v)
    BY <1>5, <1>9, FollowsConcat
<1>14. Follows(q, u, t) <=> Follows(d, u, t) \/ Follows(c, u, t) \/ (In(d, u) /\ In(c, t))
    BY <1>5, <1>9, FollowsConcat
<1> HIDE DEF q
<1>15. In(q, t)
    BY <1>3, <1>4, <1>5, <1>6, <1>10, <1>13
<1>16. PICK k \in 1..Len(q) : q[k] = t
    BY <1>15 DEF In
<1>17. SelectInSeq(q, LAMBDA x : x = t) = k
    <2> DEFINE I == {i \in 1..Len(q) : q[i] = q[k]}
    <2>1. I = {k} /\ Min(I) = k
        BY <1>12, PlaceIn
    <2> QED BY <1>16, <2>1 DEF SelectInSeq
<1>18. AheadIn(s, t) = {q[i] : i \in 1..(k - 1)}
    BY <1>8, <1>17
<1>19. u \in AheadIn(s, t) <=> Follows(q, u, t)
    <2>1. Len(q) \in Nat /\ \A i, j \in 1..Len(q) : q[i] = q[j] => i = j
        BY <1>12, LenProperties DEF IsInjective
    <2>2. ASSUME u \in AheadIn(s, t) PROVE Follows(q, u, t)
        <3>1. PICK i \in 1..(k - 1) : u = q[i]
            BY <1>18, <2>2
        <3>2. i \in 1..Len(q) /\ i < k
            BY <2>1
        <3> QED BY <1>16, <3>1, <3>2 DEF Follows
    <2>3. ASSUME Follows(q, u, t) PROVE u \in AheadIn(s, t)
        <3>1. PICK i \in 1..Len(q), j \in 1..Len(q) : i < j /\ q[i] = u /\ q[j] = t
            BY <2>3 DEF Follows
        <3>2. j = k /\ i \in 1..(k - 1)
            BY <1>16, <2>1, <3>1
        <3> QED BY <1>18, <3>1, <3>2
    <2> QED BY <2>2, <2>3
<1>20. Follows(a, u, t) => In(a, u)
    BY DEF Follows, In
<1>21. Follows(b, u, t) => In(b, u)
    BY DEF Follows, In
<1>22. Follows(c, u, t) => In(c, u)
    BY DEF Follows, In
<1>23. ((In(a, u) /\ In(b, t)) \/ ((In(a, u) \/ In(b, u)) /\ In(c, t))) <=>
            Waits(s, u) /\ <<s.thread[u].priority, s.thread[t].priority>> \in Above
    BY <1>3, <1>4, <1>5, <1>6 DEF Above
<1>24. Precedes(s, u, t) => Waits(s, u)
    BY <1>3, <1>4, <1>5, <1>7, <1>20, <1>21, <1>22
<1> QED BY <1>7, <1>10, <1>11, <1>14, <1>19, <1>23, <1>24


InTurn(s, z) ==
    \A t : Waits(s, t) /\ z.thread[t] = s.thread[t] => AheadIn(z, t) \subseteq AheadIn(s, t)

\* Threads that are not queued afterwards were added or cancelled: the others keep
\* their turn.
LEMMA OnlyInTurn ==
    ASSUME NEW s, Sound(s), NEW z, Sound(z), NEW T, Only(s, z, T),
           \A u \in T : z.thread[u].type # "QUEUE"
    PROVE  InTurn(s, z)
<1> SUFFICES ASSUME NEW t, Waits(s, t), z.thread[t] = s.thread[t], NEW u \in AheadIn(z, t)
             PROVE  u \in AheadIn(s, t)
    BY DEF InTurn
<1>1. Waits(z, t) /\ t \in Thread \ T
    BY DEF Waits
<1>2. Waits(z, u) /\ (<<z.thread[u].priority, z.thread[t].priority>> \in Above \/ Precedes(z, u, t))
    BY <1>1, AheadIs
<1>3. u \in Thread \ T
    BY <1>2 DEF Waits
<1>4. z.thread[u] = s.thread[u] /\ (Precedes(z, u, t) => Precedes(s, u, t))
    BY <1>1, <1>3 DEF Only
<1>5. Waits(s, u) /\ (<<s.thread[u].priority, s.thread[t].priority>> \in Above \/ Precedes(s, u, t))
    BY <1>2, <1>4 DEF Waits
<1> QED BY <1>5, AheadIs

\* What is queued when select returns is behind what was.
LEMMA SelectInTurn ==
    ASSUME NEW s, Sound(s), NEW z, Requeued(s, z, {"MIDDLE", "LOW"}), s.list["queue_low"] = <<>>
    PROVE  InTurn(s, z)
<1> SUFFICES ASSUME NEW t, Waits(s, t), z.thread[t] = s.thread[t], NEW u \in AheadIn(z, t)
             PROVE  u \in AheadIn(s, t)
    BY DEF InTurn
<1>1. Waits(z, t) /\ Sound(z) /\ t \in Thread \ NotQueued(s)
    BY DEF Waits, Requeued, NotQueued
<1>2. Waits(z, u) /\ (<<z.thread[u].priority, z.thread[t].priority>> \in Above \/ Precedes(z, u, t))
    BY <1>1, AheadIs
<1>3. s.thread[t].priority \in {"HIGH", "MIDDLE"}
    <2>1. /\ s.thread[t].priority \in {"HIGH", "MIDDLE", "LOW"}
          /\ \E i \in 1..Len(s.list[Queue[s.thread[t].priority]]) :
                s.list[Queue[s.thread[t].priority]][i] = t
        BY QueuedListed, Names DEF Waits
    <2>2. s.thread[t].priority # "LOW"
        BY <2>1, Names
    <2> QED BY <2>1, <2>2
<1>4. CASE z.thread[u] = s.thread[u]
    <2>1. Precedes(z, u, t) => Precedes(s, u, t)
        BY <1>1, <1>2 DEF Requeued, Only, Waits
    <2>2. Waits(s, u) /\ (<<s.thread[u].priority, s.thread[t].priority>> \in Above \/ Precedes(s, u, t))
        BY <1>2, <1>4, <2>1 DEF Waits
    <2> QED BY <2>2, AheadIs
<1>5. CASE z.thread[u] # s.thread[u]
    <2>1. /\ s.thread[u].type \notin {"QUEUE", "UNUSED"}
          /\ \E p \in {"MIDDLE", "LOW"} : z.thread[u] = Queued(p, s.thread[u].callback)
        BY <1>2, <1>5 DEF Requeued, Waits
    <2>2. z.thread[u].priority \in {"MIDDLE", "LOW"}
        BY <2>1, QueuedIs
    <2>3. <<z.thread[u].priority, z.thread[t].priority>> \notin Above
        BY <1>3, <2>2 DEF Above
    <2>4. Precedes(s, u, t)
        BY <1>1, <1>2, <2>3 DEF Requeued, Only, Waits
    <2>5. Waits(s, u)
        <3>1. PICK p \in DOMAIN Queue : Follows(s.list[Queue[p]], u, t)
            BY <2>4 DEF Precedes
        <3>2. PICK i \in 1..Len(s.list[Queue[p]]) : s.list[Queue[p]][i] = u
            BY <3>1 DEF Follows
        <3> QED BY <1>2, <3>2, QueueMembers DEF Waits
    <2> QED BY <2>1, <2>5 DEF Waits
<1> QED BY <1>4, <1>5

LEMMA NextInTurn ==
    ASSUME IInv, [Next]_vars
    PROVE  InTurn(State, State')
<1>0. PICK s : s = State
    OBVIOUS
<1>1. PICK z : z = State'
    OBVIOUS
<1>2. Sound(s) /\ Sound(z)
    BY <1>0, <1>1, NextIInv DEF IInv
<1>3. ASSUME z.list = s.list PROVE InTurn(s, z)
    BY <1>3 DEF InTurn, AheadIn
<1>4. ASSUME NEW T, Cancelled(s, z, T) PROVE InTurn(s, z)
    <2>1. Only(s, z, T) /\ \A u \in T : z.thread[u].type # "QUEUE"
        BY <1>4, UnusedType DEF Cancelled
    <2> QED BY <1>2, <2>1, OnlyInTurn
<1>5. ASSUME NEW c \in Callback, NEW delay \in Delays \cup {0}, On(c, delay)
      PROVE  InTurn(s, z)
    <2>1. PICK t : t = Fresh(s)
        OBVIOUS
    <2>2. Added(s, z, t, c, delay)
        BY <1>0, <1>1, <1>5, <2>1, OnStep
    <2>3. Only(s, z, {t}) /\ \A u \in {t} : z.thread[u].type # "QUEUE"
        BY <2>2, ClientAssumption, Names DEF Added
    <2> QED BY <1>2, <2>3, OnlyInTurn
<1>6. ASSUME NEW c \in Callback, Off(c) PROVE InTurn(s, z)
    <2>1. c \in Kept
        BY <1>6 DEF Off
    <2> QED BY <1>0, <1>1, <1>4, <1>6, <2>1, OffStep
<1>7. ASSUME NEW o \in Object, Destroy(o) PROVE InTurn(s, z)
    BY <1>0, <1>1, <1>4, <1>7, DestroyIs
<1>8. ASSUME Fetch PROVE InTurn(s, z)
    BY <1>0, <1>1, <1>4, <1>8, FetchIs
<1>9. ASSUME Collect PROVE InTurn(s, z)
    BY <1>0, <1>1, <1>9, CollectIs DEF InTurn, Waits
<1>10. ASSUME SelectReturns PROVE InTurn(s, z)
    <2>1. PICK r \in SUBSET readfd, w \in SUBSET writefd : Select(r, w)
        BY <1>10 DEF SelectReturns
    <2>2. Requeued(s, z, {"MIDDLE", "LOW"}) /\ s.list["queue_low"] = <<>>
        BY <1>0, <1>1, <2>1, SelectIs
    <2> QED BY <1>2, <2>2, SelectInTurn
<1>11. ASSUME UNCHANGED list PROVE InTurn(s, z)
    <2>1. z.list = s.list
        BY <1>0, <1>1, <1>11 DEF State
    <2> QED BY <1>3, <2>1
<1>12. CASE \/ \E o \in Object : Create(o)
            \/ Return \/ Interrupt \/ Tick \/ UNCHANGED vars
    <2>1. UNCHANGED list
        BY <1>12 DEF Create, Return, Interrupt, Tick, master, vars
    <2> QED BY <1>0, <1>1, <1>11, <2>1
<1>13. InTurn(s, z)
    BY <1>0, <1>1, <1>5, <1>6, <1>7, <1>8, <1>9, <1>10, <1>12 DEF Next, ClientStep
<1> QED BY <1>0, <1>1, <1>13

\* Once a thread is ready, nothing that becomes ready later runs before it, but
\* for messages put aside.
THEOREM NobodyOvertakes == Spec => NoOvertaking
<1>1. ASSUME IInv, [Next]_vars
      PROVE  \A t \in LiveThread :
                thread[t].type = "QUEUE" /\ thread'[t] = thread[t] => Ahead(t)' \subseteq Ahead(t)
    <2>1. PICK s : s = State
        OBVIOUS
    <2>2. PICK z : z = State'
        OBVIOUS
    <2>3. InTurn(s, z)
        BY <1>1, <2>1, <2>2, NextInTurn
    <2>4. thread = s.thread /\ thread' = z.thread /\ list = s.list /\ list' = z.list
        BY <2>1, <2>2 DEF State
    <2>5. ASSUME NEW t PROVE Ahead(t) = AheadIn(s, t) /\ Ahead(t)' = AheadIn(z, t)
        BY <2>4 DEF Ahead, AheadIn, SelectInSeq
    <2> QED BY <2>3, <2>4, <2>5 DEF InTurn, Waits, LiveThread
<1>2. IInv /\ [Next]_vars =>
        [\A t \in LiveThread :
            thread[t].type = "QUEUE" /\ thread'[t] = thread[t] => Ahead(t)' \subseteq Ahead(t)]_vars
    BY <1>1
<1> QED BY <1>2, Invariant, PTL DEF Spec, NoOvertaking

----------------------------------------------------------------------------
(* The promise to client code: what Dispatcher says of each kind of step.   *)

ArmedBy(s, c) == {t \in Live(s) : s.thread[t].callback = c}
Count(s) == [c \in Callback |-> Cardinality(ArmedBy(s, c))]
Left(s, f) == [c \in Callback |-> IF c \in Kept /\ f[c] # NoThread THEN s.thread[f[c]].left ELSE 0]

LEMMA CountIs ==
    ASSUME NEW s, NEW c \in Callback
    PROVE  /\ IsFiniteSet(ArmedBy(s, c)) /\ Cardinality(ArmedBy(s, c)) \in Nat
           /\ Count(s)[c] = Cardinality(ArmedBy(s, c))
<1>1. IsFiniteSet(Thread)
    <2>1. MaxThreads \in Int /\ 1 \in Int
        BY ClientAssumption
    <2> QED BY <2>1, FS_Interval DEF Thread
<1>2. ArmedBy(s, c) \in SUBSET Thread
    BY DEF ArmedBy, Live
<1>3. IsFiniteSet(ArmedBy(s, c))
    BY <1>1, <1>2, FS_Subset
<1> QED BY <1>3, FS_CardinalityType DEF Count

LEMMA CountAdded ==
    ASSUME NEW s, NEW z, NEW t, NEW c \in Callback, NEW delay, Added(s, z, t, c, delay)
    PROVE  Count(z) = [Count(s) EXCEPT ![c] = @ + 1]
<1>1. Live(z) = Live(s) \cup {t} /\ t \notin Live(s) /\ t \in Thread
      /\ \A u \in Thread \ {t} : z.thread[u] = s.thread[u]
    BY LiveAdded
<1>2. z.thread[t].callback = c /\ \A u \in Live(s) : z.thread[u] = s.thread[u]
    BY <1>1 DEF Added, Live
<1>3. ArmedBy(z, c) = ArmedBy(s, c) \cup {t} /\ t \notin ArmedBy(s, c)
    BY <1>1, <1>2 DEF ArmedBy
<1>4. Count(z)[c] = Count(s)[c] + 1
    BY <1>3, CountIs, FS_AddElement
<1>5. ASSUME NEW e \in Callback \ {c} PROVE Count(z)[e] = Count(s)[e]
    <2>1. ArmedBy(z, e) = ArmedBy(s, e)
        BY <1>1, <1>2 DEF ArmedBy
    <2> QED BY <2>1 DEF Count
<1> QED BY <1>4, <1>5 DEF Count

LEMMA CountCancelled ==
    ASSUME NEW s, NEW z, NEW t, Cancelled(s, z, {t}), NEW c \in Callback, s.thread[t].callback = c
    PROVE  Count(s)[c] > 0 /\ Count(z) = [Count(s) EXCEPT ![c] = @ - 1]
<1>1. Live(z) = Live(s) \ {t} /\ t \in Live(s) /\ \A u \in Live(z) : z.thread[u] = s.thread[u]
    BY LiveCancelled DEF Cancelled, Live
<1>2. ArmedBy(z, c) = ArmedBy(s, c) \ {t} /\ t \in ArmedBy(s, c)
    BY <1>1 DEF ArmedBy
<1>3. Count(z)[c] = Count(s)[c] - 1
    BY <1>2, CountIs, FS_RemoveElement
<1>4. Count(z)[c] \in Nat /\ Count(s)[c] \in Nat
    BY CountIs
<1>5. ASSUME NEW e \in Callback \ {c} PROVE Count(z)[e] = Count(s)[e]
    <2>1. ArmedBy(z, e) = ArmedBy(s, e)
        BY <1>1 DEF ArmedBy
    <2> QED BY <2>1 DEF Count
<1>6. Count(s)[c] > 0
    BY <1>3, <1>4
<1>7. Count(z) = [Count(s) EXCEPT ![c] = @ - 1]
    BY <1>3, <1>5 DEF Count
<1> QED BY <1>6, <1>7

LEMMA CountDoomed ==
    ASSUME NEW s, NEW z, NEW o, Cancelled(s, z, Doomed(s, o))
    PROVE  Count(z) = [c \in Callback |-> IF Arg[c] = o THEN 0 ELSE Count(s)[c]]
<1>1. Live(z) = Live(s) \ Doomed(s, o) /\ \A u \in Live(z) : z.thread[u] = s.thread[u]
    BY LiveCancelled DEF Live
<1>2. ASSUME NEW c \in Callback PROVE Count(z)[c] = IF Arg[c] = o THEN 0 ELSE Count(s)[c]
    <2>1. CASE Arg[c] = o
        <3>1. ArmedBy(z, c) = {}
            BY <1>1, <2>1 DEF ArmedBy, Doomed
        <3> QED BY <2>1, <3>1, FS_EmptySet DEF Count
    <2>2. CASE Arg[c] # o
        <3>1. ArmedBy(z, c) = ArmedBy(s, c)
            BY <1>1, <2>2 DEF ArmedBy, Doomed
        <3> QED BY <2>2, <3>1 DEF Count
    <2> QED BY <2>1, <2>2
<1> QED BY <1>2 DEF Count

LEMMA CountSame ==
    ASSUME NEW s, NEW z, Live(z) = Live(s),
           \A u \in Live(s) : z.thread[u].callback = s.thread[u].callback
    PROVE  Count(z) = Count(s)
<1>1. \A c \in Callback : ArmedBy(z, c) = ArmedBy(s, c)
    BY DEF ArmedBy
<1> QED BY <1>1 DEF Count

LEMMA LeftAdded ==
    ASSUME NEW s, NEW z, NEW t, NEW c \in Callback, NEW delay \in Nat, Added(s, z, t, c, delay),
           NEW f, Pointed(s, f), Kind[c] # "TIMER" => delay = 0
    PROVE  Left(z, [e \in Kept |-> IF e = c THEN t ELSE f[e]]) = [Left(s, f) EXCEPT ![c] = delay]
<1> DEFINE g == [e \in Kept |-> IF e = c THEN t ELSE f[e]]
<1>0. t \in Thread /\ t \notin Live(s) /\ \A u \in Thread \ {t} : z.thread[u] = s.thread[u]
    BY LiveAdded
<1>1. t \in Thread /\ t \notin Live(s) /\ \A u \in Live(s) : z.thread[u] = s.thread[u]
    BY <1>0 DEF Live
<1>2. t # NoThread /\ z.thread[t].left = delay
    BY <1>1, ClientAssumption DEF Added
<1>3. Left(z, g)[c] = delay
    <2>1. CASE c \in Kept
        BY <1>2, <2>1 DEF Left
    <2>2. CASE c \notin Kept
        <3>1. delay = 0
            BY <2>2, ClientAssumption
        <3> QED BY <2>2, <3>1 DEF Left
    <2> QED BY <2>1, <2>2
<1>4. ASSUME NEW e \in Callback \ {c} PROVE Left(z, g)[e] = Left(s, f)[e]
    BY <1>1 DEF Left, Pointed
<1>5. Left(z, g) = [Left(s, f) EXCEPT ![c] = delay]
    <2> HIDE DEF g
    <2> QED BY <1>3, <1>4 DEF Left
<1> QED BY <1>5

LEMMA LeftCancelled ==
    ASSUME NEW s, NEW z, NEW T, Cancelled(s, z, T), NEW f, Pointed(s, f), NEW D \in SUBSET Callback,
           \A t \in Live(s) : s.thread[t].callback \in Kept =>
                (t \in T <=> s.thread[t].callback \in D)
    PROVE  Left(z, [c \in Kept |-> IF c \in D THEN NoThread ELSE f[c]])
              = [c \in Callback |-> IF c \in D THEN 0 ELSE Left(s, f)[c]]
<1> DEFINE g == [c \in Kept |-> IF c \in D THEN NoThread ELSE f[c]]
<1>1. \A u \in Live(s) \ T : z.thread[u] = s.thread[u]
    BY LiveCancelled DEF Live
<1>2. ASSUME NEW c \in Callback PROVE Left(z, g)[c] = IF c \in D THEN 0 ELSE Left(s, f)[c]
    <2>1. CASE c \in D
        BY <2>1 DEF Left
    <2>2. CASE c \notin D /\ c \in Kept /\ f[c] # NoThread
        <3>1. f[c] \in Live(s) \ T
            BY <2>2 DEF Pointed
        <3> QED BY <1>1, <2>2, <3>1 DEF Left
    <2>3. CASE c \notin D /\ ~(c \in Kept /\ f[c] # NoThread)
        BY <2>3 DEF Left
    <2> QED BY <2>1, <2>2, <2>3
<1>3. Left(z, g) = [c \in Callback |-> IF c \in D THEN 0 ELSE Left(s, f)[c]]
    <2> HIDE DEF g
    <2> QED BY <1>2 DEF Left
<1> QED BY <1>3

LEMMA LeftSame ==
    ASSUME NEW s, NEW z, NEW f, Pointed(s, f), \A u \in Live(s) : z.thread[u].left = s.thread[u].left
    PROVE  Left(z, f) = Left(s, f)
BY DEF Left, Pointed

LEMMA LeftTicked ==
    ASSUME NEW s \in Masters, NEW z, NEW f, Pointed(s, f), Ticked(s, z)
    PROVE  Left(z, f) = [c \in Callback |-> IF Left(s, f)[c] > 0 THEN Left(s, f)[c] - 1 ELSE 0]
<1>1. \A u \in Live(s) : z.thread[u].left = (IF s.thread[u].left > 0 THEN s.thread[u].left - 1 ELSE 0)
    BY TickedIs DEF Live
<1> QED BY <1>1 DEF Left, Pointed

\* What Dispatcher's variables stand for.
ArmedNow == [c \in Callback |-> Cardinality({t \in LiveThread : thread[t].callback = c})]
LeftNow ==
    [c \in Callback |-> IF c \in Kept /\ ref[c] # NoThread THEN thread[ref[c]].left ELSE 0]

LEMMA Views ==
    /\ ArmedNow = Count(State) /\ LeftNow = Left(State, ref)
    /\ ArmedNow' = Count(State') /\ LeftNow' = Left(State', ref')
<1>1. State.thread = thread
    BY DEF State
<1>2. State'.thread = thread'
    BY DEF State
<1>3. LiveThread = Live(State) /\ LiveThread' = Live(State')
    BY <1>1, <1>2 DEF LiveThread, Live
<1>4. ArmedNow = Count(State) /\ ArmedNow' = Count(State')
    BY <1>1, <1>2, <1>3 DEF ArmedNow, Count, ArmedBy
<1>5. LeftNow = Left(State, ref) /\ LeftNow' = Left(State', ref')
    BY <1>1, <1>2 DEF LeftNow, Left
<1> QED BY <1>4, <1>5

LEMMA PromiseBegun == Init => Promise!Init
<1> SUFFICES ASSUME Init PROVE Promise!Init
    OBVIOUS
<1>1. LiveThread = {}
    BY UnusedType DEF Init, LiveThread
<1>2. ArmedNow = [c \in Callback |-> 0]
    BY <1>1, FS_EmptySet DEF ArmedNow
<1>3. LeftNow = [c \in Callback |-> 0]
    BY DEF Init, LeftNow
<1> QED BY <1>2, <1>3 DEF Init, Promise!Init, ArmedNow, LeftNow

LEMMA ArmKept ==
    ASSUME IInv, NEW c \in Callback, NEW delay \in Delays \cup {0}, On(c, delay)
    PROVE  Promise!Arm(c, delay)
<1>0. PICK s : s = State
    OBVIOUS
<1>1. PICK z : z = State'
    OBVIOUS
<1>2. PICK t : t = Fresh(s)
    OBVIOUS
<1>3. Sound(s) /\ Pointed(s, ref)
    BY <1>0 DEF IInv
<1>4. Added(s, z, t, c, delay) /\ delay \in Nat
    BY <1>0, <1>1, <1>2, OnStep, ClientAssumption
<1>5. /\ ref' = [e \in Kept |-> IF e = c THEN t ELSE ref[e]] /\ (c \in Kept => ref[c] = NoThread)
      /\ objects' = objects /\ Calls /\ Arg[c] \in objects /\ (Kind[c] # "TIMER" => delay = 0)
    BY <1>0, <1>2 DEF On
<1>6. Count(z) = [Count(s) EXCEPT ![c] = @ + 1]
    BY <1>4, CountAdded
<1>7. Left(z, ref') = [Left(s, ref) EXCEPT ![c] = delay]
    BY <1>3, <1>4, <1>5, LeftAdded
<1>8. Kind[c] = "TIMER" => Count(s)[c] = 0
    <2>1. SUFFICES ASSUME Kind[c] = "TIMER" PROVE Count(s)[c] = 0
        OBVIOUS
    <2>2. c \in Kept
        BY <2>1, ClientAssumption
    <2>3. \A u \in Live(s) : s.thread[u].callback # c
        BY <1>3, <1>5, <2>2, PointedFree
    <2>4. ArmedBy(s, c) = {}
        BY <2>3 DEF ArmedBy
    <2> QED BY <2>4, CountIs, FS_EmptySet
<1>9. /\ ArmedNow' = [ArmedNow EXCEPT ![c] = @ + 1] /\ LeftNow' = [LeftNow EXCEPT ![c] = delay]
      /\ (Kind[c] = "TIMER" => ArmedNow[c] = 0)
    BY <1>0, <1>1, <1>6, <1>7, <1>8, Views
<1> QED BY <1>5, <1>9 DEF Promise!Arm, Promise!Calls, Calls, ArmedNow, LeftNow

LEMMA DisarmKept ==
    ASSUME IInv, NEW c \in Callback, Off(c)
    PROVE  Promise!Disarm(c)
<1>0. PICK s : s = State
    OBVIOUS
<1>1. PICK z : z = State'
    OBVIOUS
<1>2. PICK t : t = ref[c]
    OBVIOUS
<1>3. Pointed(s, ref) /\ ref \in [Kept -> Thread \cup {NoThread}]
    BY <1>0 DEF IInv, Types
<1>4. c \in Kept /\ ref[c] # NoThread /\ ref' = [ref EXCEPT ![c] = NoThread] /\ objects' = objects /\ Calls
    BY DEF Off
<1> DEFINE D == {c}
           T == {t}
<1>5. Cancelled(s, z, T)
    BY <1>0, <1>1, <1>2, <1>4, OffStep
<1>6. t \in Live(s) /\ s.thread[t].callback = c
    BY <1>2, <1>3, <1>4 DEF Pointed
<1>7. Count(s)[c] > 0 /\ Count(z) = [Count(s) EXCEPT ![c] = @ - 1]
    BY <1>5, <1>6, CountCancelled
<1>8. ref' = [e \in Kept |-> IF e \in D THEN NoThread ELSE ref[e]]
    BY <1>3, <1>4
<1>9. \A u \in Live(s) : s.thread[u].callback \in Kept => (u \in T <=> s.thread[u].callback \in D)
    BY <1>2, <1>3, <1>6 DEF Pointed
<1>10. D \in SUBSET Callback
    OBVIOUS
<1>11. Left(z, ref') = [e \in Callback |-> IF e \in D THEN 0 ELSE Left(s, ref)[e]]
    <2> HIDE DEF D, T
    <2> QED BY <1>3, <1>5, <1>8, <1>9, <1>10, LeftCancelled
<1>12. Left(z, ref') = [Left(s, ref) EXCEPT ![c] = 0]
    BY <1>11 DEF Left
<1>13. ArmedNow[c] > 0 /\ ArmedNow' = [ArmedNow EXCEPT ![c] = @ - 1] /\ LeftNow' = [LeftNow EXCEPT ![c] = 0]
    BY <1>0, <1>1, <1>7, <1>12, Views
<1> QED BY <1>4, <1>13 DEF Promise!Disarm, Promise!Calls, Calls, ArmedNow, LeftNow

LEMMA DestroyKept ==
    ASSUME IInv, NEW o \in Object, Destroy(o)
    PROVE  Promise!Destroy(o)
<1>0. PICK s : s = State
    OBVIOUS
<1>1. PICK z : z = State'
    OBVIOUS
<1>2. Pointed(s, ref)
    BY <1>0 DEF IInv
<1>3. /\ ref' = [c \in Kept |-> IF Arg[c] = o THEN NoThread ELSE ref[c]]
      /\ objects' = objects \ {o} /\ o \in objects /\ Calls
    BY DEF Destroy
<1>4. Cancelled(s, z, Doomed(s, o))
    BY <1>0, <1>1, DestroyIs
<1>5. Count(z) = [c \in Callback |-> IF Arg[c] = o THEN 0 ELSE Count(s)[c]]
    BY <1>4, CountDoomed
<1> DEFINE D == {c \in Callback : Arg[c] = o}
<1>6. ref' = [c \in Kept |-> IF c \in D THEN NoThread ELSE ref[c]]
    BY <1>3, ClientAssumption
<1>7. \A t \in Live(s) : s.thread[t].callback \in Kept => (t \in Doomed(s, o) <=> s.thread[t].callback \in D)
    BY ClientAssumption DEF Doomed
<1>8. D \in SUBSET Callback
    OBVIOUS
<1>9. Left(z, ref') = [c \in Callback |-> IF c \in D THEN 0 ELSE Left(s, ref)[c]]
    <2> HIDE DEF D
    <2> QED BY <1>2, <1>4, <1>6, <1>7, <1>8, LeftCancelled
<1>10. Left(z, ref') = [c \in Callback |-> IF Arg[c] = o THEN 0 ELSE Left(s, ref)[c]]
    BY <1>9
<1>11. /\ ArmedNow' = [c \in Callback |-> IF Arg[c] = o THEN 0 ELSE ArmedNow[c]]
       /\ LeftNow' = [c \in Callback |-> IF Arg[c] = o THEN 0 ELSE LeftNow[c]]
    BY <1>0, <1>1, <1>5, <1>10, Views
<1> QED BY <1>3, <1>11 DEF Promise!Destroy, Promise!Calls, Calls, ArmedNow, LeftNow

LEMMA RunKept ==
    ASSUME IInv, Fetch
    PROVE  \E c \in Callback : Promise!Run(c)
<1>0. PICK s : s = State
    OBVIOUS
<1>1. PICK z : z = State'
    OBVIOUS
<1>2. Pointed(s, ref) /\ s \in Masters
    BY <1>0 DEF IInv, Sound
<1>3. PICK t \in Live(s) :
          /\ Cancelled(s, z, {t}) /\ s.thread[t].left = 0
          /\ running' = s.thread[t].callback /\ running = Nobody
          /\ ref' = [e \in Kept |-> IF e = s.thread[t].callback THEN NoThread ELSE ref[e]]
          /\ UNCHANGED <<objects, timeout>>
    BY <1>0, <1>1, FetchIs
<1>4. PICK c : c = s.thread[t].callback
    OBVIOUS
<1>5. c \in Callback
    BY <1>2, <1>4, Fields DEF Live, ThreadRecord
<1> DEFINE D == {c}
           T == {t}
<1>6. ref' = [e \in Kept |-> IF e \in D THEN NoThread ELSE ref[e]]
    BY <1>3, <1>4
<1>7. \A u \in Live(s) : s.thread[u].callback \in Kept => (u \in T <=> s.thread[u].callback \in D)
    BY <1>2, <1>3, <1>4 DEF Pointed
<1>8. D \in SUBSET Callback /\ Cancelled(s, z, T)
    BY <1>3, <1>5
<1>9. Left(z, ref') = [e \in Callback |-> IF e \in D THEN 0 ELSE Left(s, ref)[e]]
    <2> HIDE DEF D, T
    <2> QED BY <1>2, <1>6, <1>7, <1>8, LeftCancelled
<1>10. Left(s, ref)[c] = 0
    <2>1. c \in Kept => ref[c] = t
        BY <1>2, <1>3, <1>4 DEF Pointed
    <2> QED BY <1>3, <1>5, <2>1 DEF Left
<1>11. Left(z, ref') = Left(s, ref)
    BY <1>9, <1>10 DEF Left
<1>12. Count(s)[c] > 0 /\ Count(z) = [Count(s) EXCEPT ![c] = @ - 1]
    BY <1>4, <1>5, <1>8, CountCancelled, ZenonT(30)
<1>13. /\ ArmedNow[c] > 0 /\ ArmedNow' = [ArmedNow EXCEPT ![c] = @ - 1]
       /\ LeftNow[c] = 0 /\ LeftNow' = LeftNow
    BY <1>0, <1>1, <1>10, <1>11, <1>12, Views
<1>14. Promise!Run(c)
    BY <1>3, <1>4, <1>13 DEF Promise!Run, ArmedNow, LeftNow
<1> QED BY <1>5, <1>14

LEMMA PassKept ==
    ASSUME IInv, Tick
    PROVE  Promise!Pass
<1>0. PICK s : s = State
    OBVIOUS
<1>1. PICK z : z = State'
    OBVIOUS
<1>2. Pointed(s, ref) /\ s \in Masters /\ Ticked(s, z)
    BY <1>0, <1>1, TickIs DEF IInv, Sound
<1>3. Left(z, ref) = [c \in Callback |-> IF Left(s, ref)[c] > 0 THEN Left(s, ref)[c] - 1 ELSE 0]
    BY <1>2, LeftTicked
<1>4. \A u \in Thread : z.thread[u].type = s.thread[u].type /\ z.thread[u].callback = s.thread[u].callback
    BY <1>2, TickedIs
<1>5. Live(z) = Live(s)
    BY <1>4 DEF Live
<1>6. \A u \in Live(s) : z.thread[u].callback = s.thread[u].callback
    BY <1>4 DEF Live
<1>7. Count(z) = Count(s)
    BY <1>5, <1>6, CountSame
<1>8. ref' = ref /\ objects' = objects /\ running' = running
    BY DEF Tick
<1>9. /\ ArmedNow' = ArmedNow
      /\ LeftNow' = [c \in Callback |-> IF LeftNow[c] > 0 THEN LeftNow[c] - 1 ELSE 0]
    BY <1>0, <1>1, <1>3, <1>7, <1>8, Views
<1> QED BY <1>8, <1>9 DEF Promise!Pass, ArmedNow, LeftNow

\* Queueing a thread is no step of the promise.
LEMMA QueueKept ==
    ASSUME IInv, NEW P, Requeued(State, State', P), UNCHANGED <<ref, objects, running>>
    PROVE  UNCHANGED Promise!vars
<1>0. PICK s : s = State
    OBVIOUS
<1>1. PICK z : z = State'
    OBVIOUS
<1>2. Pointed(s, ref) /\ Requeued(s, z, P)
    BY <1>0, <1>1 DEF IInv
<1>3. /\ Live(z) = Live(s)
      /\ \A u \in Live(s) : z.thread[u].callback = s.thread[u].callback
                            /\ z.thread[u].left = s.thread[u].left
    BY <1>2, LiveRequeued
<1>4. Count(z) = Count(s)
    BY <1>3, CountSame
<1>5. Left(z, ref) = Left(s, ref)
    BY <1>2, <1>3, LeftSame
<1>6. ArmedNow' = ArmedNow /\ LeftNow' = LeftNow
    BY <1>0, <1>1, <1>4, <1>5, Views
<1> QED BY <1>6 DEF Promise!vars, ArmedNow, LeftNow

LEMMA PromiseStep == IInv /\ [Next]_vars => [Promise!Next]_(Promise!vars)
<1> SUFFICES ASSUME IInv, [Next]_vars PROVE [Promise!Next]_(Promise!vars)
    OBVIOUS
<1>1. ASSUME NEW c \in Callback, NEW delay \in Delays \cup {0}, On(c, delay)
      PROVE  Promise!Next
    BY <1>1, ArmKept DEF Promise!Next
<1>2. ASSUME NEW c \in Callback, Off(c) PROVE Promise!Next
    BY <1>2, DisarmKept DEF Promise!Next
<1>3. ASSUME NEW o \in Object, Create(o) PROVE Promise!Next
    <2>1. Promise!Create(o)
        BY <1>3 DEF Create, Calls, master, LiveThread, Promise!Create, Promise!Calls
    <2> QED BY <2>1 DEF Promise!Next
<1>4. ASSUME NEW o \in Object, Destroy(o) PROVE Promise!Next
    BY <1>4, DestroyKept DEF Promise!Next
<1>5. CASE Return
    <2>1. Promise!Return
        BY <1>5 DEF Return, master, LiveThread, Promise!Return
    <2> QED BY <2>1 DEF Promise!Next
<1>6. CASE Fetch
    BY <1>6, RunKept DEF Promise!Next
<1>7. CASE Tick
    BY <1>7, PassKept DEF Promise!Next
<1>8. CASE Collect
    BY <1>8, CollectIs, QueueKept
<1>9. ASSUME NEW r, NEW w, Select(r, w) PROVE UNCHANGED Promise!vars
    BY <1>9, SelectIs, QueueKept
<1>10. CASE Interrupt \/ UNCHANGED vars
    BY <1>10 DEF Interrupt, vars, master, LiveThread, Promise!vars
<1> QED BY <1>1, <1>2, <1>3, <1>4, <1>5, <1>6, <1>7, <1>8, <1>9, <1>10 DEF Next, ClientStep, SelectReturns

\* The event loop keeps its promise to client code.
THEOREM PromiseKept == Spec => KeepsPromise
<1> QED BY PromiseBegun, PromiseStep, Invariant, PTL DEF Spec, KeepsPromise, Promise!Spec
=============================================================================
