--------------------------- MODULE NsmClientProofs ---------------------------
(***************************************************************************)
(* NsmClient.Spec keeps TypeOK and Framed and implements NsmDelivery, for     *)
(* messages of any length and streams of any capacity.  Seen from its reader  *)
(* a stream is what it has read of a message and what is on its way; IInv     *)
(* says that the units of it follow one another (Chain) and with what it      *)
(* ends: with the part that the first of NSM's queue has written (InboundOK), *)
(* or with the part of the message the daemon is writing (OutboundOK).        *)
(* For the order of delivery, what was put aside, what is on the stream and   *)
(* what NSM has queued is one sequence (Flow); each step extends it at the    *)
(* end, takes from its front, cuts it or leaves it as it is (Moves).          *)
(***************************************************************************)
EXTENDS NsmClient, SequenceTheorems, NaturalsInduction, WellFoundedInduction, TLAPS

Follows(u, v) == IF u.part = Size THEN v.part = 1 ELSE v = [u EXCEPT !.part = @ + 1]
Chain(s) == \A i \in 1..(Len(s) - 1) : Follows(s[i], s[i + 1])
Last(s) == s[Len(s)]

\* No message has begun on s and not ended; m has, after n units.
Whole(s) == s # <<>> => Last(s).part = Size
Partly(s, m, n) == s # <<>> /\ Last(s) = [msg |-> m, part |-> n]

LEMMA UnitsAre ==
    ASSUME NEW m \in Message, NEW i \in 1..Size, NEW j \in 0..Size
    PROVE  LET x == SubSeq(Units(m), i, j) IN
           /\ x \in Seq(Unit) /\ Len(x) = IF i <= j THEN j - i + 1 ELSE 0
           /\ \A k \in 1..Len(x) : x[k] = [msg |-> m, part |-> i + k - 1]
           /\ Chain(x)
<1>1. \A k \in i..j : Units(m)[k] = [msg |-> m, part |-> k] /\ Units(m)[k] \in Unit
    BY StreamAssumption DEF Units, Unit
<1> HIDE DEF Units
<1>2. SubSeq(Units(m), i, j) \in Seq(Unit)
    <2>1. i \in Int /\ j \in Int
        BY StreamAssumption
    <2>2. \A k \in i..j : Units(m)[k] \in Unit
        BY <1>1
    <2> QED BY <2>1, <2>2, SubSeqProperties, Zenon
<1>3. /\ Len(SubSeq(Units(m), i, j)) = IF i <= j THEN j - i + 1 ELSE 0
      /\ \A k \in 1..(j - i + 1) : SubSeq(Units(m), i, j)[k] = Units(m)[i + k - 1]
    BY <1>1, SubSeqProperties, StreamAssumption
<1>4. \A k \in 1..(j - i + 1) : SubSeq(Units(m), i, j)[k] = [msg |-> m, part |-> i + k - 1]
    BY <1>1, <1>3, StreamAssumption
<1>5. Chain(SubSeq(Units(m), i, j))
    <2>1. ASSUME NEW k \in 1..(Len(SubSeq(Units(m), i, j)) - 1)
          PROVE  Follows(SubSeq(Units(m), i, j)[k], SubSeq(Units(m), i, j)[k + 1])
        <3>1. k \in 1..(j - i + 1) /\ k + 1 \in 1..(j - i + 1) /\ i + k - 1 # Size
            BY <1>3, StreamAssumption
        <3>2. /\ SubSeq(Units(m), i, j)[k] = [msg |-> m, part |-> i + k - 1]
              /\ SubSeq(Units(m), i, j)[k + 1] = [msg |-> m, part |-> i + k]
            BY <1>4, <3>1, StreamAssumption
        <3> QED BY <3>1, <3>2, StreamAssumption DEF Follows
    <2> QED BY <2>1 DEF Chain
<1>6. \A k \in 1..Len(SubSeq(Units(m), i, j)) : SubSeq(Units(m), i, j)[k] = [msg |-> m, part |-> i + k - 1]
    BY <1>3, <1>4, StreamAssumption
<1> QED BY <1>2, <1>3, <1>5, <1>6, Zenon

LEMMA AllUnits ==
    ASSUME NEW m \in Message
    PROVE  /\ Units(m) \in Seq(Unit) /\ Len(Units(m)) = Size
           /\ \A k \in 1..Size : Units(m)[k] = [msg |-> m, part |-> k]
<1>1. Units(m) \in [1..Size -> Unit]
    BY DEF Units, Unit
<1> QED BY <1>1, SeqDef, LenProperties, StreamAssumption DEF Units

\* What is written goes on where the stream was left.
LEMMA Extended ==
    ASSUME NEW s \in Seq(Unit), NEW x \in Seq(Unit), Chain(s), Chain(x),
           s # <<>> /\ x # <<>> => Follows(Last(s), x[1])
    PROVE  s \o x \in Seq(Unit) /\ Chain(s \o x) /\ (x # <<>> => s \o x # <<>> /\ Last(s \o x) = Last(x))
<1>1. /\ s \o x \in Seq(Unit) /\ Len(s \o x) = Len(s) + Len(x)
      /\ \A i \in 1..(Len(s) + Len(x)) : (s \o x)[i] = IF i <= Len(s) THEN s[i] ELSE x[i - Len(s)]
    BY ConcatProperties
<1>2. Len(s) \in Nat /\ Len(x) \in Nat /\ (Len(s) > 0 => s # <<>>) /\ (Len(x) > 0 => x # <<>>)
    BY LenProperties, EmptySeq
<1>3. ASSUME NEW i \in 1..(Len(s \o x) - 1)
      PROVE  Follows((s \o x)[i], (s \o x)[i + 1])
    <2>1. CASE i < Len(s)
        BY <1>1, <1>2, <2>1 DEF Chain
    <2>2. CASE i = Len(s)
        BY <1>1, <1>2, <2>2 DEF Last
    <2>3. CASE i > Len(s)
        BY <1>1, <1>2, <2>3 DEF Chain
    <2> QED BY <1>1, <1>2, <2>1, <2>2, <2>3
<1>4. x # <<>> => s \o x # <<>> /\ Last(s \o x) = Last(x)
    BY <1>1, <1>2, EmptySeq, ConcatEqualIffEmpty DEF Last
<1> QED BY <1>1, <1>3, <1>4 DEF Chain

LEMMA Regrouped ==
    ASSUME NEW a \in Seq(Unit), NEW d \in Seq(Unit), NEW x \in Seq(Unit)
    PROVE  a \o (d \o x) = (a \o d) \o x
BY ConcatAssociative, SMTT(30)

\* Whoever reads a unit keeps it, until it is the last of its message.
LEMMA ReadOn ==
    ASSUME NEW a \in Seq(Unit), NEW b \in Seq(Unit), b # <<>>, Chain(a \o b)
    PROVE  /\ Append(a, Head(b)) \in Seq(Unit) /\ Tail(b) \in Seq(Unit)
           /\ Append(a, Head(b)) \o Tail(b) = a \o b
           /\ <<>> \o Tail(b) = Tail(b)
           /\ Chain(Tail(b))
           /\ Tail(b) # <<>> => Last(Tail(b)) = Last(a \o b)
           /\ Tail(b) = <<>> => Last(a \o b) = Head(b)
           /\ a \o b # <<>>
<1>1. Head(b) \in Unit /\ Tail(b) \in Seq(Unit) /\ Len(Tail(b)) = Len(b) - 1
      /\ \A i \in 1..Len(Tail(b)) : Tail(b)[i] = b[i + 1]
    BY HeadTailProperties
<1>2. Len(a) \in Nat /\ Len(b) \in Nat \ {0} /\ Head(b) = b[1]
    BY LenProperties, EmptySeq
<1>3. /\ a \o b \in Seq(Unit) /\ Len(a \o b) = Len(a) + Len(b)
      /\ \A i \in 1..(Len(a) + Len(b)) : (a \o b)[i] = IF i <= Len(a) THEN a[i] ELSE b[i - Len(a)]
    BY ConcatProperties
<1> DEFINE c == Append(a, Head(b))
<1>4. c \in Seq(Unit) /\ Len(c) = Len(a) + 1
      /\ (\A i \in 1..Len(a) : c[i] = a[i]) /\ c[Len(a) + 1] = b[1]
    BY <1>1, <1>2, AppendProperties
<1> HIDE DEF c
<1>5. /\ c \o Tail(b) \in Seq(Unit) /\ Len(c \o Tail(b)) = Len(c) + Len(Tail(b))
      /\ \A i \in 1..(Len(c) + Len(Tail(b))) :
            (c \o Tail(b))[i] = IF i <= Len(c) THEN c[i] ELSE Tail(b)[i - Len(c)]
    BY <1>1, <1>4, ConcatProperties
<1>6. c \o Tail(b) = a \o b
    <2>1. Len(c \o Tail(b)) = Len(a \o b)
        BY <1>1, <1>2, <1>3, <1>4, <1>5
    <2>2. ASSUME NEW i \in 1..Len(c \o Tail(b)) PROVE (c \o Tail(b))[i] = (a \o b)[i]
        <3>1. CASE i <= Len(a)
            BY <1>1, <1>2, <1>3, <1>4, <1>5, <3>1
        <3>2. CASE i = Len(a) + 1
            BY <1>1, <1>2, <1>3, <1>4, <1>5, <3>2
        <3>3. CASE i > Len(a) + 1
            BY <1>1, <1>2, <1>3, <1>4, <1>5, <3>3
        <3> QED BY <1>2, <1>5, <1>4, <1>1, <3>1, <3>2, <3>3
    <2> QED BY <1>3, <1>5, <2>1, <2>2, SeqEqual
<1>7. Chain(Tail(b))
    <2>1. ASSUME NEW i \in 1..(Len(Tail(b)) - 1) PROVE Follows(Tail(b)[i], Tail(b)[i + 1])
        <3>1. Tail(b)[i] = b[i + 1] /\ Tail(b)[i + 1] = b[i + 2]
            BY <1>1, <1>2
        <3>2. (a \o b)[Len(a) + i + 1] = b[i + 1] /\ (a \o b)[Len(a) + i + 1 + 1] = b[i + 2]
            BY <1>1, <1>2, <1>3
        <3>3. Len(a) + i + 1 \in 1..(Len(a \o b) - 1)
            BY <1>1, <1>2, <1>3
        <3> QED BY <3>1, <3>2, <3>3 DEF Chain
    <2> QED BY <2>1 DEF Chain
<1>8. Tail(b) # <<>> => Len(Tail(b)) \in Nat \ {0}
    BY <1>1, EmptySeq
<1>9. Tail(b) # <<>> => Last(Tail(b)) = Last(a \o b)
    BY <1>1, <1>2, <1>3, <1>8 DEF Last
<1>10. Tail(b) = <<>> => Last(a \o b) = Head(b)
    <2>1. Tail(b) = <<>> => Len(b) = 1
        BY <1>1, <1>2, EmptySeq
    <2> QED BY <1>2, <1>3, <2>1 DEF Last
<1>11. a \o b # <<>>
    BY <1>2, <1>3, EmptySeq
<1> QED BY <1>1, <1>4, <1>6, <1>7, <1>9, <1>10, <1>11, ConcatEmptySeq DEF c

----------------------------------------------------------------------------

Entry == [msg : Message, written : 0..(Size - 1)]

\* Only the first of a queue may have begun.
QueueOK(e) ==
    /\ e.t_write <=> e.queue # <<>>
    /\ \A i \in 2..Len(e.queue) : e.queue[i].written = 0
    /\ e.state # "open" => e.queue = <<>> /\ e.recv = <<>>

HasBegun(e) == e.queue # <<>> /\ Head(e.queue).written > 0

\* s ends with what the first of the queue has written.
InboundOK(e, s) ==
    /\ Chain(s)
    /\ e.state = "open" =>
         IF HasBegun(e) THEN Partly(s, Head(e.queue).msg, Head(e.queue).written) ELSE Whole(s)

LEMMA EntryFields ==
    ASSUME NEW e \in Server
    PROVE  /\ e.state \in {"none", "backlog", "open", "gone"} /\ e.service \in BOOLEAN
           /\ e.queue \in Seq(Entry) /\ e.t_write \in BOOLEAN /\ e.recv \in Seq(Unit)
BY DEF Server, Entry

LEMMA SettingEntry ==
    ASSUME NEW e \in Server
    PROVE  /\ \A x \in {"none", "backlog", "open", "gone"} : [e EXCEPT !.state = x] \in Server
           /\ \A x \in BOOLEAN : [e EXCEPT !.service = x] \in Server
           /\ \A x \in BOOLEAN : [e EXCEPT !.t_write = x] \in Server
           /\ \A x \in Seq(Entry) : [e EXCEPT !.queue = x] \in Server
           /\ \A x \in Seq(Unit) : [e EXCEPT !.recv = x] \in Server
BY DEF Server, Entry

\* NSM's entry when the socket took n units of m, and when it took n more of the first
\* that waits.
AfterSend(e, m, n) ==
    IF n = Size THEN e
    ELSE [e EXCEPT !.queue = Append(@, [msg |-> m, written |-> n]), !.t_write = TRUE]
AfterDequeue(e, n) ==
    IF Head(e.queue).written + n = Size
    THEN [e EXCEPT !.queue = Tail(@), !.t_write = Len(e.queue) > 1]
    ELSE [e EXCEPT !.queue[1].written = Head(e.queue).written + n]

\* The socket takes n units of m, and the rest waits.
LEMMA SentOn ==
    ASSUME NEW e \in Server, NEW m \in Message, NEW n \in 0..Size,
           NEW a \in Seq(Unit), NEW d \in Seq(Unit), e.state = "open",
           QueueOK(e), InboundOK(e, a \o d), e.queue # <<>> => n = 0
    PROVE  LET f == AfterSend(e, m, n) IN
           /\ f \in Server /\ f.state = "open" /\ f.recv = e.recv /\ f.service = e.service
           /\ QueueOK(f)
           /\ d \o SubSeq(Units(m), 1, n) \in Seq(Unit)
           /\ Len(d \o SubSeq(Units(m), 1, n)) = Len(d) + n
           /\ InboundOK(f, a \o (d \o SubSeq(Units(m), 1, n)))
<1> DEFINE f == AfterSend(e, m, n)
           x == SubSeq(Units(m), 1, n)
           q == Append(e.queue, [msg |-> m, written |-> n])
           h == [e EXCEPT !.queue = q]
<1>1. /\ x \in Seq(Unit) /\ Len(x) = n /\ Chain(x)
      /\ \A k \in 1..n : x[k] = [msg |-> m, part |-> k]
    <2>1. 1 \in 1..Size
        BY StreamAssumption
    <2>2. x \in Seq(Unit) /\ Len(x) = (IF 1 <= n THEN n - 1 + 1 ELSE 0) /\ Chain(x)
          /\ \A k \in 1..Len(x) : x[k] = [msg |-> m, part |-> 1 + k - 1]
        BY <2>1, UnitsAre, Zenon
    <2> HIDE DEF x
    <2>3. Len(x) = n
        BY <2>2, StreamAssumption
    <2>4. ASSUME NEW k \in 1..n PROVE x[k] = [msg |-> m, part |-> k]
        <3>1. 1 + k - 1 = k
            OBVIOUS
        <3> QED BY <2>2, <2>3, <3>1
    <2> QED BY <2>2, <2>3, <2>4
<1> HIDE DEF x, f
<1>2. (d \o x) \in Seq(Unit) /\ Len(d \o x) = Len(d) + n /\ a \o (d \o x) = (a \o d) \o x
      /\ a \o d \in Seq(Unit)
    <2>1. (d \o x) \in Seq(Unit) /\ Len(d \o x) = Len(d) + n
        BY <1>1, ConcatProperties
    <2>2. a \o d \in Seq(Unit)
        BY ConcatProperties, Zenon
    <2>3. a \o (d \o x) = (a \o d) \o x
        BY <1>1, Regrouped, Zenon
    <2> QED BY <2>1, <2>2, <2>3
<1>3. n = 0 => x = <<>> /\ (a \o d) \o x = a \o d
    BY <1>1, <1>2, EmptySeq, ConcatEmptySeq
<1>4. n > 0 => x # <<>> /\ Last(x) = [msg |-> m, part |-> n] /\ x[1] = [msg |-> m, part |-> 1]
    BY <1>1, EmptySeq DEF Last
<1>5. e.queue \in Seq(Entry) /\ (e.t_write <=> e.queue # <<>>)
    BY EntryFields DEF QueueOK
<1>6. n > 0 => /\ Chain((a \o d) \o x) /\ (a \o d) \o x # <<>>
               /\ Last((a \o d) \o x) = [msg |-> m, part |-> n]
    <2> SUFFICES ASSUME n > 0
                 PROVE  /\ Chain((a \o d) \o x) /\ (a \o d) \o x # <<>>
                        /\ Last((a \o d) \o x) = [msg |-> m, part |-> n]
        OBVIOUS
    <2>1. Chain(a \o d) /\ Whole(a \o d)
        BY DEF InboundOK, HasBegun
    <2>2. a \o d # <<>> => Follows(Last(a \o d), x[1])
        BY <1>4, <2>1 DEF Whole, Follows
    <2> QED BY <1>1, <1>2, <1>4, <2>1, <2>2, Extended
<1> DEFINE G == /\ f \in Server /\ f.state = "open" /\ f.recv = e.recv /\ f.service = e.service
                /\ QueueOK(f)
                /\ d \o x \in Seq(Unit)
                /\ Len(d \o x) = Len(d) + n
                /\ InboundOK(f, a \o (d \o x))
<1>7. ASSUME n = Size PROVE G
    <2>1. f = e
        BY <1>7 DEF f, AfterSend
    <2>2. Whole((a \o d) \o x) /\ Chain((a \o d) \o x) /\ e.queue = <<>>
        BY <1>4, <1>6, <1>7, StreamAssumption DEF Whole
    <2> QED BY <1>1, <1>2, <2>1, <2>2 DEF InboundOK, HasBegun
<1>8. ASSUME n # Size PROVE G
    <2>1. [msg |-> m, written |-> n] \in Entry
        BY <1>8, StreamAssumption DEF Entry
    <2>2. /\ q \in Seq(Entry) /\ q # <<>> /\ Len(q) = Len(e.queue) + 1
          /\ \A i \in 1..Len(e.queue) : q[i] = e.queue[i]
          /\ q[Len(e.queue) + 1] = [msg |-> m, written |-> n]
        <3>1. e.queue \in Seq(Entry)
            BY <1>5
        <3> QED BY <2>1, <3>1, AppendProperties
    <2>3. Head(q) = IF e.queue = <<>> THEN [msg |-> m, written |-> n] ELSE Head(e.queue)
        BY <1>5, <2>1, HeadTailAppend
    <2> HIDE DEF q
    <2>4. h \in Server
        BY <2>2, SettingEntry, Zenon
    <2>5. [h EXCEPT !.t_write = TRUE] \in Server
        BY <2>4, SettingEntry, Zenon
    <2>6. f = [h EXCEPT !.t_write = TRUE]
        <3>1. f = [e EXCEPT !.queue = q, !.t_write = TRUE]
            BY <1>8 DEF f, q, AfterSend
        <3> QED BY <3>1, Zenon
    <2>7. /\ f.queue = q /\ f.t_write = TRUE /\ f.state = e.state /\ f.recv = e.recv
          /\ f.service = e.service
        BY <2>6 DEF Server
    <2>8. QueueOK(f)
        <3>1. Len(e.queue) \in Nat /\ (e.queue = <<>> => Len(e.queue) = 0)
            BY <1>5, LenProperties, EmptySeq
        <3>2. ASSUME NEW i \in 2..Len(q) PROVE q[i].written = 0
            <4>1. CASE i <= Len(e.queue)
                <5>1. \A j \in 2..Len(e.queue) : e.queue[j].written = 0
                    BY Zenon DEF QueueOK
                <5>2. i \in 2..Len(e.queue) /\ i \in 1..Len(e.queue)
                    BY <3>1, <4>1
                <5>3. q[i] = e.queue[i]
                    BY <2>2, <5>2, Zenon
                <5> QED BY <5>1, <5>2, <5>3, Zenon
            <4>2. CASE i > Len(e.queue)
                <5>1. i = Len(e.queue) + 1 /\ n = 0
                    BY <2>2, <3>1, <4>2
                <5> QED BY <2>2, <5>1
            <4> QED BY <3>1, <4>1, <4>2
        <3> QED BY <2>2, <2>7, <3>2 DEF QueueOK
    <2>9. InboundOK(f, (a \o d) \o x)
        <3>1. CASE n = 0
            <4>1. Head(q).written > 0 => HasBegun(e) /\ Head(q) = Head(e.queue)
                BY <2>3, <3>1 DEF HasBegun
            <4>2. HasBegun(e) => Head(q) = Head(e.queue)
                BY <2>3 DEF HasBegun
            <4>3. HasBegun(f) <=> HasBegun(e)
                BY <2>2, <2>7, <4>1, <4>2 DEF HasBegun
            <4> QED BY <1>3, <2>7, <3>1, <4>2, <4>3 DEF InboundOK
        <3>2. CASE n > 0
            <4>1. e.queue = <<>> /\ Head(q) = [msg |-> m, written |-> n]
                BY <2>3, <3>2
            <4>2. HasBegun(f) /\ Head(f.queue) = [msg |-> m, written |-> n]
                BY <2>2, <2>7, <3>2, <4>1 DEF HasBegun
            <4> QED BY <1>6, <3>2, <4>2 DEF InboundOK, Partly
        <3> QED BY <3>1, <3>2
    <2> QED BY <1>1, <1>2, <2>5, <2>6, <2>7, <2>8, <2>9
<1> QED BY <1>7, <1>8 DEF f, x

\* The socket takes n more units of the first that waits.
LEMMA SentLater ==
    ASSUME NEW e \in Server, NEW a \in Seq(Unit), NEW d \in Seq(Unit), e.state = "open",
           QueueOK(e), InboundOK(e, a \o d), e.queue # <<>>,
           NEW n \in 1..(Size - Head(e.queue).written)
    PROVE  LET w == Head(e.queue).written
               x == SubSeq(Units(Head(e.queue).msg), w + 1, w + n)
               f == AfterDequeue(e, n)
           IN
           /\ f \in Server /\ f.state = "open" /\ f.recv = e.recv /\ f.service = e.service
           /\ QueueOK(f)
           /\ d \o x \in Seq(Unit)
           /\ Len(d \o x) = Len(d) + n
           /\ InboundOK(f, a \o (d \o x))
<1> DEFINE w == Head(e.queue).written
           m == Head(e.queue).msg
           f == AfterDequeue(e, n)
           x == SubSeq(Units(m), w + 1, w + n)
<1> HIDE DEF f
<1>1. /\ e.queue \in Seq(Entry) /\ Head(e.queue) \in Entry /\ Tail(e.queue) \in Seq(Entry)
      /\ Len(e.queue) \in Nat \ {0} /\ Head(e.queue) = e.queue[1]
      /\ Len(Tail(e.queue)) = Len(e.queue) - 1
      /\ \A i \in 1..Len(Tail(e.queue)) : Tail(e.queue)[i] = e.queue[i + 1]
    <2>1. e.queue \in Seq(Entry)
        BY EntryFields, Zenon
    <2> QED BY <2>1, HeadTailProperties, EmptySeq
<1>2. \A i \in 2..Len(e.queue) : e.queue[i].written = 0
    BY Zenon DEF QueueOK
<1>3. m \in Message /\ w \in 0..(Size - 1) /\ Head(e.queue) = [msg |-> m, written |-> w]
    BY <1>1 DEF Entry
<1> n \in 1..(Size - w)
    OBVIOUS
<1> HIDE DEF w, m
<1>4. /\ x \in Seq(Unit) /\ Len(x) = n /\ Chain(x)
      /\ x[1] = [msg |-> m, part |-> w + 1] /\ x[n] = [msg |-> m, part |-> w + n]
    <2>1. w + 1 \in 1..Size /\ w + n \in 0..Size
        BY <1>3, StreamAssumption
    <2>2. x \in Seq(Unit) /\ Len(x) = n /\ Chain(x)
          /\ \A k \in 1..Len(x) : x[k] = [msg |-> m, part |-> w + 1 + k - 1]
        <3>1. PICK i \in 1..Size, j \in 0..Size : i = w + 1 /\ j = w + n
            BY <2>1
        <3>2. /\ SubSeq(Units(m), i, j) \in Seq(Unit)
              /\ Len(SubSeq(Units(m), i, j)) = (IF i <= j THEN j - i + 1 ELSE 0)
              /\ \A k \in 1..Len(SubSeq(Units(m), i, j)) :
                    SubSeq(Units(m), i, j)[k] = [msg |-> m, part |-> i + k - 1]
              /\ Chain(SubSeq(Units(m), i, j))
            BY <1>3, UnitsAre, Zenon
        <3>3. x = SubSeq(Units(m), i, j)
            BY <3>1
        <3> HIDE DEF x
        <3>4. x \in Seq(Unit) /\ Chain(x) /\ Len(x) = (IF i <= j THEN j - i + 1 ELSE 0)
              /\ \A k \in 1..Len(x) : x[k] = [msg |-> m, part |-> i + k - 1]
            BY <3>2, <3>3, Zenon
        <3>5. ASSUME NEW k \in 1..Len(x) PROVE x[k] = [msg |-> m, part |-> w + 1 + k - 1]
            BY <3>1, <3>4, Zenon
        <3>6. Len(x) = n
            BY <1>3, <3>1, <3>4
        <3> QED BY <3>4, <3>5, <3>6, Zenon
    <2> HIDE DEF x
    <2>3. Len(x) = n /\ w + 1 + 1 - 1 = w + 1 /\ w + 1 + n - 1 = w + n /\ 1 \in 1..n /\ n \in 1..n
        BY <1>3, <2>2, StreamAssumption
    <2> QED BY <2>2, <2>3
<1> HIDE DEF x
<1>5. (d \o x) \in Seq(Unit) /\ Len(d \o x) = Len(d) + n /\ a \o (d \o x) = (a \o d) \o x
      /\ a \o d \in Seq(Unit)
    <2>1. (d \o x) \in Seq(Unit) /\ Len(d \o x) = Len(d) + n
        BY <1>4, ConcatProperties
    <2>2. a \o d \in Seq(Unit)
        BY ConcatProperties
    <2>3. a \o (d \o x) = (a \o d) \o x
        <3>1. x \in Seq(Unit)
            BY <1>4
        <3> QED BY <3>1, Regrouped, Zenon
    <2> QED BY <2>1, <2>2, <2>3
<1>6. x # <<>> /\ Last(x) = [msg |-> m, part |-> w + n]
    BY <1>4, EmptySeq DEF Last
<1>7. /\ Chain((a \o d) \o x) /\ (a \o d) \o x # <<>>
      /\ Last((a \o d) \o x) = [msg |-> m, part |-> w + n]
    <2>1. a \o d # <<>> => Follows(Last(a \o d), x[1])
        <3>1. CASE w = 0
            BY <1>3, <1>4, <3>1 DEF InboundOK, HasBegun, Whole, Follows
        <3>2. CASE w > 0
            <4>1. Last(a \o d) = [msg |-> m, part |-> w]
                BY <1>3, <3>2 DEF InboundOK, HasBegun, Partly
            <4> QED BY <1>3, <1>4, <4>1, StreamAssumption DEF Follows
        <3> QED BY <1>3, <3>1, <3>2
    <2> QED BY <1>4, <1>5, <1>6, <2>1, Extended DEF InboundOK
<1> DEFINE G == /\ f \in Server /\ f.state = "open" /\ f.recv = e.recv /\ f.service = e.service
                /\ QueueOK(f)
                /\ d \o x \in Seq(Unit)
                /\ Len(d \o x) = Len(d) + n
                /\ InboundOK(f, a \o (d \o x))
<1>8. ASSUME w + n = Size PROVE G
    <2> DEFINE more == Len(e.queue) > 1
               q == Tail(e.queue)
               h == [e EXCEPT !.queue = q]
    <2>1. more \in BOOLEAN
        OBVIOUS
    <2>2. q \in Seq(Entry) /\ (more <=> q # <<>>)
        <3>1. Len(q) > 0 <=> Len(e.queue) > 1
            BY <1>1
        <3>2. q # <<>> <=> Len(q) > 0
            <4>1. q \in Seq(Entry)
                BY <1>1
            <4> HIDE DEF q
            <4> QED BY <4>1, EmptySeq
        <3> QED BY <1>1, <3>1, <3>2, Zenon
    <2>3. \A i \in 1..Len(q) : q[i].written = 0
        BY <1>1, <1>2
    <2> HIDE DEF more
    <2>4. h \in Server
        BY <2>2, SettingEntry, Zenon
    <2>5. [h EXCEPT !.t_write = more] \in Server
        BY <2>1, <2>4, SettingEntry, Zenon
    <2>6. f = [h EXCEPT !.t_write = more]
        BY <1>8 DEF f, q, Server, more, AfterDequeue, w
    <2>7. /\ f.queue = q /\ f.t_write = more /\ f.state = e.state /\ f.recv = e.recv
          /\ f.service = e.service
        BY <2>6 DEF Server
    <2> HIDE DEF q
    <2>8. QueueOK(f)
        <3>1. \A i \in 2..Len(f.queue) : f.queue[i].written = 0
            BY <2>2, <2>3, <2>7, LenProperties
        <3>2. f.t_write <=> f.queue # <<>>
            BY <2>2, <2>7, Zenon
        <3> QED BY <2>7, <3>1, <3>2, Zenon DEF QueueOK
    <2>9. q # <<>> => Head(q).written = 0
        BY <2>2, <2>3, EmptySeq
    <2>10. InboundOK(f, (a \o d) \o x)
        BY <1>7, <1>8, <2>7, <2>9 DEF InboundOK, HasBegun, Whole
    <2> QED BY <1>5, <2>5, <2>6, <2>7, <2>8, <2>10
<1>9. ASSUME w + n # Size PROVE G
    <2> DEFINE b == [msg |-> m, written |-> w + n]
               q == [e.queue EXCEPT ![1] = b]
    <2>1. b \in Entry
        BY <1>3, <1>9, StreamAssumption DEF Entry
    <2>2. 1 \in 1..Len(e.queue)
        BY <1>1
    <2>3. /\ q \in Seq(Entry) /\ Len(q) = Len(e.queue)
          /\ \A j \in 1..Len(e.queue) : q[j] = IF j = 1 THEN b ELSE e.queue[j]
        BY <1>1, <2>1, <2>2, ExceptSeq
    <2>4. f = [e EXCEPT !.queue = q]
        <3>1. [e.queue[1] EXCEPT !.written = w + n] = b
            BY <1>1, <1>3
        <3>2. f = [e EXCEPT !.queue = [e.queue EXCEPT ![1] = [e.queue[1] EXCEPT !.written = w + n]]]
            BY <1>9 DEF f, AfterDequeue, w
        <3> QED BY <3>1, <3>2
    <2> HIDE DEF q
    <2>5. f \in Server
        BY <2>3, <2>4, SettingEntry, Zenon
    <2>6. /\ f.queue = q /\ f.t_write = e.t_write /\ f.state = e.state /\ f.recv = e.recv
          /\ f.service = e.service
        BY <2>4 DEF Server
    <2>7. q # <<>> /\ Head(q) = b
        BY <1>1, <2>2, <2>3, EmptySeq
    <2>8. QueueOK(f)
        <3>1. \A i \in 2..Len(f.queue) : f.queue[i].written = 0
            BY <1>1, <1>2, <2>3, <2>6
        <3>2. f.t_write <=> f.queue # <<>>
            BY <2>6, <2>7, Zenon DEF QueueOK
        <3> QED BY <2>6, <3>1, <3>2, Zenon DEF QueueOK
    <2>9. InboundOK(f, (a \o d) \o x)
        BY <1>3, <1>7, <2>6, <2>7 DEF InboundOK, HasBegun, Partly
    <2> QED BY <1>5, <2>5, <2>6, <2>8, <2>9
<1> QED BY <1>8, <1>9 DEF f, x, w, m

----------------------------------------------------------------------------

\* t ends with what the daemon has written of the message it writes.
OutboundOK(e, c, t) ==
    /\ Chain(t)
    /\ e.state \in {"backlog", "open"} =>
         IF c.op = "write" /\ Len(c.out) < Size
         THEN Partly(t, c.out[1].msg, Size - Len(c.out)) ELSE Whole(t)

Sending(c) ==
    c.op = "write" =>
        /\ c.out # <<>> /\ Len(c.out) <= Size
        /\ \A i \in 1..Len(c.out) :
              c.out[i] = [msg |-> c.out[1].msg, part |-> Size - Len(c.out) + i]

PhaseOK(e, c, d) ==
    /\ c.run = "idle" => c.op = "go"
    /\ c.op # "body" => c.in = <<>>
    /\ c.op = "write" => c.sock = TRUE
    /\ c.sock = TRUE => e.state # "none"
    /\ e.state = "backlog" => d = <<>> /\ c.in = <<>>

\* What every step of either side keeps.
IInv ==
    /\ TypeOK
    /\ QueueOK(nse)
    /\ InboundOK(nse, cli.in \o toDaemon)
    /\ OutboundOK(nse, cli, nse.recv \o toNsm)
    /\ Sending(cli)
    /\ PhaseOK(nse, cli, toDaemon)

LEMMA ClientFields ==
    ASSUME NEW c \in Client
    PROVE  /\ c.sock \in BOOLEAN /\ c.t_read \in BOOLEAN /\ c.t_pend \in BOOLEAN
           /\ c.t_connect \in BOOLEAN /\ c.pend \in Seq(Message)
           /\ c.run \in {"idle", "read", "pend", "app"} /\ c.op \in {"go", "write", "body"}
           /\ c.in \in Seq(Unit) /\ c.out \in Seq(Unit) /\ c.sync \in 0..Asks
BY DEF Client

LEMMA SettingClient ==
    ASSUME NEW c \in Client
    PROVE  /\ \A x \in BOOLEAN :
                /\ [c EXCEPT !.sock = x] \in Client
                /\ [c EXCEPT !.t_read = x] \in Client
                /\ [c EXCEPT !.t_pend = x] \in Client
                /\ [c EXCEPT !.t_connect = x] \in Client
           /\ \A x \in Seq(Message) : [c EXCEPT !.pend = x] \in Client
           /\ \A x \in {"idle", "read", "pend", "app"} : [c EXCEPT !.run = x] \in Client
           /\ \A x \in {"go", "write", "body"} : [c EXCEPT !.op = x] \in Client
           /\ \A x \in Seq(Unit) : [c EXCEPT !.in = x] \in Client
           /\ \A x \in Seq(Unit) : [c EXCEPT !.out = x] \in Client
           /\ \A x \in 0..Asks : [c EXCEPT !.sync = x] \in Client
BY DEF Client

LEMMA Initially == Init => IInv
<1> SUFFICES ASSUME Init PROVE IInv
    OBVIOUS
<1>1. nse = NoEntry /\ toNsm = <<>> /\ toDaemon = <<>>
      /\ cli = [sock |-> FALSE, t_read |-> FALSE, t_pend |-> FALSE, t_connect |-> TRUE,
                pend |-> <<>>, run |-> "idle", op |-> "go", in |-> <<>>, out |-> <<>>,
                sync |-> None]
    BY DEF Init
<1>2. <<>> \in Seq(Unit) /\ <<>> \in Seq(Entry) /\ <<>> \in Seq(Message) /\ Len(<<>>) = 0
      /\ <<>> \o <<>> = <<>>
    BY EmptySeq, ConcatEmptySeq
<1>3. nse \in Server
    BY <1>1, <1>2 DEF NoEntry, Server, Entry
<1>4. cli \in Client
    BY <1>1, <1>2, BoundAssumption DEF Client, None
<1>0. alive = TRUE /\ told = 0 /\ asked = 0 /\ crashed = FALSE
    BY DEF Init
<1>5. TypeOK
    <2>1. alive \in BOOLEAN /\ crashed \in BOOLEAN
        BY <1>0
    <2>2. Len(toNsm) <= Room /\ Len(toDaemon) <= Room /\ told \in 0..Notes /\ asked \in 0..Asks
        BY <1>0, <1>1, <1>2, StreamAssumption, BoundAssumption
    <2> QED BY <1>1, <1>2, <1>3, <1>4, <2>1, <2>2, Zenon DEF TypeOK
<1>6. QueueOK(nse)
    BY <1>1, <1>2 DEF NoEntry, QueueOK
<1>7. InboundOK(nse, cli.in \o toDaemon) /\ OutboundOK(nse, cli, nse.recv \o toNsm)
    BY <1>1, <1>2 DEF NoEntry, InboundOK, OutboundOK, Chain
<1>8. Sending(cli) /\ PhaseOK(nse, cli, toDaemon)
    BY <1>1, <1>2 DEF NoEntry, Sending, PhaseOK
<1> QED BY <1>5, <1>6, <1>7, <1>8 DEF IInv

----------------------------------------------------------------------------

LEMMA Types ==
    ASSUME TypeOK
    PROVE  /\ alive \in BOOLEAN /\ crashed \in BOOLEAN /\ nse \in Server /\ cli \in Client
           /\ toNsm \in Seq(Unit) /\ toDaemon \in Seq(Unit)
           /\ Len(toNsm) <= Room /\ Len(toDaemon) <= Room
           /\ told \in 0..Notes /\ asked \in 0..Asks
           /\ nse.recv \in Seq(Unit) /\ nse.queue \in Seq(Entry)
           /\ cli.in \in Seq(Unit) /\ cli.out \in Seq(Unit)
BY ClientFields, EntryFields DEF TypeOK

LEMMA AcceptKeeps == ASSUME IInv, Accept PROVE IInv'
<1>1. /\ nse.state = "backlog" /\ nse' = [nse EXCEPT !.state = "open"]
      /\ UNCHANGED <<alive, toNsm, toDaemon, cli, told, asked, crashed>>
    BY DEF Accept
<1>2. TypeOK
    BY DEF IInv
<1>3. nse' \in Server
    BY <1>1, <1>2, Types, SettingEntry, Zenon
<1>4. /\ nse'.state = "open" /\ nse'.queue = nse.queue /\ nse'.recv = nse.recv
      /\ nse'.t_write = nse.t_write
    BY <1>1, <1>2, Types DEF Server
<1>5. nse.queue = <<>> /\ ~nse.t_write
    BY <1>1, Zenon DEF IInv, QueueOK
<1>6. cli.in \o toDaemon = <<>>
    BY <1>1, ConcatEmptySeq, EmptySeq DEF IInv, PhaseOK
<1>7. TypeOK'
    BY <1>1, <1>2, <1>3, Types, Zenon DEF TypeOK
<1>8. QueueOK(nse)'
    BY <1>4, <1>5, EmptySeq, Zenon DEF IInv, QueueOK
<1>9. InboundOK(nse, cli.in \o toDaemon)'
    BY <1>1, <1>4, <1>5, <1>6 DEF IInv, InboundOK, HasBegun, Whole
<1>10. OutboundOK(nse, cli, nse.recv \o toNsm)'
    BY <1>1, <1>4 DEF IInv, OutboundOK
<1>11. Sending(cli)'
    BY <1>1 DEF IInv, Sending
<1>12. PhaseOK(nse, cli, toDaemon)'
    BY <1>1, <1>4 DEF IInv, PhaseOK
<1> QED BY <1>7, <1>8, <1>9, <1>10, <1>11, <1>12 DEF IInv

\* A message NSM sends, whatever it does with its entry besides.
LEMMA SendKeeps ==
    ASSUME IInv, NEW s \in Server, NEW m \in Message, Send(s, m),
           s.state = "open", nse.state = "open",
           s.queue = nse.queue, s.t_write = nse.t_write
    PROVE  /\ nse' \in Server /\ nse'.state = "open" /\ nse'.recv = s.recv
           /\ toDaemon' \in Seq(Unit) /\ Len(toDaemon') <= Room
           /\ QueueOK(nse')
           /\ InboundOK(nse', cli.in \o toDaemon')
<1>1. TypeOK
    BY DEF IInv
<1>2. PICK n \in 0..Least(Size, Room - Len(toDaemon)) :
        (s.queue # <<>> => n = 0) /\ Written(s, m, n)
    BY DEF Send
<1>3. toDaemon \in Seq(Unit) /\ cli.in \in Seq(Unit) /\ Len(toDaemon) \in Nat /\ Len(toDaemon) <= Room
    BY <1>1, Types, LenProperties
<1>4. n \in 0..Size /\ Len(toDaemon) + n <= Room
    BY <1>2, <1>3, StreamAssumption DEF Least
<1>5. QueueOK(s)
    BY Zenon DEF IInv, QueueOK
<1>6. InboundOK(s, cli.in \o toDaemon)
    BY DEF IInv, InboundOK, HasBegun
<1>7. /\ toDaemon' = toDaemon \o SubSeq(Units(m), 1, n)
      /\ nse' = IF n = Size THEN s
                ELSE [s EXCEPT !.queue = Append(@, [msg |-> m, written |-> n]), !.t_write = TRUE]
    BY <1>2 DEF Written
<1>8. /\ nse' \in Server /\ nse'.state = "open" /\ nse'.recv = s.recv
      /\ QueueOK(nse')
      /\ toDaemon \o SubSeq(Units(m), 1, n) \in Seq(Unit)
      /\ Len(toDaemon \o SubSeq(Units(m), 1, n)) = Len(toDaemon) + n
      /\ InboundOK(nse', cli.in \o (toDaemon \o SubSeq(Units(m), 1, n)))
    <2> DEFINE f == AfterSend(s, m, n)
    <2>1. s.queue # <<>> => n = 0
        BY <1>2
    <2>2. /\ f \in Server /\ f.state = "open" /\ f.recv = s.recv
          /\ QueueOK(f)
          /\ toDaemon \o SubSeq(Units(m), 1, n) \in Seq(Unit)
          /\ Len(toDaemon \o SubSeq(Units(m), 1, n)) = Len(toDaemon) + n
          /\ InboundOK(f, cli.in \o (toDaemon \o SubSeq(Units(m), 1, n)))
        BY <1>3, <1>4, <1>5, <1>6, <2>1, SentOn, SMTT(30)
    <2>3. nse' = f
        BY <1>7 DEF AfterSend
    <2> HIDE DEF f
    <2> QED BY <2>2, <2>3, Zenon
<1> QED BY <1>4, <1>7, <1>8

\* What NSM sends leaves the other stream and the daemon alone.
LEMMA DaemonUntouched ==
    ASSUME IInv, nse.state = "open", nse'.state = "open", nse'.recv = nse.recv,
           UNCHANGED <<cli, toNsm>>
    PROVE  /\ OutboundOK(nse, cli, nse.recv \o toNsm)'
           /\ Sending(cli)'
           /\ PhaseOK(nse, cli, toDaemon)'
<1>1. OutboundOK(nse, cli, nse.recv \o toNsm)'
    BY DEF IInv, OutboundOK
<1>2. Sending(cli)'
    BY DEF IInv, Sending
<1>3. PhaseOK(nse, cli, toDaemon)'
    BY DEF IInv, PhaseOK
<1> QED BY <1>1, <1>2, <1>3

LEMMA AnnounceKeeps == ASSUME IInv, Announce PROVE IInv'
<1> DEFINE m == [kind |-> "note", id |-> told']
<1>1. /\ nse.state = "open" /\ told < Notes /\ told' = told + 1 /\ Send(nse, m)
      /\ UNCHANGED <<alive, toNsm, cli, asked, crashed>>
    BY DEF Announce, Serving
<1>2. TypeOK
    BY DEF IInv
<1>3. told' \in 0..Notes /\ m \in Message
    BY <1>1, <1>2, Types, BoundAssumption, SMTT(30) DEF Message
<1> HIDE DEF m
<1>4. /\ nse' \in Server /\ nse'.state = "open" /\ nse'.recv = nse.recv
      /\ toDaemon' \in Seq(Unit) /\ Len(toDaemon') <= Room
      /\ QueueOK(nse')
      /\ InboundOK(nse', cli.in \o toDaemon')
    BY <1>1, <1>2, <1>3, Types, SendKeeps, Zenon
<1>5. TypeOK'
    BY <1>1, <1>2, <1>3, <1>4, Types, Zenon DEF TypeOK
<1>6. InboundOK(nse, cli.in \o toDaemon)'
    BY <1>1, <1>4
<1> QED BY <1>1, <1>4, <1>5, <1>6, DaemonUntouched, Zenon DEF IInv

LEMMA DequeueKeeps == ASSUME IInv, Dequeue PROVE IInv'
<1> DEFINE e == Head(nse.queue)
<1>1. PICK n \in 1..Least(Size - e.written, Room - Len(toDaemon)) :
        /\ toDaemon' = toDaemon \o SubSeq(Units(e.msg), e.written + 1, e.written + n)
        /\ nse' = AfterDequeue(nse, n)
    BY Zenon DEF Dequeue, AfterDequeue
<1>2. /\ nse.state = "open" /\ nse.t_write
      /\ UNCHANGED <<alive, toNsm, cli, told, asked, crashed>>
    BY DEF Dequeue, Serving
<1>3. TypeOK /\ QueueOK(nse) /\ InboundOK(nse, cli.in \o toDaemon)
    BY DEF IInv
<1>4. nse.queue # <<>>
    BY <1>2, <1>3, Zenon DEF QueueOK
<1>5. nse \in Server /\ cli.in \in Seq(Unit) /\ toDaemon \in Seq(Unit) /\ Len(toDaemon) \in Nat
      /\ Len(toDaemon) <= Room
    BY <1>3, Types, LenProperties
<1>6. e.written \in 0..(Size - 1)
    <2>1. nse.queue \in Seq(Entry)
        BY <1>3, Types
    <2>2. e \in Entry
        BY <1>4, <2>1, HeadTailProperties
    <2> QED BY <2>2 DEF Entry
<1>7. n \in 1..(Size - Head(nse.queue).written) /\ Len(toDaemon) + n <= Room
    BY <1>5, <1>6, StreamAssumption, SMTT(30) DEF Least
<1> DEFINE x == SubSeq(Units(Head(nse.queue).msg), Head(nse.queue).written + 1, Head(nse.queue).written + n)
           f == AfterDequeue(nse, n)
<1>8. /\ f \in Server /\ f.state = "open" /\ f.recv = nse.recv
      /\ QueueOK(f)
      /\ toDaemon \o x \in Seq(Unit)
      /\ Len(toDaemon \o x) = Len(toDaemon) + n
      /\ InboundOK(f, cli.in \o (toDaemon \o x))
    BY <1>2, <1>3, <1>4, <1>5, <1>7, SentLater, SMTT(30)
<1>9. nse' = f /\ toDaemon' = toDaemon \o x
    BY <1>1
<1> HIDE DEF f, x
<1>10. nse'.state = "open" /\ nse'.recv = nse.recv /\ Len(toDaemon') <= Room
    BY <1>7, <1>8, <1>9
<1>11. TypeOK'
    BY <1>2, <1>3, <1>8, <1>9, <1>10, Types, Zenon DEF TypeOK
<1>12. QueueOK(nse)' /\ InboundOK(nse, cli.in \o toDaemon)'
    BY <1>2, <1>8, <1>9
<1> QED BY <1>2, <1>10, <1>11, <1>12, DaemonUntouched, Zenon DEF IInv

\* NSM takes the unit that heads the stream: it keeps it, or has the whole message.
LEMMA NsmReadsKeeps == ASSUME IInv, NsmReads PROVE IInv'
<1> DEFINE u == Head(toNsm)
           t == nse.recv \o toNsm
<1>1. /\ nse.state = "open" /\ toNsm # <<>> /\ toNsm' = Tail(toNsm)
      /\ UNCHANGED <<alive, cli, told, asked, crashed>>
    BY DEF NsmReads, Listens
<1>2. TypeOK /\ QueueOK(nse) /\ InboundOK(nse, cli.in \o toDaemon) /\ OutboundOK(nse, cli, t)
      /\ Sending(cli) /\ PhaseOK(nse, cli, toDaemon)
    BY DEF IInv
<1>3. /\ nse \in Server /\ cli.out \in Seq(Unit) /\ nse.recv \in Seq(Unit)
      /\ toNsm \in Seq(Unit) /\ Len(toNsm) \in Nat /\ Len(toNsm) <= Room
      /\ toDaemon \in Seq(Unit) /\ Len(toDaemon) <= Room
    BY <1>2, Types, LenProperties
<1>4. u \in Unit /\ toNsm' \in Seq(Unit) /\ Len(toNsm') <= Room
    <2>1. Head(toNsm) \in Unit /\ Tail(toNsm) \in Seq(Unit) /\ Len(Tail(toNsm)) = Len(toNsm) - 1
        BY <1>1, <1>3, HeadTailProperties
    <2>2. Len(Tail(toNsm)) <= Room
        BY <1>3, <2>1, StreamAssumption
    <2> QED BY <1>1, <2>1, <2>2, Zenon
<1>5. u.part \in 1..Size /\ u.msg \in Message
    BY <1>4 DEF Unit
<1>6. Chain(t)
    BY <1>2 DEF OutboundOK
<1>7. /\ Append(nse.recv, u) \in Seq(Unit)
      /\ Append(nse.recv, u) \o toNsm' = t
      /\ <<>> \o toNsm' = toNsm'
      /\ Chain(toNsm')
      /\ toNsm' # <<>> => Last(toNsm') = Last(t)
      /\ toNsm' = <<>> => Last(t) = u
      /\ t # <<>>
    BY <1>1, <1>3, <1>6, ReadOn
<1> HIDE DEF u, t
<1>8. Sending(cli)'
    BY <1>1, <1>2 DEF Sending
<1>9. CASE u.part < Size
    <2>1. nse' = [nse EXCEPT !.recv = Append(nse.recv, u)] /\ toDaemon' = toDaemon
        BY <1>9 DEF NsmReads, u
    <2>2. nse' \in Server
        BY <1>3, <1>7, <2>1, SettingEntry, Zenon
    <2>3. /\ nse'.state = nse.state /\ nse'.recv = Append(nse.recv, u)
          /\ nse'.queue = nse.queue /\ nse'.t_write = nse.t_write
        BY <1>3, <2>1 DEF Server
    <2>4. TypeOK'
        BY <1>1, <1>2, <1>4, <2>1, <2>2, Types, Zenon DEF TypeOK
    <2>5. QueueOK(nse)'
        BY <1>1, <1>2, <2>3, Zenon DEF QueueOK
    <2>6. InboundOK(nse, cli.in \o toDaemon)'
        BY <1>1, <1>2, <2>1, <2>3 DEF InboundOK, HasBegun
    <2>7. OutboundOK(nse, cli, nse.recv \o toNsm)'
        BY <1>1, <1>2, <1>7, <2>3 DEF OutboundOK
    <2>8. PhaseOK(nse, cli, toDaemon)'
        BY <1>1, <1>2, <2>1, <2>3 DEF PhaseOK
    <2> QED BY <1>8, <2>4, <2>5, <2>6, <2>7, <2>8 DEF IInv
<1>10. CASE u.part = Size
    <2> DEFINE a == [nse EXCEPT !.recv = <<>>]
               b == [a EXCEPT !.service = TRUE]
    <2>1. a \in Server /\ b \in Server
        <3>1. a \in Server
            BY <1>3, EmptySeq, SettingEntry, Zenon
        <3> HIDE DEF a
        <3> QED BY <3>1, SettingEntry, Zenon
    <2>2. /\ a.state = "open" /\ a.recv = <<>> /\ a.queue = nse.queue /\ a.t_write = nse.t_write
          /\ b.state = "open" /\ b.recv = <<>> /\ b.queue = nse.queue /\ b.t_write = nse.t_write
        BY <1>1, <1>3 DEF Server
    <2>3. \/ Send(b, u.msg) \/ Send(a, u.msg)
          \/ nse' = a /\ toDaemon' = toDaemon
        <3>1. ~(Head(toNsm).part < Size)
            BY <1>5, <1>10, StreamAssumption DEF u
        <3>2. LET m == Head(toNsm).msg IN
              CASE m.kind = "service" -> Send([[nse EXCEPT !.recv = <<>>] EXCEPT !.service = TRUE], m)
                [] m.kind = "ask" -> Send([nse EXCEPT !.recv = <<>>], m)
                [] OTHER -> nse' = [nse EXCEPT !.recv = <<>>] /\ UNCHANGED toDaemon
            BY <3>1, Zenon DEF NsmReads
        <3> QED BY <3>2, Zenon DEF u
    <2> HIDE DEF a, b
    <2>4. /\ nse' \in Server /\ nse'.state = "open" /\ nse'.recv = <<>>
          /\ toDaemon' \in Seq(Unit) /\ Len(toDaemon') <= Room
          /\ QueueOK(nse')
          /\ InboundOK(nse', cli.in \o toDaemon')
        <3>1. CASE Send(a, u.msg)
            BY <1>1, <1>5, <2>1, <2>2, <3>1, SendKeeps
        <3>2. CASE Send(b, u.msg)
            BY <1>1, <1>5, <2>1, <2>2, <3>2, SendKeeps
        <3>3. CASE nse' = a /\ toDaemon' = toDaemon
            <4>1. QueueOK(a)
                BY <1>2, <2>2, Zenon DEF QueueOK
            <4>2. InboundOK(a, cli.in \o toDaemon)
                BY <1>1, <1>2, <2>2 DEF InboundOK, HasBegun
            <4> QED BY <1>3, <2>1, <2>2, <3>3, <4>1, <4>2
        <3> QED BY <2>3, <3>1, <3>2, <3>3
    <2>5. TypeOK'
        BY <1>1, <1>2, <1>4, <2>4, Types, Zenon DEF TypeOK
    <2>6. OutboundOK(nse, cli, nse.recv \o toNsm)'
        <3>1. (nse.recv \o toNsm)' = toNsm'
            BY <1>7, <2>4
        <3>2. CASE cli.op = "write" /\ Len(cli.out) < Size
            <4>1. Last(t) = [msg |-> cli.out[1].msg, part |-> Size - Len(cli.out)]
                BY <1>1, <1>2, <3>2 DEF OutboundOK, Partly
            <4>2. Len(cli.out) \in Nat \ {0}
                BY <1>2, <1>3, <3>2, EmptySeq DEF Sending
            <4>3. toNsm' # <<>>
                BY <1>5, <1>7, <1>10, <4>1, <4>2, StreamAssumption
            <4> QED BY <1>1, <1>7, <3>1, <3>2, <4>1, <4>3 DEF OutboundOK, Partly
        <3>3. CASE ~(cli.op = "write" /\ Len(cli.out) < Size)
            <4>1. Whole(t)
                BY <1>1, <1>2, <3>3 DEF OutboundOK
            <4> QED BY <1>1, <1>7, <3>1, <3>3, <4>1 DEF OutboundOK, Whole
        <3> QED BY <3>2, <3>3
    <2>7. PhaseOK(nse, cli, toDaemon)'
        BY <1>1, <1>2, <2>4 DEF PhaseOK
    <2> QED BY <1>1, <1>8, <2>4, <2>5, <2>6, <2>7 DEF IInv
<1>11. u.part < Size \/ u.part = Size
    BY <1>5, StreamAssumption
<1> QED BY <1>9, <1>10, <1>11, Zenon

\* NSM leaves, and comes back.
LEMMA NsmLeavesKeeps == ASSUME IInv, NsmLeaves PROVE IInv'
<1>1. /\ nse' = [NoEntry EXCEPT !.state = "gone"] /\ toNsm' = <<>> /\ alive' \in BOOLEAN
      /\ UNCHANGED <<toDaemon, cli, told, asked, crashed>>
    BY DEF NsmLeaves
<1>2. TypeOK
    BY DEF IInv
<1>3. <<>> \in Seq(Unit) /\ <<>> \in Seq(Entry) /\ Len(<<>>) = 0 /\ <<>> \o <<>> = <<>>
    BY EmptySeq, ConcatEmptySeq
<1>4. NoEntry \in Server
    BY <1>3 DEF NoEntry, Server, Entry
<1>5. nse' \in Server
    BY <1>1, <1>4, SettingEntry, Zenon
<1>6. /\ nse'.state = "gone" /\ nse'.queue = <<>> /\ nse'.t_write = FALSE /\ nse'.recv = <<>>
    BY <1>1 DEF NoEntry
<1>7. TypeOK'
    <2>1. Len(toNsm') <= Room
        BY <1>1, <1>3, StreamAssumption
    <2> QED BY <1>1, <1>2, <1>3, <1>5, <2>1, Types, Zenon DEF TypeOK
<1>8. QueueOK(nse)'
    BY <1>3, <1>6 DEF QueueOK
<1>9. InboundOK(nse, cli.in \o toDaemon)'
    BY <1>1, <1>6 DEF IInv, InboundOK
<1>10. OutboundOK(nse, cli, nse.recv \o toNsm)'
    BY <1>1, <1>3, <1>6 DEF OutboundOK, Chain
<1>11. Sending(cli)' /\ PhaseOK(nse, cli, toDaemon)'
    BY <1>1, <1>6 DEF IInv, Sending, PhaseOK
<1> QED BY <1>7, <1>8, <1>9, <1>10, <1>11 DEF IInv

LEMMA NsmRestartsKeeps == ASSUME IInv, NsmRestarts PROVE IInv'
<1>1. alive' = TRUE /\ UNCHANGED <<nse, toNsm, toDaemon, cli, told, asked, crashed>>
    BY DEF NsmRestarts
<1>2. TypeOK'
    BY <1>1, Types, Zenon DEF IInv, TypeOK
<1> QED BY <1>1, <1>2 DEF IInv, QueueOK, InboundOK, OutboundOK, Sending, PhaseOK, HasBegun

----------------------------------------------------------------------------

\* Steps of the daemon that touch neither stream nor what it writes or has read.
LEMMA NsmUntouched ==
    ASSUME IInv, cli' \in Client, cli'.in = cli.in, cli'.out = cli.out,
           UNCHANGED <<alive, nse, toNsm, toDaemon, told>>,
           asked' \in 0..Asks, crashed' \in BOOLEAN,
           cli'.op = "write" <=> cli.op = "write"
    PROVE  /\ TypeOK' /\ QueueOK(nse)' /\ InboundOK(nse, cli.in \o toDaemon)'
           /\ OutboundOK(nse, cli, nse.recv \o toNsm)' /\ Sending(cli)'
<1>1. TypeOK'
    BY Types, Zenon DEF IInv, TypeOK
<1>2. QueueOK(nse)' /\ InboundOK(nse, cli.in \o toDaemon)'
    BY DEF IInv, QueueOK, InboundOK, HasBegun
<1>3. OutboundOK(nse, cli, nse.recv \o toNsm)'
    BY DEF IInv, OutboundOK
<1>4. Sending(cli)'
    BY DEF IInv, Sending
<1> QED BY <1>1, <1>2, <1>3, <1>4

LEMMA TakeReadKeeps == ASSUME IInv, TakeRead PROVE IInv'
<1>1. /\ cli.run = "idle"
      /\ cli' = [cli EXCEPT !.t_read = FALSE, !.run = "read", !.op = "body"]
      /\ UNCHANGED <<alive, nse, toNsm, toDaemon, told, asked, crashed>>
    BY DEF TakeRead, MayRun, Idle
<1>2. TypeOK /\ PhaseOK(nse, cli, toDaemon)
    BY DEF IInv
<1>3. cli \in Client /\ asked \in 0..Asks /\ crashed \in BOOLEAN
    BY <1>2, Types
<1>4. cli' \in Client
    <2> DEFINE c == [cli EXCEPT !.t_read = FALSE]
               d == [c EXCEPT !.run = "read"]
    <2>1. c \in Client
        BY <1>3, SettingClient, Zenon
    <2> HIDE DEF c
    <2>2. d \in Client
        BY <2>1, SettingClient, Zenon
    <2>3. [d EXCEPT !.op = "body"] \in Client
        BY <2>2, SettingClient, Zenon
    <2> QED BY <1>1, <2>3, Zenon DEF c
<1>5. /\ cli'.in = cli.in /\ cli'.out = cli.out /\ cli'.op = "body" /\ cli'.run = "read"
      /\ cli'.sock = cli.sock
    BY <1>1, <1>3 DEF Client
<1>6. cli.op = "go"
    BY <1>1, <1>2 DEF PhaseOK
<1>7. PhaseOK(nse, cli, toDaemon)'
    BY <1>1, <1>2, <1>5 DEF PhaseOK
<1> QED BY <1>1, <1>3, <1>4, <1>5, <1>6, <1>7, NsmUntouched DEF IInv

LEMMA TakePendKeeps == ASSUME IInv, TakePend PROVE IInv'
<1> DEFINE r == IF cli.pend = <<>> THEN "idle" ELSE "pend"
<1>1. /\ cli.run = "idle" /\ cli' = [cli EXCEPT !.t_pend = FALSE, !.run = r]
      /\ UNCHANGED <<alive, nse, toNsm, toDaemon, told, asked, crashed>>
    BY DEF TakePend, Idle
<1>2. r \in {"idle", "read", "pend", "app"}
    OBVIOUS
<1> HIDE DEF r
<1>3. TypeOK /\ PhaseOK(nse, cli, toDaemon)
    BY DEF IInv
<1>4. cli \in Client /\ asked \in 0..Asks /\ crashed \in BOOLEAN
    BY <1>3, Types
<1>5. cli' \in Client
    <2> DEFINE c == [cli EXCEPT !.t_pend = FALSE]
    <2>1. c \in Client
        BY <1>4, SettingClient, Zenon
    <2> HIDE DEF c
    <2>2. [c EXCEPT !.run = r] \in Client
        BY <1>2, <2>1, SettingClient, Zenon
    <2> QED BY <1>1, <2>2, Zenon DEF c
<1>6. /\ cli'.in = cli.in /\ cli'.out = cli.out /\ cli'.op = cli.op /\ cli'.sock = cli.sock
    BY <1>1, <1>4 DEF Client
<1>7. cli.op = "go"
    BY <1>1, <1>3 DEF PhaseOK
<1>8. PhaseOK(nse, cli, toDaemon)'
    BY <1>1, <1>3, <1>6, <1>7 DEF PhaseOK
<1> QED BY <1>1, <1>4, <1>5, <1>6, <1>8, NsmUntouched DEF IInv

LEMMA ReturnKeeps == ASSUME IInv, Return PROVE IInv'
<1>1. /\ cli.run # "idle" /\ cli.op = "go"
      /\ crashed' = (cli.run = "pend" /\ cli.pend = <<>>)
      /\ UNCHANGED <<alive, nse, toNsm, toDaemon, told, asked>>
    BY DEF Return
<1>2. TypeOK /\ PhaseOK(nse, cli, toDaemon)
    BY DEF IInv
<1>3. cli \in Client /\ asked \in 0..Asks /\ cli.run \in {"read", "pend", "app"}
    BY <1>1, <1>2, Types, ClientFields
<1>4. crashed' \in BOOLEAN
    BY <1>1, Zenon
<1> DEFINE c == [cli EXCEPT !.run = "idle"]
           p == SubSeq(cli.pend, 2, Len(cli.pend))
           more == MorePending
<1>5. c \in Client /\ cli.pend \in Seq(Message) /\ cli.sock \in BOOLEAN
    BY <1>3, SettingClient, ClientFields, Zenon
<1>6. p \in Seq(Message) /\ more \in BOOLEAN
    <2>1. Len(cli.pend) \in Nat /\ \A i \in 2..Len(cli.pend) : cli.pend[i] \in Message
        BY <1>5, LenProperties, ElementOfSeq
    <2>2. p \in Seq(Message)
        BY <2>1, SubSeqProperties
    <2>3. more \in BOOLEAN
        BY Zenon DEF MorePending
    <2> QED BY <2>2, <2>3
<1>7. \/ cli' = [c EXCEPT !.t_read = cli.sock]
      \/ cli' = c
      \/ cli' = [[c EXCEPT !.pend = p] EXCEPT !.t_pend = more]
    <2>1. CASE cli.run = "read"
        BY <1>3, <2>1, Zenon DEF Return
    <2>2. CASE cli.run = "app"
        BY <1>3, <2>2 DEF Return
    <2>3. CASE cli.run = "pend"
        BY <1>3, <2>3 DEF Return
    <2> QED BY <1>3, <2>1, <2>2, <2>3
<1> HIDE DEF p, more
<1>8. c.run = "idle" /\ c.op = "go" /\ c.in = cli.in /\ c.out = cli.out /\ c.sock = cli.sock
    BY <1>1, <1>3 DEF Client
<1> HIDE DEF c
<1>9. cli' \in Client
    <2>1. [c EXCEPT !.t_read = cli.sock] \in Client /\ [c EXCEPT !.pend = p] \in Client
        BY <1>5, <1>6, SettingClient, Zenon
    <2>2. [[c EXCEPT !.pend = p] EXCEPT !.t_pend = more] \in Client
        BY <1>6, <2>1, SettingClient, Zenon
    <2> QED BY <1>5, <1>7, <2>1, <2>2, Zenon
<1>10. /\ cli'.in = cli.in /\ cli'.out = cli.out /\ cli'.op = cli.op /\ cli'.sock = cli.sock
       /\ cli'.op = "go"
    BY <1>1, <1>5, <1>7, <1>8 DEF Client
<1>11. PhaseOK(nse, cli, toDaemon)'
    BY <1>1, <1>2, <1>10 DEF PhaseOK
<1> QED BY <1>1, <1>3, <1>4, <1>9, <1>10, <1>11, NsmUntouched DEF IInv

\* What is about to be written is a whole message.
LEMMA SendsAll ==
    ASSUME NEW m \in Message, NEW c, c.op = "write", c.out = Units(m)
    PROVE  Sending(c) /\ Len(c.out) = Size
<1>1. /\ Units(m) \in Seq(Unit) /\ Len(Units(m)) = Size
      /\ \A k \in 1..Size : Units(m)[k] = [msg |-> m, part |-> k]
    BY AllUnits
<1> HIDE DEF Units
<1>2. Units(m) # <<>> /\ Units(m)[1].msg = m
    BY <1>1, EmptySeq, StreamAssumption
<1>3. ASSUME NEW i \in 1..Len(Units(m))
      PROVE  Units(m)[i] = [msg |-> Units(m)[1].msg, part |-> Size - Len(Units(m)) + i]
    <2>1. Size - Len(Units(m)) + i = i
        BY <1>1, StreamAssumption
    <2> QED BY <1>1, <1>2, <2>1
<1> QED BY <1>1, <1>2, <1>3, StreamAssumption DEF Sending

\* The daemon connects: both streams are new.
LEMMA ConnectKeeps == ASSUME IInv, Connect PROVE IInv'
<1> DEFINE m == [kind |-> "service", id |-> 0]
<1>1. /\ cli.run = "idle"
      /\ cli' = [cli EXCEPT !.t_connect = FALSE, !.sock = TRUE, !.run = "read", !.op = "write",
                            !.out = Units(m)]
      /\ nse' = [NoEntry EXCEPT !.state = "backlog"]
      /\ toNsm' = <<>> /\ toDaemon' = <<>>
      /\ UNCHANGED <<alive, told, asked, crashed>>
    BY DEF Connect, MayRun, Idle
<1>2. TypeOK /\ PhaseOK(nse, cli, toDaemon)
    BY DEF IInv
<1>3. m \in Message
    BY DEF Message
<1> HIDE DEF m
<1>4. cli \in Client /\ Units(m) \in Seq(Unit)
    BY <1>2, <1>3, Types, AllUnits
<1>5. cli' \in Client
    <2> DEFINE a == [cli EXCEPT !.t_connect = FALSE]
               b == [a EXCEPT !.sock = TRUE]
               c == [b EXCEPT !.run = "read"]
               d == [c EXCEPT !.op = "write"]
    <2>1. a \in Client
        BY <1>4, SettingClient, Zenon
    <2> HIDE DEF a
    <2>2. b \in Client
        BY <2>1, SettingClient, Zenon
    <2> HIDE DEF b
    <2>3. c \in Client
        BY <2>2, SettingClient, Zenon
    <2> HIDE DEF c
    <2>4. d \in Client
        BY <2>3, SettingClient, Zenon
    <2> HIDE DEF d
    <2>5. [d EXCEPT !.out = Units(m)] \in Client
        BY <1>4, <2>4, SettingClient, Zenon
    <2> QED BY <1>1, <2>5, Zenon DEF a, b, c, d
<1>6. /\ cli'.op = "write" /\ cli'.run = "read" /\ cli'.sock = TRUE /\ cli'.out = Units(m)
      /\ cli'.in = cli.in
    BY <1>1, <1>4 DEF Client
<1>7. cli.in = <<>>
    BY <1>1, <1>2 DEF PhaseOK
<1>8. <<>> \in Seq(Unit) /\ <<>> \in Seq(Entry) /\ Len(<<>>) = 0 /\ <<>> \o <<>> = <<>>
    BY EmptySeq, ConcatEmptySeq
<1>9. NoEntry \in Server
    BY <1>8 DEF NoEntry, Server, Entry
<1>10. nse' \in Server
    BY <1>1, <1>9, SettingEntry, Zenon
<1>11. /\ nse'.state = "backlog" /\ nse'.queue = <<>> /\ nse'.t_write = FALSE /\ nse'.recv = <<>>
    BY <1>1 DEF NoEntry
<1>12. TypeOK'
    <2>1. Len(toNsm') <= Room /\ Len(toDaemon') <= Room
        BY <1>1, <1>8, StreamAssumption
    <2> QED BY <1>1, <1>2, <1>5, <1>8, <1>10, <2>1, Types, Zenon DEF TypeOK
<1>13. QueueOK(nse)'
    BY <1>8, <1>11 DEF QueueOK
<1>14. InboundOK(nse, cli.in \o toDaemon)'
    BY <1>1, <1>6, <1>7, <1>8, <1>11 DEF InboundOK, Chain
<1>15. Sending(cli)' /\ Len(cli'.out) = Size
    BY <1>3, <1>6, SendsAll
<1>16. OutboundOK(nse, cli, nse.recv \o toNsm)'
    BY <1>1, <1>8, <1>11, <1>15, StreamAssumption DEF OutboundOK, Chain, Whole
<1>17. PhaseOK(nse, cli, toDaemon)'
    BY <1>1, <1>6, <1>7, <1>11 DEF PhaseOK
<1> QED BY <1>12, <1>13, <1>14, <1>15, <1>16, <1>17 DEF IInv

\* A request is about to be written.
LEMMA AskKeeps == ASSUME IInv, NEW kind \in {"tell", "ask"}, AskNsm(kind) PROVE IInv'
<1> DEFINE m == [kind |-> kind, id |-> asked']
           r == IF cli.run = "idle" THEN "app" ELSE cli.run
           w == IF kind = "ask" THEN asked' ELSE None
<1>1. /\ cli.sock /\ asked < Asks /\ asked' = asked + 1
      /\ cli.run = "idle" \/ cli.op = "go"
      /\ cli' = [cli EXCEPT !.run = r, !.op = "write", !.out = Units(m), !.sync = w]
      /\ UNCHANGED <<alive, nse, toNsm, toDaemon, told, crashed>>
    BY DEF AskNsm, MayRun, Idle
<1>2. TypeOK /\ PhaseOK(nse, cli, toDaemon)
    BY DEF IInv
<1>3. /\ cli \in Client /\ asked \in 0..Asks /\ crashed \in BOOLEAN
      /\ cli.run \in {"idle", "read", "pend", "app"} /\ cli.sock \in BOOLEAN
    BY <1>2, Types, ClientFields
<1>4. asked' \in 0..Asks /\ m \in Message /\ w \in 0..Asks /\ r \in {"read", "pend", "app"}
    BY <1>1, <1>3, BoundAssumption DEF Message, None
<1> HIDE DEF m, w, r
<1>5. Units(m) \in Seq(Unit)
    BY <1>4, AllUnits
<1>6. cli' \in Client
    <2> DEFINE a == [cli EXCEPT !.run = r]
               b == [a EXCEPT !.op = "write"]
               c == [b EXCEPT !.out = Units(m)]
    <2>1. r \in {"idle", "read", "pend", "app"}
        BY <1>4
    <2>2. a \in Client
        BY <1>3, <2>1, SettingClient, Zenon
    <2> HIDE DEF a
    <2>3. b \in Client
        BY <2>2, SettingClient, Zenon
    <2> HIDE DEF b
    <2>4. c \in Client
        BY <1>5, <2>3, SettingClient, Zenon
    <2> HIDE DEF c
    <2>5. [c EXCEPT !.sync = w] \in Client
        BY <1>4, <2>4, SettingClient, Zenon
    <2> QED BY <1>1, <2>5, Zenon DEF a, b, c
<1>7. /\ cli'.op = "write" /\ cli'.run = r /\ cli'.sock = cli.sock /\ cli'.out = Units(m)
      /\ cli'.in = cli.in
    BY <1>1, <1>3 DEF Client
<1>8. cli.op = "go" /\ cli.in = <<>>
    BY <1>1, <1>2 DEF PhaseOK
<1>9. cli'.sock = TRUE
    BY <1>1, <1>3, <1>7
<1>10. TypeOK'
    BY <1>1, <1>2, <1>4, <1>6, Types, Zenon DEF TypeOK
<1>11. QueueOK(nse)' /\ InboundOK(nse, cli.in \o toDaemon)'
    BY <1>1, <1>7 DEF IInv, QueueOK, InboundOK, HasBegun
<1>12. Sending(cli)' /\ Len(cli'.out) = Size
    BY <1>4, <1>7, SendsAll
<1>13. OutboundOK(nse, cli, nse.recv \o toNsm)'
    BY <1>1, <1>8, <1>12, StreamAssumption DEF IInv, OutboundOK
<1>14. PhaseOK(nse, cli, toDaemon)'
    BY <1>1, <1>2, <1>4, <1>7, <1>8, <1>9 DEF PhaseOK
<1> QED BY <1>10, <1>11, <1>12, <1>13, <1>14 DEF IInv

LEMMA WriteFailsKeeps == ASSUME IInv, WriteFails PROVE IInv'
<1> DEFINE o == IF Head(cli.out).msg.kind = "service" THEN "body" ELSE "go"
<1>1. /\ cli.op = "write" /\ nse.state = "gone"
      /\ cli' = [cli EXCEPT !.out = <<>>, !.sync = None, !.op = o]
      /\ UNCHANGED <<alive, nse, toNsm, toDaemon, told, asked, crashed>>
    BY DEF WriteFails
<1>2. o \in {"go", "body"}
    OBVIOUS
<1> HIDE DEF o
<1>3. TypeOK /\ PhaseOK(nse, cli, toDaemon)
    BY DEF IInv
<1>4. cli \in Client
    BY <1>3, Types
<1>5. cli' \in Client
    <2> DEFINE a == [cli EXCEPT !.out = <<>>]
               b == [a EXCEPT !.sync = None]
    <2>1. a \in Client
        BY <1>4, EmptySeq, SettingClient, Zenon
    <2> HIDE DEF a
    <2>2. None \in 0..Asks
        BY BoundAssumption DEF None
    <2>3. b \in Client
        BY <2>1, <2>2, SettingClient, Zenon
    <2> HIDE DEF b
    <2>4. o \in {"go", "write", "body"}
        BY <1>2
    <2>5. [b EXCEPT !.op = o] \in Client
        BY <2>3, <2>4, SettingClient, Zenon
    <2> QED BY <1>1, <2>5, Zenon DEF a, b
<1>6. cli'.op = o /\ cli'.run = cli.run /\ cli'.sock = cli.sock /\ cli'.in = cli.in
    BY <1>1, <1>4 DEF Client
<1>7. TypeOK'
    BY <1>1, <1>3, <1>5, Types, Zenon DEF TypeOK
<1>8. QueueOK(nse)' /\ InboundOK(nse, cli.in \o toDaemon)'
    BY <1>1, <1>6 DEF IInv, QueueOK, InboundOK, HasBegun
<1>9. OutboundOK(nse, cli, nse.recv \o toNsm)'
    BY <1>1 DEF IInv, OutboundOK
<1>10. Sending(cli)'
    BY <1>2, <1>6 DEF Sending
<1>11. PhaseOK(nse, cli, toDaemon)'
    <2>1. cli.run # "idle" /\ cli.in = <<>>
        BY <1>1, <1>3 DEF PhaseOK
    <2> QED BY <1>1, <1>2, <1>3, <1>6, <2>1 DEF PhaseOK
<1> QED BY <1>7, <1>8, <1>9, <1>10, <1>11 DEF IInv

\* The daemon writes the next unit of its message.
LEMMA WriteUnitKeeps == ASSUME IInv, WriteUnit PROVE IInv'
<1> DEFINE u == Head(cli.out)
           q == Tail(cli.out)
           n == Len(cli.out)
           o == CASE n > 1 -> "write" [] n = 1 /\ u.msg.kind = "tell" -> "go" [] OTHER -> "body"
           t == nse.recv \o toNsm
           m == cli.out[1].msg
<1>1. /\ cli.op = "write" /\ nse.state # "gone" /\ Len(toNsm) < Room
      /\ toNsm' = Append(toNsm, u)
      /\ cli' = [cli EXCEPT !.out = q, !.op = o]
      /\ UNCHANGED <<alive, nse, toDaemon, told, asked, crashed>>
    BY DEF WriteUnit
<1>2. TypeOK /\ PhaseOK(nse, cli, toDaemon) /\ Sending(cli) /\ OutboundOK(nse, cli, t)
    BY DEF IInv
<1>3. /\ cli \in Client /\ nse \in Server /\ cli.out \in Seq(Unit)
      /\ nse.recv \in Seq(Unit) /\ toNsm \in Seq(Unit) /\ Len(toNsm) \in Nat
    BY <1>2, Types, LenProperties
<1>4. /\ cli.out # <<>> /\ n \in 1..Size
      /\ \A i \in 1..n : cli.out[i] = [msg |-> m, part |-> Size - n + i]
    BY <1>1, <1>2, <1>3, EmptySeq, StreamAssumption DEF Sending
<1>5. /\ u \in Unit /\ u = cli.out[1] /\ q \in Seq(Unit) /\ Len(q) = n - 1
      /\ \A i \in 1..Len(q) : q[i] = cli.out[i + 1]
    BY <1>3, <1>4, HeadTailProperties
<1>6. u = [msg |-> m, part |-> Size - n + 1]
    BY <1>4, <1>5
<1>7. /\ o \in {"go", "write", "body"} /\ (o = "write" => n > 1) /\ (n > 1 => o = "write")
    <2> HIDE DEF n
    <2>1. CASE n > 1
        BY <2>1
    <2>2. CASE ~(n > 1) /\ (n = 1 /\ u.msg.kind = "tell")
        BY <2>2, Zenon
    <2>3. CASE ~(n > 1) /\ ~(n = 1 /\ u.msg.kind = "tell")
        BY <2>3, Zenon
    <2> QED BY <2>1, <2>2, <2>3, Zenon
<1>8. nse.state \in {"backlog", "open"}
    BY <1>1, <1>2, <1>3, EntryFields DEF PhaseOK
<1> HIDE DEF o, u, q, n
<1>9. toNsm' \in Seq(Unit) /\ Len(toNsm') <= Room
    <2>1. Append(toNsm, u) \in Seq(Unit) /\ Len(Append(toNsm, u)) = Len(toNsm) + 1
        BY <1>3, <1>5, AppendProperties
    <2> QED BY <1>1, <1>3, <2>1, StreamAssumption
<1>10. cli' \in Client
    <2> DEFINE a == [cli EXCEPT !.out = q]
    <2>1. a \in Client
        BY <1>3, <1>5, SettingClient, Zenon
    <2> HIDE DEF a
    <2>2. [a EXCEPT !.op = o] \in Client
        BY <1>7, <2>1, SettingClient, Zenon
    <2> QED BY <1>1, <2>2, Zenon DEF a
<1>11. /\ cli'.op = o /\ cli'.out = q /\ cli'.run = cli.run /\ cli'.sock = cli.sock
       /\ cli'.in = cli.in
    BY <1>1, <1>3 DEF Client
<1>12. TypeOK'
    BY <1>1, <1>2, <1>9, <1>10, Types, Zenon DEF TypeOK
<1>13. QueueOK(nse)' /\ InboundOK(nse, cli.in \o toDaemon)'
    BY <1>1, <1>11 DEF IInv, QueueOK, InboundOK, HasBegun
<1>14. ASSUME n > 1
       PROVE  q # <<>> /\ q[1].msg = m /\ \A i \in 1..Len(q) : q[i] = [msg |-> q[1].msg, part |-> Size - Len(q) + i]
    <2>1. q # <<>>
        BY <1>4, <1>5, <1>14, EmptySeq
    <2>2. ASSUME NEW i \in 1..Len(q) PROVE q[i] = [msg |-> m, part |-> Size - Len(q) + i]
        <3>1. i + 1 \in 1..n /\ Size - n + (i + 1) = Size - Len(q) + i
            BY <1>4, <1>5, StreamAssumption
        <3> QED BY <1>4, <1>5, <3>1
    <2>3. 1 \in 1..Len(q)
        BY <1>4, <1>5, <1>14
    <2>4. q[1].msg = m
        <3>1. q[1] = [msg |-> m, part |-> Size - Len(q) + 1]
            BY <2>2, <2>3, Zenon
        <3> QED BY <3>1
    <2> QED BY <2>1, <2>2, <2>4
<1>15. Sending(cli)'
    <2> SUFFICES ASSUME o = "write"
                 PROVE  /\ q # <<>> /\ Len(q) <= Size
                        /\ \A i \in 1..Len(q) : q[i] = [msg |-> q[1].msg, part |-> Size - Len(q) + i]
        BY <1>11 DEF Sending
    <2>1. n > 1
        BY <1>7
    <2>2. Len(q) <= Size
        BY <1>4, <1>5, StreamAssumption
    <2> QED BY <1>14, <2>1, <2>2, Zenon
<1>16. Chain(t') /\ t' # <<>> /\ Last(t') = u
    <2> DEFINE x == <<u>>
    <2>1. x \in Seq(Unit) /\ Len(x) = 1 /\ x[1] = u /\ x # <<>> /\ Chain(x) /\ Last(x) = u
        BY <1>5, EmptySeq DEF Chain, Last
    <2> HIDE DEF x
    <2>2. Append(toNsm, u) = toNsm \o x
        BY <1>3, <1>5, AppendIsConcat DEF x
    <2>3. t' = t \o x /\ t \in Seq(Unit)
        <3>1. t \in Seq(Unit)
            BY <1>3, ConcatProperties
        <3>2. nse.recv \o (toNsm \o x) = t \o x
            <4>1. x \in Seq(Unit) /\ nse.recv \in Seq(Unit) /\ toNsm \in Seq(Unit)
                BY <1>3, <2>1
            <4> QED BY <4>1, Regrouped, Zenon
        <3> QED BY <1>1, <2>2, <3>1, <3>2
    <2>4. t # <<>> => Follows(Last(t), x[1])
        <3>1. CASE n < Size
            <4>1. Last(t) = [msg |-> m, part |-> Size - n]
                BY <1>1, <1>2, <1>8, <3>1 DEF OutboundOK, Partly, n
            <4> QED BY <1>4, <1>6, <2>1, <3>1, <4>1, StreamAssumption DEF Follows
        <3>2. CASE n = Size
            <4>1. Whole(t)
                BY <1>1, <1>2, <1>8, <3>2, StreamAssumption DEF OutboundOK, n
            <4> QED BY <1>4, <1>6, <2>1, <3>2, <4>1, StreamAssumption DEF Follows, Whole
        <3> QED BY <1>4, <3>1, <3>2, StreamAssumption
    <2> QED BY <1>2, <2>1, <2>3, <2>4, Extended, ZenonT(30) DEF OutboundOK
<1>17. OutboundOK(nse, cli, nse.recv \o toNsm)'
    <2>1. CASE n > 1
        <3>1. Len(q) < Size /\ Size - n + 1 = Size - Len(q)
            BY <1>4, <1>5, StreamAssumption
        <3> QED BY <1>6, <1>7, <1>11, <1>14, <1>16, <2>1, <3>1 DEF OutboundOK, Partly
    <2>2. CASE ~(n > 1)
        <3>1. u.part = Size
            BY <1>4, <1>6, <2>2, StreamAssumption
        <3> QED BY <1>7, <1>11, <1>16, <2>2, <3>1 DEF OutboundOK, Whole
    <2> QED BY <2>1, <2>2
<1>18. PhaseOK(nse, cli, toDaemon)'
    <2>1. cli.run # "idle" /\ cli.in = <<>>
        BY <1>1, <1>2 DEF PhaseOK
    <2> QED BY <1>1, <1>2, <1>11, <2>1 DEF PhaseOK
<1> QED BY <1>12, <1>13, <1>15, <1>17, <1>18 DEF IInv

\* The daemon takes the unit that heads the stream: it keeps it, or has the whole message.
LEMMA ReadUnitKeeps == ASSUME IInv, ReadUnit PROVE IInv'
<1> DEFINE u == Head(toDaemon)
           s == cli.in \o toDaemon
<1>1. /\ cli.op = "body" /\ toDaemon # <<>> /\ toDaemon' = Tail(toDaemon)
      /\ cli' = IF u.part < Size THEN [cli EXCEPT !.in = Append(cli.in, u)] ELSE Received(u.msg)
      /\ UNCHANGED <<alive, nse, toNsm, told, asked, crashed>>
    BY DEF ReadUnit
<1>2. TypeOK /\ QueueOK(nse) /\ InboundOK(nse, s) /\ PhaseOK(nse, cli, toDaemon)
    BY DEF IInv
<1>3. /\ cli \in Client /\ nse \in Server /\ cli.in \in Seq(Unit) /\ nse.queue \in Seq(Entry)
      /\ toDaemon \in Seq(Unit) /\ Len(toDaemon) \in Nat /\ Len(toDaemon) <= Room
      /\ cli.pend \in Seq(Message)
    BY <1>2, Types, ClientFields, LenProperties
<1>4. u \in Unit /\ toDaemon' \in Seq(Unit) /\ Len(toDaemon') <= Room
    <2>1. Head(toDaemon) \in Unit /\ Tail(toDaemon) \in Seq(Unit) /\ Len(Tail(toDaemon)) = Len(toDaemon) - 1
        BY <1>1, <1>3, HeadTailProperties
    <2>2. Len(Tail(toDaemon)) <= Room
        BY <1>3, <2>1, StreamAssumption
    <2> QED BY <1>1, <2>1, <2>2, Zenon
<1>5. u.part \in 1..Size /\ u.msg \in Message
    BY <1>4 DEF Unit
<1>6. Chain(s)
    BY <1>2 DEF InboundOK
<1>7. /\ Append(cli.in, u) \in Seq(Unit)
      /\ Append(cli.in, u) \o toDaemon' = s
      /\ <<>> \o toDaemon' = toDaemon'
      /\ Chain(toDaemon')
      /\ toDaemon' # <<>> => Last(toDaemon') = Last(s)
      /\ toDaemon' = <<>> => Last(s) = u
      /\ s # <<>>
    BY <1>1, <1>3, <1>6, ReadOn
<1> HIDE DEF u, s
<1>8. nse.state # "backlog" /\ cli.run # "idle"
    BY <1>1, <1>2 DEF PhaseOK
<1>9. ASSUME cli' \in Client, cli'.op \in {"go", "body"}, cli'.run = cli.run, cli'.sock = cli.sock,
             cli'.op # "body" => cli'.in = <<>>,
             InboundOK(nse, cli.in \o toDaemon)'
      PROVE  IInv'
    <2>1. TypeOK'
        BY <1>1, <1>2, <1>4, <1>9, Types, Zenon DEF TypeOK
    <2>2. QueueOK(nse)' /\ Sending(cli)'
        BY <1>1, <1>9 DEF IInv, QueueOK, Sending
    <2>3. OutboundOK(nse, cli, nse.recv \o toNsm)'
        BY <1>1, <1>9 DEF IInv, OutboundOK
    <2>4. PhaseOK(nse, cli, toDaemon)'
        BY <1>1, <1>2, <1>8, <1>9 DEF PhaseOK
    <2> QED BY <1>9, <2>1, <2>2, <2>3, <2>4 DEF IInv
<1>10. CASE u.part < Size
    <2>1. cli' = [cli EXCEPT !.in = Append(cli.in, u)]
        BY <1>1, <1>10
    <2>2. cli' \in Client
        BY <1>3, <1>7, <2>1, SettingClient, Zenon
    <2>3. /\ cli'.op = "body" /\ cli'.run = cli.run /\ cli'.sock = cli.sock
          /\ cli'.in = Append(cli.in, u)
        BY <1>1, <1>3, <2>1 DEF Client
    <2>4. InboundOK(nse, cli.in \o toDaemon)'
        BY <1>1, <1>2, <1>7, <2>3 DEF InboundOK, HasBegun
    <2> QED BY <1>9, <2>2, <2>3, <2>4
<1>11. CASE u.part = Size
    <2> DEFINE a == [cli EXCEPT !.in = <<>>]
               b == [a EXCEPT !.op = "go"]
               c == [b EXCEPT !.sync = None]
               d == [c EXCEPT !.t_pend = TRUE]
               e == [a EXCEPT !.pend = Append(cli.pend, u.msg)]
    <2>1. cli' = Received(u.msg)
        BY <1>1, <1>5, <1>11, StreamAssumption
    <2>2. cli' = b \/ cli' = d \/ cli' = e
        <3>1. CASE cli.sync = None
            BY <1>3, <2>1, <3>1 DEF Received
        <3>2. CASE cli.sync # None /\ u.msg = [kind |-> "ask", id |-> cli.sync]
            BY <1>3, <2>1, <3>2 DEF Received
        <3>3. CASE cli.sync # None /\ u.msg # [kind |-> "ask", id |-> cli.sync]
            BY <1>3, <2>1, <3>3 DEF Received
        <3> QED BY <3>1, <3>2, <3>3
    <2>3. Append(cli.pend, u.msg) \in Seq(Message)
        BY <1>3, <1>5, AppendProperties
    <2>4. a \in Client
        BY <1>3, EmptySeq, SettingClient, Zenon
    <2>5. a.in = <<>> /\ a.op = "body" /\ a.run = cli.run /\ a.sock = cli.sock
        BY <1>1, <1>3 DEF Client
    <2> HIDE DEF a
    <2>6. b \in Client
        BY <2>4, SettingClient, Zenon
    <2>7. b.in = <<>> /\ b.op = "go" /\ b.run = cli.run /\ b.sock = cli.sock
        BY <2>4, <2>5 DEF Client
    <2>8. e \in Client
        BY <2>3, <2>4, SettingClient, Zenon
    <2>9. e.in = <<>> /\ e.op = "body" /\ e.run = cli.run /\ e.sock = cli.sock
        BY <2>4, <2>5 DEF Client
    <2> HIDE DEF b, e
    <2>10. None \in 0..Asks
        BY BoundAssumption DEF None
    <2>11. c \in Client
        BY <2>6, <2>10, SettingClient, Zenon
    <2>12. c.in = <<>> /\ c.op = "go" /\ c.run = cli.run /\ c.sock = cli.sock
        BY <2>6, <2>7 DEF Client
    <2> HIDE DEF c
    <2>13. d \in Client
        BY <2>11, SettingClient, Zenon
    <2>14. d.in = <<>> /\ d.op = "go" /\ d.run = cli.run /\ d.sock = cli.sock
        BY <2>11, <2>12 DEF Client
    <2> HIDE DEF d
    <2>15. /\ cli' \in Client /\ cli'.op \in {"go", "body"} /\ cli'.run = cli.run
           /\ cli'.sock = cli.sock /\ cli'.in = <<>>
        BY <2>2, <2>6, <2>7, <2>8, <2>9, <2>13, <2>14
    <2>16. nse.state = "open" => (~HasBegun(nse) /\ Whole(s)) \/ toDaemon' # <<>>
        <3> SUFFICES ASSUME nse.state = "open", toDaemon' = <<>>
                     PROVE  ~HasBegun(nse) /\ Whole(s)
            OBVIOUS
        <3>1. Last(s).part = Size
            BY <1>7, <1>11
        <3>2. HasBegun(nse) => Head(nse.queue).written \in 0..(Size - 1)
            <4>1. HasBegun(nse) => Head(nse.queue) \in Entry
                BY <1>3, HeadTailProperties DEF HasBegun
            <4> QED BY <4>1 DEF Entry
        <3>3. HasBegun(nse) => Last(s).part = Head(nse.queue).written
            BY <1>2 DEF InboundOK, Partly
        <3> QED BY <3>1, <3>2, <3>3, StreamAssumption DEF Whole
    <2>17. InboundOK(nse, cli.in \o toDaemon)'
        <3>1. (cli.in \o toDaemon)' = toDaemon'
            BY <1>7, <2>15
        <3>2. CASE toDaemon' # <<>>
            BY <1>1, <1>2, <1>7, <3>1, <3>2 DEF InboundOK, HasBegun, Partly, Whole
        <3>3. CASE toDaemon' = <<>>
            BY <1>1, <1>7, <2>16, <3>1, <3>3 DEF InboundOK, HasBegun, Whole
        <3> QED BY <3>2, <3>3
    <2> QED BY <1>9, <2>15, <2>17
<1>12. u.part < Size \/ u.part = Size
    BY <1>5, StreamAssumption
<1> QED BY <1>10, <1>11, <1>12, Zenon

\* The daemon meets the end of the stream.
LEMMA ReadEndKeeps == ASSUME IInv, ReadEnd PROVE IInv'
<1> DEFINE r == IF cli.sync = None THEN "idle" ELSE cli.run
<1>1. /\ cli.op = "body" /\ toDaemon = <<>> /\ nse.state = "gone"
      /\ cli' = [cli EXCEPT !.sock = FALSE, !.t_read = FALSE, !.t_pend = FALSE,
                            !.t_connect = TRUE, !.pend = <<>>, !.in = <<>>, !.op = "go",
                            !.sync = None, !.run = r]
      /\ nse' = NoEntry /\ UNCHANGED <<alive, toNsm, toDaemon, told, asked, crashed>>
    BY DEF ReadEnd
<1>2. TypeOK
    BY DEF IInv
<1>3. cli \in Client
    BY <1>2, Types
<1>4. r \in {"idle", "read", "pend", "app"} /\ None \in 0..Asks
    BY <1>3, BoundAssumption, ClientFields DEF None
<1>5. <<>> \in Seq(Unit) /\ <<>> \in Seq(Entry) /\ <<>> \in Seq(Message) /\ Len(<<>>) = 0
      /\ <<>> \o <<>> = <<>>
    BY EmptySeq, ConcatEmptySeq
<1> HIDE DEF r
<1>6. cli' \in Client
    <2> DEFINE a == [cli EXCEPT !.sock = FALSE]
               b == [a EXCEPT !.t_read = FALSE]
               c == [b EXCEPT !.t_pend = FALSE]
               d == [c EXCEPT !.t_connect = TRUE]
               e == [d EXCEPT !.pend = <<>>]
               f == [e EXCEPT !.in = <<>>]
               g == [f EXCEPT !.op = "go"]
               h == [g EXCEPT !.sync = None]
    <2>1. a \in Client
        BY <1>3, SettingClient, Zenon
    <2> HIDE DEF a
    <2>2. b \in Client
        BY <2>1, SettingClient, Zenon
    <2> HIDE DEF b
    <2>3. c \in Client
        BY <2>2, SettingClient, Zenon
    <2> HIDE DEF c
    <2>4. d \in Client
        BY <2>3, SettingClient, Zenon
    <2> HIDE DEF d
    <2>5. e \in Client
        BY <1>5, <2>4, SettingClient, Zenon
    <2> HIDE DEF e
    <2>6. f \in Client
        BY <1>5, <2>5, SettingClient, Zenon
    <2> HIDE DEF f
    <2>7. g \in Client
        BY <2>6, SettingClient, Zenon
    <2> HIDE DEF g
    <2>8. h \in Client
        BY <1>4, <2>7, SettingClient, Zenon
    <2> HIDE DEF h
    <2>9. [h EXCEPT !.run = r] \in Client
        BY <1>4, <2>8, SettingClient, Zenon
    <2> QED BY <1>1, <2>9, Zenon DEF a, b, c, d, e, f, g, h
<1>7. /\ cli'.op = "go" /\ cli'.sock = FALSE /\ cli'.in = <<>>
    BY <1>1, <1>3 DEF Client
<1>8. NoEntry \in Server
    BY <1>5 DEF NoEntry, Server, Entry
<1>9. /\ nse'.state = "none" /\ nse'.queue = <<>> /\ nse'.t_write = FALSE /\ nse'.recv = <<>>
    BY <1>1 DEF NoEntry
<1>10. TypeOK'
    BY <1>1, <1>2, <1>6, <1>8, Types, Zenon DEF TypeOK
<1>11. QueueOK(nse)'
    BY <1>5, <1>9 DEF QueueOK
<1>12. InboundOK(nse, cli.in \o toDaemon)'
    BY <1>1, <1>5, <1>7, <1>9 DEF InboundOK, Chain
<1>13. OutboundOK(nse, cli, nse.recv \o toNsm)'
    <2>1. nse.recv = <<>>
        BY <1>1, Zenon DEF IInv, QueueOK
    <2>2. (nse.recv \o toNsm)' = nse.recv \o toNsm
        BY <1>1, <1>9, <2>1
    <2>3. Chain(nse.recv \o toNsm)
        BY DEF IInv, OutboundOK
    <2> QED BY <1>9, <2>2, <2>3 DEF OutboundOK
<1>14. Sending(cli)' /\ PhaseOK(nse, cli, toDaemon)'
    BY <1>1, <1>7, <1>9 DEF Sending, PhaseOK
<1> QED BY <1>10, <1>11, <1>12, <1>13, <1>14 DEF IInv

----------------------------------------------------------------------------

LEMMA StepKeeps == IInv /\ [Next]_vars => IInv'
<1> SUFFICES ASSUME IInv, [Next]_vars PROVE IInv'
    OBVIOUS
<1>1. CASE NsmStep
    BY <1>1, AcceptKeeps, AnnounceKeeps, DequeueKeeps, NsmReadsKeeps, Zenon DEF NsmStep
<1>2. CASE ClientStep
    BY <1>2, ConnectKeeps, TakeReadKeeps, TakePendKeeps, WriteUnitKeeps, WriteFailsKeeps,
       ReadUnitKeeps, ReadEndKeeps, ReturnKeeps, Zenon DEF ClientStep
<1>3. CASE RequestStep
    <2>1. "tell" \in {"tell", "ask"} /\ "ask" \in {"tell", "ask"}
        OBVIOUS
    <2> QED BY <1>3, <2>1, AskKeeps, Zenon DEF RequestStep
<1>4. CASE FaultStep
    BY <1>4, NsmLeavesKeeps, NsmRestartsKeeps, Zenon DEF FaultStep
<1>5. CASE UNCHANGED vars
    BY <1>5 DEF vars, IInv, TypeOK, QueueOK, InboundOK, OutboundOK, Sending, PhaseOK, HasBegun
<1> QED BY <1>1, <1>2, <1>3, <1>4, <1>5, Zenon DEF Next

LEMMA InvariantFrames == IInv => Framed
<1> SUFFICES ASSUME IInv PROVE Framed
    OBVIOUS
<1> DEFINE s == cli.in \o toDaemon
           t == nse.recv \o toNsm
<1>1. InboundOK(nse, s) /\ OutboundOK(nse, cli, t) /\ TypeOK
    BY DEF IInv
<1>2. Chain(s) /\ Chain(t)
    BY <1>1 DEF InboundOK, OutboundOK
<1>3. ASSUME nse.state = "open", s # <<>>, s[Len(s)].part < Size
      PROVE  nse.queue # <<>> /\ Head(nse.queue) = [msg |-> s[Len(s)].msg, written |-> s[Len(s)].part]
    <2>1. ~Whole(s)
        BY <1>3, StreamAssumption DEF Whole, Last
    <2>2. HasBegun(nse) /\ Partly(s, Head(nse.queue).msg, Head(nse.queue).written)
        BY <1>1, <1>3, <2>1 DEF InboundOK
    <2>3. nse.queue \in Seq(Entry)
        BY <1>1, Types
    <2>4. Head(nse.queue) \in Entry
        BY <2>2, <2>3, HeadTailProperties DEF HasBegun
    <2> QED BY <2>2, <2>4 DEF HasBegun, Partly, Last, Entry
<1> QED BY <1>2, <1>3 DEF Framed, Chain, Follows

\* For messages of any length and streams of any capacity: the entry of NSM, the
\* client and both streams always fit together as IInv says.
THEOREM Invariant == Spec => []IInv
<1> QED BY Initially, StepKeeps, PTL DEF Spec

\* Every variable has its type, and no stream holds more than it can
\* (nsm_server_send_message, nsm_server_dequeue and writen look for room).
THEOREM TypeCorrect == Spec => []TypeOK
<1>1. IInv => TypeOK
    BY DEF IInv
<1> QED BY <1>1, Invariant, PTL

\* No reader ever takes a part of one message for the header of another, and what
\* NSM has queued first is the rest of the message the stream ends with
\* (nsm_server_send_message, nsm_server_dequeue, nsm_server_read_msg, nsm_client_read).
THEOREM AlwaysFramed == Spec => []Framed
<1> QED BY InvariantFrames, Invariant, PTL

----------------------------------------------------------------------------
(* What is on its way, in order.                                           *)

LEMMA Smallest ==
    ASSUME NEW T \in SUBSET Nat, T # {}
    PROVE  \E x \in T : \A y \in T : x <= y
<1> DEFINE R == {ss \in Nat \X Nat : ss[1] < ss[2]}
<1>1. IsWellFoundedOn(R, Nat)
    BY NatLessThanWellFounded, Zenon DEF OpToRel
<1> HIDE DEF R
<1>2. PICK x \in T : \A y \in T : <<y, x>> \notin R
    BY <1>1, WFMin
<1>3. \A y \in T : ~(y < x)
    BY <1>2 DEF R
<1> QED BY <1>3

LEMMA Induction ==
    ASSUME NEW n \in Nat, NEW R, 0 \in R, \A i \in 1..n : i - 1 \in R => i \in R
    PROVE  \A i \in 0..n : i \in R
<1> DEFINE T == {i \in 0..n : i \notin R}
<1>1. SUFFICES ASSUME T # {} PROVE FALSE
    OBVIOUS
<1>2. T \in SUBSET Nat
    OBVIOUS
<1>3. PICK x \in T : \A y \in T : x <= y
    BY <1>1, <1>2, Smallest
<1>4. x \in 1..n /\ x - 1 \in 0..n /\ x - 1 \notin T
    BY <1>3
<1> QED BY <1>3, <1>4

LEMMA Grouping ==
    ASSUME NEW S, NEW a \in Seq(S), NEW b \in Seq(S), NEW c \in Seq(S)
    PROVE  (a \o b) \o c = a \o (b \o c)
BY ConcatAssociative, SMTT(30)

Joined(x, y) == x \o y

LEMMA JoinedWith ==
    ASSUME NEW S, NEW x \in Seq(S), NEW y \in Seq(S), NEW e \in S, NEW T
    PROVE  With(Joined(x, y), e, T) = Joined(x, With(y, e, T))
<1>1. PICK z : z = <<e>>
    OBVIOUS
<1>2. z \in Seq(S)
    BY <1>1
<1>3. x \o y \in Seq(S)
    BY ConcatProperties
<1>4. Append(x \o y, e) = (x \o y) \o z /\ Append(y, e) = y \o z
    BY <1>1, <1>3, AppendIsConcat
<1>5. (x \o y) \o z = x \o (y \o z)
    BY <1>2, Grouping
<1>6. Append(x \o y, e) = x \o Append(y, e)
    BY <1>4, <1>5
<1> QED BY <1>6, Zenon DEF With, Joined

\* Those, unrolled.
Among(a, s, T) ==
    /\ a[0] = <<>>
    /\ \A i \in 1..Len(s) : a[i] = With(a[i - 1], s[i], T)

LEMMA ThoseLoop ==
    ASSUME NEW s, NEW T, Len(s) \in Nat
    PROVE  \E a : Among(a, s, T) /\ a[Len(s)] = Those(s, T)
<1> DEFINE n == Len(s)
           Loop(f, k) == f = [i \in 0..k |-> IF i = 0 THEN <<>> ELSE With(f[i - 1], s[i], T)]
           L == {k \in 0..n : \E f : Loop(f, k)}
<1>1. 0 \in L
    <2>1. Loop([i \in 0..0 |-> <<>>], 0)
        OBVIOUS
    <2> HIDE DEF Loop
    <2> QED BY <2>1
<1>2. ASSUME NEW k \in 1..n, k - 1 \in L PROVE k \in L
    <2>1. PICK f : Loop(f, k - 1)
        BY <1>2
    <2> DEFINE g == [i \in 0..k |-> IF i = k THEN With(f[k - 1], s[k], T) ELSE f[i]]
    <2>2. Loop(g, k)
        BY <2>1
    <2> HIDE DEF Loop, g
    <2> QED BY <2>2
<1> HIDE DEF L
<1>3. n \in L
    <2>1. \A i \in 0..n : i \in L
        BY <1>1, <1>2, Induction
    <2> QED BY <2>1
<1> DEFINE among == CHOOSE f : Loop(f, n)
<1>4. Loop(among, n)
    BY <1>3 DEF L
<1>5. Those(s, T) = among[n]
    BY DEF Those
<1> HIDE DEF among
<1>6. Among(among, s, T)
    BY <1>4 DEF Among
<1> QED BY <1>5, <1>6

LEMMA ThosePrefix ==
    ASSUME NEW S, NEW s \in Seq(S), NEW T, NEW a, Among(a, s, T)
    PROVE  \A i \in 0..Len(s) : a[i] \in Seq(S)
<1>0. PICK Q : Q = Seq(S)
    OBVIOUS
<1> DEFINE R == {i \in 0..Len(s) : a[i] \in Q}
<1>1. 0 \in R /\ Len(s) \in Nat
    <2>1. <<>> \in Q /\ Len(s) \in Nat
        BY <1>0, LenProperties, EmptySeq
    <2>2. a[0] \in Q
        BY <2>1 DEF Among
    <2> QED BY <2>1, <2>2
<1>2. ASSUME NEW i \in 1..Len(s), i - 1 \in R PROVE i \in R
    <2>1. s[i] \in S /\ a[i - 1] \in Seq(S)
        BY <1>0, <1>2, ElementOfSeq
    <2>2. Append(a[i - 1], s[i]) \in Q
        BY <1>0, <2>1, AppendProperties
    <2>3. a[i] = With(a[i - 1], s[i], T)
        BY DEF Among
    <2>4. With(a[i - 1], s[i], T) \in Q
        BY <1>0, <2>1, <2>2, Zenon DEF With
    <2> QED BY <2>3, <2>4
<1> HIDE DEF R
<1>3. \A i \in 0..Len(s) : i \in R
    BY <1>1, <1>2, Induction
<1> QED BY <1>0, <1>3 DEF R

LEMMA ThoseIn ==
    ASSUME NEW S, NEW s \in Seq(S), NEW T
    PROVE  Those(s, T) \in Seq(S)
<1>1. Len(s) \in Nat
    BY LenProperties
<1>2. PICK a : Among(a, s, T) /\ a[Len(s)] = Those(s, T)
    BY <1>1, ThoseLoop
<1> QED BY <1>1, <1>2, ThosePrefix

LEMMA ThoseConcat ==
    ASSUME NEW S, NEW s \in Seq(S), NEW t \in Seq(S), NEW T
    PROVE  Those(s \o t, T) = Those(s, T) \o Those(t, T)
<1> DEFINE st == s \o t
<1>1. /\ st \in Seq(S) /\ Len(st) = Len(s) + Len(t)
      /\ \A i \in 1..(Len(s) + Len(t)) : st[i] = IF i <= Len(s) THEN s[i] ELSE t[i - Len(s)]
    BY ConcatProperties
<1> HIDE DEF st
<1>2. Len(s) \in Nat /\ Len(t) \in Nat /\ Len(st) \in Nat
    BY LenProperties, <1>1
<1>3. PICK a : Among(a, s, T) /\ a[Len(s)] = Those(s, T)
    BY <1>2, ThoseLoop
<1>4. PICK b : Among(b, t, T) /\ b[Len(t)] = Those(t, T)
    BY <1>2, ThoseLoop
<1>5. PICK c : Among(c, st, T) /\ c[Len(st)] = Those(st, T)
    BY <1>2, ThoseLoop
<1>6. \A i \in 0..Len(t) : b[i] \in Seq(S)
    BY <1>4, ThosePrefix
<1>7. Those(s, T) \in Seq(S)
    BY ThoseIn
<1>8. \A i \in 0..Len(s) : c[i] = a[i]
    <2> DEFINE R == {i \in 0..Len(s) : c[i] = a[i]}
    <2>1. 0 \in R
        BY <1>2, <1>3, <1>5 DEF Among
    <2>2. ASSUME NEW i \in 1..Len(s), i - 1 \in R PROVE i \in R
        <3>1. st[i] = s[i] /\ i \in 1..Len(st)
            BY <1>1, <1>2
        <3> QED BY <1>2, <1>3, <1>5, <2>2, <3>1 DEF Among
    <2> HIDE DEF R
    <2>3. \A i \in 0..Len(s) : i \in R
        BY <1>2, <2>1, <2>2, Induction
    <2> QED BY <2>3 DEF R
<1>9. \A j \in 0..Len(t) : c[Len(s) + j] = Joined(Those(s, T), b[j])
    <2> DEFINE R == {j \in 0..Len(t) : c[Len(s) + j] = Joined(Those(s, T), b[j])}
    <2>1. 0 \in R
        <3>1. b[0] = <<>> /\ c[Len(s)] = Those(s, T)
            BY <1>2, <1>3, <1>4, <1>8 DEF Among
        <3>2. Joined(Those(s, T), <<>>) = Those(s, T)
            BY <1>7, ConcatEmptySeq DEF Joined
        <3> QED BY <1>2, <3>1, <3>2
    <2>2. ASSUME NEW j \in 1..Len(t), j - 1 \in R PROVE j \in R
        <3>1. /\ Len(s) + j \in 1..Len(st) /\ st[Len(s) + j] = t[j]
              /\ (Len(s) + j) - 1 = Len(s) + (j - 1) /\ j - 1 \in 0..Len(t) /\ j \in 0..Len(t)
            <4>1. /\ Len(st) = Len(s) + Len(t) /\ Len(s) + j \in 1..(Len(s) + Len(t))
                  /\ ~(Len(s) + j <= Len(s)) /\ (Len(s) + j) - Len(s) = j
                BY <1>1, <1>2
            <4>2. (Len(s) + j) - 1 = Len(s) + (j - 1) /\ j - 1 \in 0..Len(t) /\ j \in 0..Len(t)
                BY <1>2
            <4>3. st[Len(s) + j] = t[(Len(s) + j) - Len(s)]
                BY <1>1, <4>1
            <4> QED BY <4>1, <4>2, <4>3
        <3>2. c[Len(s) + j] = With(c[Len(s) + (j - 1)], t[j], T)
            BY <1>5, <3>1 DEF Among
        <3>3. c[Len(s) + (j - 1)] = Joined(Those(s, T), b[j - 1])
            BY <2>2
        <3>4. b[j] = With(b[j - 1], t[j], T)
            BY <1>4 DEF Among
        <3>5. b[j - 1] \in Seq(S) /\ t[j] \in S
            BY <1>6, <3>1, ElementOfSeq
        <3>6. With(Joined(Those(s, T), b[j - 1]), t[j], T) = Joined(Those(s, T), With(b[j - 1], t[j], T))
            BY <1>7, <3>5, JoinedWith
        <3> QED BY <3>1, <3>2, <3>3, <3>4, <3>6
    <2> HIDE DEF R
    <2>3. \A j \in 0..Len(t) : j \in R
        BY <1>2, <2>1, <2>2, Induction
    <2> QED BY <2>3 DEF R
<1>10. c[Len(s) + Len(t)] = Joined(Those(s, T), b[Len(t)])
    BY <1>2, <1>9
<1>11. Those(st, T) = Those(s, T) \o Those(t, T)
    BY <1>1, <1>4, <1>5, <1>10, Zenon DEF Joined
<1> QED BY <1>11 DEF st

LEMMA ThoseNone ==
    ASSUME NEW S, NEW s \in Seq(S), NEW T, \A i \in 1..Len(s) : s[i] \notin T
    PROVE  Those(s, T) = <<>>
<1>1. Len(s) \in Nat
    BY LenProperties
<1>2. PICK a : Among(a, s, T) /\ a[Len(s)] = Those(s, T)
    BY <1>1, ThoseLoop
<1> DEFINE R == {i \in 0..Len(s) : a[i] = <<>>}
<1>3. 0 \in R
    BY <1>1, <1>2 DEF Among
<1>4. ASSUME NEW i \in 1..Len(s), i - 1 \in R PROVE i \in R
    <2>1. a[i] = With(a[i - 1], s[i], T)
        BY <1>2 DEF Among
    <2> QED BY <1>4, <2>1 DEF With
<1> HIDE DEF R
<1>5. \A i \in 0..Len(s) : i \in R
    BY <1>1, <1>3, <1>4, Induction
<1> QED BY <1>1, <1>2, <1>5 DEF R

LEMMA ThoseOne ==
    ASSUME NEW S, NEW e \in S, NEW T
    PROVE  Those(<<e>>, T) = IF e \in T THEN <<e>> ELSE <<>>
<1> DEFINE s == <<e>>
<1>1. Len(s) = 1 /\ s[1] = e
    OBVIOUS
<1> HIDE DEF s
<1>5. Len(s) \in Nat
    BY <1>1
<1>2. PICK a : Among(a, s, T) /\ a[Len(s)] = Those(s, T)
    BY <1>5, ThoseLoop, Zenon
<1>3. a[1] = With(<<>>, e, T)
    BY <1>1, <1>2 DEF Among
<1>4. Append(<<>>, e) = <<e>>
    OBVIOUS
<1> QED BY <1>1, <1>2, <1>3, <1>4 DEF s, With

LEMMA MessagesIn ==
    ASSUME NEW S, NEW s \in Seq(S), \A x \in S : x.msg \in Message
    PROVE  Messages(s) \in Seq(Message) /\ Len(Messages(s)) = Len(s)
           /\ \A i \in 1..Len(s) : Messages(s)[i] = s[i].msg
<1>1. Len(s) \in Nat /\ \A i \in 1..Len(s) : s[i].msg \in Message
    BY LenProperties, ElementOfSeq
<1>2. Messages(s) \in [1..Len(s) -> Message]
    BY <1>1 DEF Messages
<1>3. Messages(s) \in Seq(Message)
    BY <1>1, <1>2, SeqDef
<1>4. Len(Messages(s)) = Len(s)
    BY <1>1, <1>2, <1>3, LenProperties
<1> QED BY <1>3, <1>4 DEF Messages

LEMMA MessagesConcat ==
    ASSUME NEW S, NEW s \in Seq(S), NEW t \in Seq(S), \A x \in S : x.msg \in Message
    PROVE  Messages(s \o t) = Messages(s) \o Messages(t)
<1> DEFINE a == Messages(s)
           b == Messages(t)
           c == Messages(s \o t)
<1>1. /\ s \o t \in Seq(S) /\ Len(s \o t) = Len(s) + Len(t)
      /\ \A i \in 1..(Len(s) + Len(t)) : (s \o t)[i] = IF i <= Len(s) THEN s[i] ELSE t[i - Len(s)]
    BY ConcatProperties
<1>2. a \in Seq(Message) /\ Len(a) = Len(s) /\ \A i \in 1..Len(s) : a[i] = s[i].msg
    BY MessagesIn
<1>3. b \in Seq(Message) /\ Len(b) = Len(t) /\ \A i \in 1..Len(t) : b[i] = t[i].msg
    BY MessagesIn
<1>4. c \in Seq(Message) /\ Len(c) = Len(s \o t) /\ \A i \in 1..Len(s \o t) : c[i] = (s \o t)[i].msg
    BY <1>1, MessagesIn
<1> HIDE DEF a, b, c
<1>5. /\ a \o b \in Seq(Message) /\ Len(a \o b) = Len(a) + Len(b)
      /\ \A i \in 1..(Len(a) + Len(b)) : (a \o b)[i] = IF i <= Len(a) THEN a[i] ELSE b[i - Len(a)]
    <2>1. a \in Seq(Message) /\ b \in Seq(Message)
        BY <1>2, <1>3
    <2> QED BY <2>1, ConcatProperties, Zenon
<1>6. Len(s) \in Nat /\ Len(t) \in Nat
    BY LenProperties
<1>7. Len(c) = Len(a \o b)
    BY <1>1, <1>2, <1>3, <1>4, <1>5
<1>8. ASSUME NEW i \in 1..Len(c) PROVE c[i] = (a \o b)[i]
    <2>1. i \in 1..(Len(s) + Len(t)) /\ i \in 1..(Len(a) + Len(b)) /\ i \in 1..Len(s \o t)
        BY <1>1, <1>2, <1>3, <1>4
    <2>2. CASE i <= Len(s)
        <3>1. (s \o t)[i] = s[i] /\ i \in 1..Len(s) /\ (a \o b)[i] = a[i]
            <4>1. i \in 1..Len(s) /\ i <= Len(a)
                BY <1>2, <1>6, <2>1, <2>2
            <4> QED BY <1>1, <1>5, <2>1, <2>2, <4>1, Zenon
        <3> QED BY <1>2, <1>4, <2>1, <3>1, Zenon
    <2>3. CASE ~(i <= Len(s))
        <3>1. i - Len(s) \in 1..Len(t)
            BY <1>6, <2>1, <2>3
        <3>2. (s \o t)[i] = t[i - Len(s)] /\ (a \o b)[i] = b[i - Len(a)]
            BY <1>1, <1>2, <1>5, <2>1, <2>3, Zenon
        <3> QED BY <1>2, <1>3, <1>4, <2>1, <3>1, <3>2, Zenon
    <2> QED BY <2>2, <2>3
<1>9. c = a \o b
    BY <1>4, <1>5, <1>7, <1>8, SeqEqual
<1> QED BY <1>9 DEF a, b, c

One(m) == <<m>>

LEMMA JoinedIn ==
    ASSUME NEW S, NEW x \in Seq(S), NEW y \in Seq(S)
    PROVE  Joined(x, y) \in Seq(S)
BY ConcatProperties DEF Joined

LEMMA JoinedGroup ==
    ASSUME NEW S, NEW x \in Seq(S), NEW y \in Seq(S), NEW z \in Seq(S)
    PROVE  Joined(Joined(x, y), z) = Joined(x, Joined(y, z))
<1>1. (x \o y) \o z = x \o (y \o z)
    BY Grouping
<1> QED BY <1>1, Zenon DEF Joined

LEMMA JoinedEmpty ==
    ASSUME NEW S, NEW x \in Seq(S)
    PROVE  Joined(x, <<>>) = x /\ Joined(<<>>, x) = x
BY ConcatEmptySeq DEF Joined

LEMMA JoinedOne ==
    ASSUME NEW S, NEW x \in Seq(S), NEW e \in S
    PROVE  Append(x, e) = Joined(x, One(e)) /\ One(e) \in Seq(S)
<1>1. <<e>> \in Seq(S)
    OBVIOUS
<1>2. Append(x, e) = x \o <<e>>
    BY AppendIsConcat
<1> QED BY <1>1, <1>2, Zenon DEF Joined, One

LEMMA OneIn == ASSUME NEW S, NEW e \in S PROVE One(e) \in Seq(S)
BY DEF One

LEMMA JoinedFirst ==
    ASSUME NEW S, NEW x \in Seq(S), NEW e \in S
    PROVE  Joined(One(e), x) # <<>> /\ Tail(Joined(One(e), x)) = x
<1> DEFINE y == One(e)
           z == y \o x
<1>1. y \in Seq(S) /\ Len(y) = 1
    BY DEF One
<1> HIDE DEF y
<1>7. /\ z \in Seq(S) /\ Len(z) = Len(y) + Len(x)
      /\ \A i \in 1..(Len(y) + Len(x)) : z[i] = IF i <= Len(y) THEN y[i] ELSE x[i - Len(y)]
    BY <1>1, ConcatProperties, Zenon
<1> HIDE DEF z
<1>2. z \in Seq(S) /\ Len(z) = 1 + Len(x) /\ Len(x) \in Nat
      /\ \A i \in 1..(1 + Len(x)) : z[i] = IF i <= 1 THEN y[i] ELSE x[i - 1]
    BY <1>1, <1>7, LenProperties
<1>3. z # <<>>
    BY <1>2, EmptySeq
<1>4. Tail(z) \in Seq(S) /\ Len(Tail(z)) = Len(x) /\ \A i \in 1..Len(Tail(z)) : Tail(z)[i] = z[i + 1]
    BY <1>2, <1>3, HeadTailProperties
<1>5. \A i \in 1..Len(Tail(z)) : Tail(z)[i] = x[i]
    BY <1>2, <1>4
<1>6. Tail(z) = x
    BY <1>4, <1>5, SeqEqual
<1> QED BY <1>3, <1>6 DEF z, y, Joined

LEMMA FirstJoined ==
    ASSUME NEW S, NEW x \in Seq(S), x # <<>>
    PROVE  Head(x) \in S /\ Tail(x) \in Seq(S) /\ x = Joined(One(Head(x)), Tail(x))
<1>1. /\ Head(x) \in S /\ Tail(x) \in Seq(S) /\ Len(Tail(x)) = Len(x) - 1 /\ Head(x) = x[1]
      /\ \A i \in 1..Len(Tail(x)) : Tail(x)[i] = x[i + 1]
    BY HeadTailProperties
<1> DEFINE h == One(Head(x))
           t == Tail(x)
           z == h \o t
<1>2. h \in Seq(S) /\ Len(h) = 1 /\ h[1] = x[1] /\ Len(x) \in Nat \ {0}
    BY <1>1, EmptySeq DEF One
<1>3. t \in Seq(S) /\ Len(t) = Len(x) - 1 /\ \A i \in 1..(Len(x) - 1) : t[i] = x[i + 1]
    BY <1>1
<1> HIDE DEF h, t
<1>4. z \in Seq(S) /\ Len(z) = Len(h) + Len(t)
      /\ \A i \in 1..(Len(h) + Len(t)) : z[i] = IF i <= Len(h) THEN h[i] ELSE t[i - Len(h)]
    BY <1>2, <1>3, ConcatProperties
<1> HIDE DEF z
<1>5. Len(z) = Len(x)
    BY <1>2, <1>3, <1>4
<1>6. ASSUME NEW i \in 1..Len(z) PROVE z[i] = x[i]
    <2>1. CASE i = 1
        BY <1>2, <1>3, <1>4, <2>1
    <2>2. CASE i # 1
        <3>1. z[i] = t[i - 1] /\ i - 1 \in 1..(Len(x) - 1)
            BY <1>2, <1>3, <1>4, <1>5, <2>2
        <3>2. t[i - 1] = x[(i - 1) + 1] /\ (i - 1) + 1 = i
            BY <1>3, <3>1
        <3> QED BY <3>1, <3>2
    <2> QED BY <2>1, <2>2
<1>7. z = x
    BY <1>4, <1>5, <1>6, SeqEqual
<1> QED BY <1>1, <1>7 DEF Joined, z, h, t

----------------------------------------------------------------------------

QueuedOf(q) == Messages(Those(q, [msg : Message, written : {0}]))
NotesOf(q) == Those(q, [kind : {"note"}, id : Nat])

LEMMA BegunJoined ==
    ASSUME NEW x \in Seq(Unit), NEW y \in Seq(Unit)
    PROVE  Begun(Joined(x, y)) = Joined(Begun(x), Begun(y)) /\ Begun(x) \in Seq(Message)
<1> DEFINE T == [msg : Message, part : {1}]
           a == Those(x, T)
           b == Those(y, T)
<1>1. \A u \in Unit : u.msg \in Message
    BY DEF Unit
<1>2. Those(x \o y, T) = a \o b
    BY ThoseConcat
<1>3. a \in Seq(Unit) /\ b \in Seq(Unit)
    BY ThoseIn
<1> HIDE DEF T, a, b
<1>4. Messages(a \o b) = Messages(a) \o Messages(b)
    BY <1>1, <1>3, MessagesConcat
<1>5. Messages(a) \in Seq(Message)
    BY <1>1, <1>3, MessagesIn
<1> QED BY <1>2, <1>4, <1>5, Zenon DEF Begun, Joined, T, a, b

LEMMA QueuedJoined ==
    ASSUME NEW x \in Seq(Entry), NEW y \in Seq(Entry)
    PROVE  QueuedOf(Joined(x, y)) = Joined(QueuedOf(x), QueuedOf(y)) /\ QueuedOf(x) \in Seq(Message)
<1> DEFINE T == [msg : Message, written : {0}]
           a == Those(x, T)
           b == Those(y, T)
<1>1. \A u \in Entry : u.msg \in Message
    BY DEF Entry
<1>2. Those(x \o y, T) = a \o b
    BY ThoseConcat
<1>3. a \in Seq(Entry) /\ b \in Seq(Entry)
    BY ThoseIn
<1> HIDE DEF T, a, b
<1>4. Messages(a \o b) = Messages(a) \o Messages(b)
    BY <1>1, <1>3, MessagesConcat
<1>5. Messages(a) \in Seq(Message)
    BY <1>1, <1>3, MessagesIn
<1> QED BY <1>2, <1>4, <1>5, Zenon DEF QueuedOf, Joined, T, a, b

LEMMA NotesJoined ==
    ASSUME NEW x \in Seq(Message), NEW y \in Seq(Message)
    PROVE  NotesOf(Joined(x, y)) = Joined(NotesOf(x), NotesOf(y)) /\ NotesOf(x) \in Seq(Message)
<1>1. NotesOf(x) \in Seq(Message)
    BY ThoseIn DEF NotesOf
<1>2. Those(x \o y, [kind : {"note"}, id : Nat])
        = Those(x, [kind : {"note"}, id : Nat]) \o Those(y, [kind : {"note"}, id : Nat])
    BY ThoseConcat
<1> QED BY <1>1, <1>2, Zenon DEF NotesOf, Joined

LEMMA NotesOne ==
    ASSUME NEW m \in Message
    PROVE  NotesOf(One(m)) = IF m.kind = "note" THEN One(m) ELSE <<>>
<1>1. m \in [kind : {"note"}, id : Nat] <=> m.kind = "note"
    BY DEF Message
<1> QED BY <1>1, ThoseOne DEF NotesOf, One

LEMMA MessagesOne ==
    ASSUME NEW S, NEW x \in S, x.msg \in Message
    PROVE  Messages(One(x)) = One(x.msg) /\ Messages(<<>>) = <<>>
<1>1. Len(One(x)) = 1 /\ One(x)[1] = x
    BY DEF One
<1>2. Messages(One(x)) = [i \in 1..1 |-> x.msg]
    BY <1>1 DEF Messages
<1>3. One(x.msg) = [i \in 1..1 |-> x.msg]
    BY DEF One
<1>4. Messages(<<>>) = <<>>
    BY DEF Messages
<1> QED BY <1>2, <1>3, <1>4

LEMMA QueuedOne ==
    ASSUME NEW e \in Entry
    PROVE  QueuedOf(One(e)) = IF e.written = 0 THEN One(e.msg) ELSE <<>>
<1>1. e \in [msg : Message, written : {0}] <=> e.written = 0
    BY DEF Entry
<1>2. e.msg \in Message
    BY DEF Entry
<1>3. Those(One(e), [msg : Message, written : {0}]) = IF e.written = 0 THEN One(e) ELSE <<>>
    BY <1>1, ThoseOne DEF One
<1> QED BY <1>2, <1>3, MessagesOne DEF QueuedOf

\* Nothing begins in the middle of a message, and one at its first unit.
LEMMA BegunNone ==
    ASSUME NEW x \in Seq(Unit), \A i \in 1..Len(x) : x[i].part # 1
    PROVE  Begun(x) = <<>>
<1>1. \A i \in 1..Len(x) : x[i] \notin [msg : Message, part : {1}]
    OBVIOUS
<1>2. Those(x, [msg : Message, part : {1}]) = <<>>
    BY <1>1, ThoseNone
<1>3. Messages(<<>>) = <<>>
    BY DEF Messages
<1> QED BY <1>2, <1>3, Zenon DEF Begun

LEMMA BegunOne ==
    ASSUME NEW x \in Seq(Unit), x # <<>>, x[1].part = 1, \A i \in 2..Len(x) : x[i].part # 1
    PROVE  Begun(x) = One(x[1].msg)
<1>1. /\ Head(x) \in Unit /\ Head(x) = x[1] /\ Tail(x) \in Seq(Unit) /\ Len(Tail(x)) = Len(x) - 1
      /\ \A i \in 1..Len(Tail(x)) : Tail(x)[i] = x[i + 1]
    BY HeadTailProperties
<1>2. x = Joined(One(x[1]), Tail(x)) /\ x[1] \in Unit /\ One(x[1]) \in Seq(Unit)
    BY <1>1, FirstJoined DEF One
<1>3. Begun(Tail(x)) = <<>>
    <2>1. \A i \in 1..Len(Tail(x)) : i + 1 \in 2..Len(x)
        BY <1>1, LenProperties
    <2>2. \A i \in 1..Len(Tail(x)) : Tail(x)[i].part # 1
        BY <1>1, <2>1
    <2> QED BY <1>1, <2>2, BegunNone
<1>4. Begun(One(x[1])) = One(x[1].msg)
    <2>1. x[1] \in [msg : Message, part : {1}] /\ x[1].msg \in Message
        BY <1>2 DEF Unit
    <2>2. Those(One(x[1]), [msg : Message, part : {1}]) = One(x[1])
        BY <1>2, <2>1, ThoseOne DEF One
    <2> QED BY <1>2, <2>1, <2>2, MessagesOne DEF Begun
<1>5. Begun(x) = Joined(Begun(One(x[1])), Begun(Tail(x)))
    BY <1>1, <1>2, BegunJoined
<1>6. One(x[1].msg) \in Seq(Message)
    BY <1>2 DEF One, Unit
<1> QED BY <1>3, <1>4, <1>5, <1>6, JoinedEmpty


----------------------------------------------------------------------------
(* What the daemon has still to handle, as a function of both sides.        *)

AsideOf(c) == IF c.run = "pend" THEN SubSeq(c.pend, 2, Len(c.pend)) ELSE c.pend
Flow(c, e, d) == Joined(Joined(AsideOf(c), Begun(Joined(c.in, d))), QueuedOf(e.queue))
LinkOf(e, c) ==
    CASE ~c.sock -> "down" [] c.sock /\ e.state = "gone" -> "closing" [] OTHER -> "up"

LEMMA UnhandledFlows == Unhandled = NotesOf(Flow(cli, nse, toDaemon))
BY Zenon DEF Unhandled, NotesOf, Flow, Joined, AsideOf, Aside, Waiting, QueuedOf

LEMMA QueuedEmpty == QueuedOf(<<>>) = <<>> /\ Begun(<<>>) = <<>> /\ NotesOf(<<>>) = <<>>
<1>1. <<>> \in Seq(Entry) /\ <<>> \in Seq(Unit) /\ <<>> \in Seq(Message) /\ Len(<<>>) = 0
    BY EmptySeq
<1>2. ASSUME NEW T PROVE Those(<<>>, T) = <<>>
    <2>1. <<>> \in Seq(Unit) /\ \A i \in 1..Len(<<>>) : <<>>[i] \notin T
        BY <1>1
    <2> QED BY <2>1, ThoseNone, Zenon
<1>3. Messages(<<>>) = <<>>
    BY DEF Messages
<1> QED BY <1>2, <1>3, Zenon DEF QueuedOf, Begun, NotesOf

LEMMA AsideIn == ASSUME NEW c \in Client PROVE AsideOf(c) \in Seq(Message)
<1>1. c.pend \in Seq(Message) /\ Len(c.pend) \in Nat
    BY ClientFields, LenProperties
<1>2. \A i \in 2..Len(c.pend) : c.pend[i] \in Message
    BY <1>1, ElementOfSeq
<1>3. SubSeq(c.pend, 2, Len(c.pend)) \in Seq(Message)
    BY <1>1, <1>2, SubSeqProperties
<1> QED BY <1>1, <1>3 DEF AsideOf

\* Of the units of m that are written, those from the first on begin it and no others do.
LEMMA BegunUnits ==
    ASSUME NEW m \in Message, NEW i \in 1..Size, NEW j \in 0..Size
    PROVE  /\ SubSeq(Units(m), i, j) \in Seq(Unit)
           /\ Begun(SubSeq(Units(m), i, j)) = IF i = 1 /\ j > 0 THEN One(m) ELSE <<>>
<1> DEFINE x == SubSeq(Units(m), i, j)
<1>1. /\ x \in Seq(Unit) /\ Len(x) = IF i <= j THEN j - i + 1 ELSE 0
      /\ \A k \in 1..Len(x) : x[k] = [msg |-> m, part |-> i + k - 1]
    BY UnitsAre
<1> HIDE DEF x
<1>2. ASSUME NEW k \in 1..Len(x) PROVE x[k].part = i + k - 1 /\ x[k].msg = m
    <2>1. x[k] = [msg |-> m, part |-> i + k - 1]
        BY <1>1, Zenon
    <2> QED BY <2>1
<1>3. CASE i = 1 /\ j > 0
    <2>1. Len(x) = j /\ x # <<>>
        BY <1>1, <1>3, EmptySeq
    <2>2. x[1].part = 1 /\ x[1].msg = m /\ \A k \in 2..Len(x) : x[k].part # 1
        BY <1>2, <1>3, <2>1
    <2>3. Begun(x) = One(m)
        BY <1>1, <2>1, <2>2, BegunOne
    <2> QED BY <1>1, <1>3, <2>3 DEF x
<1>4. CASE ~(i = 1 /\ j > 0)
    <2>1. \A k \in 1..Len(x) : x[k].part # 1
        BY <1>1, <1>2, <1>4, StreamAssumption
    <2>2. Begun(x) = <<>>
        BY <1>1, <2>1, BegunNone
    <2> QED BY <1>1, <1>4, <2>2, Zenon DEF x
<1> QED BY <1>3, <1>4

LEMMA NotesIn ==
    ASSUME NEW x \in Seq(Message), NEW y \in Seq(Message), NEW m \in Message
    PROVE  /\ NotesOf(Joined(x, Joined(One(m), y)))
                = Joined(NotesOf(x), Joined(IF m.kind = "note" THEN One(m) ELSE <<>>, NotesOf(y)))
           /\ m.kind # "note" => NotesOf(Joined(x, Joined(One(m), y))) = NotesOf(Joined(x, y))
<1>1. One(m) \in Seq(Message) /\ Joined(One(m), y) \in Seq(Message)
    BY JoinedOne, JoinedIn
<1>2. NotesOf(Joined(x, Joined(One(m), y))) = Joined(NotesOf(x), NotesOf(Joined(One(m), y)))
    BY <1>1, NotesJoined
<1>3. NotesOf(Joined(One(m), y)) = Joined(NotesOf(One(m)), NotesOf(y)) /\ NotesOf(y) \in Seq(Message)
    BY <1>1, NotesJoined
<1>4. NotesOf(One(m)) = IF m.kind = "note" THEN One(m) ELSE <<>>
    BY NotesOne
<1>5. Joined(<<>>, NotesOf(y)) = NotesOf(y)
    BY <1>3, JoinedEmpty
<1>6. NotesOf(Joined(x, y)) = Joined(NotesOf(x), NotesOf(y))
    BY NotesJoined
<1> QED BY <1>2, <1>3, <1>4, <1>5, <1>6


Before(c, d) == Joined(AsideOf(c), Begun(Joined(c.in, d)))

LEMMA FlowGrows ==
    ASSUME NEW c \in Client, NEW f \in Server, NEW d \in Seq(Unit), NEW x \in Seq(Unit)
    PROVE  /\ Before(c, d) \in Seq(Message) /\ Begun(x) \in Seq(Message)
           /\ QueuedOf(f.queue) \in Seq(Message)
           /\ Flow(c, f, d) = Joined(Before(c, d), QueuedOf(f.queue))
           /\ Flow(c, f, Joined(d, x)) = Joined(Before(c, d), Joined(Begun(x), QueuedOf(f.queue)))
<1>1. c.in \in Seq(Unit) /\ f.queue \in Seq(Entry) /\ AsideOf(c) \in Seq(Message)
    BY ClientFields, EntryFields, AsideIn
<1>2. Joined(c.in, d) \in Seq(Unit) /\ Joined(d, x) \in Seq(Unit)
    BY <1>1, JoinedIn
<1>3. QueuedOf(f.queue) \in Seq(Message)
    BY <1>1, QueuedJoined
<1>4. Joined(c.in, Joined(d, x)) = Joined(Joined(c.in, d), x)
    BY <1>1, JoinedGroup
<1>5. /\ Begun(Joined(Joined(c.in, d), x)) = Joined(Begun(Joined(c.in, d)), Begun(x))
      /\ Begun(Joined(c.in, d)) \in Seq(Message) /\ Begun(x) \in Seq(Message)
    BY <1>2, BegunJoined
<1> DEFINE a == AsideOf(c)
           b == Begun(Joined(c.in, d))
           y == Begun(x)
           q == QueuedOf(f.queue)
<1>6. a \in Seq(Message) /\ b \in Seq(Message) /\ y \in Seq(Message) /\ q \in Seq(Message)
    BY <1>1, <1>3, <1>5
<1>7. Flow(c, f, d) = Joined(Joined(a, b), q) /\ Before(c, d) = Joined(a, b)
    BY Zenon DEF Flow, Before
<1>8. Flow(c, f, Joined(d, x)) = Joined(Joined(a, Joined(b, y)), q)
    BY <1>4, <1>5, Zenon DEF Flow
<1> HIDE DEF a, b, y, q
<1>9. Joined(a, b) \in Seq(Message) /\ Joined(a, Joined(b, y)) = Joined(Joined(a, b), y)
    BY <1>6, JoinedIn, JoinedGroup
<1>10. Joined(Joined(Joined(a, b), y), q) = Joined(Joined(a, b), Joined(y, q))
    BY <1>6, <1>9, JoinedGroup
<1> QED BY <1>6, <1>7, <1>8, <1>9, <1>10, Zenon DEF y, q

\* Whatever the socket takes of m, m is on its way behind all the others.
LEMMA SendFlows ==
    ASSUME NEW c \in Client, NEW e \in Server, NEW m \in Message, NEW n \in 0..Size,
           NEW d \in Seq(Unit), e.queue # <<>> => n = 0, AfterSend(e, m, n) \in Server
    PROVE  /\ Flow(c, AfterSend(e, m, n), Joined(d, SubSeq(Units(m), 1, n))) = Joined(Flow(c, e, d), One(m))
           /\ Flow(c, e, d) \in Seq(Message)
<1> DEFINE f == AfterSend(e, m, n)
           x == SubSeq(Units(m), 1, n)
           a == Before(c, d)
           q == QueuedOf(e.queue)
           r == QueuedOf(f.queue)
           y == Begun(x)
<1>1. 1 \in 1..Size /\ One(m) \in Seq(Message)
    <2>1. 1 \in 1..Size
        BY StreamAssumption
    <2> QED BY <2>1, OneIn
<1>2. x \in Seq(Unit) /\ y = IF n > 0 THEN One(m) ELSE <<>>
    BY <1>1, BegunUnits
<1>3. /\ a \in Seq(Message) /\ y \in Seq(Message) /\ r \in Seq(Message) /\ q \in Seq(Message)
      /\ Flow(c, e, d) = Joined(a, q)
      /\ Flow(c, f, Joined(d, x)) = Joined(a, Joined(y, r))
    BY <1>2, FlowGrows
<1>4. e.queue \in Seq(Entry)
    BY EntryFields
<1>5. e.queue = <<>> => q = <<>>
    BY QueuedEmpty
<1>6. Joined(y, r) = Joined(q, One(m))
    <2>1. CASE n = Size
        <3>1. f.queue = <<>> /\ e.queue = <<>> /\ n > 0
            BY <2>1, StreamAssumption DEF AfterSend
        <3>2. r = <<>> /\ q = <<>> /\ y = One(m)
            BY <1>2, <3>1, QueuedEmpty
        <3> QED BY <1>1, <3>2, JoinedEmpty
    <2>2. CASE n # Size
        <3> DEFINE b == [msg |-> m, written |-> n]
        <3>1. b \in Entry /\ b.written = n /\ b.msg = m
            BY <2>2, StreamAssumption DEF Entry
        <3>2. f.queue = Append(e.queue, b)
            BY <2>2, EntryFields DEF AfterSend, Server
        <3> HIDE DEF b, f
        <3>3. Append(e.queue, b) = Joined(e.queue, One(b)) /\ One(b) \in Seq(Entry)
            BY <1>4, <3>1, JoinedOne
        <3>4. QueuedOf(Joined(e.queue, One(b))) = Joined(q, QueuedOf(One(b)))
            BY <1>4, <3>3, QueuedJoined
        <3>5. QueuedOf(One(b)) = IF n = 0 THEN One(m) ELSE <<>>
            BY <3>1, QueuedOne
        <3>6. r = Joined(q, QueuedOf(One(b)))
            BY <3>2, <3>3, <3>4
        <3>7. CASE n = 0
            <4>1. y = <<>> /\ r = Joined(q, One(m))
                BY <1>2, <3>5, <3>6, <3>7
            <4> QED BY <1>3, <4>1, JoinedEmpty
        <3>8. CASE n # 0
            <4>1. y = One(m) /\ r = Joined(q, <<>>) /\ q = <<>>
                BY <1>2, <1>5, <3>5, <3>6, <3>8
            <4>2. Joined(q, <<>>) = q
                BY <1>3, JoinedEmpty
            <4> QED BY <1>1, <4>1, <4>2, JoinedEmpty
        <3> QED BY <3>7, <3>8
    <2> QED BY <2>1, <2>2
<1> HIDE DEF f, x, a, q, r, y
<1>7. Joined(a, q) \in Seq(Message) /\ Joined(a, Joined(q, One(m))) = Joined(Joined(a, q), One(m))
    BY <1>1, <1>3, JoinedIn, JoinedGroup
<1> QED BY <1>3, <1>6, <1>7 DEF f, x

\* Writing on does not change what is on its way.
LEMMA DequeueFlows ==
    ASSUME NEW c \in Client, NEW e \in Server, NEW d \in Seq(Unit), e.queue # <<>>,
           NEW n \in 1..(Size - Head(e.queue).written), AfterDequeue(e, n) \in Server
    PROVE  LET w == Head(e.queue).written
               x == SubSeq(Units(Head(e.queue).msg), w + 1, w + n)
           IN  Flow(c, AfterDequeue(e, n), Joined(d, x)) = Flow(c, e, d)
<1> DEFINE h == Head(e.queue)
           t == Tail(e.queue)
           w == h.written
           m == h.msg
           x == SubSeq(Units(m), w + 1, w + n)
           f == AfterDequeue(e, n)
           y == Begun(x)
           q == QueuedOf(e.queue)
           r == QueuedOf(f.queue)
<1>1. e.queue \in Seq(Entry)
    BY EntryFields
<1>2. h \in Entry /\ t \in Seq(Entry) /\ e.queue = Joined(One(h), t) /\ One(h) \in Seq(Entry)
    BY <1>1, FirstJoined, JoinedOne
<1>3. m \in Message /\ w \in 0..(Size - 1) /\ w + 1 \in 1..Size /\ w + n \in 1..Size
    <2>1. m \in Message /\ w \in 0..(Size - 1)
        BY <1>2 DEF Entry
    <2>2. n \in 1..(Size - w)
        OBVIOUS
    <2> HIDE DEF w
    <2> QED BY <2>1, <2>2, StreamAssumption
<1>4. x \in Seq(Unit) /\ y = IF w = 0 THEN One(m) ELSE <<>>
    <2> DEFINE i == w + 1
               j == w + n
    <2>1. i \in 1..Size /\ j \in 0..Size /\ j > 0 /\ (i = 1 <=> w = 0)
        BY <1>3
    <2> HIDE DEF i, j
    <2>2. /\ SubSeq(Units(m), i, j) \in Seq(Unit)
          /\ Begun(SubSeq(Units(m), i, j)) = IF i = 1 /\ j > 0 THEN One(m) ELSE <<>>
        BY <1>3, <2>1, BegunUnits
    <2> QED BY <2>1, <2>2 DEF i, j
<1>5. QueuedOf(One(h)) = IF w = 0 THEN One(m) ELSE <<>>
    BY <1>2, QueuedOne
<1>6. q = Joined(QueuedOf(One(h)), QueuedOf(t)) /\ QueuedOf(t) \in Seq(Message)
    <2>1. <<>> \in Seq(Entry)
        BY EmptySeq
    <2> QED BY <1>2, <2>1, QueuedJoined
<1>7. r = QueuedOf(t)
    <2>1. CASE w + n = Size
        BY <1>1, <2>1 DEF AfterDequeue, Server
    <2>2. CASE w + n # Size
        <3> DEFINE g == [e.queue EXCEPT ![1].written = w + n]
                   b == [h EXCEPT !.written = w + n]
        <3>1. f.queue = g
            BY <2>2 DEF AfterDequeue, Server
        <3>2. b \in Entry /\ b.written # 0
            <4> DEFINE v == w + n
            <4>1. v \in 0..(Size - 1) /\ v # 0
                BY <1>3, <2>2, StreamAssumption
            <4>2. h \in [msg : Message, written : 0..(Size - 1)]
                BY <1>2 DEF Entry
            <4> HIDE DEF v, h
            <4>3. [h EXCEPT !.written = v] \in [msg : Message, written : 0..(Size - 1)]
                  /\ [h EXCEPT !.written = v].written = v
                BY <4>1, <4>2
            <4> QED BY <4>1, <4>3 DEF v, Entry
        <3>3. g = Joined(One(b), t)
            <4>1. /\ Len(e.queue) \in Nat \ {0} /\ h = e.queue[1] /\ Len(t) = Len(e.queue) - 1
                  /\ \A i \in 1..Len(t) : t[i] = e.queue[i + 1]
                BY <1>1, HeadTailProperties, LenProperties, EmptySeq
            <4>2. g \in Seq(Entry) /\ Len(g) = Len(e.queue)
                  /\ g[1] = b /\ \A i \in 2..Len(e.queue) : g[i] = e.queue[i]
                <5> DEFINE k == [e.queue EXCEPT ![1] = b]
                <5>0. g = k
                    BY <1>1, <4>1
                <5>1. k \in Seq(Entry) /\ Len(k) = Len(e.queue)
                    BY <1>1, <3>2, <4>1, ExceptSeq
                <5>2. k[1] = b /\ \A i \in 2..Len(e.queue) : k[i] = e.queue[i]
                    BY <1>1, <3>2, <4>1, LenProperties
                <5> HIDE DEF k, g
                <5> QED BY <5>0, <5>1, <5>2
            <4> HIDE DEF g, b, t, h
            <4>3. g # <<>>
                BY <4>1, <4>2, EmptySeq
            <4>4. g = Joined(One(Head(g)), Tail(g)) /\ Head(g) = b /\ Tail(g) \in Seq(Entry)
                  /\ Len(Tail(g)) = Len(g) - 1 /\ \A i \in 1..Len(Tail(g)) : Tail(g)[i] = g[i + 1]
                BY <4>2, <4>3, FirstJoined, HeadTailProperties
            <4>5. \A i \in 1..Len(t) : Tail(g)[i] = t[i]
                BY <4>1, <4>2, <4>4
            <4>6. Tail(g) = t
                BY <1>2, <4>1, <4>2, <4>4, <4>5, SeqEqual
            <4> QED BY <4>4, <4>6
        <3> HIDE DEF g, b
        <3>4. One(b) \in Seq(Entry) /\ QueuedOf(One(b)) = <<>>
            BY <3>2, QueuedOne, JoinedOne, <1>1
        <3>5. QueuedOf(Joined(One(b), t)) = Joined(QueuedOf(One(b)), QueuedOf(t))
            BY <1>2, <3>4, QueuedJoined
        <3>6. Joined(<<>>, QueuedOf(t)) = QueuedOf(t)
            BY <1>6, JoinedEmpty
        <3> QED BY <3>1, <3>3, <3>4, <3>5, <3>6
    <2> QED BY <2>1, <2>2
<1>8. y = QueuedOf(One(h))
    BY <1>4, <1>5
<1>9. /\ Flow(c, e, d) = Joined(Before(c, d), q)
      /\ Flow(c, f, Joined(d, x)) = Joined(Before(c, d), Joined(y, r))
    BY <1>4, FlowGrows
<1> QED BY <1>6, <1>7, <1>8, <1>9, Zenon


Fronted(s) == s # <<>> => s[1].part = 1

\* What the daemon has read when the last unit of a message arrives is that message.
LEMMA ReadWhole ==
    ASSUME NEW a \in Seq(Unit), NEW d \in Seq(Unit), d # <<>>, Chain(a \o d), Fronted(a \o d),
           \A i \in 1..Len(a) : a[i].part < Size, Head(d).part = Size
    PROVE  /\ Begun(Joined(a, d)) = Joined(One(Head(d).msg), Begun(Tail(d)))
           /\ Fronted(Tail(d))
<1>1. /\ Head(d) \in Unit /\ Tail(d) \in Seq(Unit) /\ Len(Tail(d)) = Len(d) - 1
      /\ Head(d) = d[1] /\ \A i \in 1..Len(Tail(d)) : Tail(d)[i] = d[i + 1]
    BY HeadTailProperties
<1>2. Len(a) \in Nat /\ Len(d) \in Nat \ {0}
    BY LenProperties, EmptySeq
<1> DEFINE s == a \o d
           x == Append(a, Head(d))
           n == Len(a) + 1
<1>3. /\ s \in Seq(Unit) /\ Len(s) = Len(a) + Len(d)
      /\ \A i \in 1..(Len(a) + Len(d)) : s[i] = IF i <= Len(a) THEN a[i] ELSE d[i - Len(a)]
    BY ConcatProperties
<1>4. /\ x \in Seq(Unit) /\ Len(x) = Len(a) + 1
      /\ (\A i \in 1..Len(a) : x[i] = a[i]) /\ x[Len(a) + 1] = Head(d)
    BY <1>1, AppendProperties
<1>5. Chain(s) /\ Fronted(s)
    OBVIOUS
<1> HIDE DEF s, x
<1>6. \A i \in 1..n : x[i] = s[i] /\ x[i] \in Unit
    <2>1. ASSUME NEW i \in 1..n PROVE x[i] = s[i] /\ x[i] \in Unit
        <3>1. i \in 1..Len(x) /\ i \in 1..(Len(a) + Len(d))
            BY <1>2, <1>4
        <3>2. x[i] \in Unit
            BY <1>4, <3>1, ElementOfSeq
        <3>3. CASE i <= Len(a)
            <4>1. i \in 1..Len(a)
                BY <1>2, <3>3
            <4> QED BY <1>3, <1>4, <3>1, <3>2, <3>3, <4>1, Zenon
        <3>4. CASE i = Len(a) + 1
            <4>1. ~(i <= Len(a)) /\ i - Len(a) = 1
                BY <1>2, <3>4
            <4>2. s[i] = d[1]
                BY <1>3, <3>1, <4>1
            <4> QED BY <1>1, <1>4, <3>2, <3>4, <4>2
        <3> QED BY <1>2, <3>3, <3>4
    <2> QED BY <2>1
<1>7. \A i \in 1..n : x[i].part = i /\ x[i].msg = x[1].msg
    <2> DEFINE R == {i \in 0..n : i = 0 \/ (x[i].part = i /\ x[i].msg = x[1].msg)}
    <2>1. 0 \in R /\ n \in Nat
        BY <1>2
    <2>2. ASSUME NEW i \in 1..n, i - 1 \in R PROVE i \in R
        <3>1. CASE i = 1
            <4>1. s # <<>>
                BY <1>2, <1>3, EmptySeq
            <4>2. s[1].part = 1 /\ x[1] = s[1]
                BY <1>2, <1>5, <1>6, <4>1 DEF Fronted
            <4> QED BY <1>2, <3>1, <4>2
        <3>2. CASE i # 1
            <4> DEFINE j == i - 1
            <4>1. j \in 1..(Len(s) - 1) /\ j \in 1..Len(a) /\ j \in 1..n /\ j + 1 = i
                BY <1>2, <1>3, <3>2
            <4>2. x[j].part = j /\ x[j].msg = x[1].msg
                BY <2>2, <4>1
            <4>3. Follows(x[j], x[i])
                BY <1>5, <1>6, <4>1 DEF Chain
            <4>4. x[j].part < Size /\ x[j] \in Unit
                BY <1>4, <1>6, <4>1
            <4> HIDE DEF j
            <4>5. x[i] = [x[j] EXCEPT !.part = @ + 1]
                BY <4>3, <4>4, StreamAssumption DEF Follows, Unit
            <4>6. x[i].part = j + 1 /\ x[i].msg = x[j].msg
                BY <4>2, <4>4, <4>5 DEF Unit
            <4> QED BY <4>1, <4>2, <4>6
        <3> QED BY <3>1, <3>2
    <2> HIDE DEF R, n
    <2>3. \A i \in 0..n : i \in R
        BY <2>1, <2>2, Induction
    <2>4. ASSUME NEW i \in 1..n PROVE x[i].part = i /\ x[i].msg = x[1].msg
        BY <2>1, <2>3 DEF R
    <2> QED BY <2>4
<1>8. Begun(x) = One(x[1].msg)
    <2>1. x # <<>>
        BY <1>2, <1>4, EmptySeq
    <2>2. x[1].part = 1 /\ \A i \in 2..Len(x) : x[i].part # 1
        BY <1>2, <1>4, <1>7
    <2> QED BY <1>4, <2>1, <2>2, BegunOne
<1>9. x[1].msg = Head(d).msg
    BY <1>2, <1>4, <1>7
<1>10. Joined(a, d) = Joined(x, Tail(d))
    <2>1. x = Joined(a, One(Head(d))) /\ One(Head(d)) \in Seq(Unit)
        BY <1>1, JoinedOne DEF x
    <2>2. d = Joined(One(Head(d)), Tail(d))
        BY FirstJoined
    <2>3. Joined(Joined(a, One(Head(d))), Tail(d)) = Joined(a, Joined(One(Head(d)), Tail(d)))
        <3>1. PICK y, z : y = One(Head(d)) /\ z = Tail(d)
            OBVIOUS
        <3>2. y \in Seq(Unit) /\ z \in Seq(Unit)
            BY <1>1, <2>1, <3>1
        <3>3. Joined(Joined(a, y), z) = Joined(a, Joined(y, z))
            BY <3>2, JoinedGroup
        <3> QED BY <3>1, <3>3
    <2> QED BY <2>1, <2>2, <2>3
<1>11. Begun(Joined(x, Tail(d))) = Joined(Begun(x), Begun(Tail(d)))
    BY <1>1, <1>4, BegunJoined
<1>12. Fronted(Tail(d))
    <2> SUFFICES ASSUME Tail(d) # <<>> PROVE Tail(d)[1].part = 1
        BY DEF Fronted
    <2>1. Len(Tail(d)) \in Nat \ {0}
        BY <1>1, EmptySeq, LenProperties
    <2>2. n \in 1..(Len(s) - 1) /\ 1 \in 1..Len(Tail(d)) /\ n \in 1..n
        BY <1>1, <1>2, <1>3, <2>1
    <2>3. s[n + 1] = d[2] /\ Tail(d)[1] = d[2]
        <3>1. n + 1 \in 1..(Len(a) + Len(d)) /\ ~(n + 1 <= Len(a)) /\ (n + 1) - Len(a) = 2
            BY <1>2, <1>3, <2>2
        <3>2. s[n + 1] = d[(n + 1) - Len(a)]
            BY <1>3, <3>1, Zenon
        <3> QED BY <1>1, <2>2, <3>1, <3>2
    <2>4. s[n] = Head(d)
        BY <1>4, <1>6, <2>2
    <2>5. Follows(s[n], s[n + 1])
        BY <1>5, <2>2 DEF Chain
    <2> QED BY <2>3, <2>4, <2>5 DEF Follows
<1> QED BY <1>8, <1>9, <1>10, <1>11, <1>12


----------------------------------------------------------------------------
(* Where what NSM announced may be, beside what IInv says.                  *)

Linked(e, c) ==
    /\ c.sock <=> e.state # "none"
    /\ c.t_connect => ~c.sock
    /\ c.t_read => c.sock
    /\ ~c.sock => c.pend = <<>> /\ c.op = "go"

\* Nothing is put aside while the daemon reads a message to handle it at once, so
\* that what was put aside is always handled first.
PutAside(c) ==
    /\ c.op = "go" => c.sync = None
    /\ c.pend # <<>> => c.t_pend \/ c.run = "pend" \/ (c.op = "body" /\ c.sync # None)
    /\ c.op = "body" /\ c.sync = None => c.pend = <<>> /\ c.run = "read"
    /\ c.run = "pend" /\ c.pend = <<>> => ~c.sock

\* What the daemon writes says whether it will wait for an answer.
Asking(c) ==
    c.op = "write" =>
        \/ c.out[1].msg.kind = "service" /\ c.pend = <<>> /\ c.run = "read" /\ c.sync = None
        \/ c.out[1].msg.kind = "ask" /\ c.sync # None
        \/ c.out[1].msg.kind = "tell" /\ c.sync = None

Partial(c) == \A i \in 1..Len(c.in) : c.in[i].part < Size

Channel ==
    /\ Linked(nse, cli) /\ PutAside(cli) /\ Asking(cli) /\ Partial(cli)
    /\ Fronted(cli.in \o toDaemon)

\* The steps of NsmDelivery, of l and q and what they become.
Opens(l, q, k, r) == l = "down" /\ k = "up" /\ r = <<>>
Announces(l, q, k, r) == \E m \in Message : /\ m.kind = "note" /\ m.id \in 1..Notes /\ l = "up"
                                            /\ r = Joined(q, One(m)) /\ k = l
Handles(l, q, k, r) == \E m \in Message : q = Joined(One(m), r) /\ k = l
Leaves(l, q, k, r) == l = "up" /\ k = "closing" /\ \E x \in Seq(Message) : q = Joined(r, x)
Cuts(l, q, k, r) == l # "down" /\ k = "down" /\ r = <<>>
Stays(l, q, k, r) == k = l /\ r = q

Moves(l, q, k, r) ==
    /\ q \in Seq(Message) /\ r \in Seq(Message)
    /\ \/ Opens(l, q, k, r) \/ Announces(l, q, k, r) \/ Handles(l, q, k, r)
       \/ Leaves(l, q, k, r) \/ Cuts(l, q, k, r) \/ Stays(l, q, k, r)

Shown(e, c, d) == NotesOf(Flow(c, e, d))

Implements ==
    Moves(LinkOf(nse, cli), Shown(nse, cli, toDaemon), LinkOf(nse', cli'), Shown(nse', cli', toDaemon'))

LEMMA ShownIn ==
    ASSUME NEW e \in Server, NEW c \in Client, NEW d \in Seq(Unit)
    PROVE  Flow(c, e, d) \in Seq(Message) /\ Shown(e, c, d) \in Seq(Message)
<1>1. <<>> \in Seq(Unit)
    BY EmptySeq
<1>2. /\ Before(c, d) \in Seq(Message) /\ QueuedOf(e.queue) \in Seq(Message)
      /\ Flow(c, e, d) = Joined(Before(c, d), QueuedOf(e.queue))
    BY <1>1, FlowGrows
<1>3. Flow(c, e, d) \in Seq(Message)
    BY <1>2, JoinedIn
<1>4. NotesOf(Flow(c, e, d)) \in Seq(Message)
    BY <1>1, <1>3, NotesJoined, EmptySeq
<1> QED BY <1>3, <1>4 DEF Shown

LEMMA Shows ==
    ASSUME IInv, IInv'
    PROVE  Shown(nse, cli, toDaemon) \in Seq(Message) /\ Shown(nse', cli', toDaemon') \in Seq(Message)
<1>1. nse \in Server /\ cli \in Client /\ toDaemon \in Seq(Unit)
    BY Types DEF IInv
<1>2. nse' \in Server /\ cli' \in Client /\ toDaemon' \in Seq(Unit)
    BY DEF IInv, TypeOK
<1> QED BY <1>1, <1>2, ShownIn

\* Whatever touches no message that NSM sends is not seen.
LEMMA Unseen ==
    ASSUME IInv, IInv', AsideOf(cli') = AsideOf(cli), cli'.in = cli.in, cli'.sock = cli.sock,
           nse'.queue = nse.queue, nse'.state = "gone" <=> nse.state = "gone",
           toDaemon' = toDaemon
    PROVE  Implements
<1>1. Flow(cli', nse', toDaemon') = Flow(cli, nse, toDaemon)
    BY Zenon DEF Flow
<1>2. LinkOf(nse', cli') = LinkOf(nse, cli)
    BY Zenon DEF LinkOf
<1>3. Shown(nse', cli', toDaemon') = Shown(nse, cli, toDaemon)
    BY <1>1, Zenon DEF Shown
<1> QED BY <1>2, <1>3, Shows, Zenon DEF Implements, Moves, Stays


----------------------------------------------------------------------------
(* NSM's steps.                                                             *)

\* A stream that holds nothing is begun with a first unit.
LEMMA FrontedOn ==
    ASSUME NEW a \in Seq(Unit), NEW d \in Seq(Unit), NEW m \in Message, NEW i \in 1..Size, NEW j \in 0..Size,
           Fronted(a \o d), a \o d = <<>> => i = 1
    PROVE  Fronted(a \o (d \o SubSeq(Units(m), i, j)))
<1> DEFINE x == SubSeq(Units(m), i, j)
           s == a \o d
<1>1. /\ x \in Seq(Unit) /\ \A k \in 1..Len(x) : x[k] = [msg |-> m, part |-> i + k - 1]
    BY UnitsAre
<1> HIDE DEF x
<1>2. s \in Seq(Unit) /\ a \o (d \o x) = s \o x
    BY <1>1, Regrouped, ConcatProperties
<1> HIDE DEF s
<1>3. /\ Len(s \o x) = Len(s) + Len(x) /\ s \o x \in Seq(Unit)
      /\ \A k \in 1..(Len(s) + Len(x)) : (s \o x)[k] = IF k <= Len(s) THEN s[k] ELSE x[k - Len(s)]
    BY <1>1, <1>2, ConcatProperties
<1>4. Len(s) \in Nat /\ Len(x) \in Nat
    BY <1>1, <1>2, LenProperties
<1>5. ASSUME s \o x # <<>> PROVE (s \o x)[1].part = 1
    <2>1. Len(s) + Len(x) >= 1 /\ 1 \in 1..(Len(s) + Len(x))
        BY <1>3, <1>4, <1>5, EmptySeq
    <2>2. CASE s # <<>>
        <3>1. 1 <= Len(s)
            BY <1>2, <1>4, <2>2, EmptySeq
        <3>2. (s \o x)[1] = s[1]
            BY <1>3, <2>1, <3>1
        <3> QED BY <2>2, <3>2 DEF Fronted, s
    <2>3. CASE s = <<>>
        <3>1. Len(s) = 0 /\ 1 \in 1..Len(x) /\ i = 1
            BY <1>2, <2>1, <2>3, EmptySeq DEF s
        <3>2. (s \o x)[1] = x[1]
            BY <1>3, <2>1, <3>1
        <3>3. x[1] = [msg |-> m, part |-> i + 1 - 1]
            BY <1>1, <3>1, Zenon
        <3> QED BY <3>1, <3>2, <3>3
    <2> QED BY <2>2, <2>3
<1> QED BY <1>2, <1>5 DEF Fronted, x

\* NSM serves a daemon that has a socket, and leaves it to its own.
LEMMA Served ==
    ASSUME Channel, cli' = cli, nse.state # "none", nse'.state # "none", Fronted(cli.in \o toDaemon')
    PROVE  /\ Channel' /\ cli.sock
           /\ LinkOf(nse', cli') = IF nse'.state = "gone" THEN "closing" ELSE "up"
           /\ LinkOf(nse, cli) = IF nse.state = "gone" THEN "closing" ELSE "up"
<1>1. Linked(nse, cli) /\ PutAside(cli) /\ Asking(cli) /\ Partial(cli)
    BY DEF Channel
<1>2. cli.sock /\ Linked(nse', cli')
    BY <1>1 DEF Linked
<1>3. Channel'
    BY <1>1, <1>2 DEF Channel
<1> QED BY <1>2, <1>3 DEF LinkOf

LEMMA AcceptServes == ASSUME IInv, IInv', Channel, Accept PROVE Channel' /\ Implements
<1>1. nse.state = "backlog" /\ nse' = [nse EXCEPT !.state = "open"]
      /\ UNCHANGED <<alive, toNsm, toDaemon, cli, told, asked, crashed>>
    BY DEF Accept
<1>2. nse'.state = "open" /\ nse'.queue = nse.queue
    BY <1>1, Types DEF IInv, Server
<1>3. Fronted(cli.in \o toDaemon)
    BY DEF Channel
<1>4. Channel'
    BY <1>1, <1>2, <1>3, Served
<1>5. Implements
    BY <1>1, <1>2, Unseen
<1> QED BY <1>4, <1>5

LEMMA SendServes ==
    ASSUME IInv, IInv', Channel, NEW s \in Server, NEW m \in Message, Send(s, m),
           s.state = "open", nse.state = "open", s.queue = nse.queue, cli' = cli
    PROVE  /\ Channel' /\ LinkOf(nse', cli') = "up" /\ LinkOf(nse, cli) = "up"
           /\ Flow(cli', nse', toDaemon') = Joined(Flow(cli, nse, toDaemon), One(m))
<1>1. PICK n \in 0..Least(Size, Room - Len(toDaemon)) :
        (s.queue # <<>> => n = 0) /\ Written(s, m, n)
    BY DEF Send
<1>2. /\ toDaemon \in Seq(Unit) /\ cli.in \in Seq(Unit) /\ Len(toDaemon) \in Nat
      /\ Len(toDaemon) <= Room /\ cli \in Client
    BY Types, LenProperties DEF IInv
<1>3. n \in 0..Size
    BY <1>1, <1>2, StreamAssumption DEF Least
<1>4. toDaemon' = toDaemon \o SubSeq(Units(m), 1, n) /\ nse' = AfterSend(s, m, n)
    BY <1>1, Zenon DEF Written, AfterSend
<1>5. nse' \in Server
    BY DEF IInv, TypeOK
<1>6. nse'.state = "open"
    BY <1>4 DEF AfterSend, Server
<1>7. Fronted(cli.in \o toDaemon')
    <2>1. 1 \in 1..Size /\ Fronted(cli.in \o toDaemon)
        BY StreamAssumption DEF Channel
    <2> QED BY <1>2, <1>3, <1>4, <2>1, FrontedOn
<1>8. Flow(cli, nse', Joined(toDaemon, SubSeq(Units(m), 1, n))) = Joined(Flow(cli, s, toDaemon), One(m))
    BY <1>1, <1>2, <1>3, <1>4, <1>5, SendFlows
<1>9. Flow(cli, s, toDaemon) = Flow(cli, nse, toDaemon)
    BY Zenon DEF Flow
<1>10. Flow(cli', nse', toDaemon') = Joined(Flow(cli, nse, toDaemon), One(m))
    BY <1>4, <1>8, <1>9, Zenon DEF Joined
<1> QED BY <1>6, <1>7, <1>10, Served

LEMMA AnnounceServes == ASSUME IInv, IInv', Channel, Announce PROVE Channel' /\ Implements
<1> DEFINE m == [kind |-> "note", id |-> told']
<1>1. /\ nse.state = "open" /\ told < Notes /\ told' = told + 1 /\ Send(nse, m) /\ cli' = cli
    BY DEF Announce, Serving
<1>2. told \in 0..Notes /\ nse \in Server /\ cli \in Client /\ toDaemon \in Seq(Unit)
    BY Types DEF IInv
<1>3. m \in Message /\ m.kind = "note" /\ m.id \in 1..Notes
    BY <1>1, <1>2, BoundAssumption DEF Message
<1> HIDE DEF m
<1>4. /\ Channel' /\ LinkOf(nse', cli') = "up" /\ LinkOf(nse, cli) = "up"
      /\ Flow(cli', nse', toDaemon') = Joined(Flow(cli, nse, toDaemon), One(m))
    BY <1>1, <1>2, <1>3, SendServes
<1> DEFINE q == Flow(cli, nse, toDaemon)
<1>5. q \in Seq(Message) /\ One(m) \in Seq(Message)
    BY <1>2, <1>3, ShownIn, OneIn
<1> HIDE DEF q
<1>6. NotesOf(Joined(q, One(m))) = Joined(NotesOf(q), NotesOf(One(m)))
    BY <1>5, NotesJoined
<1>7. NotesOf(One(m)) = One(m)
    BY <1>3, NotesOne
<1>8. Shown(nse', cli', toDaemon') = Joined(Shown(nse, cli, toDaemon), One(m))
    BY <1>4, <1>6, <1>7, Zenon DEF Shown, q
<1>9. Implements
    BY <1>3, <1>4, <1>8, Shows, Zenon DEF Implements, Moves, Announces
<1> QED BY <1>4, <1>9

LEMMA DequeueServes == ASSUME IInv, IInv', Channel, Dequeue PROVE Channel' /\ Implements
<1> DEFINE e == Head(nse.queue)
<1>1. PICK n \in 1..Least(Size - e.written, Room - Len(toDaemon)) :
        /\ toDaemon' = toDaemon \o SubSeq(Units(e.msg), e.written + 1, e.written + n)
        /\ nse' = AfterDequeue(nse, n)
    BY Zenon DEF Dequeue, AfterDequeue
<1>2. nse.state = "open" /\ nse.t_write /\ cli' = cli
    BY DEF Dequeue, Serving
<1>3. /\ nse \in Server /\ cli.in \in Seq(Unit) /\ toDaemon \in Seq(Unit) /\ Len(toDaemon) \in Nat
      /\ Len(toDaemon) <= Room /\ cli \in Client /\ nse.queue \in Seq(Entry)
    BY Types, LenProperties, EntryFields DEF IInv
<1>4. nse.queue # <<>>
    BY <1>2, Zenon DEF IInv, QueueOK
<1>5. e \in Entry
    BY <1>3, <1>4, HeadTailProperties
<1>6. e.written \in 0..(Size - 1) /\ e.msg \in Message
    BY <1>5 DEF Entry
<1>7. n \in 1..(Size - Head(nse.queue).written)
    BY <1>3, <1>6, StreamAssumption, SMTT(30) DEF Least
<1>8. nse' \in Server
    BY DEF IInv, TypeOK
<1> DEFINE w == e.written
           x == SubSeq(Units(e.msg), w + 1, w + n)
           f == AfterDequeue(nse, n)
<1>9. Flow(cli, f, Joined(toDaemon, x)) = Flow(cli, nse, toDaemon)
    BY <1>1, <1>3, <1>4, <1>7, <1>8, DequeueFlows
<1>10. nse'.state = "open"
    BY <1>1, <1>2, <1>3 DEF AfterDequeue, Server
<1>11. Fronted(cli.in \o toDaemon')
    <2>1. Fronted(cli.in \o toDaemon)
        BY DEF Channel
    <2>2. w + 1 \in 1..Size /\ w + n \in 0..Size
        <3>1. w \in 0..(Size - 1) /\ n \in 1..(Size - w)
            BY <1>6, <1>7
        <3> HIDE DEF w
        <3> QED BY <3>1, StreamAssumption
    <2>3. cli.in \o toDaemon = <<>> => w + 1 = 1
        <3>1. HasBegun(nse) => cli.in \o toDaemon # <<>>
            BY <1>2 DEF IInv, InboundOK, Partly
        <3>2. ~HasBegun(nse) => w = 0
            BY <1>4, <1>6, StreamAssumption DEF HasBegun
        <3> QED BY <3>1, <3>2
    <2> DEFINE i == w + 1
               j == w + n
    <2>4. i \in 1..Size /\ j \in 0..Size /\ (cli.in \o toDaemon = <<>> => i = 1)
        BY <2>2, <2>3
    <2>5. toDaemon' = toDaemon \o SubSeq(Units(e.msg), i, j)
        BY <1>1
    <2> HIDE DEF i, j, w, e
    <2>6. Fronted(cli.in \o (toDaemon \o SubSeq(Units(e.msg), i, j)))
        BY <1>3, <1>6, <2>1, <2>4, FrontedOn
    <2> QED BY <2>5, <2>6
<1>12. Channel' /\ LinkOf(nse', cli') = "up" /\ LinkOf(nse, cli) = "up"
    BY <1>2, <1>10, <1>11, Served
<1>13. Flow(cli', nse', toDaemon') = Flow(cli, nse, toDaemon)
    BY <1>1, <1>2, <1>9, Zenon DEF Joined
<1>14. Shown(nse', cli', toDaemon') = Shown(nse, cli, toDaemon)
    BY <1>13, Zenon DEF Shown
<1>15. Implements
    BY <1>12, <1>14, Shows, Zenon DEF Implements, Moves, Stays
<1> QED BY <1>12, <1>15


\* An answer is sent like an announcement, but it is not one.
LEMMA AnswerServes ==
    ASSUME IInv, IInv', Channel, NEW s \in Server, NEW m \in Message, Send(s, m), m.kind # "note",
           s.state = "open", nse.state = "open", s.queue = nse.queue, cli' = cli
    PROVE  Channel' /\ Implements
<1>1. nse \in Server /\ cli \in Client /\ toDaemon \in Seq(Unit)
    BY Types DEF IInv
<1>2. /\ Channel' /\ LinkOf(nse', cli') = "up" /\ LinkOf(nse, cli) = "up"
      /\ Flow(cli', nse', toDaemon') = Joined(Flow(cli, nse, toDaemon), One(m))
    BY SendServes
<1> DEFINE q == Flow(cli, nse, toDaemon)
<1>3. q \in Seq(Message) /\ One(m) \in Seq(Message)
    BY <1>1, ShownIn, OneIn
<1> HIDE DEF q
<1>4. NotesOf(Joined(q, One(m))) = Joined(NotesOf(q), NotesOf(One(m))) /\ NotesOf(q) \in Seq(Message)
    BY <1>3, NotesJoined
<1>5. NotesOf(One(m)) = <<>> /\ Joined(NotesOf(q), <<>>) = NotesOf(q)
    BY <1>4, NotesOne, JoinedEmpty
<1>6. Shown(nse', cli', toDaemon') = Shown(nse, cli, toDaemon)
    BY <1>2, <1>4, <1>5, Zenon DEF Shown, q
<1>7. Implements
    BY <1>2, <1>6, Shows, Zenon DEF Implements, Moves, Stays
<1> QED BY <1>2, <1>7

LEMMA NsmReadsServes == ASSUME IInv, IInv', Channel, NsmReads PROVE Channel' /\ Implements
<1> DEFINE u == Head(toNsm)
           a == [nse EXCEPT !.recv = <<>>]
           b == [a EXCEPT !.service = TRUE]
<1>1. nse.state = "open" /\ toNsm # <<>> /\ cli' = cli
    BY DEF NsmReads, Listens
<1>2. nse \in Server /\ toNsm \in Seq(Unit) /\ cli \in Client
    BY Types DEF IInv
<1>3. u \in Unit
    BY <1>1, <1>2, HeadTailProperties
<1>4. u.part \in 1..Size /\ u.msg \in Message
    BY <1>3 DEF Unit
<1>5. a \in Server /\ b \in Server
    <2>1. a \in Server
        BY <1>2, EmptySeq, SettingEntry, Zenon
    <2> HIDE DEF a
    <2> QED BY <2>1, SettingEntry, Zenon
<1>6. /\ a.state = "open" /\ a.queue = nse.queue
      /\ b.state = "open" /\ b.queue = nse.queue
    BY <1>1, <1>2 DEF Server
<1>7. Fronted(cli.in \o toDaemon)
    BY DEF Channel
<1>8. CASE u.part < Size
    <2>1. nse' = [nse EXCEPT !.recv = Append(nse.recv, u)] /\ toDaemon' = toDaemon
        BY <1>8 DEF NsmReads
    <2>2. nse'.state = nse.state /\ nse'.queue = nse.queue
        BY <1>2, <2>1 DEF Server
    <2> QED BY <1>1, <1>7, <2>1, <2>2, Served, Unseen
<1>9. CASE ~(u.part < Size)
    <2>1. LET m == u.msg IN
          CASE m.kind = "service" -> Send(b, m)
            [] m.kind = "ask" -> Send(a, m)
            [] OTHER -> nse' = a /\ UNCHANGED toDaemon
        BY <1>9, Zenon DEF NsmReads
    <2> DEFINE m == u.msg
    <2> HIDE DEF a, b, u
    <2>2. \/ m.kind = "service" /\ Send(b, m)
          \/ m.kind = "ask" /\ Send(a, m)
          \/ nse' = a /\ toDaemon' = toDaemon
        BY <2>1, Zenon
    <2>3. CASE m.kind = "service" /\ Send(b, m)
        BY <1>1, <1>4, <1>5, <1>6, <2>3, AnswerServes
    <2>4. CASE m.kind = "ask" /\ Send(a, m)
        BY <1>1, <1>4, <1>5, <1>6, <2>4, AnswerServes
    <2>5. CASE nse' = a /\ toDaemon' = toDaemon
        BY <1>1, <1>6, <1>7, <2>5, Served, Unseen
    <2> QED BY <2>2, <2>3, <2>4, <2>5
<1> QED BY <1>8, <1>9

LEMMA NsmLeavesServes == ASSUME IInv, IInv', Channel, NsmLeaves PROVE Channel' /\ Implements
<1>1. /\ nse.state \in {"backlog", "open"} /\ nse' = [NoEntry EXCEPT !.state = "gone"]
      /\ cli' = cli /\ toDaemon' = toDaemon
    BY DEF NsmLeaves
<1>2. nse'.state = "gone" /\ nse'.queue = <<>>
    BY <1>1 DEF NoEntry
<1>3. nse \in Server /\ nse' \in Server /\ cli \in Client /\ toDaemon \in Seq(Unit)
    BY Types DEF IInv, TypeOK
<1>4. Channel' /\ LinkOf(nse', cli') = "closing" /\ LinkOf(nse, cli) = "up"
    <2>1. Fronted(cli.in \o toDaemon')
        BY <1>1 DEF Channel
    <2> QED BY <1>1, <1>2, <2>1, Served
<1> DEFINE a == Before(cli, toDaemon)
           q == QueuedOf(nse.queue)
<1>5. /\ a \in Seq(Message) /\ q \in Seq(Message)
      /\ Flow(cli, nse, toDaemon) = Joined(a, q)
      /\ Flow(cli, nse', toDaemon) = Joined(a, QueuedOf(nse'.queue))
    <2>1. <<>> \in Seq(Unit)
        BY EmptySeq
    <2> QED BY <1>3, <2>1, FlowGrows
<1> HIDE DEF a, q
<1>6. Flow(cli, nse', toDaemon) = a
    <2>1. QueuedOf(nse'.queue) = <<>> /\ Joined(a, <<>>) = a
        BY <1>2, <1>5, QueuedEmpty, JoinedEmpty
    <2> QED BY <1>5, <2>1
<1>7. NotesOf(Joined(a, q)) = Joined(NotesOf(a), NotesOf(q)) /\ NotesOf(q) \in Seq(Message)
    BY <1>5, NotesJoined
<1>8. Shown(nse, cli, toDaemon) = Joined(Shown(nse', cli', toDaemon'), NotesOf(q))
    BY <1>1, <1>5, <1>6, <1>7, Zenon DEF Shown
<1>9. Leaves(LinkOf(nse, cli), Shown(nse, cli, toDaemon), LinkOf(nse', cli'), Shown(nse', cli', toDaemon'))
    BY <1>4, <1>7, <1>8, Zenon DEF Leaves
<1>10. Implements
    BY <1>9, Shows, Zenon DEF Implements, Moves
<1> QED BY <1>4, <1>10

LEMMA NsmRestartsServes == ASSUME IInv, IInv', Channel, NsmRestarts PROVE Channel' /\ Implements
<1>1. UNCHANGED <<nse, toDaemon, cli>>
    BY DEF NsmRestarts
<1>2. Channel'
    BY <1>1 DEF Channel
<1> QED BY <1>1, <1>2, Unseen

----------------------------------------------------------------------------
(* The daemon's steps.                                                      *)

LEMMA FirstUnit == ASSUME NEW m \in Message PROVE Units(m)[1].msg = m
BY StreamAssumption DEF Units

LEMMA ConnectServes == ASSUME IInv, IInv', Channel, Connect PROVE Channel' /\ Implements
<1> DEFINE m == [kind |-> "service", id |-> 0]
<1>1. /\ cli.run = "idle" /\ cli.t_connect
      /\ cli' = [cli EXCEPT !.t_connect = FALSE, !.sock = TRUE, !.run = "read", !.op = "write",
                            !.out = Units(m)]
      /\ nse' = [NoEntry EXCEPT !.state = "backlog"]
      /\ toDaemon' = <<>>
    BY DEF Connect, MayRun, Idle
<1>2. m \in Message /\ m.kind = "service"
    BY DEF Message
<1> HIDE DEF m
<1>3. cli \in Client /\ PhaseOK(nse, cli, toDaemon) /\ Linked(nse, cli) /\ PutAside(cli)
    BY Types DEF IInv, Channel
<1>4. /\ cli'.op = "write" /\ cli'.run = "read" /\ cli'.sock = TRUE /\ cli'.out = Units(m)
      /\ cli'.in = cli.in /\ cli'.pend = cli.pend /\ cli'.sync = cli.sync /\ cli'.t_connect = FALSE
      /\ cli'.t_pend = cli.t_pend
    BY <1>1, <1>3 DEF Client
<1>5. ~cli.sock /\ cli.pend = <<>> /\ cli.op = "go" /\ cli.in = <<>> /\ cli.sync = None
    BY <1>1, <1>3 DEF Linked, PhaseOK, PutAside
<1>6. nse'.state = "backlog" /\ nse'.queue = <<>>
    BY <1>1 DEF NoEntry
<1>7. Units(m)[1].msg = m
    BY <1>2, FirstUnit, Zenon
<1>8. <<>> \in Seq(Unit) /\ Len(<<>>) = 0 /\ <<>> \o <<>> = <<>>
    BY EmptySeq, ConcatEmptySeq
<1>9. Channel'
    <2>1. Linked(nse', cli')
        BY <1>4, <1>6 DEF Linked
    <2>2. PutAside(cli') /\ Asking(cli')
        BY <1>2, <1>4, <1>5, <1>7 DEF PutAside, Asking
    <2>3. Partial(cli') /\ Fronted(cli'.in \o toDaemon')
        BY <1>1, <1>4, <1>5, <1>8 DEF Partial, Fronted
    <2> QED BY <2>1, <2>2, <2>3 DEF Channel
<1>10. LinkOf(nse, cli) = "down" /\ LinkOf(nse', cli') = "up"
    BY <1>4, <1>5, <1>6 DEF LinkOf
<1>11. Flow(cli', nse', toDaemon') = <<>>
    <2>1. AsideOf(cli') = <<>>
        BY <1>4, <1>5 DEF AsideOf
    <2>2. Joined(<<>>, <<>>) = <<>>
        BY <1>8, Zenon DEF Joined
    <2> QED BY <1>1, <1>4, <1>5, <1>6, <2>1, <2>2, QueuedEmpty, Zenon DEF Flow
<1>12. Shown(nse', cli', toDaemon') = <<>>
    BY <1>11, QueuedEmpty, Zenon DEF Shown
<1>13. Implements
    BY <1>10, <1>12, Shows, Zenon DEF Implements, Moves, Opens
<1> QED BY <1>9, <1>13

\* Steps that change neither stream nor what was read, nor what is put aside.
LEMMA Undisturbed ==
    ASSUME IInv, IInv', Channel, AsideOf(cli') = AsideOf(cli), cli'.in = cli.in, cli'.sock = cli.sock,
           UNCHANGED <<nse, toDaemon>>, Linked(nse', cli'), PutAside(cli'), Asking(cli')
    PROVE  Channel' /\ Implements
<1>1. Partial(cli') /\ Fronted(cli'.in \o toDaemon')
    BY DEF Channel, Partial
<1>2. Channel'
    BY <1>1 DEF Channel
<1> QED BY <1>2, Unseen

LEMMA TakeReadServes == ASSUME IInv, IInv', Channel, TakeRead PROVE Channel' /\ Implements
<1>1. /\ cli.run = "idle" /\ ~cli.t_pend /\ cli.t_read
      /\ cli' = [cli EXCEPT !.t_read = FALSE, !.run = "read", !.op = "body"]
      /\ UNCHANGED <<nse, toDaemon>>
    BY DEF TakeRead, MayRun, Idle
<1>2. cli \in Client /\ PhaseOK(nse, cli, toDaemon) /\ Linked(nse, cli) /\ PutAside(cli) /\ Asking(cli)
    BY Types DEF IInv, Channel
<1>3. /\ cli'.in = cli.in /\ cli'.op = "body" /\ cli'.run = "read" /\ cli'.pend = cli.pend
      /\ cli'.sock = cli.sock /\ cli'.t_read = FALSE /\ cli'.t_connect = cli.t_connect
      /\ cli'.sync = cli.sync
    BY <1>1, <1>2 DEF Client
<1>4. cli.op = "go" /\ cli.sync = None /\ cli.pend = <<>> /\ cli.sock
    BY <1>1, <1>2 DEF PhaseOK, PutAside, Linked
<1>5. Linked(nse', cli') /\ PutAside(cli') /\ Asking(cli')
    BY <1>1, <1>2, <1>3, <1>4 DEF Linked, PutAside, Asking
<1>6. AsideOf(cli') = AsideOf(cli)
    BY <1>1, <1>3 DEF AsideOf
<1> QED BY <1>1, <1>3, <1>5, <1>6, Undisturbed


\* What a message put aside is handled as: the first, or nothing the daemon was told.
LEMMA Handled ==
    ASSUME NEW m \in Message, NEW x \in Seq(Message), NEW y \in Seq(Message),
           NEW l
    PROVE  LET q == NotesOf(Joined(One(m), x))
               r == NotesOf(x)
           IN  Handles(l, q, l, r) \/ Stays(l, q, l, r)
<1>1. One(m) \in Seq(Message)
    BY OneIn
<1>2. NotesOf(Joined(One(m), x)) = Joined(NotesOf(One(m)), NotesOf(x)) /\ NotesOf(x) \in Seq(Message)
    BY <1>1, NotesJoined
<1>3. CASE m.kind = "note"
    <2>1. NotesOf(One(m)) = One(m)
        BY <1>3, NotesOne
    <2> QED BY <1>2, <2>1, Zenon DEF Handles
<1>4. CASE m.kind # "note"
    <2>1. NotesOf(One(m)) = <<>> /\ Joined(<<>>, NotesOf(x)) = NotesOf(x)
        BY <1>2, <1>4, NotesOne, JoinedEmpty
    <2> QED BY <1>2, <2>1, Zenon DEF Stays
<1> QED BY <1>3, <1>4

LEMMA TailIs ==
    ASSUME NEW S, NEW x \in Seq(S), x # <<>>
    PROVE  SubSeq(x, 2, Len(x)) = Tail(x) /\ Len(x) \in Nat \ {0}
BY EmptySeq, LenProperties DEF Tail

LEMMA TakePendServes == ASSUME IInv, IInv', Channel, TakePend PROVE Channel' /\ Implements
<1> DEFINE r == IF cli.pend = <<>> THEN "idle" ELSE "pend"
<1>1. /\ cli.run = "idle" /\ cli.t_pend
      /\ cli' = [cli EXCEPT !.t_pend = FALSE, !.run = r]
      /\ UNCHANGED <<nse, toDaemon>>
    BY DEF TakePend, Idle
<1>2. /\ cli \in Client /\ PhaseOK(nse, cli, toDaemon) /\ Linked(nse, cli) /\ PutAside(cli)
      /\ nse \in Server /\ toDaemon \in Seq(Unit)
    BY Types DEF IInv, Channel
<1>3. /\ cli'.in = cli.in /\ cli'.op = cli.op /\ cli'.run = r /\ cli'.pend = cli.pend
      /\ cli'.sock = cli.sock /\ cli'.t_read = cli.t_read /\ cli'.t_connect = cli.t_connect
      /\ cli'.sync = cli.sync /\ cli'.t_pend = FALSE
    BY <1>1, <1>2 DEF Client
<1>4. cli.op = "go" /\ cli.sync = None
    BY <1>1, <1>2 DEF PhaseOK, PutAside
<1>5. Linked(nse', cli') /\ PutAside(cli') /\ Asking(cli')
    BY <1>1, <1>2, <1>3, <1>4 DEF Linked, PutAside, Asking
<1>6. CASE cli.pend = <<>>
    <2>1. AsideOf(cli') = AsideOf(cli)
        BY <1>1, <1>3, <1>6 DEF AsideOf
    <2> QED BY <1>1, <1>3, <1>5, <2>1, Undisturbed
<1>7. CASE cli.pend # <<>>
    <2> DEFINE p == cli.pend
               b == Begun(Joined(cli.in, toDaemon))
               q == QueuedOf(nse.queue)
               m == Head(p)
               t == Tail(p)
               z == Joined(b, q)
    <2>1. /\ p \in Seq(Message) /\ b \in Seq(Message) /\ q \in Seq(Message)
        <3>1. cli.in \in Seq(Unit) /\ nse.queue \in Seq(Entry)
            BY <1>2, ClientFields, EntryFields
        <3>2. Joined(cli.in, toDaemon) \in Seq(Unit)
            BY <1>2, <3>1, JoinedIn
        <3> QED BY <1>2, <3>1, <3>2, ClientFields, BegunJoined, QueuedJoined
    <2>2. /\ m \in Message /\ t \in Seq(Message) /\ p = Joined(One(m), t)
          /\ SubSeq(p, 2, Len(p)) = t /\ One(m) \in Seq(Message)
        BY <1>7, <2>1, FirstJoined, TailIs, OneIn
    <2>3. AsideOf(cli) = p /\ AsideOf(cli') = t
        BY <1>1, <1>3, <1>7, <2>2 DEF AsideOf
    <2>4. Flow(cli, nse, toDaemon) = Joined(Joined(Joined(One(m), t), b), q)
        BY <2>2, <2>3, Zenon DEF Flow
    <2>5. Flow(cli', nse', toDaemon') = Joined(Joined(t, b), q)
        BY <1>1, <1>3, <2>3, Zenon DEF Flow
    <2> HIDE DEF p, b, q, m, t
    <2>6. Joined(Joined(One(m), t), b) = Joined(One(m), Joined(t, b)) /\ Joined(t, b) \in Seq(Message)
        BY <2>1, <2>2, JoinedGroup, JoinedIn
    <2>7. /\ Joined(Joined(One(m), Joined(t, b)), q) = Joined(One(m), Joined(Joined(t, b), q))
          /\ Joined(Joined(t, b), q) \in Seq(Message)
        BY <2>1, <2>2, <2>6, JoinedGroup, JoinedIn
    <2> DEFINE x == Joined(Joined(t, b), q)
               l == LinkOf(nse, cli)
    <2>8. LET f == NotesOf(Joined(One(m), x))
              g == NotesOf(x)
          IN  Handles(l, f, l, g) \/ Stays(l, f, l, g)
        BY <2>2, <2>7, Handled
    <2>9. LinkOf(nse', cli') = l
        BY <1>1, <1>3, Zenon DEF LinkOf
    <2>10. Shown(nse, cli, toDaemon) = NotesOf(Joined(One(m), x)) /\ Shown(nse', cli', toDaemon') = NotesOf(x)
        BY <2>4, <2>5, <2>6, <2>7, Zenon DEF Shown
    <2> HIDE DEF x, l
    <2>11. Implements
        BY <2>8, <2>9, <2>10, Shows, Zenon DEF Implements, Moves, l
    <2>12. Partial(cli') /\ Fronted(cli'.in \o toDaemon')
        BY <1>1, <1>3 DEF Channel, Partial
    <2> QED BY <1>5, <2>11, <2>12 DEF Channel
<1> QED BY <1>6, <1>7

LEMMA AskServes ==
    ASSUME IInv, IInv', Channel, NEW kind \in {"tell", "ask"}, AskNsm(kind) PROVE Channel' /\ Implements
<1> DEFINE m == [kind |-> kind, id |-> asked']
           r == IF cli.run = "idle" THEN "app" ELSE cli.run
           w == IF kind = "ask" THEN asked' ELSE None
<1>1. /\ cli.sock /\ asked' = asked + 1
      /\ cli.run = "idle" \/ cli.op = "go"
      /\ cli' = [cli EXCEPT !.run = r, !.op = "write", !.out = Units(m), !.sync = w]
      /\ UNCHANGED <<nse, toDaemon>>
      /\ cli.run = "idle" => ~cli.t_pend
    BY DEF AskNsm, MayRun, Idle
<1>2. /\ cli \in Client /\ PhaseOK(nse, cli, toDaemon) /\ Linked(nse, cli) /\ PutAside(cli)
      /\ asked \in 0..Asks
    BY Types DEF IInv, Channel
<1>3. /\ m \in Message /\ m.kind = kind
      /\ kind = "ask" => w # None
      /\ kind = "tell" => w = None
    BY <1>1, <1>2, BoundAssumption DEF Message, None
<1> HIDE DEF m, w
<1>4. /\ cli'.in = cli.in /\ cli'.op = "write" /\ cli'.run = r /\ cli'.pend = cli.pend
      /\ cli'.sock = cli.sock /\ cli'.t_read = cli.t_read /\ cli'.t_connect = cli.t_connect
      /\ cli'.sync = w /\ cli'.t_pend = cli.t_pend /\ cli'.out = Units(m)
    BY <1>1, <1>2 DEF Client
<1>5. cli.op = "go" /\ cli.sync = None
    BY <1>1, <1>2 DEF PhaseOK, PutAside
<1>6. cli'.out[1].msg.kind = kind
    BY <1>3, <1>4, FirstUnit
<1>7. Linked(nse', cli')
    BY <1>1, <1>2, <1>4 DEF Linked
<1>8. PutAside(cli')
    <2>1. cli.run = "idle" => cli.pend = <<>>
        BY <1>1, <1>2, <1>5 DEF PutAside
    <2>2. r = "pend" <=> cli.run = "pend"
        OBVIOUS
    <2> HIDE DEF r
    <2> QED BY <1>2, <1>4, <1>5, <2>1, <2>2 DEF PutAside
<1>9. Asking(cli')
    BY <1>3, <1>4, <1>6 DEF Asking
<1>10. AsideOf(cli') = AsideOf(cli)
    BY <1>4 DEF AsideOf
<1> QED BY <1>1, <1>4, <1>7, <1>8, <1>9, <1>10, Undisturbed

LEMMA WriteFailsServes == ASSUME IInv, IInv', Channel, WriteFails PROVE Channel' /\ Implements
<1> DEFINE o == IF Head(cli.out).msg.kind = "service" THEN "body" ELSE "go"
<1>1. /\ cli.op = "write"
      /\ cli' = [cli EXCEPT !.out = <<>>, !.sync = None, !.op = o]
      /\ UNCHANGED <<nse, toDaemon>>
    BY DEF WriteFails
<1>2. /\ cli \in Client /\ Linked(nse, cli) /\ PutAside(cli) /\ Asking(cli) /\ Sending(cli)
      /\ cli.out \in Seq(Unit)
    BY Types DEF IInv, Channel
<1>3. Head(cli.out) = cli.out[1]
    BY <1>1, <1>2, HeadTailProperties DEF Sending
<1>4. o = IF cli.out[1].msg.kind = "service" THEN "body" ELSE "go"
    BY <1>3
<1> HIDE DEF o
<1>5. /\ cli'.in = cli.in /\ cli'.op = o /\ cli'.run = cli.run /\ cli'.pend = cli.pend
      /\ cli'.sock = cli.sock /\ cli'.t_read = cli.t_read /\ cli'.t_connect = cli.t_connect
      /\ cli'.sync = None /\ cli'.t_pend = cli.t_pend
    BY <1>1, <1>2 DEF Client
<1>6. cli.sock
    BY <1>1, <1>2 DEF Linked
<1>7. Linked(nse', cli') /\ PutAside(cli') /\ Asking(cli')
    BY <1>1, <1>2, <1>4, <1>5, <1>6 DEF Linked, PutAside, Asking
<1>8. AsideOf(cli') = AsideOf(cli)
    BY <1>5 DEF AsideOf
<1> QED BY <1>1, <1>5, <1>7, <1>8, Undisturbed

LEMMA WriteUnitServes == ASSUME IInv, IInv', Channel, WriteUnit PROVE Channel' /\ Implements
<1> DEFINE u == Head(cli.out)
           q == Tail(cli.out)
           n == Len(cli.out)
           o == CASE n > 1 -> "write" [] n = 1 /\ u.msg.kind = "tell" -> "go" [] OTHER -> "body"
<1>1. /\ cli.op = "write"
      /\ cli' = [cli EXCEPT !.out = q, !.op = o]
      /\ UNCHANGED <<nse, toDaemon>>
    BY DEF WriteUnit
<1>2. /\ cli \in Client /\ Linked(nse, cli) /\ PutAside(cli) /\ Asking(cli) /\ Sending(cli)
      /\ cli.out \in Seq(Unit)
    BY Types DEF IInv, Channel
<1>3. /\ u = cli.out[1] /\ n \in Nat \ {0} /\ Len(q) = n - 1
      /\ \A i \in 1..Len(q) : q[i] = cli.out[i + 1]
    BY <1>1, <1>2, HeadTailProperties, LenProperties, EmptySeq DEF Sending
<1>4. n > 1 => q[1].msg = cli.out[1].msg
    <2> SUFFICES ASSUME n > 1 PROVE q[1].msg = cli.out[1].msg
        OBVIOUS
    <2>1. q[1] = cli.out[2] /\ 2 \in 1..n
        BY <1>3
    <2>2. cli.out[2] = [msg |-> cli.out[1].msg, part |-> Size - Len(cli.out) + 2]
        BY <1>1, <1>2, <2>1 DEF Sending
    <2> QED BY <2>1, <2>2
<1>5. \/ n > 1 /\ o = "write"
      \/ ~(n > 1) /\ cli.out[1].msg.kind = "tell" /\ o = "go"
      \/ ~(n > 1) /\ cli.out[1].msg.kind # "tell" /\ o = "body"
    <2> HIDE DEF n
    <2>1. CASE n > 1
        BY <2>1
    <2>2. CASE ~(n > 1) /\ u.msg.kind = "tell"
        <3>1. n = 1
            BY <1>3, <2>2
        <3> QED BY <1>3, <2>2, <3>1, Zenon
    <2>3. CASE ~(n > 1) /\ u.msg.kind # "tell"
        BY <1>3, <2>3, Zenon
    <2> QED BY <2>1, <2>2, <2>3, Zenon
<1> HIDE DEF o, q, n, u
<1>6. /\ cli'.in = cli.in /\ cli'.op = o /\ cli'.run = cli.run /\ cli'.pend = cli.pend
      /\ cli'.sock = cli.sock /\ cli'.t_read = cli.t_read /\ cli'.t_connect = cli.t_connect
      /\ cli'.sync = cli.sync /\ cli'.t_pend = cli.t_pend /\ cli'.out = q
    BY <1>1, <1>2 DEF Client
<1>7. cli.sock
    BY <1>1, <1>2 DEF Linked
<1>8. Linked(nse', cli')
    BY <1>1, <1>2, <1>6, <1>7 DEF Linked
<1>9. PutAside(cli') /\ Asking(cli')
    BY <1>1, <1>2, <1>4, <1>5, <1>6, <1>7 DEF PutAside, Asking
<1>10. AsideOf(cli') = AsideOf(cli)
    BY <1>6 DEF AsideOf
<1> QED BY <1>1, <1>6, <1>8, <1>9, <1>10, Undisturbed


\* The daemon reads a unit: a message that is complete is handled, or put aside behind
\* the others.
LEMMA ReadUnitServes == ASSUME IInv, IInv', Channel, ReadUnit PROVE Channel' /\ Implements
<1> DEFINE u == Head(toDaemon)
           s == cli.in \o toDaemon
<1>1. /\ cli.op = "body" /\ toDaemon # <<>> /\ toDaemon' = Tail(toDaemon)
      /\ cli' = (IF u.part < Size THEN [cli EXCEPT !.in = Append(cli.in, u)] ELSE Received(u.msg))
      /\ nse' = nse
    BY DEF ReadUnit
<1>2. /\ cli \in Client /\ nse \in Server /\ cli.in \in Seq(Unit) /\ toDaemon \in Seq(Unit)
      /\ cli.pend \in Seq(Message) /\ cli' \in Client
    BY Types, ClientFields DEF IInv, TypeOK
<1>3. /\ Linked(nse, cli) /\ PutAside(cli) /\ Partial(cli) /\ Fronted(s) /\ Chain(s)
    BY DEF IInv, Channel, InboundOK
<1>4. u \in Unit /\ toDaemon' \in Seq(Unit)
    BY <1>1, <1>2, HeadTailProperties
<1>5. u.part \in 1..Size /\ u.msg \in Message
    BY <1>4 DEF Unit
<1>6. cli.sock
    BY <1>1, <1>3 DEF Linked
<1> HIDE DEF u
<1>7. CASE u.part < Size
    <2>1. cli' = [cli EXCEPT !.in = Append(cli.in, u)]
        BY <1>1, <1>7
    <2>2. /\ cli'.in = Append(cli.in, u) /\ cli'.op = cli.op /\ cli'.run = cli.run /\ cli'.pend = cli.pend
          /\ cli'.sock = cli.sock /\ cli'.t_read = cli.t_read /\ cli'.t_connect = cli.t_connect
          /\ cli'.sync = cli.sync /\ cli'.t_pend = cli.t_pend
        BY <1>2, <2>1 DEF Client
    <2>3. cli'.in \o toDaemon' = s
        <3>1. /\ Append(cli.in, Head(toDaemon)) \in Seq(Unit) /\ Tail(toDaemon) \in Seq(Unit)
              /\ Append(cli.in, Head(toDaemon)) \o Tail(toDaemon) = cli.in \o toDaemon
            BY <1>1, <1>2, <1>3, ReadOn
        <3> QED BY <1>1, <2>2, <3>1, Zenon DEF u
    <2>4. Linked(nse', cli') /\ PutAside(cli') /\ Asking(cli')
        BY <1>1, <1>3, <1>6, <2>2 DEF Linked, PutAside, Asking
    <2>5. Partial(cli')
        <3>1. /\ Len(cli'.in) = Len(cli.in) + 1 /\ cli'.in[Len(cli.in) + 1] = u
              /\ \A i \in 1..Len(cli.in) : cli'.in[i] = cli.in[i]
            BY <1>2, <1>4, <2>2, AppendProperties
        <3>2. Len(cli.in) \in Nat
            BY <1>2, LenProperties
        <3> QED BY <1>3, <1>7, <3>1, <3>2 DEF Partial
    <2>6. Channel'
        BY <1>3, <2>3, <2>4, <2>5 DEF Channel
    <2>7. AsideOf(cli') = AsideOf(cli)
        BY <2>2 DEF AsideOf
    <2>8. Joined(cli'.in, toDaemon') = Joined(cli.in, toDaemon)
        BY <2>3, Zenon DEF Joined
    <2>9. Flow(cli', nse', toDaemon') = Flow(cli, nse, toDaemon)
        BY <1>1, <2>7, <2>8, Zenon DEF Flow
    <2>10. LinkOf(nse', cli') = LinkOf(nse, cli)
        BY <1>1, <2>2, Zenon DEF LinkOf
    <2>11. Implements
        BY <2>9, <2>10, Shows, Zenon DEF Implements, Moves, Stays, Shown
    <2> QED BY <2>6, <2>11
<1>8. CASE ~(u.part < Size)
    <2> DEFINE m == u.msg
               a == AsideOf(cli)
               b == Begun(toDaemon')
               q == QueuedOf(nse.queue)
    <2>1. cli' = Received(m) /\ u.part = Size
        BY <1>1, <1>5, <1>8, StreamAssumption
    <2>2. Begun(Joined(cli.in, toDaemon)) = Joined(One(m), b) /\ Fronted(toDaemon')
        BY <1>1, <1>2, <1>3, <2>1, ReadWhole DEF u, Partial
    <2>3. a \in Seq(Message) /\ b \in Seq(Message) /\ q \in Seq(Message) /\ One(m) \in Seq(Message)
        <3>1. nse.queue \in Seq(Entry) /\ m \in Message
            BY <1>2, <1>5, EntryFields
        <3> QED BY <1>2, <1>4, <3>1, AsideIn, BegunJoined, QueuedJoined, OneIn
    <2>4. cli'.in = <<>> /\ cli'.sock = cli.sock /\ cli'.run = cli.run /\ cli'.t_read = cli.t_read
          /\ cli'.t_connect = cli.t_connect
        BY <1>2, <2>1 DEF Received, Client
    <2>5. Partial(cli') /\ Fronted(cli'.in \o toDaemon')
        <3>1. Len(<<>>) = 0 /\ <<>> \o toDaemon' = toDaemon'
            BY <1>4, EmptySeq, ConcatEmptySeq
        <3> QED BY <2>2, <2>4, <3>1 DEF Partial
    <2>6. Joined(cli'.in, toDaemon') = toDaemon'
        BY <1>4, <2>4, JoinedEmpty
    <2>7. LinkOf(nse', cli') = LinkOf(nse, cli)
        BY <1>1, <2>4, Zenon DEF LinkOf
    <2>8. /\ Flow(cli, nse, toDaemon) = Joined(Joined(a, Joined(One(m), b)), q)
          /\ Flow(cli', nse', toDaemon') = Joined(Joined(AsideOf(cli'), b), q)
        BY <1>1, <2>2, <2>6, Zenon DEF Flow
    <2> HIDE DEF a, b, q
    <2> DEFINE x == Joined(b, q)
    <2>9. /\ Joined(Joined(a, Joined(One(m), b)), q) = Joined(a, Joined(One(m), x))
          /\ Joined(Joined(a, b), q) = Joined(a, x)
          /\ x \in Seq(Message)
        <3>1. Joined(One(m), b) \in Seq(Message) /\ x \in Seq(Message)
            BY <2>3, JoinedIn
        <3>2. Joined(Joined(a, Joined(One(m), b)), q) = Joined(a, Joined(Joined(One(m), b), q))
            BY <2>3, <3>1, JoinedGroup
        <3>3. Joined(Joined(One(m), b), q) = Joined(One(m), Joined(b, q))
            BY <2>3, JoinedGroup
        <3>4. Joined(Joined(a, b), q) = Joined(a, Joined(b, q))
            BY <2>3, JoinedGroup
        <3> QED BY <3>1, <3>2, <3>3, <3>4
    <2> HIDE DEF x
    <2>10. CASE cli.sync = None
        <3>1. cli' = [[cli EXCEPT !.in = <<>>] EXCEPT !.op = "go"]
            BY <1>2, <2>1, <2>10 DEF Received
        <3>2. cli'.pend = cli.pend /\ cli'.op = "go" /\ cli'.sync = cli.sync /\ cli'.t_pend = cli.t_pend
            BY <1>2, <3>1 DEF Client
        <3>3. cli.pend = <<>> /\ cli.run = "read"
            BY <1>1, <1>3, <2>10 DEF PutAside
        <3>4. Linked(nse', cli') /\ PutAside(cli') /\ Asking(cli')
            BY <1>1, <1>3, <1>6, <2>4, <2>10, <3>2, <3>3 DEF Linked, PutAside, Asking
        <3>5. Channel'
            BY <2>5, <3>4 DEF Channel
        <3>6. AsideOf(cli') = <<>> /\ a = <<>>
            BY <2>4, <3>2, <3>3 DEF AsideOf, a
        <3>7. /\ Joined(<<>>, b) = b /\ Joined(<<>>, Joined(One(m), x)) = Joined(One(m), x)
            <4>1. Joined(One(m), x) \in Seq(Message)
                BY <2>3, <2>9, JoinedIn
            <4> QED BY <2>3, <4>1, JoinedEmpty
        <3>8. /\ Flow(cli, nse, toDaemon) = Joined(One(m), x)
              /\ Flow(cli', nse', toDaemon') = x
            BY <2>8, <2>9, <3>6, <3>7, Zenon DEF x
        <3> DEFINE l == LinkOf(nse, cli)
        <3>9. LET f == NotesOf(Joined(One(m), x))
                  g == NotesOf(x)
              IN  Handles(l, f, l, g) \/ Stays(l, f, l, g)
            BY <1>5, <2>9, Handled
        <3> HIDE DEF l
        <3>10. Implements
            BY <2>7, <3>8, <3>9, Shows, Zenon DEF Implements, Moves, Shown, l
        <3> QED BY <3>5, <3>10
    <2>11. CASE cli.sync # None /\ m = [kind |-> "ask", id |-> cli.sync]
        <3>1. cli' = [[[[cli EXCEPT !.in = <<>>] EXCEPT !.op = "go"] EXCEPT !.sync = None] EXCEPT !.t_pend = TRUE]
            BY <1>2, <2>1, <2>11 DEF Received
        <3>2. cli'.pend = cli.pend /\ cli'.op = "go" /\ cli'.sync = None /\ cli'.t_pend = TRUE
            BY <1>2, <3>1 DEF Client
        <3>3. Linked(nse', cli') /\ PutAside(cli') /\ Asking(cli')
            BY <1>1, <1>3, <1>6, <2>4, <2>11, <3>2 DEF Linked, PutAside, Asking
        <3>4. Channel'
            BY <2>5, <3>3 DEF Channel
        <3>5. AsideOf(cli') = a
            BY <2>4, <3>2 DEF AsideOf, a
        <3>6. NotesOf(Joined(a, Joined(One(m), x))) = NotesOf(Joined(a, x))
            <4>1. m \in Message /\ m.kind # "note"
                BY <1>5, <2>11
            <4> QED BY <2>3, <2>9, <4>1, NotesIn
        <3>7. Shown(nse', cli', toDaemon') = Shown(nse, cli, toDaemon)
            BY <2>8, <2>9, <3>5, <3>6, Zenon DEF Shown
        <3>8. Implements
            BY <2>7, <3>7, Shows, Zenon DEF Implements, Moves, Stays
        <3> QED BY <3>4, <3>8
    <2>12. CASE cli.sync # None /\ m # [kind |-> "ask", id |-> cli.sync]
        <3> DEFINE p == Append(cli.pend, m)
        <3>1. cli' = [[cli EXCEPT !.in = <<>>] EXCEPT !.pend = p]
            BY <1>2, <2>1, <2>12 DEF Received
        <3>2. cli'.pend = p /\ cli'.op = "body" /\ cli'.sync = cli.sync /\ cli'.t_pend = cli.t_pend
            BY <1>1, <1>2, <3>1 DEF Client
        <3>3. p # <<>> /\ p \in Seq(Message) /\ Len(p) = Len(cli.pend) + 1
              /\ (\A i \in 1..Len(cli.pend) : p[i] = cli.pend[i]) /\ p[Len(cli.pend) + 1] = m
            BY <1>2, <1>5, AppendProperties
        <3> HIDE DEF p
        <3>4. Linked(nse', cli') /\ PutAside(cli') /\ Asking(cli')
            BY <1>1, <1>3, <1>6, <2>4, <2>12, <3>2, <3>3 DEF Linked, PutAside, Asking
        <3>5. Channel'
            BY <2>5, <3>4 DEF Channel
        <3>6. p = Joined(cli.pend, One(m))
            BY <1>2, <1>5, JoinedOne DEF p
        <3>7. AsideOf(cli') = Joined(a, One(m))
            <4>1. CASE cli.run # "pend"
                BY <2>4, <3>2, <3>6, <4>1 DEF AsideOf, a
            <4>2. CASE cli.run = "pend"
                <5>1. cli.pend # <<>>
                    BY <1>3, <1>6, <4>2 DEF PutAside
                <5> DEFINE h == Head(cli.pend)
                           t == Tail(cli.pend)
                <5>2. /\ cli.pend = Joined(One(h), t) /\ t \in Seq(Message) /\ h \in Message
                      /\ SubSeq(cli.pend, 2, Len(cli.pend)) = t /\ One(h) \in Seq(Message)
                    BY <1>2, <5>1, FirstJoined, TailIs, OneIn
                <5> HIDE DEF h, t
                <5>3. p = Joined(One(h), Joined(t, One(m))) /\ Joined(t, One(m)) \in Seq(Message)
                    BY <2>3, <3>6, <5>2, JoinedGroup, JoinedIn
                <5>4. Tail(p) = Joined(t, One(m))
                    BY <5>2, <5>3, JoinedFirst
                <5>5. SubSeq(p, 2, Len(p)) = Tail(p)
                    BY <3>3, TailIs
                <5> QED BY <2>4, <3>2, <4>2, <5>2, <5>4, <5>5 DEF AsideOf, a
            <4> QED BY <4>1, <4>2
        <3>8. Joined(Joined(Joined(a, One(m)), b), q) = Joined(Joined(a, Joined(One(m), b)), q)
            <4>1. Joined(Joined(a, One(m)), b) = Joined(a, Joined(One(m), b))
                BY <2>3, JoinedGroup
            <4> QED BY <4>1
        <3>9. Shown(nse', cli', toDaemon') = Shown(nse, cli, toDaemon)
            BY <2>8, <3>7, <3>8, Zenon DEF Shown
        <3>10. Implements
            BY <2>7, <3>9, Shows, Zenon DEF Implements, Moves, Stays
        <3> QED BY <3>5, <3>10
    <2> QED BY <2>10, <2>11, <2>12
<1> QED BY <1>7, <1>8


LEMMA ReadEndServes == ASSUME IInv, IInv', Channel, ReadEnd PROVE Channel' /\ Implements
<1> DEFINE r == IF cli.sync = None THEN "idle" ELSE cli.run
<1>1. /\ cli.op = "body" /\ toDaemon = <<>>
      /\ cli' = [cli EXCEPT !.sock = FALSE, !.t_read = FALSE, !.t_pend = FALSE,
                            !.t_connect = TRUE, !.pend = <<>>, !.in = <<>>, !.op = "go",
                            !.sync = None, !.run = r]
      /\ nse' = NoEntry /\ toDaemon' = toDaemon
    BY DEF ReadEnd
<1>2. /\ cli \in Client /\ Linked(nse, cli) /\ PutAside(cli)
    BY Types DEF IInv, Channel
<1> HIDE DEF r
<1>3. /\ cli'.in = <<>> /\ cli'.op = "go" /\ cli'.run = r /\ cli'.pend = <<>>
      /\ cli'.sock = FALSE /\ cli'.t_read = FALSE /\ cli'.t_connect = TRUE
      /\ cli'.sync = None /\ cli'.t_pend = FALSE
    BY <1>1, <1>2 DEF Client
<1>4. nse'.state = "none" /\ nse'.queue = <<>>
    BY <1>1 DEF NoEntry
<1>5. Len(<<>>) = 0 /\ <<>> \o <<>> = <<>>
    BY EmptySeq, ConcatEmptySeq
<1>6. cli.sock
    BY <1>1, <1>2 DEF Linked
<1>7. Channel'
    <2>1. Linked(nse', cli') /\ PutAside(cli') /\ Asking(cli')
        BY <1>3, <1>4 DEF Linked, PutAside, Asking
    <2>2. Partial(cli') /\ Fronted(cli'.in \o toDaemon')
        BY <1>1, <1>3, <1>5 DEF Partial, Fronted
    <2> QED BY <2>1, <2>2 DEF Channel
<1>8. LinkOf(nse', cli') = "down" /\ LinkOf(nse, cli) # "down"
    BY <1>3, <1>6 DEF LinkOf
<1>9. Flow(cli', nse', toDaemon') = <<>>
    <2>1. AsideOf(cli') = <<>>
        <3>1. SubSeq(<<>>, 2, Len(<<>>)) = <<>>
            OBVIOUS
        <3> QED BY <1>3, <3>1 DEF AsideOf
    <2>2. Joined(<<>>, <<>>) = <<>>
        BY <1>5, Zenon DEF Joined
    <2> QED BY <1>1, <1>3, <1>4, <2>1, <2>2, QueuedEmpty, Zenon DEF Flow
<1>10. Shown(nse', cli', toDaemon') = <<>>
    BY <1>9, QueuedEmpty, Zenon DEF Shown
<1>11. Implements
    BY <1>8, <1>10, Shows, Zenon DEF Implements, Moves, Cuts
<1> QED BY <1>7, <1>11

LEMMA ReturnServes == ASSUME IInv, IInv', Channel, Return PROVE Channel' /\ Implements
<1> DEFINE c == [cli EXCEPT !.run = "idle"]
           p == SubSeq(cli.pend, 2, Len(cli.pend))
<1>1. cli.run # "idle" /\ cli.op = "go" /\ UNCHANGED <<nse, toDaemon>>
    BY DEF Return
<1>2. /\ cli \in Client /\ Linked(nse, cli) /\ PutAside(cli) /\ cli.pend \in Seq(Message)
      /\ cli.run \in {"idle", "read", "pend", "app"}
    BY Types, ClientFields DEF IInv, Channel
<1>3. CASE cli.run \in {"read", "app"}
    <2>1. cli' = [c EXCEPT !.t_read = cli.sock] \/ cli' = c
        BY <1>2, <1>3 DEF Return
    <2>2. /\ cli'.in = cli.in /\ cli'.op = cli.op /\ cli'.run = "idle" /\ cli'.pend = cli.pend
          /\ cli'.sock = cli.sock /\ (cli'.t_read = cli.t_read \/ cli'.t_read = cli.sock)
          /\ cli'.t_connect = cli.t_connect /\ cli'.sync = cli.sync /\ cli'.t_pend = cli.t_pend
        BY <1>2, <2>1 DEF Client
    <2>3. Linked(nse', cli') /\ PutAside(cli') /\ Asking(cli')
        BY <1>1, <1>2, <1>3, <2>2 DEF Linked, PutAside, Asking
    <2>4. AsideOf(cli') = AsideOf(cli)
        BY <1>3, <2>2 DEF AsideOf
    <2> QED BY <1>1, <2>2, <2>3, <2>4, Undisturbed
<1>4. CASE cli.run = "pend"
    <2> DEFINE more == MorePending
    <2>1. cli' = [[c EXCEPT !.pend = p] EXCEPT !.t_pend = more]
        BY <1>2, <1>4 DEF Return
    <2>2. cli.pend # <<>> /\ p # <<>> => more
        <3> SUFFICES ASSUME cli.pend # <<>>, p # <<>> PROVE more
            OBVIOUS
        <3>1. /\ p = Tail(cli.pend) /\ Len(cli.pend) \in Nat /\ p \in Seq(Message)
              /\ Len(p) = Len(cli.pend) - 1
            BY <1>2, TailIs, HeadTailProperties
        <3> HIDE DEF p
        <3>2. Len(p) > 0
            BY <3>1, EmptySeq, LenProperties
        <3>3. Len(cli.pend) > 1
            BY <3>1, <3>2
        <3> QED BY <3>3 DEF MorePending
    <2>3. cli.pend = <<>> => p = <<>>
        <3>1. SubSeq(<<>>, 2, Len(<<>>)) = <<>>
            OBVIOUS
        <3> QED BY <3>1
    <2> HIDE DEF p, more
    <2>4. /\ cli'.in = cli.in /\ cli'.op = cli.op /\ cli'.run = "idle" /\ cli'.pend = p
          /\ cli'.sock = cli.sock /\ cli'.t_read = cli.t_read
          /\ cli'.t_connect = cli.t_connect /\ cli'.sync = cli.sync /\ cli'.t_pend = more
        BY <1>2, <2>1 DEF Client
    <2>5. Linked(nse', cli') /\ PutAside(cli') /\ Asking(cli')
        BY <1>1, <1>2, <1>4, <2>2, <2>3, <2>4 DEF Linked, PutAside, Asking
    <2>6. AsideOf(cli') = AsideOf(cli)
        BY <1>4, <2>4 DEF AsideOf, p
    <2> QED BY <1>1, <2>4, <2>5, <2>6, Undisturbed
<1> QED BY <1>1, <1>2, <1>3, <1>4

----------------------------------------------------------------------------

LEMMA InitChannel == Init => Channel /\ LinkOf(nse, cli) = "down" /\ Shown(nse, cli, toDaemon) = <<>>
<1> SUFFICES ASSUME Init
             PROVE  Channel /\ LinkOf(nse, cli) = "down" /\ Shown(nse, cli, toDaemon) = <<>>
    OBVIOUS
<1>1. /\ nse.state = "none" /\ nse.queue = <<>> /\ toDaemon = <<>>
      /\ cli.sock = FALSE /\ cli.t_read = FALSE /\ cli.t_connect = TRUE /\ cli.pend = <<>>
      /\ cli.run = "idle" /\ cli.op = "go" /\ cli.in = <<>> /\ cli.sync = None
    BY DEF Init, NoEntry
<1>2. Len(<<>>) = 0 /\ <<>> \o <<>> = <<>>
    BY EmptySeq, ConcatEmptySeq
<1>3. Channel
    BY <1>1, <1>2 DEF Channel, Linked, PutAside, Asking, Partial, Fronted
<1>4. LinkOf(nse, cli) = "down"
    BY <1>1 DEF LinkOf
<1>5. Flow(cli, nse, toDaemon) = <<>>
    <2>1. AsideOf(cli) = <<>>
        BY <1>1 DEF AsideOf
    <2>2. Joined(<<>>, <<>>) = <<>>
        BY <1>2, Zenon DEF Joined
    <2> QED BY <1>1, <2>1, <2>2, QueuedEmpty, Zenon DEF Flow
<1> QED BY <1>3, <1>4, <1>5, QueuedEmpty, Zenon DEF Shown

LEMMA StepServes == IInv /\ IInv' /\ Channel /\ [Next]_vars => Channel' /\ Implements
<1> SUFFICES ASSUME IInv, IInv', Channel, [Next]_vars PROVE Channel' /\ Implements
    OBVIOUS
<1>1. CASE NsmStep
    BY <1>1, AcceptServes, AnnounceServes, DequeueServes, NsmReadsServes, Zenon DEF NsmStep
<1>2. CASE ClientStep
    BY <1>2, ConnectServes, TakeReadServes, TakePendServes, WriteUnitServes, WriteFailsServes,
       ReadUnitServes, ReadEndServes, ReturnServes, Zenon DEF ClientStep
<1>3. CASE RequestStep
    <2>1. "tell" \in {"tell", "ask"} /\ "ask" \in {"tell", "ask"}
        OBVIOUS
    <2> QED BY <1>3, <2>1, AskServes, Zenon DEF RequestStep
<1>4. CASE FaultStep
    BY <1>4, NsmLeavesServes, NsmRestartsServes, Zenon DEF FaultStep
<1>5. CASE UNCHANGED vars
    <2>1. UNCHANGED <<nse, toDaemon, cli>>
        BY <1>5 DEF vars
    <2>2. Channel'
        BY <2>1 DEF Channel
    <2> QED BY <2>1, <2>2, Unseen
<1> QED BY <1>1, <1>2, <1>3, <1>4, <1>5, Zenon DEF Next


\* NSM's whole announcements cut after some of them.
LEMMA PrefixIs ==
    ASSUME NEW S, NEW r \in Seq(S), NEW x \in Seq(S)
    PROVE  \E n \in 0..Len(Joined(r, x)) : r = SubSeq(Joined(r, x), 1, n)
<1> DEFINE q == r \o x
           z == SubSeq(q, 1, Len(r))
<1>1. /\ q \in Seq(S) /\ Len(q) = Len(r) + Len(x)
      /\ \A i \in 1..(Len(r) + Len(x)) : q[i] = IF i <= Len(r) THEN r[i] ELSE x[i - Len(r)]
    BY ConcatProperties
<1> HIDE DEF q
<1>2. Len(r) \in Nat /\ Len(x) \in Nat
    BY LenProperties
<1>3. \A i \in 1..Len(r) : q[i] = r[i] /\ q[i] \in S
    BY <1>1, <1>2, ElementOfSeq
<1>4. z \in Seq(S) /\ Len(z) = Len(r) /\ \A i \in 1..Len(r) : z[i] = q[i]
    BY <1>2, <1>3, SubSeqProperties
<1> HIDE DEF z
<1>5. z = r
    BY <1>3, <1>4, SeqEqual
<1>6. Len(r) \in 0..Len(q)
    BY <1>1, <1>2
<1> QED BY <1>5, <1>6, Zenon DEF Joined, q, z

LEMMA PromisedStep == IInv /\ IInv' /\ Channel /\ [Next]_vars => [Promised!Next]_(Promised!vars)
<1> SUFFICES ASSUME IInv, IInv', Channel, [Next]_vars PROVE [Promised!Next]_(Promised!vars)
    OBVIOUS
<1> DEFINE l == LinkOf(nse, cli)
           k == LinkOf(nse', cli')
           q == Shown(nse, cli, toDaemon)
           r == Shown(nse', cli', toDaemon')
<1>1. Link = l /\ Unhandled = q
    BY UnhandledFlows, Zenon DEF Link, LinkOf, Shown
<1>2. Link' = k /\ Unhandled' = r
    <2>1. Unhandled' = NotesOf(Flow(cli', nse', toDaemon'))
        BY Zenon DEF Unhandled, NotesOf, Flow, Joined, AsideOf, Aside, Waiting, QueuedOf
    <2> QED BY <2>1, Zenon DEF Link, LinkOf, Shown
<1>3. Moves(l, q, k, r)
    BY StepServes, Zenon DEF Implements
<1> HIDE DEF l, k, q, r
<1>4. q \in Seq(Message) /\ r \in Seq(Message)
    BY <1>3 DEF Moves
<1>5. CASE Opens(l, q, k, r)
    <2>1. Promised!Open
        BY <1>1, <1>2, <1>5 DEF Promised!Open, Opens
    <2> QED BY <2>1 DEF Promised!Next
<1>6. CASE Announces(l, q, k, r)
    <2>1. PICK m \in Message : /\ m.kind = "note" /\ m.id \in 1..Notes /\ l = "up"
                               /\ r = Joined(q, One(m)) /\ k = l
        BY <1>6 DEF Announces
    <2>2. m \in [kind : {"note"}, id : 1..Notes]
        BY <2>1 DEF Message
    <2>3. r = Append(q, m)
        BY <1>4, <2>1, JoinedOne
    <2>4. Promised!Announce(m)
        BY <1>1, <1>2, <2>1, <2>3 DEF Promised!Announce
    <2> QED BY <2>2, <2>4 DEF Promised!Next
<1>7. CASE Handles(l, q, k, r)
    <2>1. PICK m \in Message : q = Joined(One(m), r) /\ k = l
        BY <1>7 DEF Handles
    <2>2. q # <<>> /\ Tail(q) = r
        BY <1>4, <2>1, JoinedFirst
    <2>3. Promised!Handle
        BY <1>1, <1>2, <2>1, <2>2 DEF Promised!Handle
    <2> QED BY <2>3 DEF Promised!Next
<1>8. CASE Leaves(l, q, k, r)
    <2>1. PICK x \in Seq(Message) : q = Joined(r, x)
        BY <1>8 DEF Leaves
    <2>2. \E n \in 0..Len(q) : r = SubSeq(q, 1, n)
        BY <1>4, <2>1, PrefixIs
    <2>3. Promised!Leave
        BY <1>1, <1>2, <1>8, <2>2 DEF Promised!Leave, Leaves
    <2> QED BY <2>3 DEF Promised!Next
<1>9. CASE Cuts(l, q, k, r)
    <2>1. Promised!Cut
        BY <1>1, <1>2, <1>9 DEF Promised!Cut, Cuts
    <2> QED BY <2>1 DEF Promised!Next
<1>10. CASE Stays(l, q, k, r)
    BY <1>1, <1>2, <1>10 DEF Promised!vars, Stays
<1> QED BY <1>3, <1>5, <1>6, <1>7, <1>8, <1>9, <1>10 DEF Moves

\* The daemon handles what NSM announces in order, each once, until the connection
\* is cut, whatever the sockets take of each message and whatever is put aside
\* (nsm_server_send_message, nsm_server_dequeue, nsm_client_read,
\* nsm_client_read_sync, nsm_client_process_pending_msg).
THEOREM OrderKept == Spec => InOrder
<1>1. Init => Promised!Init
    <2> SUFFICES ASSUME Init PROVE Promised!Init
        OBVIOUS
    <2>1. LinkOf(nse, cli) = "down" /\ Shown(nse, cli, toDaemon) = <<>>
        BY InitChannel
    <2>2. Link = LinkOf(nse, cli) /\ Unhandled = Shown(nse, cli, toDaemon)
        BY UnhandledFlows, Zenon DEF Link, LinkOf, Shown
    <2> QED BY <2>1, <2>2 DEF Promised!Init
<1>2. Init => Channel
    BY InitChannel
<1>3. IInv /\ IInv' /\ Channel /\ [Next]_vars => Channel'
    BY StepServes
<1> QED BY <1>1, <1>2, <1>3, PromisedStep, Invariant, PTL DEF Spec, InOrder, Promised!Spec
=============================================================================
