---------------------------- MODULE OspfAdjacency ----------------------------
(***************************************************************************)
(* Two OSPF routers bring up an adjacency on a point-to-point link, as        *)
(* ospfd runs it: the neighbour state machine (ospf_nfsm.c), the database     *)
(* description, request, update and acknowledgment packets (ospf_packet.c)     *)
(* and the flooding of new LSAs (ospf_flood.c).                              *)
(*                                                                           *)
(* An LSA is an identifier and a version; db[r][i] is the version router r has, *)
(* 0 for none.  The link keeps the order of the packets and may lose them.  On   *)
(* such a link a neighbour never rests in TwoWay.                           *)
(***************************************************************************)
EXTENDS Integers, Sequences, FiniteSets, SequencesExt

CONSTANTS
    Lsa,        \* the identifiers; LSA r is originated by router r
    Known,      \* what each router has at the start
    MaxPerDd,   \* headers that fit in a database description
    Losses,     \* bound: packets lost
    Outages,    \* bound: RouterDeadIntervals that pass before a packet is through
    Changes,    \* bound: new instances originated
    Backlog     \* bound: packets under way when a timer fires

Router == {1, 2}
Peer(r) == 3 - r

ASSUME LsaAssumption == Router \subseteq Lsa /\ Lsa \subseteq Nat /\ IsFiniteSet(Lsa)
ASSUME KnownAssumption == Known \in [Router -> [Lsa -> Nat]]
\* One's own LSA is not received back: nobody starts with a newer one than its router.
ASSUME OwnAssumption == \A r \in Router : Known[Peer(r)][r] <= Known[r][r]
ASSUME BoundAssumption == MaxPerDd \in Nat \ {0} /\ {Losses, Outages, Changes, Backlog} \subseteq Nat

VARIABLES
    nbr,        \* what each router keeps of the other
    db,         \* the link state database of each router
    link,       \* the packets under way to each router
    losses, outages, changes

vars == <<nbr, db, link, losses, outages, changes>>

Flag == {"MS", "M", "I"}
Exchanging == {"Exchange", "Loading", "Full"}
Event == {"ExchangeDone", "LoadingDone", "SeqNumberMismatch", "BadLSReq"}
Instance == [id : Lsa, ver : Nat]

Dd(seq, flags, says) == [kind |-> "dd", seq |-> seq, flags |-> flags, says |-> says]
Request(ids) == [kind |-> "req", ids |-> ids]
Update(i) == [kind |-> "upd", lsa |-> i]
Ack(i) == [kind |-> "ack", lsa |-> i]
Hello(seen) == [kind |-> "hello", seen |-> seen]
NoDd == Dd(0, {}, {})

NoNbr == [state |-> "Down", seq |-> 0, flags |-> {}, recv |-> NoDd, sent |-> NoDd,
          db_sum |-> {}, ls_req |-> {}, rxmt |-> {}, t_db_desc |-> FALSE,
          t_ls_req |-> FALSE, events |-> <<>>]

Has(database) == {[id |-> i, ver |-> database[i]] : i \in {j \in Lsa : database[j] # 0}}

\* A handler works on what it may change: the neighbour, the database, what it sends.
Step(r) == [n |-> nbr[r], db |-> db[r], out |-> <<>>]
Emit(s, q) == [s EXCEPT !.out = @ \o q]
Schedule(s, e) == IF e \in ToSet(s.n.events) THEN s ELSE [s EXCEPT !.n.events = Append(@, e)]

----------------------------------------------------------------------------
(* Building blocks.                                                         *)

\* Faulty: a description says all there is.
DescribedAll(s) == {i \in s.n.db_sum : i.ver = s.db[i.id]}

\* The headers the next description takes: the first that are still current.
Described(s) ==
    LET live == {i \in s.n.db_sum : i.ver = s.db[i.id]}
    IN  {i \in live : Cardinality({j \in live : j.id < i.id}) < MaxPerDd}

\* Build, send and keep a description.  What was superseded is dropped on the way.
SendDd(s) ==
    LET said == Described(s)
        left == {i \in s.n.db_sum \ said :
                    \E j \in s.n.db_sum \ said : j.ver = s.db[j.id] /\ j.id <= i.id}
        flags == IF s.n.db_sum = {} /\ s.n.state \in Exchanging
                 THEN s.n.flags \ {"M"} ELSE s.n.flags
        packet == Dd(s.n.seq, flags, said)
    IN  Emit([s EXCEPT !.n.db_sum = left, !.n.flags = flags, !.n.sent = packet], <<packet>>)

ResendDd(s) == Emit(s, <<s.n.sent>>)

SendRequest(s) ==
    Emit([s EXCEPT !.n.t_ls_req = TRUE], <<Request({i.id : i \in s.n.ls_req})>>)

\* ospf_nfsm_reset_nbr
Reset(s) ==
    [s EXCEPT !.n.db_sum = {}, !.n.ls_req = {}, !.n.rxmt = {}, !.n.events = <<>>,
              !.n.t_db_desc = FALSE, !.n.t_ls_req = FALSE]

\* Enter ExStart and offer to be the master; a new neighbour takes its number from the clock.
Start(s) ==
    LET seq == IF s.n.seq = 0 THEN 10 * (1 + outages) ELSE s.n.seq + 1
    IN  SendDd([s EXCEPT !.n.state = "ExStart", !.n.seq = seq, !.n.flags = Flag,
                         !.n.t_db_desc = TRUE])

\* Loading ends when the last request is answered.
CheckLoading(s) ==
    IF s.n.state = "Loading" /\ s.n.ls_req = {} THEN Schedule(s, "LoadingDone") ELSE s

----------------------------------------------------------------------------
(* Reading a packet.                                                        *)

ReadHello(s, seen) ==
    IF seen
    THEN IF s.n.state \in {"Down", "Init"} THEN Start(s) ELSE s
    ELSE IF s.n.state = "Down" THEN [s EXCEPT !.n.state = "Init"]
         ELSE [Reset(s) EXCEPT !.n.state = "Init"]

\* ospf_db_desc_proc: note what the neighbour has, answer.
ProcDd(s, d) ==
    LET wanted == {i \in d.says : i.ver > s.db[i.id]}
        kept == {j \in s.n.ls_req : \A i \in wanted : i.id # j.id}
        asks == [s EXCEPT !.n.ls_req = kept \cup wanted, !.n.t_ls_req = @ \/ wanted # {}]
        lead == [asks EXCEPT !.n.seq = @ + 1]
        follow == [asks EXCEPT !.n.seq = d.seq]
        last == "M" \notin d.flags
        answered ==
            IF "MS" \in s.n.flags
            THEN IF last /\ "M" \notin s.n.flags
                 THEN Schedule(lead, "ExchangeDone") ELSE SendDd(lead)
            ELSE SendDd(IF last /\ s.n.db_sum = {}
                        THEN Schedule(follow, "ExchangeDone") ELSE follow)
    IN  [answered EXCEPT !.n.recv = Dd(d.seq, d.flags, {})]

\* Faulty: whoever has agreed stops repeating.
RepeatsNever(off) == FALSE

\* The master goes on repeating its description until it is answered.
Repeats(off) == "MS" \notin off

\* Agree on the master, list the database and go on with the packet.
Negotiate(s, d, r) ==
    LET agreed(seq, off) ==
            [s EXCEPT !.n.state = "Exchange", !.n.seq = seq, !.n.flags = @ \ off,
                      !.n.db_sum = Has(s.db), !.n.t_db_desc = @ /\ Repeats(off)]
    IN  IF d.flags = Flag /\ d.says = {} /\ Peer(r) > r
        THEN ProcDd(agreed(d.seq, {"MS", "I"}), d)
        ELSE IF d.flags \cap {"MS", "I"} = {} /\ d.seq = s.n.seq /\ Peer(r) < r
        THEN ProcDd(agreed(s.n.seq, {"I"}), d)
        ELSE s

\* IS_DD_DUP
Duplicate(n, d) == d.seq = n.recv.seq /\ d.flags = n.recv.flags

\* The description that must come next.
Expected(n, d) ==
    /\ ("MS" \in d.flags) = ("MS" \in n.recv.flags)
    /\ "I" \notin d.flags
    /\ d.seq = n.seq + (IF "MS" \in n.flags THEN 0 ELSE 1)

\* Faulty: a slave past Exchange takes a repeated description for an error.
AnswersShy(n) == n.state = "Exchange"

\* A repeated description is answered by the slave, while it keeps its last one.
Answers(n) == n.state = "Exchange" \/ n.sent # NoDd

ReadDd(s, d, r) ==
    LET n == s.n IN
    CASE n.state = "Down" -> s
      [] n.state = "Init" -> Negotiate(Start(s), d, r)
      [] n.state = "ExStart" -> Negotiate(s, d, r)
      [] n.state \in Exchanging /\ Duplicate(n, d) /\ "MS" \in n.flags -> s
      [] n.state \in Exchanging /\ Duplicate(n, d) /\ "MS" \notin n.flags /\ Answers(n) ->
             ResendDd(s)
      [] n.state = "Exchange" /\ ~Duplicate(n, d) /\ Expected(n, d) -> ProcDd(s, d)
      [] OTHER -> Schedule(s, "SeqNumberMismatch")

\* The requests of a packet are in the order of the identifiers.
InOrder(ids) ==
    CHOOSE q \in [1..Cardinality(ids) -> ids] : \A k, m \in DOMAIN q : k < m => q[k] < q[m]

ReadRequest(s, ids) ==
    IF s.n.state \notin Exchanging THEN s
    ELSE IF \E i \in ids : s.db[i] = 0 THEN Schedule(s, "BadLSReq")
    ELSE LET asked == InOrder(ids)
         IN  Emit(s, [k \in DOMAIN asked |->
                          Update([id |-> asked[k], ver |-> s.db[asked[k]]])])

\* ospf_flood: strike the LSA off the request list unless the neighbour has a newer one,
\* off the retransmission list, install and acknowledge it.
Install(s, i) ==
    LET req == {j \in s.n.ls_req : j.id # i.id \/ j.ver > i.ver}
        struck == [s EXCEPT !.n.ls_req = req]
        checked == IF req # s.n.ls_req THEN CheckLoading(struck) ELSE struck
    IN  Emit([checked EXCEPT !.n.rxmt = {j \in @ : j.id # i.id}, !.db[i.id] = i.ver],
             <<Ack(i)>>)

\* ospf_ls_upd_proc.  An older LSA is not acknowledged but answered with the copy there
\* is, which is taken to be older than MinLSArrival.
ReadUpdate(s, i) ==
    IF s.n.state \notin Exchanging THEN s
    ELSE IF i.ver > s.db[i.id] THEN Install(s, i)
    ELSE IF \E j \in s.n.ls_req : j.id = i.id THEN Schedule(s, "BadLSReq")
    ELSE IF i \in s.n.rxmt THEN [s EXCEPT !.n.rxmt = @ \ {i}]
    ELSE IF i.ver = s.db[i.id] THEN Emit(s, <<Ack(i)>>)
    ELSE Emit(s, <<Update([id |-> i.id, ver |-> s.db[i.id]])>>)

ReadAck(s, i) == IF s.n.state \in Exchanging THEN [s EXCEPT !.n.rxmt = @ \ {i}] ELSE s

Read(s, p, r) ==
    CASE p.kind = "hello" -> ReadHello(s, p.seen)
      [] p.kind = "dd" -> ReadDd(s, p, r)
      [] p.kind = "req" -> ReadRequest(s, p.ids)
      [] p.kind = "upd" -> ReadUpdate(s, p.lsa)
      [] p.kind = "ack" -> ReadAck(s, p.lsa)

----------------------------------------------------------------------------
(* The neighbour state machine's own events.                                *)

ExchangeDone(s) ==
    IF s.n.ls_req = {}
    THEN [s EXCEPT !.n.state = "Full", !.n.t_db_desc = FALSE, !.n.t_ls_req = FALSE]
    ELSE SendRequest([s EXCEPT !.n.state = "Loading", !.n.t_db_desc = FALSE])

Handle(s, e) ==
    CASE e = "ExchangeDone" /\ s.n.state = "Exchange" -> ExchangeDone(s)
      [] e = "LoadingDone" /\ s.n.state = "Loading" ->
             [s EXCEPT !.n.state = "Full", !.n.t_ls_req = FALSE]
      [] e \in {"SeqNumberMismatch", "BadLSReq"} /\ s.n.state \in Exchanging -> Start(Reset(s))
      [] OTHER -> s

----------------------------------------------------------------------------
(* The actions.                                                             *)

Init ==
    /\ nbr = [r \in Router |-> NoNbr]
    /\ db = Known
    /\ link = [r \in Router |-> <<>>]
    /\ losses = 0
    /\ outages = 0
    /\ changes = 0

\* The handler of router r is done; it may have taken the first packet for r.
Done(r, s, rest) ==
    /\ nbr' = [nbr EXCEPT ![r] = s.n]
    /\ db' = [db EXCEPT ![r] = s.db]
    /\ link' = [link EXCEPT ![r] = rest, ![Peer(r)] = @ \o s.out]

\* A timer is slow against the link: it fires with at most Backlog packets under way.
Slow == Len(link[1]) + Len(link[2]) <= Backlog

\* Scheduled events run before the next packet is read.
Receive(r) ==
    /\ nbr[r].events = <<>>
    /\ link[r] # <<>>
    /\ Done(r, Read(Step(r), Head(link[r]), r), Tail(link[r]))
    /\ UNCHANGED <<losses, outages, changes>>

RunEvent(r) ==
    /\ nbr[r].events # <<>>
    /\ LET s == [Step(r) EXCEPT !.n.events = Tail(@)]
       IN  Done(r, Handle(s, Head(nbr[r].events)), link[r])
    /\ UNCHANGED <<losses, outages, changes>>

DbDescTimer(r) ==
    /\ nbr[r].t_db_desc
    /\ Slow
    /\ Done(r, ResendDd(Step(r)), link[r])
    /\ UNCHANGED <<losses, outages, changes>>

LsReqTimer(r) ==
    /\ nbr[r].t_ls_req
    /\ nbr[r].ls_req # {}
    /\ Slow
    /\ Done(r, SendRequest(Step(r)), link[r])
    /\ UNCHANGED <<losses, outages, changes>>

\* The timer serves the list whose turn it is: here, one instance.
LsUpdTimer(r) ==
    /\ Slow
    /\ \E i \in nbr[r].rxmt : Done(r, Emit(Step(r), <<Update(i)>>), link[r])
    /\ UNCHANGED <<losses, outages, changes>>

\* Hellos, while one of the two has still to see the other.
HelloTimer(r) ==
    /\ \E q \in Router : nbr[q].state \in {"Down", "Init"}
    /\ Slow
    /\ Done(r, Emit(Step(r), <<Hello(nbr[r].state # "Down")>>), link[r])
    /\ UNCHANGED <<losses, outages, changes>>

\* Faulty: only a full neighbour is flooded to.
FloodsToFull(n) == n.state = "Full"

\* A neighbour takes part in flooding from Exchange on.
FloodsTo(n) == n.state \in Exchanging

\* Router r originates a new instance of its LSA.
Originate(r) ==
    /\ changes < Changes
    /\ LET new == [id |-> r, ver |-> db[r][r] + 1]
           s == [Step(r) EXCEPT !.db[r] = new.ver, !.n.rxmt = {i \in @ : i.id # r}]
       IN  Done(r, IF FloodsTo(nbr[r])
                   THEN Emit([s EXCEPT !.n.rxmt = @ \cup {new}], <<Update(new)>>)
                   ELSE s,
                link[r])
    /\ changes' = changes + 1
    /\ UNCHANGED <<losses, outages>>

Lose(r) ==
    /\ losses < Losses
    /\ link[r] # <<>>
    /\ link' = [link EXCEPT ![r] = Tail(@)]
    /\ losses' = losses + 1
    /\ UNCHANGED <<nbr, db, outages, changes>>

\* No hello for RouterDeadInterval: the neighbour is given up.
InactivityTimer(r) ==
    /\ outages < Outages
    /\ nbr[r].state # "Down"
    /\ nbr' = [nbr EXCEPT ![r] = NoNbr]
    /\ outages' = outages + 1
    /\ UNCHANGED <<db, link, losses, changes>>

\* RouterDeadInterval after its last description a router no longer repeats it.
DbDescFreeTimer(r) ==
    /\ outages < Outages
    /\ nbr[r].state \in {"Loading", "Full"}
    /\ nbr[r].sent # NoDd
    /\ nbr' = [nbr EXCEPT ![r].sent = NoDd]
    /\ outages' = outages + 1
    /\ UNCHANGED <<db, link, losses, changes>>

Next ==
    \E r \in Router :
        \/ Receive(r) \/ RunEvent(r)
        \/ DbDescTimer(r) \/ LsReqTimer(r) \/ LsUpdTimer(r) \/ HelloTimer(r)
        \/ Originate(r)
        \/ Lose(r) \/ InactivityTimer(r) \/ DbDescFreeTimer(r)

Spec == Init /\ [][Next]_vars

FairSpec ==
    /\ Spec
    /\ \A r \in Router :
           /\ WF_vars(Receive(r)) /\ WF_vars(RunEvent(r))
           /\ SF_vars(DbDescTimer(r)) /\ SF_vars(LsReqTimer(r))
           /\ SF_vars(LsUpdTimer(r)) /\ SF_vars(HelloTimer(r))

----------------------------------------------------------------------------
(* Properties.                                                              *)

Full == \A r \in Router : nbr[r].state = "Full"

\* Types, and that a description fits in its packet, a list names an LSA once and the
\* timer that repeats a description has one to repeat (the assertion of
\* ospf_nfsm.c:195).
TypeOK ==
    /\ db \in [Router -> [Lsa -> Nat]]
    /\ \A r \in Router :
          LET n == nbr[r] IN
          /\ n.state \in {"Down", "Init", "ExStart"} \cup Exchanging
          /\ n.seq \in Nat /\ n.flags \subseteq Flag
          /\ n.sent.says \subseteq Instance /\ Cardinality(n.sent.says) <= MaxPerDd
          /\ \A list \in {n.db_sum, n.ls_req, n.rxmt} :
                /\ list \subseteq Instance
                /\ \A i, j \in list : i.id = j.id => i = j
          /\ ToSet(n.events) \subseteq Event
          /\ n.t_db_desc => n.sent # NoDd

\* Two routers that are full with each other have the same database, except for what one
\* of them is still repeating to the other.
Synchronized ==
    Full => \A r \in Router, i \in Lsa :
                db[r][i] > db[Peer(r)][i] => [id |-> i, ver |-> db[r][i]] \in nbr[r].rxmt

\* As long as both hear each other in time, no exchange is broken off: a lost packet, its
\* retransmission and a new LSA never look like an error of the neighbour.
Undisturbed ==
    outages = 0 => \A r \in Router :
                      ToSet(nbr[r].events) \cap {"SeqNumberMismatch", "BadLSReq"} = {}

\* However the exchange goes, the two end up full with the same database, for good.
Adjacent == <>[](Full /\ db[1] = db[2])
=============================================================================
