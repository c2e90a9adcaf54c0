------------------------------ MODULE NsmClient ------------------------------
(***************************************************************************)
(* The connection of a daemon to NSM: the entry NSM keeps for it             *)
(* (nsm_server.c), the stream socket between them, and the client in the     *)
(* daemon (nsm_client.c over message.c).  NSM never waits for a socket to     *)
(* take what it writes: it queues the rest.  The daemon waits whenever it      *)
(* writes or reads, and may ask NSM something and wait for the answer in the   *)
(* middle of a callback: what arrives meanwhile is put aside.                  *)
(*                                                                           *)
(* A stream carries messages in Size units and holds Room of them.           *)
(***************************************************************************)
EXTENDS Integers, Sequences

CONSTANTS
    Notes,           \* bound: how many announcements NSM makes
    Asks,            \* bound: how many requests the daemon makes
    Size,            \* units of a message, its header being the first
    Room             \* units a stream holds

ASSUME BoundAssumption == Notes \in Nat /\ Asks \in Nat
ASSUME StreamAssumption == Size \in Nat \ {0} /\ Room \in Nat \ {0}

VARIABLES
    alive,           \* NSM listens
    nse,             \* NSM's entry for the daemon
    toNsm, toDaemon, \* units on the stream, either way
    cli,             \* the client of the daemon
    told, asked,     \* announcements and requests so far
    crashed          \* the daemon freed what was free

vars == <<alive, nse, toNsm, toDaemon, cli, told, asked, crashed>>

None == 0            \* waits for no answer

Message == [kind : {"service", "note", "ask", "tell"}, id : Nat]
Unit == [msg : Message, part : 1..Size]
Units(m) == [i \in 1..Size |-> [msg |-> m, part |-> i]]

Server ==
    [state : {"none", "backlog", "open", "gone"}, service : BOOLEAN,
     queue : Seq([msg : Message, written : 0..(Size - 1)]), t_write : BOOLEAN,
     recv : Seq(Unit)]

\* run is the callback that runs, op what it is doing: its own work, writing the
\* units of out, or reading a message, of which in has arrived.
Client ==
    [sock : BOOLEAN, t_read : BOOLEAN, t_pend : BOOLEAN, t_connect : BOOLEAN,
     pend : Seq(Message), run : {"idle", "read", "pend", "app"},
     op : {"go", "write", "body"}, in : Seq(Unit), out : Seq(Unit),
     sync : 0..Asks]

TypeOK ==
    /\ alive \in BOOLEAN /\ crashed \in BOOLEAN
    /\ nse \in Server /\ cli \in Client
    /\ toNsm \in Seq(Unit) /\ toDaemon \in Seq(Unit)
    /\ Len(toNsm) <= Room /\ Len(toDaemon) <= Room
    /\ told \in 0..Notes /\ asked \in 0..Asks

NoEntry == [state |-> "none", service |-> FALSE, queue |-> <<>>, t_write |-> FALSE, recv |-> <<>>]

Init ==
    /\ alive = TRUE /\ nse = NoEntry /\ toNsm = <<>> /\ toDaemon = <<>>
    /\ cli = [sock |-> FALSE, t_read |-> FALSE, t_pend |-> FALSE, t_connect |-> TRUE,
              pend |-> <<>>, run |-> "idle", op |-> "go", in |-> <<>>, out |-> <<>>,
              sync |-> None]
    /\ told = 0 /\ asked = 0 /\ crashed = FALSE

----------------------------------------------------------------------------
(* NSM.                                                                     *)

Least(a, b) == IF a < b THEN a ELSE b

\* NSM's loop serves this connection: it is not in the middle of a message.
Serving == nse.state = "open" /\ nse.recv = <<>>

\* message_server_accept and nsm_server_connect.
Accept ==
    /\ nse.state = "backlog" /\ nse' = [nse EXCEPT !.state = "open"]
    /\ UNCHANGED <<alive, toNsm, toDaemon, cli, told, asked, crashed>>

\* Mutant: whatever was written, m is queued.
WrittenTwice(s, m, n) ==
    /\ toDaemon' = toDaemon \o SubSeq(Units(m), 1, n)
    /\ nse' = [s EXCEPT !.queue = Append(@, [msg |-> m, written |-> n]), !.t_write = TRUE]

\* n units of m are on their way, what does not fit is queued behind s.queue.
Written(s, m, n) ==
    /\ toDaemon' = toDaemon \o SubSeq(Units(m), 1, n)
    /\ nse' = IF n = Size THEN s
              ELSE [s EXCEPT !.queue = Append(@, [msg |-> m, written |-> n]), !.t_write = TRUE]

\* Mutant: the socket is tried whatever is queued.
SendHasty(s, m) == \E n \in 0..Least(Size, Room - Len(toDaemon)) : Written(s, m, n)

\* nsm_server_send_message: the socket takes some of m, unless others wait already.
Send(s, m) ==
    \E n \in 0..Least(Size, Room - Len(toDaemon)) :
        (s.queue # <<>> => n = 0) /\ Written(s, m, n)

\* NSM announces something to a registered daemon.
Announce ==
    /\ Serving /\ nse.service /\ told < Notes /\ told' = told + 1
    /\ Send(nse, [kind |-> "note", id |-> told'])
    /\ UNCHANGED <<alive, toNsm, cli, asked, crashed>>

\* nsm_server_dequeue, when the socket has room.
Dequeue ==
    /\ Serving /\ nse.t_write
    /\ LET e == Head(nse.queue) IN \E n \in 1..Least(Size - e.written, Room - Len(toDaemon)) :
        /\ toDaemon' = toDaemon \o SubSeq(Units(e.msg), e.written + 1, e.written + n)
        /\ nse' = IF e.written + n = Size
                  THEN [nse EXCEPT !.queue = Tail(@), !.t_write = Len(nse.queue) > 1]
                  ELSE [nse EXCEPT !.queue[1].written = e.written + n]
    /\ UNCHANGED <<alive, toNsm, cli, told, asked, crashed>>

\* Mutant: nothing is read while something waits to be written.
ListensShy == nse.state = "open" /\ nse.queue = <<>>

\* The read thread of the entry does not depend on what is queued.
Listens == nse.state = "open"

\* nsm_server_read_msg: once it has begun on a message, NSM waits for the rest.
NsmReads ==
    /\ Listens /\ toNsm # <<>> /\ toNsm' = Tail(toNsm)
    /\ LET m   == Head(toNsm).msg
           all == [nse EXCEPT !.recv = <<>>]
       IN  IF Head(toNsm).part < Size
           THEN nse' = [nse EXCEPT !.recv = Append(@, Head(toNsm))] /\ UNCHANGED toDaemon
           ELSE CASE m.kind = "service" -> Send([all EXCEPT !.service = TRUE], m)
                  [] m.kind = "ask" -> Send(all, m)
                  [] OTHER -> nse' = all /\ UNCHANGED toDaemon
    /\ UNCHANGED <<alive, cli, told, asked, crashed>>

\* NSM dies, or drops the connection; what it has not written is gone.
NsmLeaves ==
    /\ nse.state \in {"backlog", "open"} /\ nse' = [NoEntry EXCEPT !.state = "gone"]
    /\ toNsm' = <<>> /\ alive' \in BOOLEAN
    /\ UNCHANGED <<toDaemon, cli, told, asked, crashed>>

NsmRestarts == ~alive /\ alive' = TRUE /\ UNCHANGED <<nse, toNsm, toDaemon, cli, told, asked, crashed>>

----------------------------------------------------------------------------
(* The daemon.                                                              *)

Idle == cli.run = "idle" /\ ~crashed

\* Messages put aside are looked at before anything else (thread_fetch).
MayRun == Idle /\ ~cli.t_pend

\* nsm_client_reconnect: connect, send the service request and wait for what comes.
Connect ==
    /\ MayRun /\ cli.t_connect /\ alive
    /\ cli' = [cli EXCEPT !.t_connect = FALSE, !.sock = TRUE, !.run = "read", !.op = "write",
                          !.out = Units([kind |-> "service", id |-> 0])]
    /\ nse' = [NoEntry EXCEPT !.state = "backlog"]
    /\ toNsm' = <<>> /\ toDaemon' = <<>>
    /\ UNCHANGED <<alive, told, asked, crashed>>

\* message_client_read.
TakeRead ==
    /\ MayRun /\ cli.t_read /\ (toDaemon # <<>> \/ nse.state = "gone")
    /\ cli' = [cli EXCEPT !.t_read = FALSE, !.run = "read", !.op = "body"]
    /\ UNCHANGED <<alive, nse, toNsm, toDaemon, told, asked, crashed>>

\* nsm_client_process_pending_msg, up to the callback of the first message.
TakePend ==
    /\ Idle /\ cli.t_pend
    /\ cli' = [cli EXCEPT !.t_pend = FALSE, !.run = IF cli.pend = <<>> THEN "idle" ELSE "pend"]
    /\ UNCHANGED <<alive, nse, toNsm, toDaemon, told, asked, crashed>>

\* A callback, or a timer of the daemon, sends NSM a message: one that is answered or
\* one that is not.  Off the connection this fails and changes nothing.
AskNsm(kind) ==
    /\ ~crashed /\ cli.sock /\ asked < Asks /\ asked' = asked + 1
    /\ \/ MayRun
       \/ cli.run # "idle" /\ cli.op = "go"
    /\ cli' = [cli EXCEPT !.run = IF @ = "idle" THEN "app" ELSE @, !.op = "write",
                          !.out = Units([kind |-> kind, id |-> asked']),
                          !.sync = IF kind = "ask" THEN asked' ELSE None]
    /\ UNCHANGED <<alive, nse, toNsm, toDaemon, told, crashed>>

\* writen, a unit at a time.
WriteUnit ==
    /\ cli.op = "write" /\ nse.state # "gone" /\ Len(toNsm) < Room
    /\ toNsm' = Append(toNsm, Head(cli.out))
    /\ cli' = [cli EXCEPT !.out = Tail(@),
                          !.op = CASE Len(cli.out) > 1 -> "write"
                                   [] Len(cli.out) = 1 /\ Head(cli.out).msg.kind = "tell" -> "go"
                                   [] OTHER -> "body"]
    /\ UNCHANGED <<alive, nse, toDaemon, told, asked, crashed>>

\* The connection is broken: the request fails, the service request is read for all
\* the same.
WriteFails ==
    /\ cli.op = "write" /\ nse.state = "gone"
    /\ cli' = [cli EXCEPT !.out = <<>>, !.sync = None,
                          !.op = IF Head(cli.out).msg.kind = "service" THEN "body" ELSE "go"]
    /\ UNCHANGED <<alive, nse, toNsm, toDaemon, told, asked, crashed>>

\* Message m has arrived: the answer waited for, one to put aside, or one to handle.
Received(m) ==
    CASE cli.sync = None -> [cli EXCEPT !.in = <<>>, !.op = "go"]
      [] cli.sync # None /\ m = [kind |-> "ask", id |-> cli.sync] ->
            [cli EXCEPT !.in = <<>>, !.op = "go", !.sync = None, !.t_pend = TRUE]
      [] OTHER -> [cli EXCEPT !.in = <<>>, !.pend = Append(@, m)]

\* nsm_client_read, a unit at a time; nsm_client_read_sync puts aside.
ReadUnit ==
    /\ cli.op = "body" /\ toDaemon # <<>> /\ toDaemon' = Tail(toDaemon)
    /\ cli' = IF Head(toDaemon).part < Size
              THEN [cli EXCEPT !.in = Append(@, Head(toDaemon))]
              ELSE Received(Head(toDaemon).msg)
    /\ UNCHANGED <<alive, nse, toNsm, told, asked, crashed>>

\* The end of the stream: message_client_disconnect, and the timer to reconnect.  A
\* callback that waited for an answer goes on.  A body of which some pieces came is
\* dropped here; the code handles it with the length its header says (nsm_client.c:149).
ReadEnd ==
    /\ cli.op = "body" /\ toDaemon = <<>> /\ nse.state = "gone"
    /\ cli' = [cli EXCEPT !.sock = FALSE, !.t_read = FALSE, !.t_pend = FALSE, !.t_connect = TRUE,
                          !.pend = <<>>, !.in = <<>>, !.op = "go", !.sync = None,
                          !.run = IF cli.sync = None THEN "idle" ELSE @]
    /\ nse' = NoEntry /\ UNCHANGED <<alive, toNsm, toDaemon, told, asked, crashed>>

\* One of several is looked at, and the others wait for the next request.
MorePendingOnce == cli.t_pend

\* Whether the thread for what was put aside is armed again.
MorePending == cli.t_pend \/ Len(cli.pend) > 1

\* The callback returns.  The one for a message put aside takes it off the list, which
\* a disconnect has freed with all it held.
Return ==
    /\ cli.run # "idle" /\ cli.op = "go" /\ ~crashed
    /\ crashed' = (cli.run = "pend" /\ cli.pend = <<>>)
    /\ cli' = CASE cli.run = "read" -> [cli EXCEPT !.run = "idle", !.t_read = cli.sock]
                [] cli.run = "app" -> [cli EXCEPT !.run = "idle"]
                [] cli.run = "pend" ->
                    [cli EXCEPT !.run = "idle", !.pend = SubSeq(@, 2, Len(@)),
                                !.t_pend = MorePending]
    /\ UNCHANGED <<alive, nse, toNsm, toDaemon, told, asked>>

----------------------------------------------------------------------------

NsmStep == Accept \/ Announce \/ Dequeue \/ NsmReads

ClientStep ==
    Connect \/ TakeRead \/ TakePend \/ WriteUnit \/ WriteFails \/ ReadUnit \/ ReadEnd \/ Return

RequestStep == AskNsm("tell") \/ AskNsm("ask")

FaultStep == NsmLeaves \/ NsmRestarts

Next == NsmStep \/ ClientStep \/ RequestStep \/ FaultStep

Spec == Init /\ [][Next]_vars

\* Both loops run, and so does NSM in the end; the daemon need not ask anything.
Fairness == WF_vars(ClientStep) /\ WF_vars(Accept \/ NsmReads) /\ WF_vars(Dequeue) /\ WF_vars(NsmRestarts)

----------------------------------------------------------------------------
(* Properties.                                                              *)

\* Those of s that are in T, in order: SelectSeq as a recursive function, for the proofs.
With(q, e, T) == IF e \in T THEN Append(q, e) ELSE q
Those(s, T) ==
    LET among[i \in 0..Len(s)] == IF i = 0 THEN <<>> ELSE With(among[i - 1], s[i], T)
    IN  among[Len(s)]

\* What the units or entries of s are about.
Messages(s) == [i \in 1..Len(s) |-> s[i].msg]

\* The messages of which units are on their way to the daemon, and after them those
\* that NSM has queued whole.
Begun(units) == Messages(Those(units, [msg : Message, part : {1}]))
Waiting == Messages(Those(nse.queue, [msg : Message, written : {0}]))

\* Put aside, and not being handled.
Aside == IF cli.run = "pend" THEN SubSeq(cli.pend, 2, Len(cli.pend)) ELSE cli.pend

Unhandled == Those(Aside \o Begun(cli.in \o toDaemon) \o Waiting, [kind : {"note"}, id : Nat])

\* A daemon that reads on may still find what NSM wrote before it left.
Link == CASE ~cli.sock -> "down" [] cli.sock /\ nse.state = "gone" -> "closing" [] OTHER -> "up"

\* The daemon handles what NSM announces in order, once, and until the connection is
\* cut, though short writes leave messages in three queues and requests put them
\* into a fourth (nsm_server_send_message, nsm_server_dequeue,
\* nsm_client_read_sync, nsm_client_process_pending_msg).
Promised == INSTANCE NsmDelivery WITH
    Note <- [kind : {"note"}, id : 1..Notes],
    link <- Link,
    fifo <- Unhandled
InOrder == Promised!Spec

\* Whatever each side has of a stream, the units of a message follow one another, and
\* the first that waits is the rest of the last that was begun: no reader takes a
\* part of one message for the header of another.
Framed ==
    LET s == cli.in \o toDaemon
        t == nse.recv \o toNsm
        Follows(u, v) == IF u.part = Size THEN v.part = 1 ELSE v = [u EXCEPT !.part = @ + 1]
    IN  /\ \A i \in 1..(Len(s) - 1) : Follows(s[i], s[i + 1])
        /\ \A i \in 1..(Len(t) - 1) : Follows(t[i], t[i + 1])
        /\ nse.state = "open" /\ s # <<>> /\ s[Len(s)].part < Size =>
                nse.queue # <<>> /\ Head(nse.queue) = [msg |-> s[Len(s)].msg, written |-> s[Len(s)].part]

\* A daemon that waits for an answer gets it or loses the connection, however full
\* the streams are in both directions: neither waits for the other for ever.
RequestsEnd == cli.sync # None ~> cli.sync = None

\* When NSM stays, the daemon ends registered with it and everything announced on the
\* connection is handled.
Settles == <>[](~crashed => cli.sock /\ nse.service /\ Unhandled = <<>>)
=============================================================================
