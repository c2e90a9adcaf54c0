------------------------------ MODULE Scheduler ------------------------------
(***************************************************************************)
(* The event loop every daemon runs (lib/thread.c): the lists of threads -   *)
(* here records of a callback to come, not threads of execution - the calls  *)
(* client code makes on them, and thread_fetch.                             *)
(*                                                                         *)
(* Client code keeps a pointer to a thread it armed and clears it in three   *)
(* places: when the callback starts to run, when THREAD_OFF cancels it, and  *)
(* when the object it belongs to goes away.  The pointers and the objects    *)
(* are part of the model, the rest of a callback is any sequence of calls.   *)
(* A tick is the unit of the delays; the times a timer is due count down     *)
(* from its delay and stay at zero.                                         *)
(***************************************************************************)
EXTENDS Integers, FiniteSets, SequencesExt

CONSTANTS
    Callback,       \* what client code arms
    Kind,           \* the type of thread each is armed as
    Fd,             \* the descriptor each waits for, if it does
    Object, Arg,    \* the arguments of the callbacks
    Kept,           \* the callbacks whose thread client code keeps a pointer to
    Main, Nobody,   \* who runs besides a callback
    NoThread,       \* the NULL pointer
    Delays,         \* the delays timers are armed with
    TimerSlots,     \* THREAD_TIMER_SLOT
    MaxThreads      \* bound: the threads memory has room for

Waiting == [READ |-> "read", READ_HIGH |-> "read_high", WRITE |-> "write", TIMER |-> "timer",
            EVENT |-> "event", EVENT_LOW |-> "event_low", READ_PEND |-> "read_pend"]
Queue == [HIGH |-> "queue_high", MIDDLE |-> "queue_middle", LOW |-> "queue_low"]

Reads(c) == Kind[c] \in {"READ", "READ_HIGH"}
Thread == 1..MaxThreads
Slot == 1..TimerSlots

\* Two callbacks never read the same descriptor.  Events alone are armed without
\* a pointer; another callback armed so is as one that is never turned off.
ASSUME ClientAssumption ==
    /\ Callback # {} /\ Kept \subseteq Callback
    /\ Kind \in [Callback -> DOMAIN Waiting] /\ Arg \in [Callback -> Object]
    /\ \A c \in Callback \ Kept : Kind[c] = "EVENT"
    /\ \A c, e \in Callback : Reads(c) /\ Reads(e) /\ Fd[c] = Fd[e] => c = e
    /\ NoThread \notin Thread /\ Main \notin Callback /\ Nobody \notin Callback
    /\ Main # Nobody /\ Delays \subseteq Nat /\ TimerSlots \in Nat \ {0} /\ MaxThreads \in Nat

VARIABLES
    list,           \* the lists of the thread master, but for the timers
    timer,          \* a list of timers per slot
    thread,         \* the threads
    index,          \* the slot of the next timer
    alloc,          \* how many threads were allocated
    readfd, writefd,\* the descriptors select watches
    ref,            \* external: client code's pointers
    objects,        \* external: the objects that exist
    running,        \* external: the callback that runs
    timeout         \* how long select sleeps, while it does

master == <<list, timer, thread, index, alloc, readfd, writefd>>
vars == <<master, ref, objects, running, timeout>>

State == [list |-> list, timer |-> timer, thread |-> thread, index |-> index,
          alloc |-> alloc, readfd |-> readfd, writefd |-> writefd]

Becomes(s) ==
    /\ list' = s.list /\ timer' = s.timer /\ thread' = s.thread /\ index' = s.index
    /\ alloc' = s.alloc /\ readfd' = s.readfd /\ writefd' = s.writefd

\* How long select sleeps: no select is under way; it has no limit.
Awake == -1
Forever == -2

\* What a thread out of use still holds is never read again.
Unused == [type |-> "UNUSED", priority |-> "HIGH", slot |-> 1, left |-> 0,
           callback |-> CHOOSE c \in Callback : TRUE]

ListName ==
    {Waiting[k] : k \in DOMAIN Waiting \ {"TIMER"}} \cup {Queue[p] : p \in DOMAIN Queue} \cup {"unuse"}

\* The master is created and client code starts up.
Init ==
    /\ list = [l \in ListName |-> <<>>]
    /\ timer = [i \in Slot |-> <<>>]
    /\ thread = [t \in Thread |-> Unused]
    /\ index = 1 /\ alloc = 0 /\ readfd = {} /\ writefd = {}
    /\ ref = [c \in Kept |-> NoThread]
    /\ objects = Object /\ running = Main /\ timeout = Awake

----------------------------------------------------------------------------
(* Adding a thread.                                                        *)

\* thread_get takes the oldest thread out of use, or allocates one.
Exhausted(s) == s.list["unuse"] = <<>> /\ s.alloc = MaxThreads
Fresh(s) == IF s.list["unuse"] # <<>> THEN Head(s.list["unuse"]) ELSE s.alloc + 1

ThreadGet(s, c, delay) ==
    LET r == [Unused EXCEPT !.type = Kind[c], !.callback = c, !.left = delay] IN
    IF s.list["unuse"] # <<>>
    THEN [s EXCEPT !.list["unuse"] = Tail(@), !.thread[Fresh(s)] = r]
    ELSE [s EXCEPT !.alloc = @ + 1, !.thread[Fresh(s)] = r]

\* Mutant: timers in the order they were armed.
InsertTimerLast(s, q, t) == Append(q, t)

\* After the last of the timers that are due no later.
InsertTimer(s, q, t) ==
    LET earlier == {i \in 1..Len(q) : s.thread[q[i]].left <= s.thread[t].left}
        at == IF earlier = {} THEN 1 ELSE Max(earlier) + 1
    IN  InsertAt(q, at, t)

\* Mutant: the slot index does not turn over.
AddTimerOnward(s, t) ==
    [s EXCEPT !.thread[t].slot = s.index, !.timer[s.index] = InsertTimer(s, @, t),
              !.index = @ + 1]

AddTimerCommon(s, t) ==
    [s EXCEPT !.thread[t].slot = s.index,
              !.timer[s.index] = InsertTimer(s, @, t),
              !.index = (@ % TimerSlots) + 1]

\* thread_add_write refuses a descriptor that is watched already.
Refused(s, c) == Exhausted(s) \/ (Kind[c] = "WRITE" /\ Fd[c] \in s.writefd)

ThreadAdd(s, c, delay) ==
    LET t == Fresh(s)
        g == ThreadGet(s, c, delay)
    IN  CASE Kind[c] = "TIMER" -> AddTimerCommon(g, t)
          [] Reads(c) -> [g EXCEPT !.readfd = @ \cup {Fd[c]},
                                   !.list[Waiting[Kind[c]]] = Append(@, t)]
          [] Kind[c] = "WRITE" -> [g EXCEPT !.writefd = @ \cup {Fd[c]},
                                            !.list["write"] = Append(@, t)]
          [] OTHER -> [g EXCEPT !.list[Waiting[Kind[c]]] = Append(@, t)]

----------------------------------------------------------------------------
(* Cancelling.                                                             *)

AddUnuse(s, t) == [s EXCEPT !.thread[t] = Unused, !.list["unuse"] = Append(@, t)]

\* Mutant: a thread that is queued is not looked for in its queue.
UnlinkWaiting(s, t) ==
    LET r == s.thread[t] IN
    CASE r.type \in {"UNUSED", "QUEUE"} -> s
      [] r.type = "TIMER" -> [s EXCEPT !.timer[r.slot] = RemoveFirst(@, t)]
      [] OTHER -> [s EXCEPT !.list[Waiting[r.type]] = RemoveFirst(@, t)]

\* A thread leaves the list its type, priority and slot name: the one thread_fetch
\* walks when it takes a thread from a list, since ListedOnce holds.
Unlink(s, t) ==
    LET r == s.thread[t] IN
    CASE r.type = "UNUSED" -> s
      [] r.type = "TIMER" -> [s EXCEPT !.timer[r.slot] = RemoveFirst(@, t)]
      [] r.type = "QUEUE" -> [s EXCEPT !.list[Queue[r.priority]] = RemoveFirst(@, t)]
      [] OTHER -> [s EXCEPT !.list[Waiting[r.type]] = RemoveFirst(@, t)]

\* Mutant: readers of high priority are forgotten.
UnwatchNormal(s, t) ==
    LET r == s.thread[t] IN
    CASE r.type = "READ" -> [s EXCEPT !.readfd = @ \ {Fd[r.callback]}]
      [] r.type = "WRITE" -> [s EXCEPT !.writefd = @ \ {Fd[r.callback]}]
      [] OTHER -> s

Unwatch(s, t) ==
    LET r == s.thread[t] IN
    CASE r.type \in {"READ", "READ_HIGH"} -> [s EXCEPT !.readfd = @ \ {Fd[r.callback]}]
      [] r.type = "WRITE" -> [s EXCEPT !.writefd = @ \ {Fd[r.callback]}]
      [] OTHER -> s

ThreadCancel(s, t) == AddUnuse(Unwatch(Unlink(s, t), t), t)

\* Do for each element of q in turn: FoldLeft, as a recursive function.
ForEach(Do(_, _), s, q) ==
    LET after[i \in 0..Len(q)] == IF i = 0 THEN s ELSE Do(after[i - 1], q[i])
    IN  after[Len(q)]

CancelOf(s, t, o) == IF Arg[s.thread[t].callback] = o THEN ThreadCancel(s, t) ELSE s

\* Mutant: only the events that wait, not those that are queued.
CancelWaitingEvent(s, o) ==
    LET cancel(m, t) == CancelOf(m, t, o) IN ForEach(cancel, s, s.list["event"])

\* Whatever is armed for object o in the lists thread_cancel_event searches.
CancelEvent(s, o) ==
    LET cancel(m, t) == CancelOf(m, t, o)
    IN  ForEach(cancel, s, s.list["event"] \o s.list["queue_high"])

----------------------------------------------------------------------------
(* Calls of client code, which runs in a callback or at start-up.          *)

Calls == running # Nobody /\ UNCHANGED <<running, timeout>>

\* THREAD_TIMER_ON and its like.  When the thread is refused nothing changes.
On(c, delay) ==
    /\ Calls /\ Arg[c] \in objects
    /\ c \in Kept => ref[c] = NoThread
    /\ Kind[c] # "TIMER" => delay = 0
    /\ ~Refused(State, c)
    /\ Becomes(ThreadAdd(State, c, delay))
    /\ ref' = [e \in Kept |-> IF e = c THEN Fresh(State) ELSE ref[e]]
    /\ UNCHANGED objects

\* Mutant: the pointer is not cleared.
OffDangling(c) ==
    /\ Calls /\ c \in Kept /\ ref[c] # NoThread
    /\ Becomes(ThreadCancel(State, ref[c]))
    /\ UNCHANGED <<ref, objects>>

\* THREAD_OFF.
Off(c) ==
    /\ Calls /\ c \in Kept /\ ref[c] # NoThread
    /\ Becomes(ThreadCancel(State, ref[c]))
    /\ ref' = [ref EXCEPT ![c] = NoThread]
    /\ UNCHANGED objects

Create(o) ==
    /\ Calls /\ o \notin objects
    /\ objects' = objects \cup {o} /\ UNCHANGED <<master, ref>>

\* Client code frees an object: every timer and descriptor it keeps a pointer to
\* goes off, then all its events are cancelled.
Destroy(o) ==
    LET off == {c \in Kept : Arg[c] = o /\ Kind[c] # "EVENT" /\ ref[c] # NoThread}
        without == ForEach(ThreadCancel, State, SetToSeq({ref[c] : c \in off}))
    IN  /\ Calls /\ o \in objects
        /\ objects' = objects \ {o}
        /\ Becomes(CancelEvent(without, o))
        /\ ref' = [c \in Kept |-> IF Arg[c] = o THEN NoThread ELSE ref[c]]

Return ==
    /\ running # Nobody /\ running' = Nobody
    /\ UNCHANGED <<master, ref, objects, timeout>>

----------------------------------------------------------------------------
(* thread_fetch.                                                           *)

Ready == <<"read_pend", "queue_high", "queue_middle", "queue_low">>

\* The first thread of the first list that has one: out of use before its
\* callback runs, which clears its pointer first of all.
FetchFrom(s, l) == LET t == Head(s.list[l]) IN AddUnuse(Unlink(s, t), t)

Fetch ==
    /\ running = Nobody /\ timeout = Awake
    /\ \E i \in DOMAIN Ready :
        LET c == thread[Head(list[Ready[i]])].callback IN
        /\ list[Ready[i]] # <<>> /\ \A j \in 1..(i - 1) : list[Ready[j]] = <<>>
        /\ Becomes(FetchFrom(State, Ready[i]))
        /\ running' = c
        /\ ref' = [e \in Kept |-> IF e = c THEN NoThread ELSE ref[e]]
    /\ UNCHANGED <<objects, timeout>>

\* Mutant: the loop collects events while those of low priority are queued.
IdleButLow ==
    running = Nobody /\ timeout = Awake /\ \A i \in 1..3 : list[Ready[i]] = <<>>

Idle == running = Nobody /\ timeout = Awake /\ \A i \in DOMAIN Ready : list[Ready[i]] = <<>>

\* A thread moves from the list it is in to the end of a queue.
Enqueue(s, t, priority) ==
    [Unlink(s, t) EXCEPT
        !.list[Queue[priority]] = Append(@, t),
        !.thread[t] = [Unused EXCEPT !.type = "QUEUE", !.priority = priority,
                                     !.callback = s.thread[t].callback]]

EnqueueHigh(s, t) == Enqueue(s, t, "HIGH")
EnqueueMiddle(s, t) == Enqueue(s, t, "MIDDLE")

\* The timers of a slot that are due: those before the first that is not.
Due(s, i) ==
    LET q == s.timer[i]
        due == {n \in 1..Len(q) : \A j \in 1..n : s.thread[q[j]].left = 0}
    IN  SubSeq(q, 1, Cardinality(due))

Expire(s, i) == ForEach(EnqueueMiddle, s, Due(s, i))

\* Events, then the timers of each slot.
CollectInto(s) ==
    LET high == ForEach(EnqueueHigh, s, s.list["event"])
    IN  ForEach(Expire, high, [i \in Slot |-> i])

\* Mutant: the first slot alone.
TimerWaitFirst(s) ==
    IF s.timer[1] = <<>> THEN Forever ELSE s.thread[Head(s.timer[1])].left

\* thread_timer_wait: the time to the first timer of the slots' first.
TimerWait(s) ==
    LET heads == {Head(s.timer[i]) : i \in {j \in Slot : s.timer[j] # <<>>}} IN
    IF heads = {} THEN Forever ELSE Min({s.thread[t].left : t \in heads})

\* The loop collects what may run and enters select.
Collect ==
    LET s == CollectInto(State) IN
    /\ Idle
    /\ Becomes(s)
    /\ timeout' = IF \E p \in DOMAIN Queue : s.list[Queue[p]] # <<>> THEN 0 ELSE TimerWait(s)
    /\ UNCHANGED <<ref, objects, running>>

\* A thread whose descriptor is ready is queued, and select no longer watches it.
TakeReady(s, t, ready) ==
    IF Fd[s.thread[t].callback] \in ready THEN EnqueueMiddle(Unwatch(s, t), t) ELSE s

ProcessFd(s, l, ready) ==
    LET take(m, t) == TakeReady(m, t, ready) IN ForEach(take, s, s.list[l])

\* One event of low priority joins at the end of a round.
LowEvent(s) ==
    IF s.list["event_low"] = <<>> THEN s ELSE Enqueue(s, Head(s.list["event_low"]), "LOW")

\* Select returns: its time is over, or some descriptors are ready.
Select(r, w) ==
    /\ timeout # Awake /\ (timeout = 0 \/ r \cup w # {})
    /\ timeout' = Awake
    /\ Becomes(LowEvent(ProcessFd(ProcessFd(ProcessFd(State,
                    "read_high", r), "read", r), "write", w)))
    /\ UNCHANGED <<ref, objects, running>>

\* A signal interrupts select, and the round ends.
Interrupt ==
    /\ timeout # Awake /\ timeout' = Awake
    /\ UNCHANGED <<master, ref, objects, running>>

\* Time passes: select does not sleep longer than it was told to.
Tick ==
    /\ timeout # 0
    /\ thread' = [t \in Thread |-> [thread[t] EXCEPT !.left = IF @ > 0 THEN @ - 1 ELSE 0]]
    /\ timeout' = IF timeout > 0 THEN timeout - 1 ELSE timeout
    /\ UNCHANGED <<list, timer, index, alloc, readfd, writefd, ref, objects, running>>

----------------------------------------------------------------------------

ClientStep ==
    \/ \E c \in Callback : Off(c) \/ \E delay \in Delays \cup {0} : On(c, delay)
    \/ \E o \in Object : Create(o) \/ Destroy(o)

SelectReturns == \E r \in SUBSET readfd, w \in SUBSET writefd : Select(r, w)

Next == ClientStep \/ Return \/ Fetch \/ Collect \/ SelectReturns \/ Interrupt \/ Tick

Spec == Init /\ [][Next]_vars

\* Callbacks return, the loop goes on, time passes, select is not interrupted
\* for ever; and the loop finds no message put aside now and then, since
\* nsm_client_process_pending_msg arms itself again only while it has more.
Fairness ==
    /\ WF_vars(Return) /\ WF_vars(Fetch) /\ WF_vars(Collect)
    /\ SF_vars(timeout = 0 /\ SelectReturns) /\ SF_vars(Tick)
    /\ []<>(running = Nobody /\ list["read_pend"] = <<>>)

FairSpec == Spec /\ Fairness

----------------------------------------------------------------------------
(* Properties.                                                             *)

LiveThread == {t \in Thread : thread[t].type # "UNUSED"}

ThreadRecord ==
    [type: DOMAIN Waiting \cup {"QUEUE", "UNUSED"}, priority: DOMAIN Queue, slot: Slot,
     left: Nat, callback: Callback]

\* Every variable has its type.
TypeOK ==
    /\ list \in [ListName -> Seq(Thread)]
    /\ timer \in [Slot -> Seq(Thread)]
    /\ thread \in [Thread -> ThreadRecord]
    /\ index \in Slot /\ alloc \in 0..MaxThreads
    /\ readfd \cup writefd \subseteq {Fd[c] : c \in Callback}
    /\ ref \in [Kept -> Thread \cup {NoThread}] /\ objects \subseteq Object
    /\ running \in Callback \cup {Main, Nobody}
    /\ timeout \in Nat \cup {Awake, Forever}

\* The list a thread is in, by its own account.
Home(r) ==
    CASE r.type = "UNUSED" -> "unuse"
      [] r.type = "QUEUE" -> Queue[r.priority]
      [] OTHER -> Waiting[r.type]

\* Every thread that was allocated is in one list, once: the one its type,
\* priority and slot name, where thread_cancel will look for it.  None is lost
\* and none is in two lists, however it was armed, queued, run or cancelled.
ListedOnce ==
    /\ \A t \in 1..alloc :
            LET r == thread[t] IN Contains(IF r.type = "TIMER" THEN timer[r.slot] ELSE list[Home(r)], t)
    /\ \A l \in ListName : IsInjective(list[l]) /\ \A t \in ToSet(list[l]) :
            t <= alloc /\ Home(thread[t]) = l
    /\ \A i \in Slot : IsInjective(timer[i]) /\ \A t \in ToSet(timer[i]) :
            t <= alloc /\ thread[t].type = "TIMER" /\ thread[t].slot = i

\* Client code's pointers and the threads agree: a pointer is to a thread in
\* use that was armed for it, and no such thread is without its pointer, so
\* that THREAD_OFF never cancels what another client armed.
RefsLive ==
    /\ \A c \in Kept : ref[c] # NoThread =>
            ref[c] \in LiveThread /\ thread[ref[c]].callback = c
    /\ \A t \in LiveThread : thread[t].callback \in Kept => ref[thread[t].callback] = t

\* Select watches the descriptors somebody waits for and no other: the callback
\* of one it forgets never runs, one it watches for nobody keeps it from
\* sleeping.
Watched ==
    LET fds(l) == {Fd[thread[t].callback] : t \in ToSet(list[l])} IN
    readfd = fds("read") \cup fds("read_high") /\ writefd = fds("write")

\* Select never sleeps past the time any timer is due, whatever slot and place
\* the timer is in (thread_add_timer_common, thread_timer_wait).
NeverOversleeps ==
    timeout # Awake => \A t \in Thread :
        thread[t].type = "TIMER" => timeout # Forever /\ timeout <= thread[t].left

\* The threads that will run before t, which is ready.
Ahead(t) ==
    LET q == list["queue_high"] \o list["queue_middle"] \o list["queue_low"]
        place == SelectInSeq(q, LAMBDA x : x = t)
    IN  {q[i] : i \in 1..(place - 1)}

\* Once a thread is ready nothing that becomes ready later runs before it,
\* but for messages put aside: events cannot keep timers and descriptors
\* waiting, nor these the events of low priority.
NoOvertaking ==
    [][\A t \in LiveThread :
        thread[t].type = "QUEUE" /\ thread'[t] = thread[t] => Ahead(t)' \subseteq Ahead(t)]_vars

\* The promise to client code.
Promise ==
    INSTANCE Dispatcher WITH
        Timer <- {c \in Callback : Kind[c] = "TIMER"},
        armed <- [c \in Callback |-> Cardinality({t \in LiveThread : thread[t].callback = c})],
        left <- [c \in Callback |->
                    IF c \in Kept /\ ref[c] # NoThread THEN thread[ref[c]].left ELSE 0]
KeepsPromise == Promise!Spec

\* A timer that was armed, an event, a message put aside and whatever is ready
\* to run is run in the end, or cancelled.
Served ==
    \A t \in Thread :
        thread[t].type \in {"TIMER", "EVENT", "READ_PEND", "QUEUE"}
        ~> thread[t].type \notin {"TIMER", "EVENT", "READ_PEND", "QUEUE"}
=============================================================================
