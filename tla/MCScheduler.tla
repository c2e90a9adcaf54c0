----------------------------- MODULE MCScheduler -----------------------------
(***************************************************************************)
(* Instances of Scheduler for TLC: the callbacks of a small daemon.         *)
(***************************************************************************)
EXTENDS Scheduler

\* Two timers, a reader and a writer of one socket, events of two objects with
\* and without a pointer, a message put aside, an event of low priority.
Kinds ==
    [t1 |-> "TIMER", t2 |-> "TIMER", rd |-> "READ", rh |-> "READ_HIGH", wr |-> "WRITE",
     ev |-> "EVENT", oe |-> "EVENT", lo |-> "EVENT_LOW", pd |-> "READ_PEND"]

KindOf == [c \in Callback |-> Kinds[c]]
FdOf == [c \in Callback |-> IF c = "rh" THEN 2 ELSE 1]
ArgOf == [c \in Callback |-> IF c \in {"t1", "t2"} THEN "link" ELSE "nbr"]
KeptOf == Callback \ {"oe"}
=============================================================================
