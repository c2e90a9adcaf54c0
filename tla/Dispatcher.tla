----------------------------- MODULE Dispatcher -----------------------------
(***************************************************************************)
(* What a daemon's event loop promises to its client code, whatever lists   *)
(* lib/thread.c keeps: callbacks run one at a time; each runs once for each  *)
(* time it was armed, a timer never before its time, and none after it was  *)
(* taken back or the object it works on was destroyed.                      *)
(***************************************************************************)
EXTENDS Naturals

CONSTANTS
    Callback,       \* what client code arms: a function, its argument, a pointer
    Object,         \* the arguments
    Arg,            \* the argument of each callback
    Timer, Delays,  \* the callbacks armed with a delay, and the delays
    Main, Nobody    \* who runs besides a callback: the start-up code, nobody

VARIABLES
    armed,          \* how many times each callback is armed
    left,           \* ticks until a timer is due
    objects,        \* the objects that exist
    running         \* the callback that runs

vars == <<armed, left, objects, running>>

Init ==
    /\ armed = [c \in Callback |-> 0]
    /\ left = [c \in Callback |-> 0]
    /\ objects = Object
    /\ running = Main

\* Client code, called by nobody but the loop.
Calls == running # Nobody /\ UNCHANGED running

Arm(c, d) ==
    /\ Calls /\ Arg[c] \in objects
    /\ c \in Timer => armed[c] = 0
    /\ c \notin Timer => d = 0
    /\ armed' = [armed EXCEPT ![c] = @ + 1]
    /\ left' = [left EXCEPT ![c] = d]
    /\ UNCHANGED objects

Disarm(c) ==
    /\ Calls /\ armed[c] > 0
    /\ armed' = [armed EXCEPT ![c] = @ - 1]
    /\ left' = [left EXCEPT ![c] = 0]
    /\ UNCHANGED objects

Create(o) ==
    /\ Calls /\ o \notin objects
    /\ objects' = objects \cup {o}
    /\ UNCHANGED <<armed, left>>

Destroy(o) ==
    /\ Calls /\ o \in objects
    /\ objects' = objects \ {o}
    /\ armed' = [c \in Callback |-> IF Arg[c] = o THEN 0 ELSE armed[c]]
    /\ left' = [c \in Callback |-> IF Arg[c] = o THEN 0 ELSE left[c]]

Run(c) ==
    /\ running = Nobody /\ armed[c] > 0 /\ left[c] = 0
    /\ armed' = [armed EXCEPT ![c] = @ - 1]
    /\ running' = c
    /\ UNCHANGED <<left, objects>>

Return ==
    /\ running # Nobody /\ running' = Nobody
    /\ UNCHANGED <<armed, left, objects>>

Pass ==
    /\ left' = [c \in Callback |-> IF left[c] > 0 THEN left[c] - 1 ELSE 0]
    /\ UNCHANGED <<armed, objects, running>>

Next ==
    \/ \E c \in Callback : (\E d \in Delays \cup {0} : Arm(c, d)) \/ Disarm(c) \/ Run(c)
    \/ \E o \in Object : Create(o) \/ Destroy(o)
    \/ Return \/ Pass

Spec == Init /\ [][Next]_vars
=============================================================================
