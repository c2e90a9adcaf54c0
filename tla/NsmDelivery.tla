----------------------------- MODULE NsmDelivery -----------------------------
(***************************************************************************)
(* What a daemon may rely on of its connection to NSM: it handles what NSM   *)
(* announces in the order announced, each once, until the connection is cut, *)
(* and nothing of one connection after the next has begun.                   *)
(***************************************************************************)
EXTENDS Naturals, Sequences

CONSTANT Note            \* what NSM may announce

VARIABLES link,          \* "down", "up", or "closing" when NSM has left
          fifo           \* announced and not yet handled

vars == <<link, fifo>>

Init == link = "down" /\ fifo = <<>>

Open == link = "down" /\ link' = "up" /\ fifo' = <<>>

Announce(n) == link = "up" /\ fifo' = Append(fifo, n) /\ UNCHANGED link

Handle == fifo # <<>> /\ fifo' = Tail(fifo) /\ UNCHANGED link

\* NSM leaves: what it still held is lost.
Leave ==
    /\ link = "up" /\ link' = "closing"
    /\ \E n \in 0..Len(fifo) : fifo' = SubSeq(fifo, 1, n)

Cut == link # "down" /\ link' = "down" /\ fifo' = <<>>

Next == Open \/ (\E n \in Note : Announce(n)) \/ Handle \/ Leave \/ Cut

Spec == Init /\ [][Next]_vars
=============================================================================
