------------------------------- MODULE Stream -------------------------------
(***************************************************************************)
(* What a capture promises of its packets, whatever buffer lies between    *)
(* the kernel and the program: they form a queue.  A packet carries the    *)
(* number of its arrival, so the order of the queue is that of the numbers *)
(* in it.  A packet enters after all others; the program is shown the      *)
(* oldest, or some are discarded from the oldest on (jni/pcap/pcap-linux.c,*)
(* the read operations).                                                   *)
(***************************************************************************)
EXTENDS Integers

CONSTANT Packets   \* the numbers that packets carry, in the order of their arrival

VARIABLES
    queue,   \* packets that have not been looked at
    seen     \* the packet that was looked at last, 0 at first

Init == queue = {} /\ seen = 0

After(p) == {q \in queue : p < q}

Enter == \E p \in Packets : seen < p /\ After(p) = {} /\ p \notin queue /\ queue' = queue \cup {p}
Discard == \E p \in queue : queue' = After(p)
Show == \E p \in queue : queue = {p} \cup After(p) /\ seen' = p /\ queue' = After(p)

Next ==
    \/ seen' = seen /\ (Enter \/ Discard)
    \/ seen' # seen /\ Show
Spec == Init /\ [][Next]_<<queue, seen>>
=============================================================================
