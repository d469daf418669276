----------------------------- MODULE MCCapture ------------------------------
(* Handles, filters and packets for the checks of Capture. *)
EXTENDS Capture

Packet(type, pay, vlan) ==
    [id |-> 0, type |-> type, pay |-> pay, len |-> 20, vlan |-> vlan, bad |-> FALSE, snaplen |-> 0]
In == Packet(0, 0, FALSE)
Out == Packet(4, 1, TRUE)
Filter(k, v, len) == [k |-> k, v |-> v, ret |-> 18, len |-> len]

\* of the filters, the second of each kind works in the program only: it is too long for the
\* kernel, or looks at a field of the cooked header that the kernel does not have
Handle(mode, cooked, timeout, traffic, ops) ==
    [mode |-> mode, cooked |-> cooked, lo |-> FALSE, timeout |-> timeout, snapshot |-> 18, traffic |-> traffic, ops |-> ops,
     calls |-> IF "setfilter" \in ops THEN 3 ELSE 2,
     filters |-> IF cooked THEN {Filter(16, 0, 2), Filter(2, 1, 2)} ELSE {Filter(0, 1, 2), Filter(0, 0, 9)}]

Setting == {"setfilter", "dispatch"}
Looping == {"loop", "next", "breakloop"}
Fill == Packet(9, 0, FALSE)
Bad == [In EXCEPT !.bad = TRUE]
Other == {"dispatch", "stats", "inject", "setdirection", "setnonblock"}

\* filters change, loops are broken off, and the other calls, with each way to read
MCHandles ==
    {Handle("sock", c, 0, {In, Out}, Setting) : c \in BOOLEAN}
    \cup {Handle(m, FALSE, 1, {In, Out}, Setting) : m \in {"v1", "v3"}}
    \cup {Handle("v2", TRUE, 1, {In, Out}, Setting)}
    \cup {Handle(m, FALSE, t, {In}, Looping) : m \in {"v2", "v3"}, t \in {0, 1}}
    \cup {Handle("sock", FALSE, 0, {In}, Looping \cup {"setnonblock"}),
          Handle("v1", FALSE, 1, {In, [In EXCEPT !.bad = TRUE]}, Looping),
          Handle("v3", FALSE, 1, {[In EXCEPT !.bad = TRUE]}, Looping)}
    \cup {Handle(m, FALSE, 0, {In, Out}, Other) : m \in {"sock", "v2"}}
    \cup {[Handle(m, FALSE, 0, {In, Packet(4, 1, FALSE)}, Setting \cup {"breakloop", "setnonblock"}) EXCEPT
               !.snapshot = 60, !.calls = 2] : m \in {"text", "bin", "mapped", "can"}}
    \cup {[Handle("mapped", FALSE, 0, {In, Fill}, {"loop", "setnonblock"}) EXCEPT !.snapshot = 60],
          [Handle("text", FALSE, 0, {In, Packet(4, 1, FALSE), Bad}, {"loop", "setdirection", "stats"}) EXCEPT
               !.snapshot = 60]}
    \cup {[Handle(m, FALSE, 0, {In, Bad, Packet(0, 1, FALSE)}, Setting \cup {"loop", "breakloop", "stats"}) EXCEPT
               !.calls = 2] : m \in {"nflog", "nfqueue"}}
    \cup {Handle(m, FALSE, 0, {In}, {"dispatch", "setdirection", "setnonblock", "stats"}) :
               m \in {"bin", "can", "nflog"}}
    \cup {[Handle("v3", FALSE, 1, {In, Out}, Other) EXCEPT !.lo = TRUE]}

MCCPUs == [m \in {g.mode : g \in MCHandles} |-> IF m \in {"v1", "v2"} THEN 1 ELSE 0]
=============================================================================
