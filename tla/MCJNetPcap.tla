---------------------------- MODULE MCJNetPcap ----------------------------
(* Instances of JNetPcap for TLC. *)
EXTENDS JNetPcap

MCPcaps == 1..1
MCViews == {1}
Aligned == <<8, 16>>
Odd == <<5>>
Interchangeable == Permutations(Packets) \union Permutations(Blocks)
MCCounts == {-1, 1}

\* A running Ethernet card with two addresses, an alias of it, one without a
\* carrier, one that is down, a loopback, a point-to-point and a dummy interface.
Eth0 == [name |-> <<"eth", 0>>, unit |-> 0, up |-> TRUE, running |-> TRUE, loopback |-> FALSE,
         broadcast |-> TRUE, ptp |-> FALSE, dummy |-> FALSE, alias |-> FALSE,
         unbound |-> FALSE, addrs |-> <<"a", "b">>, trouble |-> "no"]
Alias == [Eth0 EXCEPT !.name = <<"eth", 0, 1>>, !.unit = 1, !.alias = TRUE, !.addrs = <<"c">>]
Eth1 == [Eth0 EXCEPT !.name = <<"eth", 1>>, !.unit = 1, !.running = FALSE, !.addrs = <<>>]
Eth2 == [Eth0 EXCEPT !.name = <<"eth", 2>>, !.unit = 2, !.up = FALSE, !.running = FALSE, !.addrs = <<"d">>]
Lo == [Eth0 EXCEPT !.name = <<"lo">>, !.loopback = TRUE, !.broadcast = FALSE, !.addrs = <<"e">>]
Ppp == [Eth0 EXCEPT !.name = <<"ppp", 3>>, !.unit = 3, !.broadcast = FALSE, !.ptp = TRUE, !.addrs = <<"f">>]
Dummy == [Eth0 EXCEPT !.name = <<"dummy", 0>>, !.dummy = TRUE, !.addrs = <<"g">>]
Cards == {Eth0, Alias, Eth1, Eth2, Lo, Ppp, Dummy}

Machine(ifs) ==
  [ifs |-> ifs, any |-> "no", socket |-> "yes", conf |-> "yes", sys |-> "yes",
   proc |-> "yes", usb |-> <<2, 1>>, netlink |-> "yes"]
Orders(n) == {s \in [1..n -> Cards] : \A i, j \in 1..n : i # j => s[i] # s[j]}
Denied(ifs) == [k \in DOMAIN ifs |-> [ifs[k] EXCEPT !.unbound = TRUE]]

\* Any three of these in any order, with and without the right to open them; each
\* trouble at each of two; and each failure of the rest.
MCMachines ==
  {Machine(ifs) : ifs \in UNION {Orders(n) : n \in 0..3}}
  \union {Machine(Denied(ifs)) : ifs \in Orders(3)}
  \union {Machine([ifs EXCEPT ![k].trouble = t]) : ifs \in Orders(2), k \in 1..2,
            t \in {"flags", "mask", "open", "create", "entry", "address"}}
  \union {[Machine(<<Lo, Eth1, Eth0>>) EXCEPT ![f] = v] :
            f \in {"socket", "conf", "sys", "proc", "netlink"}, v \in {"absent", "fails"}}
  \union {[Machine(<<Lo, Eth1, Eth0>>) EXCEPT !.sys = "absent", !.proc = v] : v \in {"absent", "fails"}}
  \union {[Machine(<<Lo, Eth1>>) EXCEPT !.any = v] : v \in {"create", "entry"}}
=============================================================================
