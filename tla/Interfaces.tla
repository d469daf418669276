----------------------------- MODULE Interfaces -----------------------------
(***************************************************************************)
(* How libpcap makes its list of capture devices: the IPv4 addresses that  *)
(* SIOCGIFCONF reports, the interfaces of /sys/class/net or /proc/net/dev, *)
(* the "any" device, USB buses and netfilter, merged by name into a list   *)
(* that is kept in order of a figure of merit.                             *)
(*                                                                         *)
(* A machine is [ifs, any, socket, conf, sys, proc, usb, netlink].  ifs is *)
(* the sequence of its interfaces, aliases included; the other fields say  *)
(* how a call to the kernel ends ("yes", "absent", "fails"), usb is the    *)
(* sequence of its buses and any what befalls the attempt to add "any".    *)
(*                                                                         *)
(* An interface is [name, unit, up, running, loopback, broadcast, ptp,     *)
(* dummy, alias, unbound, addrs, trouble].  unbound: it is not opened by   *)
(* binding to it, because this process may open no packet socket.  trouble *)
(* says what goes wrong with it while the list is made:                    *)
(*   flags    it disappears after it was listed, before SIOCGIFFLAGS       *)
(*   mask     it disappears before SIOCGIFNETMASK                          *)
(*   open     it disappears before it is opened                            *)
(*   create   pcap_create has no memory for it                             *)
(*   entry    there is no memory for its entry                             *)
(*   address  there is no memory for its first address                     *)
(* Unit numbers are below 2^29, the bound of the figure of merit.          *)
(***************************************************************************)
EXTENDS Integers, FiniteSets, Sequences, SequencesExt

\* A list under construction: what the call has returned so far, and the list.
Done(list) == [ret |-> 0, list |-> list]
Failed == [ret |-> -1, list |-> <<>>]

\* Lower is better: running before not, up before down, loopback last, then the
\* unit number.  The four are one number of 32 bits in the code.
get_figure_of_merit(dev) ==
  <<IF dev.running THEN 0 ELSE 1, IF dev.up THEN 0 ELSE 1,
    IF dev.loopback THEN 1 ELSE 0, dev.unit>>

Better(a, b) ==
  \E k \in 1..4 : a[k] < b[k] /\ \A j \in 1..(k - 1) : a[j] = b[j]

\* pcap_activate on an interface that is down says PCAP_ERROR_IFACE_NOT_UP, on
\* one that is gone PCAP_ERROR_NO_SUCH_DEVICE: neither is offered.  A device that
\* cannot be opened for another reason is.
CanOpen(i) == i.unbound \/ (i.up /\ i.trouble # "open")

Listed(list, name) == \E k \in DOMAIN list : list[k].name = name

\* The place before the first entry that is worse.
Place(list, dev) ==
  1 + Cardinality({k \in DOMAIN list :
        \A j \in 1..k : ~Better(get_figure_of_merit(dev), get_figure_of_merit(list[j]))})

NewEntry(i) ==
  [name |-> i.name, unit |-> i.unit, loopback |-> i.loopback, up |-> i.up,
   running |-> i.running, addresses |-> <<>>]

Insert(list, i) == InsertAt(list, Place(list, NewEntry(i)), NewEntry(i))

add_or_find_if_Always(list, i) == Done(Insert(list, i))

add_or_find_if(list, i) ==
  IF Listed(list, i.name) \/ i.trouble = "create" \/ ~CanOpen(i) THEN Done(list)
  ELSE IF i.trouble = "entry" THEN Failed
  ELSE Done(Insert(list, i))

pcap_add_if(list, i) == add_or_find_if(list, i)

\* One IPv4 address with its mask and, by the flags of the interface, the
\* broadcast and the destination address.
Address(i, a) ==
  [addr |-> a, netmask |-> TRUE, broadaddr |-> i.broadcast, dstaddr |-> i.ptp]

add_addr_to_dev(list, i, a) ==
  IF i.trouble = "address" THEN Failed
  ELSE Done([k \in DOMAIN list |->
         IF list[k].name = i.name
         THEN [list[k] EXCEPT !.addresses = Append(@, Address(i, a))] ELSE list[k]])

add_addr_to_iflist(list, i, a) ==
  LET r == add_or_find_if(list, i)
  IN IF r.ret = 0 /\ Listed(r.list, i.name) THEN add_addr_to_dev(r.list, i, a) ELSE r

-----------------------------------------------------------------------------
(* pcap_findalldevs_interfaces: one entry per address.  ENODEV, which Linux *)
(* answers for an interface that is gone, ends it; only ENXIO is skipped.  *)

\* The k-th address of i is asked about: i may have gone.
Gone(i, k) == i.trouble \in {"flags", "mask"} \/ (i.trouble = "open" /\ k > 1)

OneAddress(r, i, k) ==
  IF r.ret = -1 \/ i.dummy THEN r
  ELSE IF Gone(i, k) THEN Failed
  ELSE add_addr_to_iflist(r.list, i, i.addrs[k])

pcap_findalldevs_interfaces(m) ==
  IF m.socket = "fails" \/ m.conf = "fails" THEN Failed
  ELSE FoldLeft(LAMBDA r, i : FoldLeftDomain(LAMBDA q, k : OneAddress(q, i, k), r, i.addrs),
                Done(<<>>), m.ifs)

-----------------------------------------------------------------------------
(* pcap_platform_finddevs: the interfaces without an address, and "any".   *)

\* Here ENODEV is as good as ENXIO.
add_linux_if(r, i) ==
  IF r.ret = -1 \/ i.alias \/ i.trouble \in {"flags", "mask"} THEN r
  ELSE pcap_add_if(r.list, i)

EachName(m, list) == FoldLeft(add_linux_if, Done(list), m.ifs)

scan_sys_class_net(m, list) ==
  IF m.sys = "fails" THEN Failed
  ELSE IF m.sys = "absent" THEN Done(list)
  ELSE EachName(m, list)

scan_proc_net_dev(m, list) ==
  IF m.proc = "fails" THEN Failed
  ELSE IF m.proc = "absent" THEN Done(list)
  ELSE EachName(m, list)

\* the device "any" pretends to have a unit number
AnyDevice(m) ==
  [name |-> <<"any">>, unit |-> 1000, up |-> TRUE, running |-> TRUE, loopback |-> FALSE,
   trouble |-> m.any, unbound |-> TRUE]

pcap_platform_finddevs(m, list) ==
  LET s == scan_sys_class_net(m, list)
      r == IF s.ret = 0 /\ m.sys = "absent" THEN scan_proc_net_dev(m, s.list) ELSE s
  IN IF r.ret = -1 THEN Failed ELSE pcap_add_if(r.list, AnyDevice(m))

-----------------------------------------------------------------------------
(* The other types of device have no flags: they are neither up nor running. *)

Plain(name, unit) ==
  [name |-> name, unit |-> unit, up |-> FALSE, running |-> FALSE, loopback |-> FALSE,
   trouble |-> "no", unbound |-> TRUE]

usb_findalldevs(m, list) ==
  FoldLeft(LAMBDA r, n : pcap_add_if(r.list, Plain(<<"usbmon", n>>, n)), Done(list), m.usb)

can_findalldevs(m, list) == Done(list)

netfilter_findalldevs(m, list) ==
  IF m.netlink = "fails" THEN Failed
  ELSE IF m.netlink = "absent" THEN Done(list)
  ELSE pcap_add_if(pcap_add_if(list, Plain(<<"nflog">>, 0)).list, Plain(<<"nfqueue">>, 0))

pcap_findalldevs(m) ==
  LET i == pcap_findalldevs_interfaces(m)
      p == IF i.ret = -1 THEN Failed ELSE pcap_platform_finddevs(m, i.list)
      c == IF p.ret = -1 THEN Failed ELSE can_findalldevs(m, p.list)
      u == IF c.ret = -1 THEN Failed ELSE usb_findalldevs(m, c.list)
  IN IF u.ret = -1 THEN Failed ELSE netfilter_findalldevs(m, u.list)

\* The first device of the list, unless it is a loopback device.
pcap_lookupdev(m) ==
  LET list == pcap_findalldevs(m).list
  IN IF list = <<>> \/ list[1].loopback THEN <<>> ELSE <<list[1]>>
=============================================================================
