------------------------------ MODULE Activate ------------------------------
(***************************************************************************)
(* The life of a capture handle of libpcap on Linux: pcap_create(), the    *)
(* options, pcap_activate(), pcap_open_live(), pcap_close() and the exit   *)
(* handler (jni/pcap/pcap.c, jni/pcap/pcap-linux.c).  Activation is a long *)
(* sequence of system calls, any of which may fail; each is a step here.   *)
(*                                                                         *)
(* The kernel is its interface flags and mode, the open descriptors and    *)
(* the mapped ring.  The heap counts live blocks per pointer of the        *)
(* handle.  A device is a record:                                          *)
(*   name "any", "eth", "isdn", "cdma_rmnet" or "long" (too long a name);  *)
(*   arptype, up, promisc, mode ("none" without wireless extensions);      *)
(*   phy (mac80211), mons (names monN in use), priv (private ioctls),      *)
(*   offload, mtu, vers (ring versions the kernel has), blocks (blocks it  *)
(*   has memory for), hwts (hardware time stamps), old (kernel 2.0: no     *)
(*   packet sockets).                                                      *)
(* Devices that are no network interfaces have the names "can", "usbmon"   *)
(* with usb, the interfaces of the bus monitor, and "nflog", "nfqueue"     *)
(* with groups, the number of groups in the name (-1: one out of range).   *)
(***************************************************************************)
EXTENDS Integers, Sequences, FiniteSets

CONSTANTS
    Devices,          \* the interfaces, one of which is used
    Values,           \* Values[o]: what the program may set option o to
    MAXIMUM_SNAPLEN, PageSize, DefaultBuffer,
    MaxFaults,        \* bound on failing system calls
    MaxSets,          \* bound on calls that set options
    MaxTries          \* bound on activations

ASSUME ActivateAssumption ==
    /\ PageSize \in Nat \ {0} /\ MAXIMUM_SNAPLEN % 16 = 0 /\ MAXIMUM_SNAPLEN > 0
    /\ MaxFaults \in Nat /\ MaxSets \in Nat /\ MaxTries \in Nat

\* the flags of an interface, and the size of its packets
ASSUME DeviceAssumption ==
    \A d \in Devices : d.up \in BOOLEAN /\ d.promisc \in BOOLEAN /\ d.mtu \in Nat

\* create_ring() doubles a page until it takes a frame: the snapshot lengths are such that 4096
\* pages do, with the 512 bytes left for the headers of the frame and of the link
ASSUME ValuesAssumption ==
    /\ \A n \in Values["snapshot"] \cup {MAXIMUM_SNAPLEN} : n \in Nat /\ n + 512 <= PageSize * 4096
    /\ \A n \in Values["buffer_size"] \cup {DefaultBuffer} : n \in Nat

VARIABLES
    dev,      \* the device (constant)
    pc,       \* "idle", or the step of the call that is under way
    h,        \* the handle (pcap_t and pcap_linux)
    act,      \* locals of the call
    kern,     \* the kernel
    heap,     \* live blocks per pointer
    onExit,   \* pcaps_to_close, whether pcap_close_all is registered, and whether a handle
              \* was put into the list while it was there
    used,     \* calls made so far: [faults, sets, tries]
    gaveUp,   \* the code had to leave the interface changed
    failed    \* an activation has cleaned up after itself

vars == <<dev, pc, h, act, kern, heap, onExit, used, gaveUp, failed>>

Pointers == {"source", "tstamp_type_list", "tstamp_precision_list", "device",
             "mondevice", "dlt_list", "buffer", "oneshot_buffer"}
Options == {"snapshot", "promisc", "rfmon", "timeout", "immediate", "buffer_size"}

PCAP_WARNING == 1
PCAP_WARNING_PROMISC_NOTSUP == 2
PCAP_WARNING_TSTAMP_TYPE_NOTSUP == 3
PCAP_ERROR == -1
PCAP_ERROR_ACTIVATED == -4
PCAP_ERROR_NO_SUCH_DEVICE == -5
PCAP_ERROR_RFMON_NOTSUP == -6
PCAP_ERROR_PERM_DENIED == -8
PCAP_ERROR_IFACE_NOT_UP == -9
PCAP_ERROR_TSTAMP_PRECISION_NOTSUP == -12

MAX_LINKHEADER_SIZE == 256
VLAN_TAG_LEN == 4
SLL_HDR_LEN == 16

NoHandle == [alive |-> FALSE, activated |-> FALSE, oldstyle |-> FALSE, ptr |-> {}, fd |-> FALSE,
             sk |-> "none", ops |-> "none", cleanup |-> "common", must_do |-> {}, next |-> FALSE,
             opt |-> [snapshot |-> MAXIMUM_SNAPLEN, promisc |-> FALSE, rfmon |-> FALSE,
                      timeout |-> 0, immediate |-> FALSE, buffer_size |-> 0],
             tstamp_type |-> "unset", precision |-> "micro", linktype |-> "unset",
             cooked |-> FALSE, oldmode |-> "none", mondev |-> 0, closed |-> FALSE, status |-> 0, bufsize |-> 0, cc |-> 0]
NoCall == [sock |-> FALSE, ret |-> 0, n |-> 0, montype |-> "WEXT", down |-> FALSE, mon |-> FALSE,
           after |-> "idle", req |-> [frame_size |-> 0, block_size |-> 0, frame_nr |-> 0, block_nr |-> 0]]

Init ==
    /\ dev \in Devices
    /\ pc = "idle" /\ h = NoHandle /\ act = NoCall
    /\ kern = [up |-> dev.up, promisc |-> dev.promisc, mode |-> dev.mode, mons |-> dev.mons,
               fds |-> 0, nl |-> 0, member |-> FALSE, groups |-> 0, ring |-> FALSE, mapped |-> FALSE]
    /\ heap = [p \in Pointers |-> 0]
    /\ onExit = [registered |-> FALSE, head |-> FALSE, twice |-> FALSE]
    /\ used = [faults |-> 0, sets |-> 0, tries |-> 0]
    /\ gaveUp = FALSE /\ failed = FALSE

any == dev.name = "any"
\* the devices that are not interfaces: each kind knows its own by the name
usb_create == dev.name = "usbmon"
can_create == dev.name = "can"
netfilter_create == dev.name \in {"nflog", "nfqueue"}
Special == usb_create \/ can_create \/ netfilter_create

----------------------------------------------------------------------------
(* System calls *)

\* a system call fails
Fault == used.faults < MaxFaults /\ used' = [used EXCEPT !.faults = @ + 1]
Works == UNCHANGED used

Goto(p) == pc' = p

Malloc(p) == heap' = [heap EXCEPT ![p] = @ + 1]
\* free() of the blocks that the pointers ps refer to
Freed(hp, ps) == [p \in Pointers |-> IF p \in ps THEN hp[p] - 1 ELSE hp[p]]

\* closing a descriptor releases its membership, its groups and its ring
Closed(k) == [k EXCEPT !.fds = @ - 1, !.member = FALSE, !.groups = 0, !.ring = FALSE]

\* pcap_do_addexit() succeeds, and its effect
Registered == onExit' = [onExit EXCEPT !.registered = TRUE]
\* pcap_add_to_pcaps_to_close() after pcap_do_addexit()
AddedToClose ==
    /\ onExit' = [registered |-> TRUE, head |-> TRUE, twice |-> onExit.twice \/ onExit.head]
\* pcap_remove_from_pcaps_to_close(): the head becomes p->next
Removed(e) == [e EXCEPT !.head = @ /\ h.next]

----------------------------------------------------------------------------
(* pcap_create() and the options *)

pcap_create_common == [NoHandle EXCEPT !.alive = TRUE, !.ptr = {"source"}]

\* pcap_create_interface() makes two lists; usb_create(), can_create() and netfilter_create() none
Created == [pcap_create_common EXCEPT
              !.ptr = @ \cup IF Special THEN {} ELSE {"tstamp_type_list", "tstamp_precision_list"}]

\* a failed malloc() of a list forgets the source
pcap_create ==
    /\ pc = "idle" /\ ~h.alive /\ used.tries < MaxTries
    /\ \/ /\ Works
          /\ h' = Created
          /\ heap' = [p \in Pointers |-> IF p \in h'.ptr THEN heap[p] + 1 ELSE heap[p]]
       \/ Fault /\ h' = NoHandle /\ UNCHANGED heap
       \/ ~Special /\ Fault /\ h' = NoHandle /\ Malloc("source")
    /\ act' = [act EXCEPT !.ret = 0]
    /\ UNCHANGED <<dev, pc, kern, onExit, gaveUp, failed>>

CountSet == used.sets < MaxSets /\ used' = [used EXCEPT !.sets = @ + 1]

\* pcap_set_snaplen(), _promisc(), _rfmon(), _timeout(), _immediate_mode(), _buffer_size()
pcap_set(o, v) ==
    /\ pc = "idle" /\ h.alive /\ CountSet
    /\ \/ h.activated /\ act' = [act EXCEPT !.ret = PCAP_ERROR_ACTIVATED] /\ UNCHANGED h
       \/ ~h.activated /\ h' = [h EXCEPT !.opt[o] = v] /\ act' = [act EXCEPT !.ret = 0]
    /\ UNCHANGED <<dev, pc, kern, heap, onExit, gaveUp, failed>>

\* the lists are freed by a failed activation: then only the defaults are accepted
pcap_set_tstamp_type(t) ==
    /\ pc = "idle" /\ h.alive /\ CountSet
    /\ \/ h.activated /\ act' = [act EXCEPT !.ret = PCAP_ERROR_ACTIVATED] /\ UNCHANGED h
       \/ /\ ~h.activated
          /\ IF "tstamp_type_list" \in h.ptr \/ t = "host"
             THEN h' = [h EXCEPT !.tstamp_type = t] /\ act' = [act EXCEPT !.ret = 0]
             ELSE act' = [act EXCEPT !.ret = PCAP_WARNING_TSTAMP_TYPE_NOTSUP] /\ UNCHANGED h
    /\ UNCHANGED <<dev, pc, kern, heap, onExit, gaveUp, failed>>

pcap_set_tstamp_precision(t) ==
    /\ pc = "idle" /\ h.alive /\ CountSet
    /\ \/ h.activated /\ act' = [act EXCEPT !.ret = PCAP_ERROR_ACTIVATED] /\ UNCHANGED h
       \/ /\ ~h.activated
          /\ IF "tstamp_precision_list" \in h.ptr \/ t = "micro"
             THEN h' = [h EXCEPT !.precision = t] /\ act' = [act EXCEPT !.ret = 0]
             ELSE act' = [act EXCEPT !.ret = PCAP_ERROR_TSTAMP_PRECISION_NOTSUP] /\ UNCHANGED h
    /\ UNCHANGED <<dev, pc, kern, heap, onExit, gaveUp, failed>>

\* pcap_can_set_rfmon(): asks sysfs, then a socket that is closed again
pcap_can_set_rfmon_linux ==
    /\ pc = "idle" /\ h.alive /\ CountSet
    /\ \E r \in {0, 1, PCAP_ERROR, PCAP_ERROR_NO_SUCH_DEVICE} :
         /\ any \/ Special => r = 0
         /\ r = 1 => dev.phy \/ dev.mode # "none"
         /\ r = 0 => ~dev.phy
         /\ act' = [act EXCEPT !.ret = r]
    /\ UNCHANGED <<dev, pc, h, kern, heap, onExit, gaveUp, failed>>

----------------------------------------------------------------------------
(* pcap_activate() and pcap_activate_linux() *)

\* goto fail in pcap_activate_linux: clean up, then return the status
Fail(status) == pc' = "cleanup" /\ act' = [act EXCEPT !.ret = status, !.after = "return", !.sock = FALSE]

\* the activate_op of the handle
ActivateOp ==
    CASE can_create -> "can" [] usb_create -> "usb" [] netfilter_create -> "netfilter" [] OTHER -> "activate"

pcap_activate ==
    /\ pc = "idle" /\ h.alive /\ used.tries < MaxTries
    /\ IF h.activated THEN act' = [act EXCEPT !.ret = PCAP_ERROR_ACTIVATED] /\ UNCHANGED pc
       ELSE Goto(ActivateOp) /\ UNCHANGED act
    /\ used' = [used EXCEPT !.tries = @ + 1]
    /\ UNCHANGED <<dev, h, kern, heap, onExit, gaveUp, failed>>

\* pcap_open_live(): create, three options, and an activation that closes on failure
pcap_open_live(snaplen, promisc, to_ms) ==
    /\ pc = "idle" /\ ~h.alive /\ used.tries < MaxTries
    /\ h' = [Created EXCEPT !.oldstyle = TRUE, !.opt.snapshot = snaplen,
               !.opt.promisc = promisc, !.opt.timeout = to_ms]
    /\ heap' = [p \in Pointers |-> IF p \in h'.ptr THEN heap[p] + 1 ELSE heap[p]]
    /\ Goto(ActivateOp)
    /\ used' = [used EXCEPT !.tries = @ + 1]
    /\ UNCHANGED <<dev, act, kern, onExit, gaveUp, failed>>

pcap_activate_linux ==
    /\ pc = "activate" /\ Works
    /\ IF dev.name = "long" THEN Fail(PCAP_ERROR_NO_SUCH_DEVICE) /\ UNCHANGED h
       ELSE /\ h' = [h EXCEPT !.ops = "linux", !.cleanup = "linux", !.opt.promisc = @ /\ ~any]
            /\ act' = [NoCall EXCEPT !.ret = IF any /\ h.opt.promisc
                                             THEN PCAP_WARNING_PROMISC_NOTSUP ELSE 0]
            /\ Goto("device")
    /\ UNCHANGED <<dev, kern, heap, onExit, gaveUp, failed>>

\* handlep->device = strdup(device); a failure returns without the clean-up
SetDevice ==
    /\ pc = "device"
    /\ \/ /\ Works /\ h' = [h EXCEPT !.ptr = @ \cup {"device"}] /\ Malloc("device")
          /\ Goto("socket") /\ UNCHANGED act
       \/ Fault /\ Goto("return") /\ act' = [act EXCEPT !.ret = PCAP_ERROR] /\ UNCHANGED <<h, heap>>
    /\ UNCHANGED <<dev, kern, onExit, gaveUp, failed>>

\* back in pcap_activate()
Return_AnyStatus ==
    /\ pc = "return"
    /\ h' = [h EXCEPT !.activated = TRUE, !.status = act.ret] /\ Goto("idle")
    /\ UNCHANGED <<dev, act, kern, heap, onExit, used, gaveUp, failed>>
Return ==
    /\ pc = "return"
    /\ IF act.ret >= 0
       THEN /\ h' = [h EXCEPT !.activated = TRUE, !.status = act.ret] /\ Goto("idle") /\ UNCHANGED act
       ELSE /\ h' = [h EXCEPT !.ops = "none", !.cleanup = "common", !.status = act.ret]
            /\ IF h.oldstyle THEN pc' = "close" /\ act' = [act EXCEPT !.after = "free"]
               ELSE Goto("idle") /\ UNCHANGED act
    /\ UNCHANGED <<dev, kern, heap, onExit, used, gaveUp, failed>>

----------------------------------------------------------------------------
(* activate_new(): a packet socket.  It closes the socket when it fails, and the handle *)
(* gets the descriptor only at the end.                                                 *)

NewFails_KeepsSocket(status) == Fail(status) /\ UNCHANGED kern
NewFails(status) == Fail(status) /\ kern' = Closed(kern)

\* an activation step of which only the program counter, the call and the handle change
Rest == UNCHANGED <<dev, heap, onExit, gaveUp, failed>>

NewSocket ==
    /\ pc = "socket"
    /\ \/ /\ Works /\ ~dev.old /\ kern' = [kern EXCEPT !.fds = @ + 1]
          /\ h' = [h EXCEPT !.sk = IF any THEN "dgram" ELSE "raw", !.cooked = FALSE]
          /\ act' = [act EXCEPT !.sock = TRUE]
          /\ Goto(IF any THEN "any" ELSE IF h.opt.rfmon THEN "phydev" ELSE "arptype")
       \/ Works /\ dev.old /\ Goto("old") /\ UNCHANGED <<h, act, kern>>  \* EINVAL, EAFNOSUPPORT
       \/ Fault /\ (\E e \in {PCAP_ERROR_PERM_DENIED, PCAP_ERROR} : Fail(e)) /\ UNCHANGED <<h, kern>>
    /\ Rest

AnyDevice ==
    /\ pc = "any" /\ Works
    /\ IF h.opt.rfmon THEN NewFails(PCAP_ERROR_RFMON_NOTSUP) /\ UNCHANGED h
       ELSE /\ h' = [h EXCEPT !.cooked = TRUE, !.linktype = "LINUX_SLL"]
            /\ Goto("promisc") /\ UNCHANGED <<act, kern>>
    /\ Rest

iface_get_arptype ==
    /\ pc = "arptype"
    /\ \/ Works /\ Goto("dlt") /\ UNCHANGED <<act, kern>>
       \/ Fault /\ \E e \in {PCAP_ERROR_NO_SUCH_DEVICE, PCAP_ERROR} : NewFails(e)
    /\ UNCHANGED h /\ Rest

----------------------------------------------------------------------------
(* map_arphrd_to_dlt() *)

FixedDlt == [METRICOM |-> "EN10MB", LOOPBACK |-> "EN10MB", EETHER |-> "EN3MB", AX25 |-> "AX25_KISS",
    PRONET |-> "PRONET", CHAOS |-> "CHAOS", CAN |-> "CAN_SOCKETCAN", IEEE802_TR |-> "IEEE802",
    IEEE802 |-> "IEEE802", ARCNET |-> "ARCNET_LINUX", FDDI |-> "FDDI"]
RadioDlt == [IEEE80211 |-> "IEEE802_11", IEEE80211_PRISM |-> "PRISM_HEADER",
    IEEE80211_RADIOTAP |-> "IEEE802_11_RADIO"]
SerialDlt == [CISCO |-> "C_HDLC", TUNNEL |-> "RAW", SIT |-> "RAW", CSLIP |-> "RAW", SLIP6 |-> "RAW",
    CSLIP6 |-> "RAW", ADAPT |-> "RAW", SLIP |-> "RAW", RAWHDLC |-> "RAW", DLCI |-> "RAW",
    FRAD |-> "FRELAY", LOCALTLK |-> "LTALK", FC18 |-> "IP_OVER_FC"]
FibreDlt == [FCPP |-> "FC_2", FCAL |-> "FC_2", FCPL |-> "FC_2", FCFABRIC |-> "FC_2"]
OtherDlt == [IRDA |-> "LINUX_IRDA", LAPD |-> "LINUX_LAPD", NONE |-> "RAW",
    IEEE802154 |-> "IEEE802_15_4_NOFCS", NETLINK |-> "NETLINK"]

map_arphrd_to_dlt(arptype, cooked_ok) ==
    CASE arptype = "ETHER" -> IF dev.name = "cdma_rmnet" THEN "RAW" ELSE "EN10MB"
      [] arptype = "ATM" -> IF cooked_ok THEN "LINUX_SLL" ELSE "none"
      [] arptype = "PPP" -> IF cooked_ok THEN "LINUX_SLL" ELSE "RAW"
      [] arptype \in DOMAIN FixedDlt -> FixedDlt[arptype]
      [] arptype \in DOMAIN RadioDlt -> RadioDlt[arptype]
      [] arptype \in DOMAIN SerialDlt -> SerialDlt[arptype]
      [] arptype \in DOMAIN FibreDlt -> FibreDlt[arptype]
      [] arptype \in DOMAIN OtherDlt -> OtherDlt[arptype]
      [] OTHER -> "none"

\* the types for which a list is allocated; a failed malloc() only loses the list
HasDltList(arptype) ==
    \/ arptype = "ETHER" /\ dev.name # "cdma_rmnet"
    \/ arptype \in DOMAIN FibreDlt

\* in monitor mode the interface has the type of the radio headers
Arptype == IF act.mon \/ kern.mode = "monitor" THEN "IEEE80211_RADIOTAP" ELSE dev.arptype

NeedsCooked(linktype) ==
    \/ linktype \in {"none", "LINUX_SLL", "LINUX_IRDA", "LINUX_LAPD", "NETLINK"}
    \/ linktype = "EN10MB" /\ dev.name = "isdn"

\* the link type, and the socket opened again for cooked mode, whose list is freed
SetDlt ==
    /\ pc = "dlt"
    /\ LET lt == map_arphrd_to_dlt(Arptype, TRUE)
           list == IF HasDltList(Arptype) THEN {"dlt_list"} ELSE {}
           hp == [p \in Pointers |-> IF p \in list THEN heap[p] + 1 ELSE heap[p]]
           pt == h.ptr \cup list
       IN  IF NeedsCooked(lt)
           THEN \/ /\ Works /\ Goto("bind")
                   /\ h' = [h EXCEPT !.sk = "dgram", !.cooked = TRUE, !.ptr = pt \ {"dlt_list"},
                              !.linktype = IF lt \in {"LINUX_IRDA", "LINUX_LAPD", "NETLINK"} THEN lt
                                           ELSE "LINUX_SLL"]
                   /\ heap' = Freed(hp, pt \cap {"dlt_list"})
                   /\ UNCHANGED <<act, kern>>
                \/ /\ Fault /\ \E e \in {PCAP_ERROR_PERM_DENIED, PCAP_ERROR} : NewFails(e)
                   /\ h' = [h EXCEPT !.linktype = lt, !.ptr = pt] /\ heap' = hp
           ELSE /\ Works /\ Goto("bind")
                /\ h' = [h EXCEPT !.linktype = lt, !.ptr = pt] /\ heap' = hp
                /\ UNCHANGED <<act, kern>>
    /\ UNCHANGED <<dev, onExit, gaveUp, failed>>

\* iface_get_id() and iface_bind(): an interface that is down is found out by SO_ERROR; any
\* other error there makes activate_new() return 0, and the old interface is tried
iface_bind ==
    /\ pc = "bind"
    /\ \/ Works /\ (act.mon \/ kern.up) /\ Goto("promisc") /\ UNCHANGED <<act, kern>>
       \/ Works /\ ~(act.mon \/ kern.up) /\ NewFails(PCAP_ERROR_IFACE_NOT_UP)
       \/ Fault /\ NewFails(PCAP_ERROR)
       \/ /\ Fault /\ kern' = Closed(kern) /\ act' = [act EXCEPT !.sock = FALSE] /\ Goto("old")
    /\ UNCHANGED h /\ Rest

\* PACKET_ADD_MEMBERSHIP, PACKET_AUXDATA and SO_TIMESTAMPNS; then the handle owns the socket
SetSocketOptions ==
    /\ pc = "promisc"
    /\ \/ /\ Works /\ Goto("mmap")
          /\ kern' = [kern EXCEPT !.member = h.opt.promisc]
          /\ h' = [h EXCEPT !.fd = TRUE,
                     !.opt.snapshot = IF h.cooked /\ @ < SLL_HDR_LEN + 1 THEN SLL_HDR_LEN + 1 ELSE @]
          /\ act' = [act EXCEPT !.sock = FALSE]
       \/ Fault /\ NewFails(PCAP_ERROR) /\ UNCHANGED h
    /\ Rest

----------------------------------------------------------------------------
(* enter_rfmon_mode(): mac80211 first, then the wireless extensions *)

Exits(status) == NewFails(status) /\ UNCHANGED h

get_mac80211_phydev ==
    /\ pc = "phydev"
    /\ \/ Works /\ Goto(IF dev.phy THEN "nl80211" ELSE "wext") /\ UNCHANGED <<h, act, kern>>
       \/ Fault /\ Exits(PCAP_ERROR)
    /\ Rest

nl80211_init ==
    /\ pc = "nl80211"
    /\ \/ Works /\ kern' = [kern EXCEPT !.nl = @ + 1] /\ Goto("add_mon_if") /\ UNCHANGED <<h, act>>
       \/ Fault /\ Exits(PCAP_ERROR)
    /\ Rest

\* mon0, mon1, ... until a name is free
add_mon_if ==
    /\ pc = "add_mon_if"
    /\ \/ Works /\ act.n \in kern.mons /\ act' = [act EXCEPT !.n = @ + 1] /\ UNCHANGED <<pc, h, kern, heap>>
       \/ /\ Works /\ act.n \notin kern.mons /\ kern' = [kern EXCEPT !.mons = @ \cup {act.n}]
          /\ h' = [h EXCEPT !.ptr = @ \cup {"mondevice"}, !.mondev = act.n] /\ Malloc("mondevice")
          /\ Goto("mon_up") /\ UNCHANGED act
       \/ /\ Fault /\ Fail(PCAP_ERROR) /\ kern' = [Closed(kern) EXCEPT !.nl = @ - 1]
          /\ UNCHANGED <<h, heap>>
    /\ UNCHANGED <<dev, onExit, gaveUp, failed>>

del_mon_if(k, n) == [k EXCEPT !.mons = @ \ {n}]

\* the rest of enter_rfmon_mode_mac80211(): the exit handler, and the new interface up.  A
\* failed atexit() leaves the interface and the netlink socket; del_mon_if() may fail too.
enter_rfmon_mode_mac80211 ==
    /\ pc = "mon_up"
    /\ \/ /\ Works /\ AddedToClose
          /\ h' = [h EXCEPT !.must_do = @ \cup {"DELETE_MONIF"}, !.next = onExit.head]
          /\ kern' = [kern EXCEPT !.nl = @ - 1] /\ act' = [act EXCEPT !.mon = TRUE]
          /\ Goto("arptype") /\ UNCHANGED gaveUp
       \/ /\ Fault /\ Exits(PCAP_ERROR_RFMON_NOTSUP) /\ gaveUp' = TRUE /\ UNCHANGED onExit
       \/ /\ Fault /\ Registered /\ Fail(PCAP_ERROR) /\ UNCHANGED h
          /\ \/ kern' = [del_mon_if(Closed(kern), act.n) EXCEPT !.nl = @ - 1] /\ UNCHANGED gaveUp
             \/ kern' = [Closed(kern) EXCEPT !.nl = @ - 1] /\ gaveUp' = TRUE
    /\ UNCHANGED <<dev, heap, failed>>

\* The private ioctls that tell drivers apart.  The first entry with a known name ends the
\* search, except "monitor" with fixed integer arguments, whose break leaves a switch.
PrivName == [monitor_type |-> "HOSTAP", set_prismhdr |-> "PRISM54", forceprismheader |-> "RT2570",
             forceprism |-> "RT73", prismhdr |-> "RTL8XXX", rfmontx |-> "RT2500"]
PrivMatches(e) ==
    CASE e.name = "forceprism" -> e.type = "char" /\ ~e.fixed
      [] e.name = "rfmontx" -> e.type = "int" /\ e.size = 2
      [] OTHER -> e.type = "int" /\ e.fixed /\ e.size = 1
GoesOn(e) == \/ e.name \notin DOMAIN PrivName \cup {"monitor"}
             \/ e.name = "monitor" /\ e.type = "int" /\ e.fixed

MonType(priv) ==
    LET last == IF \E i \in DOMAIN priv : ~GoesOn(priv[i])
                THEN CHOOSE i \in DOMAIN priv : ~GoesOn(priv[i]) /\ \A j \in 1..(i - 1) : GoesOn(priv[j])
                ELSE Len(priv)
        monitor == {i \in 1..last : priv[i].name = "monitor" /\ GoesOn(priv[i]) /\ priv[i].size \in {1, 2}}
    IN  IF last > 0 /\ priv[last].name \in DOMAIN PrivName /\ PrivMatches(priv[last])
        THEN PrivName[priv[last].name]
        ELSE IF monitor = {} THEN "WEXT"
        ELSE IF priv[CHOOSE i \in monitor : \A j \in monitor : j <= i].size = 1 THEN "PRISM" ELSE "ACX100"

\* has_wext() and SIOCGIWPRIV
has_wext ==
    /\ pc = "wext"
    /\ \/ Works /\ dev.mode = "none" /\ Exits(PCAP_ERROR_RFMON_NOTSUP)
       \/ /\ Works /\ dev.mode # "none" /\ act' = [act EXCEPT !.montype = MonType(dev.priv)]
          /\ Goto("mode") /\ UNCHANGED <<h, kern>>
       \/ Fault /\ \E e \in {PCAP_ERROR_NO_SUCH_DEVICE, PCAP_ERROR} : Exits(e)
    /\ Rest

\* the interface is in monitor mode: remember to leave it
Entered_Forgets(oldmode) ==
    /\ AddedToClose /\ Goto("arptype")
    /\ h' = [h EXCEPT !.next = onExit.head, !.oldmode = oldmode]
Entered(oldmode) ==
    /\ AddedToClose /\ Goto("arptype")
    /\ h' = [h EXCEPT !.must_do = @ \cup {"CLEAR_RFMON"}, !.next = onExit.head, !.oldmode = oldmode]

\* SIOCGIWMODE, pcap_do_addexit(), the private ioctl of Prism drivers
GetMode ==
    /\ pc = "mode"
    /\ \/ Works /\ kern.mode = "monitor" /\ Goto("arptype") /\ UNCHANGED <<h, act, kern, onExit>>
       \/ /\ Works /\ kern.mode # "monitor" /\ act.montype = "PRISM"
          /\ Entered(kern.mode) /\ kern' = [kern EXCEPT !.mode = "monitor"] /\ UNCHANGED act
       \/ /\ Works /\ kern.mode # "monitor" /\ Registered /\ Goto("down")
          /\ h' = [h EXCEPT !.oldmode = kern.mode] /\ UNCHANGED <<act, kern>>
       \/ Fault /\ Exits(PCAP_ERROR_RFMON_NOTSUP) /\ UNCHANGED onExit
    /\ UNCHANGED <<dev, heap, gaveUp, failed>>

\* the interface is taken down if it is up
TakeDown ==
    /\ pc = "down"
    /\ \/ /\ Works /\ Goto("monitor") /\ act' = [act EXCEPT !.down = kern.up]
          /\ kern' = [kern EXCEPT !.up = FALSE] /\ UNCHANGED h
       \/ Fault /\ Exits(PCAP_ERROR)
    /\ Rest

\* SIOCSIWMODE; when it fails the flags are put back, and that may fail
SetMonitor ==
    /\ pc = "monitor"
    /\ \/ /\ Works /\ kern' = [kern EXCEPT !.mode = "monitor"] /\ Goto("montype")
          /\ UNCHANGED <<h, act, gaveUp>>
       \/ /\ Fault /\ Fail(PCAP_ERROR_RFMON_NOTSUP) /\ UNCHANGED <<h, gaveUp>>
          /\ kern' = [Closed(kern) EXCEPT !.up = act.down, !.promisc = @ /\ act.down]
       \/ Fault /\ Exits(PCAP_ERROR) /\ gaveUp' = (gaveUp \/ act.down)
    /\ UNCHANGED <<dev, heap, onExit, failed>>

\* the driver's header format (its result is ignored), which for ACX100 needs the channel, and
\* the flags again.  Failures leave monitor mode on: handle->fd, which is to undo it, is -1.
SetHeaders ==
    /\ pc = "montype"
    /\ \/ /\ Works /\ Entered(h.oldmode) /\ kern' = [kern EXCEPT !.up = @ \/ act.down]
          /\ UNCHANGED <<act, gaveUp>>
       \/ /\ Fault /\ (act.montype = "ACX100" \/ act.down)
          /\ Exits(PCAP_ERROR) /\ gaveUp' = TRUE /\ UNCHANGED onExit
    /\ UNCHANGED <<dev, heap, failed>>

----------------------------------------------------------------------------
(* activate_old(): a SOCK_PACKET socket, which the handle owns at once *)

\* the socket, the bind, the type; "any" and unknown types are refused
OldSocket ==
    /\ pc = "old"
    /\ LET lt == map_arphrd_to_dlt(Arptype, FALSE)
           open == [h EXCEPT !.fd = TRUE, !.sk = "packet", !.cooked = FALSE]
           list == IF HasDltList(Arptype) THEN {"dlt_list"} ELSE {}
       IN  \/ /\ Fault /\ UNCHANGED <<h, kern, heap>>
              /\ \E e \in {PCAP_ERROR_PERM_DENIED, PCAP_ERROR} : Fail(e)
           \/ /\ ((any /\ Works) \/ (~any /\ Fault))
              /\ h' = open /\ kern' = [kern EXCEPT !.fds = @ + 1] /\ UNCHANGED heap
              /\ Fail(PCAP_ERROR)
           \/ /\ ~any /\ Works /\ kern' = [kern EXCEPT !.fds = @ + 1]
              /\ h' = [open EXCEPT !.linktype = lt, !.ptr = @ \cup list]
              /\ heap' = [p \in Pointers |-> IF p \in list THEN heap[p] + 1 ELSE heap[p]]
              /\ IF lt = "none" THEN Fail(PCAP_ERROR) ELSE Goto("old_promisc") /\ UNCHANGED act
    /\ UNCHANGED <<dev, onExit, gaveUp, failed>>

\* promiscuous mode is a flag of the interface here, to be cleared on close
OldPromisc ==
    /\ pc = "old_promisc"
    /\ \/ /\ Works /\ h.opt.promisc /\ ~kern.promisc
          /\ AddedToClose /\ kern' = [kern EXCEPT !.promisc = TRUE]
          /\ h' = [h EXCEPT !.must_do = @ \cup {"CLEAR_PROMISC"}, !.next = onExit.head]
          /\ Goto("old_size") /\ UNCHANGED act
       \/ /\ Works /\ ~(h.opt.promisc /\ ~kern.promisc)
          /\ Goto("old_size") /\ UNCHANGED <<h, act, kern, onExit>>
       \/ /\ Fault /\ h.opt.promisc /\ Fail(PCAP_ERROR) /\ UNCHANGED <<h, kern>>
          /\ \/ UNCHANGED onExit
             \/ ~kern.promisc /\ Registered
    /\ UNCHANGED <<dev, heap, gaveUp, failed>>

\* iface_get_mtu() on a 2.0 kernel, which cuts packets only by the size of the buffer
OldBufferSize ==
    /\ pc = "old_size"
    /\ LET whole == MAX_LINKHEADER_SIZE + dev.mtu
       IN  \/ /\ Works /\ Goto("rcvbuf") /\ UNCHANGED act
              /\ h' = [h EXCEPT !.bufsize = IF dev.old /\ whole >= h.opt.snapshot THEN whole
                                            ELSE h.opt.snapshot]
           \/ dev.old /\ Fault /\ Fail(PCAP_ERROR) /\ UNCHANGED h
    /\ UNCHANGED kern /\ Rest

----------------------------------------------------------------------------
(* activate_mmap(): a ring shared with the kernel.  When it fails the code returns `ret',  *)
(* which is 1, the result of activate_new(), and not the status of activate_mmap().        *)

MmapFails == Fail(PCAP_WARNING)

\* the one-shot buffer, freed without resetting the pointer when the ring cannot be used
FreesOneshot == heap' = Freed(heap, {"oneshot_buffer"}) /\ h' = [h EXCEPT !.ptr = @ \ {"oneshot_buffer"}]

activate_mmap ==
    /\ pc = "mmap"
    /\ \/ /\ Works /\ Malloc("oneshot_buffer") /\ Goto("tpacket") /\ UNCHANGED act
          /\ h' = [h EXCEPT !.ptr = @ \cup {"oneshot_buffer"},
                     !.opt.buffer_size = IF @ = 0 THEN DefaultBuffer ELSE @]
       \/ Fault /\ MmapFails /\ UNCHANGED <<h, heap>>
    /\ UNCHANGED <<dev, kern, onExit, gaveUp, failed>>

\* prepare_tpacket_socket(): the newest version the kernel has; V3 batches, so immediate mode
\* does without it.  create_ring() starts with *status = 0.
TpVersion == IF 3 \in dev.vers /\ ~h.opt.immediate THEN 3 ELSE IF 2 \in dev.vers THEN 2 ELSE 1

prepare_tpacket_socket ==
    /\ pc = "tpacket"
    /\ \/ /\ Works /\ Goto("ring_size") /\ act' = [act EXCEPT !.n = TpVersion, !.ret = 0]
          /\ UNCHANGED <<h, heap>>
       \/ Fault /\ MmapFails /\ FreesOneshot
    /\ UNCHANGED <<dev, kern, onExit, gaveUp, failed>>

TPACKET_ALIGN(x) == ((x + 15) \div 16) * 16
SizeofHeader == [v \in 1..3 |-> CASE v = 1 -> 28 [] v = 2 -> 32 [] v = 3 -> 48]
SockaddrLl == 20
Larger(a, b) == IF a > b THEN a ELSE b
Smaller(a, b) == IF a > b THEN b ELSE a

\* where the link-layer header of a packet starts in a frame, for a header of maclen bytes.
\* V1 has no PACKET_RESERVE of VLAN_TAG_LEN: init_tpacket() sets it for the others
MacOffset(v, maclen) ==
    LET reserve == IF v = 1 THEN 0 ELSE VLAN_TAG_LEN
    IN  TPACKET_ALIGN(TPACKET_ALIGN(SizeofHeader[v]) + SockaddrLl + Larger(maclen, 16)) + reserve - maclen

\* bytes of a packet that a frame of versions 1 and 2 is made for
PacketSize == IF h.linktype = "EN10MB" /\ ~dev.offload
              THEN Smaller(h.opt.snapshot, dev.mtu + 18) ELSE h.opt.snapshot
FrameSize(v) ==
    IF v = 3 THEN MAXIMUM_SNAPLEN
    ELSE TPACKET_ALIGN(MacOffset(v, IF h.sk = "dgram" THEN 0 ELSE MAX_LINKHEADER_SIZE) + PacketSize)

\* getpagesize(), doubled until a frame fits
BlockSizes == {PageSize * n : n \in {1, 2, 4, 8, 16, 32, 64, 128, 256, 512, 1024, 2048, 4096}}
BlockSize(frame) == CHOOSE b \in BlockSizes : b >= frame /\ \A c \in BlockSizes : c >= frame => b <= c

\* iface_get_offload(), iface_get_mtu() and two getsockopt() may fail
RingSize ==
    /\ pc = "ring_size"
    /\ LET frame == FrameSize(act.n)
       IN  \/ /\ Works /\ Goto("hwtstamp") /\ UNCHANGED <<h, heap>>
              /\ act' = [act EXCEPT !.req = [frame_size |-> frame, block_size |-> BlockSize(frame),
                           frame_nr |-> h.opt.buffer_size \div frame, block_nr |-> 0]]
           \/ act.n # 3 /\ Fault /\ MmapFails /\ FreesOneshot
    /\ UNCHANGED <<dev, kern, onExit, gaveUp, failed>>

\* SIOCSHWTSTAMP and PACKET_TIMESTAMP, if adapter time stamps were asked for
SetHwTstamp ==
    /\ pc = "hwtstamp"
    /\ \/ /\ Works /\ Goto("ring") /\ UNCHANGED <<h, heap>>
          /\ act' = [act EXCEPT !.ret = IF h.tstamp_type = "adapter" /\ ~dev.hwts
                                        THEN PCAP_WARNING_TSTAMP_TYPE_NOTSUP ELSE @]
       \/ h.tstamp_type = "adapter" /\ Fault /\ MmapFails /\ FreesOneshot
    /\ UNCHANGED <<dev, kern, onExit, gaveUp, failed>>

FramesPerBlock(req) == req.block_size \div req.frame_size
Rounded(req) ==
    LET b == req.frame_nr \div FramesPerBlock(req)
    IN  [req EXCEPT !.block_nr = b, !.frame_nr = b * FramesPerBlock(req)]
Fewer_Rounded(frame_nr) == frame_nr - frame_nr \div 20
Fewer(frame_nr) == IF frame_nr < 20 THEN frame_nr - 1 ELSE frame_nr - frame_nr \div 20

\* PACKET_RX_RING: with too little memory a smaller ring is tried; a kernel without rings
\* makes create_ring() return 0
RequestRing ==
    /\ pc = "ring"
    /\ LET req == Rounded(act.req)
       IN  \/ /\ Works /\ dev.vers # {} /\ req.block_nr <= dev.blocks
              /\ act' = [act EXCEPT !.req = req] /\ kern' = [kern EXCEPT !.ring = req.block_nr > 0]
              /\ Goto("map_ring") /\ UNCHANGED <<h, heap>>
           \/ /\ Works /\ dev.vers # {} /\ req.block_nr > dev.blocks /\ req.block_nr > 1
              /\ act' = [act EXCEPT !.req = [req EXCEPT !.frame_nr = Fewer(@)]]
              /\ UNCHANGED <<pc, h, kern, heap>>
           \/ /\ Works /\ dev.vers # {} /\ req.block_nr > dev.blocks /\ req.block_nr = 1
              /\ MmapFails /\ FreesOneshot /\ UNCHANGED kern
           \/ /\ Works /\ dev.vers = {} /\ Goto("rcvbuf") /\ FreesOneshot
              /\ UNCHANGED <<act, kern>>
           \/ Fault /\ MmapFails /\ FreesOneshot /\ UNCHANGED kern
    /\ UNCHANGED <<dev, onExit, gaveUp, failed>>

destroy_ring(k) == [k EXCEPT !.ring = FALSE, !.mapped = FALSE]

\* mmap() of nothing fails; destroy_ring() after a failed malloc() unmaps.  Then the operations
\* of the ring are installed and pcap_activate_linux() returns.
MapRing ==
    /\ pc = "map_ring"
    /\ \/ /\ Works /\ kern.ring /\ kern' = [kern EXCEPT !.mapped = TRUE]
          /\ Malloc("buffer")
          /\ h' = [h EXCEPT !.ptr = @ \cup {"buffer"}, !.cc = act.req.frame_nr, !.cleanup = "mmap",
                     !.bufsize = act.req.frame_size,
                     !.ops = CASE act.n = 1 -> "v1" [] act.n = 2 -> "v2" [] act.n = 3 -> "v3"]
          /\ Goto("return") /\ UNCHANGED act
       \/ /\ (Fault \/ (~kern.ring /\ Works)) /\ MmapFails /\ FreesOneshot
          /\ kern' = destroy_ring(kern)
    /\ UNCHANGED <<dev, onExit, gaveUp, failed>>

\* without a ring: SO_RCVBUF if a size is set, and a buffer for one packet
SetBuffer ==
    /\ pc = "rcvbuf"
    /\ \/ /\ Works /\ h' = [h EXCEPT !.ptr = @ \cup {"buffer"}] /\ Malloc("buffer")
          /\ Goto("return") /\ UNCHANGED act
       \/ Fault /\ Fail(PCAP_ERROR) /\ UNCHANGED <<h, heap>>
    /\ UNCHANGED <<dev, kern, onExit, gaveUp, failed>>

----------------------------------------------------------------------------
(* usb_activate(), can_activate() and netfilter_activate() *)

\* the activate operation returns
Back(status) == Goto("return") /\ act' = [act EXCEPT !.ret = status]
\* pcap_cleanup_live_common(), then the activate operation returns
OwnFails(status) == Goto("free") /\ act' = [act EXCEPT !.ret = status, !.after = "return"]

Opened(ops, size) ==
    /\ h' = [h EXCEPT !.fd = TRUE, !.closed = FALSE, !.ops = ops, !.bufsize = size]
    /\ kern' = [kern EXCEPT !.fds = @ + 1]
NotOpened == h' = [h EXCEPT !.fd = FALSE, !.closed = FALSE] /\ UNCHANGED kern
Allocated(p) == h' = [h EXCEPT !.ptr = @ \cup {p}] /\ Malloc(p)

\* /dev/usbmonN; without it, the text of debugfs
usb_activate ==
    /\ pc = "usb"
    /\ \/ Works /\ dev.usb.bin /\ Opened("usb_bin", h.opt.snapshot) /\ Goto("usb_mode")
       \/ (IF dev.usb.bin THEN Fault ELSE Works) /\ NotOpened /\ Goto("usb_text")
    /\ UNCHANGED act /\ Rest

UsbText ==
    /\ pc = "usb_text"
    /\ \/ Works /\ dev.usb.text /\ Opened("usb_text", h.opt.snapshot) /\ Goto("usb_mode") /\ UNCHANGED act
       \/ (IF dev.usb.text THEN Fault ELSE Works) /\ NotOpened /\ Back(PCAP_ERROR)
    /\ Rest

\* the handle keeps the number of the descriptor that is closed here
UsbFails(status) == Back(status) /\ kern' = Closed(kern) /\ h' = [h EXCEPT !.closed = TRUE]

\* usb_mmap(); without a ring, events are copied into a buffer
usb_mmap ==
    /\ pc = "usb_mode"
    /\ \/ Works /\ h.opt.rfmon /\ UsbFails(PCAP_ERROR_RFMON_NOTSUP)
       \/ /\ Works /\ ~h.opt.rfmon /\ h.ops = "usb_bin" /\ dev.usb.ring /\ Back(0)
          /\ h' = [h EXCEPT !.ops = "usb_mmap", !.cleanup = "usb"]
          /\ kern' = [kern EXCEPT !.mapped = TRUE]
       \/ /\ ~h.opt.rfmon /\ (IF h.ops = "usb_bin" /\ dev.usb.ring THEN Fault ELSE Works)
          /\ Goto("usb_buffer") /\ UNCHANGED <<h, act, kern>>
    /\ Rest

UsbBuffer ==
    /\ pc = "usb_buffer"
    /\ \/ Works /\ Allocated("buffer") /\ Back(0) /\ UNCHANGED kern
       \/ Fault /\ UsbFails(PCAP_ERROR) /\ UNCHANGED heap
    /\ UNCHANGED <<dev, onExit, gaveUp, failed>>

can_activate ==
    /\ pc = "can"
    /\ \/ Works /\ Opened("can", 24) /\ Goto("can_bind") /\ UNCHANGED act
       \/ Fault /\ NotOpened /\ Back(PCAP_ERROR)
    /\ Rest

\* the index of the interface, a buffer, bind()
CanBind ==
    /\ pc = "can_bind" /\ UNCHANGED kern
    /\ \/ /\ Works /\ Allocated("buffer")
          /\ IF h.opt.rfmon THEN OwnFails(PCAP_ERROR_RFMON_NOTSUP) ELSE Back(0)
       \/ Fault /\ OwnFails(PCAP_ERROR) /\ (Allocated("buffer") \/ UNCHANGED <<h, heap>>)
    /\ UNCHANGED <<dev, onExit, gaveUp, failed>>

\* without a group in the name, group 0
Groups == IF dev.groups = 0 THEN 1 ELSE dev.groups

netfilter_activate ==
    /\ pc = "netfilter"
    /\ \/ Works /\ dev.groups \notin 0 .. 32 /\ Back(PCAP_ERROR) /\ UNCHANGED <<h, kern>>
       \/ /\ Works /\ dev.groups \in 0 .. 32 /\ Opened("netfilter", 128 + h.opt.snapshot)
          /\ Goto("nf_buffer") /\ UNCHANGED act
       \/ Fault /\ dev.groups \in 0 .. 32 /\ NotOpened /\ Back(PCAP_ERROR)
    /\ Rest

\* only a log has a list of link types
NfList == IF dev.name = "nflog" THEN {"dlt_list"} ELSE {}
Obtained(ps) ==
    /\ h' = [h EXCEPT !.ptr = @ \cup ps]
    /\ heap' = [p \in Pointers |-> IF p \in ps THEN heap[p] + 1 ELSE heap[p]]
NfBuffer ==
    /\ pc = "nf_buffer" /\ UNCHANGED kern
    /\ \/ Works /\ Obtained(NfList \cup {"buffer"}) /\ Goto("nf_config") /\ act' = [act EXCEPT !.n = 0]
       \/ /\ Fault /\ NfList # {} /\ Obtained({"buffer"})
          /\ Goto("nf_config") /\ act' = [act EXCEPT !.n = 0]
       \/ Fault /\ Obtained(NfList) /\ OwnFails(PCAP_ERROR)
    /\ UNCHANGED <<dev, onExit, gaveUp, failed>>

\* netfilter_send_config_msg() with an acknowledgement: PF_UNBIND and PF_BIND, then BIND and
\* the copy mode for each group
netfilter_send_config_msg ==
    /\ pc = "nf_config" /\ UNCHANGED h
    /\ \/ /\ Works /\ act.n < 2 + 2 * Groups /\ act' = [act EXCEPT !.n = @ + 1]
          /\ kern' = IF act.n >= 2 /\ act.n % 2 = 1 THEN [kern EXCEPT !.groups = @ + 1] ELSE kern
          /\ UNCHANGED pc
       \/ Works /\ act.n = 2 + 2 * Groups /\ Goto("nf_options") /\ UNCHANGED <<act, kern>>
       \/ Fault /\ act.n < 2 + 2 * Groups /\ OwnFails(PCAP_ERROR) /\ UNCHANGED kern
    /\ Rest

\* monitor mode is refused only now; SO_RCVBUF
NfOptions ==
    /\ pc = "nf_options" /\ UNCHANGED <<h, kern>>
    /\ \/ Works /\ h.opt.rfmon /\ OwnFails(PCAP_ERROR_RFMON_NOTSUP)
       \/ Works /\ ~h.opt.rfmon /\ Back(0)
       \/ Fault /\ ~h.opt.rfmon /\ h.opt.buffer_size # 0 /\ OwnFails(PCAP_ERROR)
    /\ Rest

----------------------------------------------------------------------------
(* Closing *)

pcap_close ==
    /\ pc = "idle" /\ h.alive
    /\ Goto("close") /\ act' = [act EXCEPT !.after = "free"]
    /\ UNCHANGED <<dev, h, kern, heap, onExit, used, gaveUp, failed>>

\* pcap_close_all(), called by exit(): closes what is in the list
pcap_close_all ==
    /\ pc = "idle"
    /\ IF onExit.registered /\ onExit.head
       THEN /\ Goto(IF h.alive THEN "close" ELSE "crash")
            /\ act' = [act EXCEPT !.after = "exit"]
       ELSE Goto("exited") /\ UNCHANGED act
    /\ UNCHANGED <<dev, h, kern, heap, onExit, used, gaveUp, failed>>

\* what the cleanup_op does first: pcap_cleanup_linux_mmap(), usb_cleanup_linux_mmap()
CleanedUp(k) ==
    CASE h.cleanup = "mmap" -> destroy_ring(k)
      [] h.cleanup = "usb" -> [k EXCEPT !.mapped = FALSE]
      [] OTHER -> k

\* free(p->opt.source) and the cleanup_op
Close ==
    /\ pc = "close" /\ Works
    /\ LET gone == {"source"} \cup IF h.cleanup = "mmap" THEN {"oneshot_buffer"} ELSE {}
       IN  /\ heap' = Freed(heap, gone \cap h.ptr) /\ h' = [h EXCEPT !.ptr = @ \ gone]
    /\ kern' = CleanedUp(kern)
    /\ Goto(IF h.cleanup \in {"common", "usb"} THEN "free" ELSE "cleanup")
    /\ UNCHANGED <<dev, act, onExit, gaveUp, failed>>

\* the interface as it was, except for what could not be undone: the promiscuous flag, the
\* monitor interface, the mode, for which the interface is taken down and up again
Undone(lost, up) ==
    LET undo == h.must_do \ lost
    IN  [IF "DELETE_MONIF" \in undo THEN del_mon_if(kern, h.mondev) ELSE kern EXCEPT
                     !.promisc = @ /\ "CLEAR_PROMISC" \notin undo,
                     !.mode = IF "CLEAR_RFMON" \in undo THEN h.oldmode ELSE @,
                     !.up = @ /\ up]

\* pcap_cleanup_linux(): undo what must_do_on_close says, which it does not reset.  Without a
\* descriptor every ioctl() fails.  The names are used although an earlier clean-up may have
\* freed them.
pcap_cleanup_linux ==
    /\ pc = "cleanup"
    /\ IF \/ h.must_do # {} /\ "device" \notin h.ptr
          \/ "DELETE_MONIF" \in h.must_do /\ "mondevice" \notin h.ptr
       THEN Works /\ Goto("crash") /\ UNCHANGED <<h, kern, heap, onExit, gaveUp>>
       ELSE /\ \/ Works /\ (h.fd \/ h.must_do = {}) /\ kern' = Undone({}, TRUE) /\ UNCHANGED gaveUp
               \/ Works /\ ~h.fd /\ h.must_do # {} /\ gaveUp' = TRUE /\ UNCHANGED kern
               \/ /\ Fault /\ h.fd /\ gaveUp' = TRUE
                  /\ \/ \E lost \in SUBSET h.must_do \ {{}} : kern' = Undone(lost, TRUE)
                     \/ "CLEAR_RFMON" \in h.must_do /\ kern' = Undone({}, FALSE)
            /\ onExit' = IF h.must_do = {} THEN onExit ELSE Removed(onExit)
            /\ h' = [h EXCEPT !.ptr = @ \ {"mondevice", "device"}]
            /\ heap' = Freed(heap, h.ptr \cap {"mondevice", "device"})
            /\ Goto("free")
    /\ UNCHANGED <<dev, act, failed>>

\* pcap_cleanup_live_common(), then free() of the handle or the return of the status
pcap_cleanup_live_common ==
    /\ pc = "free" /\ Works
    /\ LET gone == h.ptr \cap {"buffer", "dlt_list", "tstamp_type_list", "tstamp_precision_list"}
       IN  /\ heap' = Freed(heap, gone)
           /\ h' = [h EXCEPT !.ptr = @ \ gone, !.fd = FALSE, !.closed = FALSE, !.alive = act.after = "return"]
    \* a descriptor that usb_activate() has closed is closed again
    /\ kern' = IF h.fd /\ ~h.closed THEN Closed(kern) ELSE kern
    /\ failed' = (failed \/ act.after = "return")
    /\ Goto(CASE act.after = "return" -> "return" [] act.after = "free" -> "idle"
              [] act.after = "exit" -> "exited")
    /\ UNCHANGED <<dev, act, onExit, gaveUp>>

----------------------------------------------------------------------------
\* the steps of a call that is under way
Step ==
    \/ pcap_activate_linux \/ SetDevice \/ Return
    \/ NewSocket \/ AnyDevice \/ iface_get_arptype \/ SetDlt \/ iface_bind \/ SetSocketOptions
    \/ get_mac80211_phydev \/ nl80211_init \/ add_mon_if \/ enter_rfmon_mode_mac80211
    \/ has_wext \/ GetMode \/ TakeDown \/ SetMonitor \/ SetHeaders
    \/ OldSocket \/ OldPromisc \/ OldBufferSize
    \/ activate_mmap \/ prepare_tpacket_socket \/ RingSize \/ SetHwTstamp \/ RequestRing
    \/ MapRing \/ SetBuffer
    \/ usb_activate \/ UsbText \/ usb_mmap \/ UsbBuffer \/ can_activate \/ CanBind
    \/ netfilter_activate \/ NfBuffer \/ netfilter_send_config_msg \/ NfOptions
    \/ Close \/ pcap_cleanup_linux \/ pcap_cleanup_live_common

\* the program calls the library
Call ==
    \/ pcap_create \/ pcap_activate \/ pcap_close \/ pcap_close_all \/ pcap_can_set_rfmon_linux
    \/ \E o \in Options : \E v \in Values[o] : pcap_set(o, v)
    \/ \E t \in {"host", "adapter"} : pcap_set_tstamp_type(t)
    \/ \E t \in {"micro", "nano"} : pcap_set_tstamp_precision(t)
    \/ \E n \in Values["snapshot"], b \in Values["promisc"], t \in Values["timeout"] :
         pcap_open_live(n, b, t)

Next == Step \/ Call

Spec == Init /\ [][Next]_vars /\ WF_vars(Step)

----------------------------------------------------------------------------
(* Properties *)

Restored ==
    /\ kern.up = dev.up /\ (kern.promisc = dev.promisc \/ (dev.promisc /\ ~dev.up))
    /\ kern.mode = dev.mode /\ kern.mons = dev.mons

\* When the handle is closed, or the process has exited, the interface is as it was found: the
\* mode, the flags and the monitor interfaces, whichever of the many exits activation took
\* (pcap_cleanup_linux, the exit handler).  The exceptions are the places where the code itself
\* gives up: a failed atexit(), an undo that fails, a clean-up without a descriptor; and the
\* promiscuous flag of an interface that was down, which enter_rfmon_mode_wext() loses when it
\* puts back the flags of an interface it has not taken down.
ChangesAreUndone ==
    (pc = "exited" \/ (pc = "idle" /\ ~h.alive)) /\ ~gaveUp => Restored

\* Between calls every descriptor, mapping and block belongs to the handle, and none is freed
\* twice.  The source of a failed pcap_create_interface() and the first list of link types of an
\* activation that falls back to activate_old() are lost, and a handle on a USB bus that could not
\* be activated may keep the number of a descriptor that is closed already.
NothingLeaks ==
    pc = "idle" =>
        /\ kern.fds = IF h.fd /\ ~h.closed THEN 1 ELSE 0
        /\ h.closed => dev.name = "usbmon" /\ ~h.activated
        /\ kern.nl = 0 \/ gaveUp
        /\ kern.mapped <=> h.alive /\ h.cleanup \in {"mmap", "usb"}
        /\ \A p \in Pointers :
             /\ heap[p] >= IF p \in h.ptr THEN 1 ELSE 0
             /\ p \notin {"source", "dlt_list"} => heap[p] <= IF p \in h.ptr THEN 1 ELSE 0

Usable ==
    /\ h.fd /\ ~h.closed
    /\ h.ops # "usb_mmap" => "buffer" \in h.ptr
    /\ ~Special => "device" \in h.ptr
    /\ h.ops \in {"v1", "v2", "v3"} => kern.mapped /\ h.cc > 0
    /\ h.ops = "usb_mmap" => kern.mapped
    /\ h.ops = "netfilter" => kern.groups = Groups

\* A status that is not negative means a handle that can be read (pcap_activate), unless it
\* is PCAP_WARNING, which the code also returns for a ring that could not be set up.
UsableUnlessRingFails ==
    pc = "idle" /\ h.alive /\ h.activated /\ h.status # PCAP_WARNING => Usable

\* A frame of the ring takes a whole packet, but for the two bytes by which the kernel aligns
\* the header of an Ethernet frame and create_ring() does not.
RingHoldsPackets ==
    pc = "idle" /\ h.alive /\ h.ops \in {"v1", "v2"} /\ (h.linktype = "EN10MB" \/ h.cooked) =>
        LET v == IF h.ops = "v1" THEN 1 ELSE 2
        IN  h.bufsize - MacOffset(v, IF h.sk = "dgram" THEN 0 ELSE 14) >= PacketSize - 2

\* What pcap_activate() reports as success is a handle that can be read, in frames that take
\* the packets.
HandleIsUsable == UsableUnlessRingFails /\ RingHoldsPackets

\* The list that the exit handler walks refers to a live handle, unless the handle was put into
\* it twice: for monitor mode, and again for the flag of activate_old().
ExitListIsLive ==
    onExit.head /\ ~h.alive => onExit.twice

\* The clean-up uses the names of the device and of the monitor interface before they are
\* freed, unless an earlier activation has freed them and left must_do_on_close set, or the
\* handle is closed a second time because it is in the list twice.
NamesOutliveUse == pc = "crash" => failed \/ onExit.twice

\* The memory, descriptors and lists of a handle are in order between calls, and nothing that
\* was freed is used, apart from the cases named above.
MemoryIsSound == NothingLeaks /\ ExitListIsLive /\ NamesOutliveUse

\* Every call returns: the search for a name monN and the smaller and smaller rings end.
CallsReturn == pc # "idle" ~> pc \in {"idle", "exited", "crash"}
=============================================================================
