--------------------------- MODULE ActivateProofs ---------------------------
(***************************************************************************)
(* What holds of a handle of Activate for every device, every value of the *)
(* options and any number of faults, calls and activations.                *)
(***************************************************************************)
EXTENDS Activate, TLAPS

\* what an inductive argument needs of the types
KernelFields == {"up", "promisc", "mode", "mons", "fds", "nl", "member", "groups", "ring", "mapped"}
ExitFields == {"registered", "head", "twice"}
HandleShape ==
    /\ DOMAIN h = DOMAIN NoHandle
    /\ h.alive \in BOOLEAN /\ h.activated \in BOOLEAN /\ h.oldstyle \in BOOLEAN /\ h.fd \in BOOLEAN
    /\ h.next \in BOOLEAN /\ h.closed \in BOOLEAN
CallShape ==
    DOMAIN act = DOMAIN NoCall /\ act.sock \in BOOLEAN /\ act.down \in BOOLEAN /\ act.ret \in Int
KernelShape ==
    /\ DOMAIN kern = KernelFields
    /\ kern.up \in BOOLEAN /\ kern.promisc \in BOOLEAN /\ kern.mapped \in BOOLEAN
    /\ kern.fds \in Int /\ kern.nl \in Int
ExitShape ==
    /\ DOMAIN onExit = ExitFields
    /\ onExit.registered \in BOOLEAN /\ onExit.head \in BOOLEAN /\ onExit.twice \in BOOLEAN
Shape ==
    /\ dev \in Devices /\ HandleShape /\ CallShape /\ KernelShape /\ ExitShape
    /\ gaveUp \in BOOLEAN /\ failed \in BOOLEAN

\* the steps of pcap_activate_linux(): before the interface is changed, while it is being put into
\* monitor mode, and after that, when the handle knows what must be undone
Before == {"socket", "any", "phydev", "nl80211", "add_mon_if", "wext", "mode", "down"}
Entering == {"mon_up", "monitor", "montype"}
Ringing == {"tpacket", "ring_size", "hwtstamp", "ring", "map_ring"}
Inside == {"arptype", "dlt", "bind", "promisc", "mmap", "rcvbuf", "old", "old_promisc", "old_size"}
\* the steps of the other kinds of devices
Own == {"can", "can_bind", "usb", "usb_text", "usb_mode", "usb_buffer", "netfilter", "nf_buffer", "nf_config",
        "nf_options"}
\* the steps at which activate_new() has a socket that the handle does not own yet
Socketed == {"any", "phydev", "nl80211", "add_mon_if", "wext", "mode", "down", "mon_up", "monitor", "montype",
             "arptype", "dlt", "bind", "promisc"}
Linux == {"linux", "mmap"}
Mapping == {"mmap", "usb"}

\* where a call can be, and which clean-up the handle then has
Control ==
    /\ ~h.alive => pc \in {"idle", "exited", "crash"}
    /\ pc \in Before \cup Entering \cup Ringing \cup Inside \cup {"device"} =>
         h.cleanup = "linux" /\ act.ret >= 0 /\ ~h.activated /\ ~Special
    /\ pc = "activate" => ~Special
    /\ pc \in Own => Special /\ (usb_create <=> pc \in {"usb", "usb_text", "usb_mode", "usb_buffer"})
    /\ pc \in Own \cup {"activate"} => ~h.activated /\ h.cleanup = "common"
    /\ pc = "idle" /\ h.alive /\ ~h.activated => h.cleanup = "common"
    /\ pc = "return" => ~h.activated
    /\ pc = "close" => act.after \in {"free", "exit"}
    /\ pc \in {"cleanup", "free"} => act.after \in {"return", "free", "exit"}
    /\ pc \in {"cleanup", "free"} /\ act.after = "return" => ~h.activated /\ h.cleanup \notin Mapping
    /\ pc = "return" /\ act.ret < 0 => h.cleanup \notin Mapping
    /\ h.cleanup \in {"common", "usb"} \cup Linux
    /\ Special => h.cleanup \notin Linux
    /\ ~Special => h.cleanup # "usb"

\* the clean-up will still run, or the exit handler will call it
Holding ==
    \/ pc \in Inside \cup Ringing \cup {"cleanup", "crash"}
    \/ pc = "return" /\ act.ret >= 0 /\ h.cleanup \in Linux
    \/ pc = "idle" /\ h.alive /\ h.activated /\ h.cleanup \in Linux
    \/ pc = "close" /\ h.cleanup \in Linux
\* a change m of the interface that the handle has to undo, and will
Kept(m) == m \in h.must_do /\ Holding /\ onExit.registered /\ onExit.head

\* Each part of the interface is as it was found, or being changed, or kept for the clean-up;
\* and what the handle remembers of it is what was found.
Exempt == dev.promisc /\ ~dev.up
UpKept ==
    IF pc \in {"monitor", "montype"} THEN ~kern.up /\ act.down = dev.up ELSE kern.up = dev.up
ModeKept ==
    /\ kern.mode = dev.mode \/ pc = "montype" \/ Kept("CLEAR_RFMON")
    /\ pc \in {"down", "monitor", "montype"} => h.oldmode = dev.mode
    /\ "CLEAR_RFMON" \in h.must_do => h.oldmode = dev.mode
PromiscKept ==
    /\ kern.promisc = dev.promisc \/ Exempt \/ Kept("CLEAR_PROMISC")
    /\ "CLEAR_PROMISC" \in h.must_do => ~dev.promisc \/ Exempt
MonsKept ==
    /\ \/ kern.mons = dev.mons
       \/ kern.mons = dev.mons \cup {h.mondev} /\ (pc = "mon_up" \/ Kept("DELETE_MONIF"))
    /\ pc = "mon_up" => h.mondev = act.n /\ act.n \notin dev.mons
    /\ "DELETE_MONIF" \in h.must_do => h.mondev \notin dev.mons
Undoing == ~gaveUp => UpKept /\ ModeKept /\ PromiscKept /\ MonsKept

\* descriptors, netlink sockets and mappings
Owning ==
    /\ act.sock <=> pc \in Socketed
    /\ kern.fds = (IF act.sock THEN 1 ELSE 0) + (IF h.fd /\ ~h.closed THEN 1 ELSE 0)
    /\ pc \in Before \cup Entering \cup {"device", "arptype", "dlt", "bind", "promisc", "old"} => ~h.fd
    /\ pc \in {"activate", "can", "usb", "usb_text", "netfilter"} => (h.fd => h.closed)
    /\ pc \in {"usb_mode", "usb_buffer"} => h.fd
    /\ pc = "idle" /\ ~(h.alive /\ h.activated) => (h.fd => h.closed)
    /\ pc = "return" /\ act.ret < 0 => (h.fd => h.closed)
    /\ h.closed => usb_create /\ ~h.activated /\ (pc = "return" => act.ret < 0)
           /\ pc \notin {"usb_mode", "usb_buffer"}
    /\ gaveUp \/ kern.nl = IF pc \in {"add_mon_if", "mon_up"} THEN 1 ELSE 0
    /\ pc # "exited" => (kern.mapped <=> pc \in {"idle", "return", "close"} /\ h.alive /\ h.cleanup \in Mapping)

\* the blocks of the heap are the ones the handle points to, apart from two pointers that are lost
Lossy == {"source", "dlt_list"}
Fits(hp, pt) ==
    /\ hp \in [Pointers -> Int] /\ pt \subseteq Pointers
    /\ \A p \in Pointers : /\ hp[p] >= IF p \in pt THEN 1 ELSE 0
                           /\ p \notin Lossy => hp[p] = IF p \in pt THEN 1 ELSE 0

\* which pointers a handle has, where
Bare == h.ptr \cap {"device", "mondevice", "buffer", "oneshot_buffer"} = {}
Where ==
    /\ ~h.alive /\ pc = "idle" => h.ptr = {}
    /\ pc \in {"activate", "device", "can", "can_bind", "usb", "usb_text", "usb_mode", "usb_buffer", "netfilter",
               "nf_buffer"} => Bare
    /\ pc = "idle" /\ h.alive /\ ~h.activated => Bare
    /\ pc = "return" /\ act.ret < 0 => Bare
    /\ pc \in Own \cup {"free"} => "device" \notin h.ptr /\ "mondevice" \notin h.ptr
    /\ pc \in Before => "mondevice" \notin h.ptr
    /\ pc \in Before \cup Entering \cup Ringing \cup Inside => "device" \in h.ptr /\ "buffer" \notin h.ptr
    /\ pc \in Before \cup Entering \cup Inside \cup Own \cup {"cleanup", "free"} => "oneshot_buffer" \notin h.ptr
    /\ pc \in Ringing => "oneshot_buffer" \in h.ptr
    /\ pc = "mon_up" => "mondevice" \in h.ptr
    /\ pc \in {"cleanup", "free"} /\ act.after # "return" => "source" \notin h.ptr
    /\ pc \in {"idle", "return", "close"} /\ h.cleanup # "mmap" => "oneshot_buffer" \notin h.ptr
    /\ pc \in {"idle", "return", "close"} /\ h.cleanup \notin Linux =>
         "device" \notin h.ptr /\ "mondevice" \notin h.ptr

\* the list of the exit handler, and the names the clean-up uses
Listing ==
    /\ onExit.head => onExit.registered
    /\ onExit.twice \/ ~onExit.head \/ (Holding /\ h.alive /\ h.must_do # {} /\ ~h.next)
    /\ \/ failed \/ ~h.alive \/ pc = "free"
       \/ /\ h.must_do # {} => "device" \in h.ptr
          /\ "DELETE_MONIF" \in h.must_do => "mondevice" \in h.ptr
    /\ pc = "crash" => failed \/ onExit.twice

Sound == Control /\ Undoing /\ Owning /\ Where /\ Listing
Inv == Shape /\ Sound /\ Fits(heap, h.ptr)

----------------------------------------------------------------------------
(* What a step may leave alone *)

SameLife ==
    /\ DOMAIN h' = DOMAIN NoHandle /\ h'.alive = h.alive /\ h'.activated = h.activated
    /\ h'.oldstyle = h.oldstyle
SameUndo == h'.must_do = h.must_do /\ h'.next = h.next /\ h'.oldmode = h.oldmode /\ h'.mondev = h.mondev
SameFd == h'.fd = h.fd /\ h'.closed = h.closed
SameHandle == SameLife /\ SameUndo /\ SameFd /\ h'.cleanup = h.cleanup /\ h'.ptr = h.ptr
SameCall ==
    /\ DOMAIN act' = DOMAIN NoCall /\ act'.sock = act.sock /\ act'.down = act.down /\ act'.ret = act.ret
    /\ act'.after = act.after /\ act'.n = act.n
SameInterface ==
    /\ DOMAIN kern' = KernelFields /\ kern'.up = kern.up /\ kern'.promisc = kern.promisc
    /\ kern'.mode = kern.mode /\ kern'.mons = kern.mons
SameKernel == SameInterface /\ kern'.fds = kern.fds /\ kern'.nl = kern.nl /\ kern'.mapped = kern.mapped
SameWorld == dev' = dev /\ onExit' = onExit /\ gaveUp' = gaveUp /\ failed' = failed

\* the kind of the device does not change
LEMMA SameKind ==
    ASSUME dev' = dev
    PROVE  /\ (Special' <=> Special) /\ (usb_create' <=> usb_create) /\ (any' <=> any) /\ (Exempt' <=> Exempt)
           /\ (usb_create => Special)
BY DEF Special, usb_create, can_create, netfilter_create, any, Exempt

\* the flags of an interface are Booleans
LEMMA DeviceType ==
    ASSUME Shape
    PROVE  dev.up \in BOOLEAN /\ dev.promisc \in BOOLEAN
BY DeviceAssumption DEF Shape

\* blocks are allocated: the handle has no pointer yet that would be overwritten, or it is a lossy one
LEMMA FitsAdd ==
    ASSUME NEW hp, NEW pt, NEW ps, Fits(hp, pt), ps \subseteq Pointers, ps \cap pt \subseteq Lossy
    PROVE  Fits([p \in Pointers |-> IF p \in ps THEN hp[p] + 1 ELSE hp[p]], pt \cup ps)
BY DEF Fits

\* one block is allocated
LEMMA FitsMalloc ==
    ASSUME NEW q \in Pointers, Fits(heap, h.ptr), Malloc(q), q \notin h.ptr \/ q \in Lossy, h'.ptr = h.ptr \cup {q}
    PROVE  Fits(heap, h.ptr)'
<1>1. heap \in [Pointers -> Int] /\ h.ptr \subseteq Pointers  BY DEF Fits
<1>2. heap' = [p \in Pointers |-> IF p \in {q} THEN heap[p] + 1 ELSE heap[p]]  BY <1>1 DEF Malloc
<1>3. Fits([p \in Pointers |-> IF p \in {q} THEN heap[p] + 1 ELSE heap[p]], h.ptr \cup {q})  BY <1>1, FitsAdd
<1>4. QED BY <1>2, <1>3

\* blocks are freed, each of which the handle points to
LEMMA FitsFreed ==
    ASSUME NEW hp, NEW pt, NEW ps, Fits(hp, pt), ps \subseteq pt
    PROVE  Fits(Freed(hp, ps), pt \ ps)
BY DEF Fits, Freed

\* nothing is allocated or freed
LEMMA FitsSame ==
    ASSUME Fits(heap, h.ptr), heap' = heap, h'.ptr = h.ptr
    PROVE  Fits(heap, h.ptr)'
OBVIOUS

\* the names of Sound are spelled out together
LEMMA InvFacts ==
    ASSUME Inv
    PROVE  Shape /\ Control /\ Undoing /\ Owning /\ Where /\ Listing /\ Fits(heap, h.ptr)
BY DEF Inv, Sound

----------------------------------------------------------------------------
(* Ways to leave a step that many steps share *)

\* what Fail() does to the call
Failing ==
    /\ pc' = "cleanup" /\ DOMAIN act' = DOMAIN NoCall /\ act'.sock = FALSE /\ act'.down = act.down
    /\ act'.ret \in Int /\ act'.after = "return"

\* what closing the socket of activate_new() does
SocketClosed == SameInterface /\ kern'.fds = kern.fds - 1 /\ kern'.nl = kern.nl /\ kern'.mapped = kern.mapped
LEMMA ClosedFacts ==
    ASSUME Shape, kern' = Closed(kern)
    PROVE  SocketClosed
BY DEF Shape, KernelShape, Closed, SocketClosed, SameInterface, KernelFields

\* what is left alone
LEMMA Unchanged ==
    ASSUME Shape
    PROVE  (UNCHANGED h => SameHandle) /\ (UNCHANGED act => SameCall) /\ (UNCHANGED kern => SameKernel)
<1>1. UNCHANGED h => SameHandle  BY DEF Shape, HandleShape, SameHandle, SameLife, SameUndo, SameFd
<1>2. UNCHANGED act => SameCall  BY DEF Shape, CallShape, SameCall
<1>3. UNCHANGED kern => SameKernel  BY DEF Shape, KernelShape, SameKernel, SameInterface
<1>4. QED BY <1>1, <1>2, <1>3

USE DEF Before, Entering, Ringing, Inside, Own, Socketed, Linux, Mapping
USE DEF SameHandle, SameLife, SameUndo, SameFd, SameCall, SameInterface, SameKernel, SameWorld,
          Failing, SocketClosed

\* activate_new() fails with its socket closed and the interface as it was
LEMMA NewFailsStep ==
    ASSUME Inv, pc \in Socketed \ {"add_mon_if", "mon_up", "monitor", "montype"},
           Failing, SocketClosed, SameHandle, SameWorld, UNCHANGED heap
    PROVE  Inv'
<1>1. Shape /\ Control /\ Undoing /\ Owning /\ Where /\ Listing /\ Fits(heap, h.ptr)  BY InvFacts
<1>2. SameHandle  OBVIOUS
<1>3. Failing  OBVIOUS
<1>4. SocketClosed  OBVIOUS
<1>5. heap' = heap /\ SameWorld  OBVIOUS
<1>6. Shape'
  <2>1. HandleShape'  BY <1>1, <1>2 DEF Shape, HandleShape
  <2>2. CallShape'  BY <1>1, <1>3 DEF Shape, CallShape
  <2>3. KernelShape'  BY <1>1, <1>4 DEF Shape, KernelShape
  <2>4. ExitShape'  BY <1>1, <1>5 DEF Shape, ExitShape
  <2>5. QED BY <1>1, <1>5, <2>1, <2>2, <2>3, <2>4 DEF Shape
<1>7. Sound'
  <2> USE <1>1, <1>2, <1>3, <1>4, <1>5, SameKind, DeviceType DEF Shape, HandleShape, CallShape, KernelShape,
      ExitShape, Control
  <2>1. Control'  OBVIOUS
  <2>2. Undoing'  BY DEF Undoing, UpKept, ModeKept, PromiscKept, MonsKept, Kept, Holding
  <2>3. Owning'  BY DEF Owning
  <2>4. Where'  BY DEF Where, Bare
  <2>5. Listing'  BY DEF Listing, Holding, Where
  <2>6. QED BY <2>1, <2>2, <2>3, <2>4, <2>5 DEF Sound
<1>8. Fits(heap, h.ptr)'
  BY <1>1, <1>2, <1>3, <1>4, <1>5, FitsSame
<1>9. QED BY <1>6, <1>7, <1>8 DEF Inv

\* pcap_activate_linux() refuses a long name, or sets the operations
LEMMA pcap_activate_linuxStep ==
    ASSUME Inv, pcap_activate_linux
    PROVE  Inv'
<1>1. Shape /\ Control /\ Undoing /\ Owning /\ Where /\ Listing /\ Fits(heap, h.ptr)  BY InvFacts
<1>2. CASE dev.name = "long"
  <2>2. pc = "activate" /\ Fail(-5) /\ UNCHANGED <<dev, h, kern, heap, onExit, gaveUp, failed>>
    BY <1>1, <1>2 DEF pcap_activate_linux, PCAP_ERROR_NO_SUCH_DEVICE
  <2>3. SameHandle  BY <1>1, <2>2, Unchanged
  <2>4. Failing  BY <1>1, <2>2 DEF Fail, Shape, CallShape, NoCall
  <2>5. SameKernel  BY <1>1, <2>2, Unchanged
  <2>6. pc = "activate" /\ heap' = heap /\ SameWorld  BY <1>1, <2>2
  <2>7. Shape'
    <3>1. HandleShape'  BY <1>1, <2>3 DEF Shape, HandleShape
    <3>2. CallShape'  BY <1>1, <2>4 DEF Shape, CallShape
    <3>3. KernelShape'  BY <1>1, <2>5 DEF Shape, KernelShape
    <3>4. ExitShape'  BY <1>1, <2>6 DEF Shape, ExitShape
    <3>5. QED BY <1>1, <2>6, <3>1, <3>2, <3>3, <3>4 DEF Shape
  <2>8. Sound'
    <3> USE <1>1, <2>3, <2>4, <2>5, <2>6, SameKind, DeviceType DEF Shape, HandleShape, CallShape, KernelShape,
        ExitShape, Control
    <3>1. Control'  OBVIOUS
    <3>2. Undoing'  BY DEF Undoing, UpKept, ModeKept, PromiscKept, MonsKept, Kept, Holding
    <3>3. Owning'  BY DEF Owning
    <3>4. Where'  BY DEF Where, Bare
    <3>5. Listing'  BY DEF Listing, Holding, Where
    <3>6. QED BY <3>1, <3>2, <3>3, <3>4, <3>5 DEF Sound
  <2>9. Fits(heap, h.ptr)'
    BY <1>1, <2>3, <2>4, <2>5, <2>6, FitsSame
  <2>10. QED BY <2>7, <2>8, <2>9 DEF Inv
<1>3. CASE dev.name # "long"
  <2>2. /\ pc = "activate" /\ pc' = "device"
        /\ h' = [h EXCEPT !.ops = "linux", !.cleanup = "linux", !.opt.promisc = @ /\ ~any]
        /\ act' = [NoCall EXCEPT !.ret = IF any /\ h.opt.promisc THEN 2 ELSE 0]
        /\ UNCHANGED <<dev, kern, heap, onExit, gaveUp, failed>>
    BY <1>1, <1>3 DEF pcap_activate_linux, Goto, PCAP_WARNING_PROMISC_NOTSUP
  <2>3. SameLife /\ SameUndo /\ SameFd /\ h'.cleanup = "linux" /\ h'.ptr = h.ptr
    BY <1>1, <2>2 DEF Shape, HandleShape, NoHandle
  <2>4. /\ DOMAIN act' = DOMAIN NoCall /\ act'.sock = FALSE /\ act'.down = FALSE
        /\ act'.ret \in Int /\ act'.ret >= 0
    BY <1>1, <2>2 DEF Shape, CallShape, NoCall
  <2>5. SameKernel  BY <1>1, <2>2, Unchanged
  <2>6. pc' = "device" /\ pc = "activate" /\ heap' = heap /\ SameWorld  BY <1>1, <2>2
  <2>7. Shape'
    <3>1. HandleShape'  BY <1>1, <2>3 DEF Shape, HandleShape
    <3>2. CallShape'  BY <1>1, <2>4 DEF Shape, CallShape
    <3>3. KernelShape'  BY <1>1, <2>5 DEF Shape, KernelShape
    <3>4. ExitShape'  BY <1>1, <2>6 DEF Shape, ExitShape
    <3>5. QED BY <1>1, <2>6, <3>1, <3>2, <3>3, <3>4 DEF Shape
  <2>8. Sound'
    <3> USE <1>1, <2>3, <2>4, <2>5, <2>6, SameKind, DeviceType DEF Shape, HandleShape, CallShape, KernelShape,
        ExitShape, Control
    <3>1. Control'  OBVIOUS
    <3>2. Undoing'  BY DEF Undoing, UpKept, ModeKept, PromiscKept, MonsKept, Kept, Holding
    <3>3. Owning'  BY DEF Owning
    <3>4. Where'  BY DEF Where, Bare
    <3>5. Listing'  BY DEF Listing, Holding, Where
    <3>6. QED BY <3>1, <3>2, <3>3, <3>4, <3>5 DEF Sound
  <2>9. Fits(heap, h.ptr)'
    BY <1>1, <2>3, <2>4, <2>5, <2>6, FitsSame
  <2>10. QED BY <2>7, <2>8, <2>9 DEF Inv
<1>4. QED BY <1>2, <1>3 DEF pcap_activate_linux

\* the name of the device is copied
LEMMA SetDeviceStep ==
    ASSUME Inv, SetDevice
    PROVE  Inv'
<1>1. Shape /\ Control /\ Undoing /\ Owning /\ Where /\ Listing /\ Fits(heap, h.ptr)  BY InvFacts
<1>2. CASE pc' = "socket"
  <2>2. /\ pc = "device" /\ h' = [h EXCEPT !.ptr = @ \cup {"device"}] /\ Malloc("device")
        /\ UNCHANGED <<dev, act, kern, onExit, gaveUp, failed>>
    BY <1>1, <1>2 DEF SetDevice, Goto
  <2>3. SameLife /\ SameUndo /\ SameFd /\ h'.cleanup = h.cleanup /\ h'.ptr = h.ptr \cup {"device"}
    BY <1>1, <2>2 DEF Shape, HandleShape, NoHandle
  <2>4. SameCall  BY <1>1, <2>2, Unchanged
  <2>5. SameKernel  BY <1>1, <2>2, Unchanged
  <2>6. pc' = "socket" /\ pc = "device" /\ Malloc("device") /\ SameWorld  BY <1>2, <2>2
  <2>7. Shape'
    <3>1. HandleShape'  BY <1>1, <2>3 DEF Shape, HandleShape
    <3>2. CallShape'  BY <1>1, <2>4 DEF Shape, CallShape
    <3>3. KernelShape'  BY <1>1, <2>5 DEF Shape, KernelShape
    <3>4. ExitShape'  BY <1>1, <2>6 DEF Shape, ExitShape
    <3>5. QED BY <1>1, <2>6, <3>1, <3>2, <3>3, <3>4 DEF Shape
  <2>8. Sound'
    <3> USE <1>1, <2>3, <2>4, <2>5, <2>6, SameKind, DeviceType DEF Shape, HandleShape, CallShape, KernelShape,
        ExitShape, Control
    <3>1. Control'  OBVIOUS
    <3>2. Undoing'  BY DEF Undoing, UpKept, ModeKept, PromiscKept, MonsKept, Kept, Holding
    <3>3. Owning'  BY DEF Owning
    <3>4. Where'  BY DEF Where, Bare
    <3>5. Listing'  BY DEF Listing, Holding, Where
    <3>6. QED BY <3>1, <3>2, <3>3, <3>4, <3>5 DEF Sound
  <2>9. Fits(heap, h.ptr)'
    BY <1>1, <2>3, <2>4, <2>5, <2>6, FitsMalloc DEF Pointers, Lossy, Control, Where, Bare
  <2>10. QED BY <2>7, <2>8, <2>9 DEF Inv
<1>3. CASE pc' = "return"
  <2>2. /\ pc = "device" /\ act' = [act EXCEPT !.ret = -1]
        /\ UNCHANGED <<dev, h, kern, heap, onExit, gaveUp, failed>>
    BY <1>1, <1>3 DEF SetDevice, Goto, PCAP_ERROR
  <2>3. SameHandle  BY <1>1, <2>2, Unchanged
  <2>4. /\ DOMAIN act' = DOMAIN NoCall /\ act'.sock = act.sock /\ act'.down = act.down /\ act'.ret = -1
        /\ act'.after = act.after /\ act'.n = act.n
    BY <1>1, <2>2 DEF Shape, CallShape, NoCall
  <2>5. SameKernel  BY <1>1, <2>2, Unchanged
  <2>6. pc' = "return" /\ pc = "device" /\ heap' = heap /\ SameWorld  BY <1>3, <2>2
  <2>7. Shape'
    <3>1. HandleShape'  BY <1>1, <2>3 DEF Shape, HandleShape
    <3>2. CallShape'  BY <1>1, <2>4 DEF Shape, CallShape
    <3>3. KernelShape'  BY <1>1, <2>5 DEF Shape, KernelShape
    <3>4. ExitShape'  BY <1>1, <2>6 DEF Shape, ExitShape
    <3>5. QED BY <1>1, <2>6, <3>1, <3>2, <3>3, <3>4 DEF Shape
  <2>8. Sound'
    <3> USE <1>1, <2>3, <2>4, <2>5, <2>6, SameKind, DeviceType DEF Shape, HandleShape, CallShape, KernelShape,
        ExitShape, Control
    <3>1. Control'  OBVIOUS
    <3>2. Undoing'  BY DEF Undoing, UpKept, ModeKept, PromiscKept, MonsKept, Kept, Holding
    <3>3. Owning'  BY DEF Owning
    <3>4. Where'  BY DEF Where, Bare
    <3>5. Listing'  BY DEF Listing, Holding, Where
    <3>6. QED BY <3>1, <3>2, <3>3, <3>4, <3>5 DEF Sound
  <2>9. Fits(heap, h.ptr)'
    BY <1>1, <2>3, <2>4, <2>5, <2>6, FitsSame
  <2>10. QED BY <2>7, <2>8, <2>9 DEF Inv
<1>4. QED BY <1>2, <1>3 DEF SetDevice, Goto

\* pcap_activate() gets the status
LEMMA ReturnStep ==
    ASSUME Inv, Return
    PROVE  Inv'
<1>1. Shape /\ Control /\ Undoing /\ Owning /\ Where /\ Listing /\ Fits(heap, h.ptr)  BY InvFacts
<1>2. CASE act.ret >= 0
  <2>2. /\ pc = "return" /\ pc' = "idle" /\ h' = [h EXCEPT !.activated = TRUE, !.status = act.ret]
        /\ UNCHANGED <<dev, act, kern, heap, onExit, gaveUp, failed>>
    BY <1>1, <1>2 DEF Return, Goto
  <2>3. /\ DOMAIN h' = DOMAIN NoHandle /\ h'.alive = h.alive /\ h'.activated = TRUE /\ h'.oldstyle = h.oldstyle
        /\ SameUndo /\ SameFd /\ h'.cleanup = h.cleanup /\ h'.ptr = h.ptr
    BY <1>1, <2>2 DEF Shape, HandleShape, NoHandle
  <2>4. SameCall  BY <1>1, <2>2, Unchanged
  <2>5. SameKernel  BY <1>1, <2>2, Unchanged
  <2>6. pc' = "idle" /\ pc = "return" /\ act.ret >= 0 /\ heap' = heap /\ SameWorld  BY <1>2, <2>2
  <2>7. Shape'
    <3>1. HandleShape'  BY <1>1, <2>3 DEF Shape, HandleShape
    <3>2. CallShape'  BY <1>1, <2>4 DEF Shape, CallShape
    <3>3. KernelShape'  BY <1>1, <2>5 DEF Shape, KernelShape
    <3>4. ExitShape'  BY <1>1, <2>6 DEF Shape, ExitShape
    <3>5. QED BY <1>1, <2>6, <3>1, <3>2, <3>3, <3>4 DEF Shape
  <2>8. Sound'
    <3> USE <1>1, <2>3, <2>4, <2>5, <2>6, SameKind, DeviceType DEF Shape, HandleShape, CallShape, KernelShape,
        ExitShape, Control
    <3>1. Control'  OBVIOUS
    <3>2. Undoing'  BY DEF Undoing, UpKept, ModeKept, PromiscKept, MonsKept, Kept, Holding
    <3>3. Owning'  BY DEF Owning
    <3>4. Where'  BY DEF Where, Bare
    <3>5. Listing'  BY DEF Listing, Holding, Where
    <3>6. QED BY <3>1, <3>2, <3>3, <3>4, <3>5 DEF Sound
  <2>9. Fits(heap, h.ptr)'
    BY <1>1, <2>3, <2>4, <2>5, <2>6, FitsSame
  <2>10. QED BY <2>7, <2>8, <2>9 DEF Inv
<1>3. CASE ~(act.ret >= 0) /\ h.oldstyle
  <2>2. /\ pc = "return" /\ pc' = "close"
        /\ h' = [h EXCEPT !.ops = "none", !.cleanup = "common", !.status = act.ret]
        /\ act' = [act EXCEPT !.after = "free"] /\ UNCHANGED <<dev, kern, heap, onExit, gaveUp, failed>>
    BY <1>1, <1>3 DEF Return, Goto
  <2>3. SameLife /\ SameUndo /\ SameFd /\ h'.cleanup = "common" /\ h'.ptr = h.ptr
    BY <1>1, <2>2 DEF Shape, HandleShape, NoHandle
  <2>4. /\ DOMAIN act' = DOMAIN NoCall /\ act'.sock = act.sock /\ act'.down = act.down /\ act'.ret = act.ret
        /\ act'.after = "free" /\ act'.n = act.n
    BY <1>1, <2>2 DEF Shape, CallShape, NoCall
  <2>5. SameKernel  BY <1>1, <2>2, Unchanged
  <2>6. pc' = "close" /\ pc = "return" /\ act.ret < 0 /\ heap' = heap /\ SameWorld
    BY <1>1, <1>3, <2>2 DEF Shape, CallShape
  <2>7. Shape'
    <3>1. HandleShape'  BY <1>1, <2>3 DEF Shape, HandleShape
    <3>2. CallShape'  BY <1>1, <2>4 DEF Shape, CallShape
    <3>3. KernelShape'  BY <1>1, <2>5 DEF Shape, KernelShape
    <3>4. ExitShape'  BY <1>1, <2>6 DEF Shape, ExitShape
    <3>5. QED BY <1>1, <2>6, <3>1, <3>2, <3>3, <3>4 DEF Shape
  <2>8. Sound'
    <3> USE <1>1, <2>3, <2>4, <2>5, <2>6, SameKind, DeviceType DEF Shape, HandleShape, CallShape, KernelShape,
        ExitShape, Control
    <3>1. Control'  OBVIOUS
    <3>2. Undoing'  BY DEF Undoing, UpKept, ModeKept, PromiscKept, MonsKept, Kept, Holding
    <3>3. Owning'  BY DEF Owning
    <3>4. Where'  BY DEF Where, Bare
    <3>5. Listing'  BY DEF Listing, Holding, Where
    <3>6. QED BY <3>1, <3>2, <3>3, <3>4, <3>5 DEF Sound
  <2>9. Fits(heap, h.ptr)'
    BY <1>1, <2>3, <2>4, <2>5, <2>6, FitsSame
  <2>10. QED BY <2>7, <2>8, <2>9 DEF Inv
<1>4. CASE ~(act.ret >= 0) /\ ~h.oldstyle
  <2>2. /\ pc = "return" /\ pc' = "idle"
        /\ h' = [h EXCEPT !.ops = "none", !.cleanup = "common", !.status = act.ret]
        /\ UNCHANGED <<dev, act, kern, heap, onExit, gaveUp, failed>>
    BY <1>1, <1>4 DEF Return, Goto
  <2>3. SameLife /\ SameUndo /\ SameFd /\ h'.cleanup = "common" /\ h'.ptr = h.ptr
    BY <1>1, <2>2 DEF Shape, HandleShape, NoHandle
  <2>4. SameCall  BY <1>1, <2>2, Unchanged
  <2>5. SameKernel  BY <1>1, <2>2, Unchanged
  <2>6. pc' = "idle" /\ pc = "return" /\ act.ret < 0 /\ heap' = heap /\ SameWorld
    BY <1>1, <1>4, <2>2 DEF Shape, CallShape
  <2>7. Shape'
    <3>1. HandleShape'  BY <1>1, <2>3 DEF Shape, HandleShape
    <3>2. CallShape'  BY <1>1, <2>4 DEF Shape, CallShape
    <3>3. KernelShape'  BY <1>1, <2>5 DEF Shape, KernelShape
    <3>4. ExitShape'  BY <1>1, <2>6 DEF Shape, ExitShape
    <3>5. QED BY <1>1, <2>6, <3>1, <3>2, <3>3, <3>4 DEF Shape
  <2>8. Sound'
    <3> USE <1>1, <2>3, <2>4, <2>5, <2>6, SameKind, DeviceType DEF Shape, HandleShape, CallShape, KernelShape,
        ExitShape, Control
    <3>1. Control'  OBVIOUS
    <3>2. Undoing'  BY DEF Undoing, UpKept, ModeKept, PromiscKept, MonsKept, Kept, Holding
    <3>3. Owning'  BY DEF Owning
    <3>4. Where'  BY DEF Where, Bare
    <3>5. Listing'  BY DEF Listing, Holding, Where
    <3>6. QED BY <3>1, <3>2, <3>3, <3>4, <3>5 DEF Sound
  <2>9. Fits(heap, h.ptr)'
    BY <1>1, <2>3, <2>4, <2>5, <2>6, FitsSame
  <2>10. QED BY <2>7, <2>8, <2>9 DEF Inv
<1>5. QED BY <1>2, <1>3, <1>4

----------------------------------------------------------------------------
(* activate_new() *)

\* the socket is made, or not
LEMMA NewSocketStep ==
    ASSUME Inv, NewSocket
    PROVE  Inv'
<1>1. Shape /\ Control /\ Undoing /\ Owning /\ Where /\ Listing /\ Fits(heap, h.ptr)  BY InvFacts
<1>2. CASE pc' \in {"any", "phydev", "arptype"}
  <2>2. /\ pc = "socket" /\ pc' \in {"any", "phydev", "arptype"} /\ kern' = [kern EXCEPT !.fds = @ + 1]
        /\ h' = [h EXCEPT !.sk = IF any THEN "dgram" ELSE "raw", !.cooked = FALSE]
        /\ act' = [act EXCEPT !.sock = TRUE] /\ UNCHANGED <<dev, heap, onExit, gaveUp, failed>>
    BY <1>1, <1>2 DEF NewSocket, Goto, Fail, Rest
  <2>3. SameLife /\ SameUndo /\ SameFd /\ h'.cleanup = h.cleanup /\ h'.ptr = h.ptr
    BY <1>1, <2>2 DEF Shape, HandleShape, NoHandle
  <2>4. /\ DOMAIN act' = DOMAIN NoCall /\ act'.sock = TRUE /\ act'.down = act.down /\ act'.ret = act.ret
        /\ act'.after = act.after /\ act'.n = act.n
    BY <1>1, <2>2 DEF Shape, CallShape, NoCall
  <2>5. SameInterface /\ kern'.fds = kern.fds + 1 /\ kern'.nl = kern.nl /\ kern'.mapped = kern.mapped
    BY <1>1, <2>2 DEF Shape, KernelShape, KernelFields
  <2>6. pc' \in {"any", "phydev", "arptype"} /\ pc = "socket" /\ heap' = heap /\ SameWorld  BY <1>1, <2>2
  <2>7. Shape'
    <3>1. HandleShape'  BY <1>1, <2>3 DEF Shape, HandleShape
    <3>2. CallShape'  BY <1>1, <2>4 DEF Shape, CallShape
    <3>3. KernelShape'  BY <1>1, <2>5 DEF Shape, KernelShape
    <3>4. ExitShape'  BY <1>1, <2>6 DEF Shape, ExitShape
    <3>5. QED BY <1>1, <2>6, <3>1, <3>2, <3>3, <3>4 DEF Shape
  <2>8. Sound'
    <3> USE <1>1, <2>3, <2>4, <2>5, <2>6, SameKind, DeviceType DEF Shape, HandleShape, CallShape, KernelShape,
        ExitShape, Control
    <3>1. Control'  OBVIOUS
    <3>2. Undoing'  BY DEF Undoing, UpKept, ModeKept, PromiscKept, MonsKept, Kept, Holding
    <3>3. Owning'  BY DEF Owning
    <3>4. Where'  BY DEF Where, Bare
    <3>5. Listing'  BY DEF Listing, Holding, Where
    <3>6. QED BY <3>1, <3>2, <3>3, <3>4, <3>5 DEF Sound
  <2>9. Fits(heap, h.ptr)'
    BY <1>1, <2>3, <2>4, <2>5, <2>6, FitsSame
  <2>10. QED BY <2>7, <2>8, <2>9 DEF Inv
<1>3. CASE pc' = "old"
  <2>2. pc = "socket" /\ pc' = "old" /\ UNCHANGED <<dev, h, act, kern, heap, onExit, gaveUp, failed>>
    BY <1>1, <1>3 DEF NewSocket, Goto, Fail, Rest
  <2>3. SameHandle  BY <1>1, <2>2, Unchanged
  <2>4. SameCall  BY <1>1, <2>2, Unchanged
  <2>5. SameKernel  BY <1>1, <2>2, Unchanged
  <2>6. pc' = "old" /\ pc = "socket" /\ heap' = heap /\ SameWorld  BY <1>1, <2>2
  <2>7. Shape'
    <3>1. HandleShape'  BY <1>1, <2>3 DEF Shape, HandleShape
    <3>2. CallShape'  BY <1>1, <2>4 DEF Shape, CallShape
    <3>3. KernelShape'  BY <1>1, <2>5 DEF Shape, KernelShape
    <3>4. ExitShape'  BY <1>1, <2>6 DEF Shape, ExitShape
    <3>5. QED BY <1>1, <2>6, <3>1, <3>2, <3>3, <3>4 DEF Shape
  <2>8. Sound'
    <3> USE <1>1, <2>3, <2>4, <2>5, <2>6, SameKind, DeviceType DEF Shape, HandleShape, CallShape, KernelShape,
        ExitShape, Control
    <3>1. Control'  OBVIOUS
    <3>2. Undoing'  BY DEF Undoing, UpKept, ModeKept, PromiscKept, MonsKept, Kept, Holding
    <3>3. Owning'  BY DEF Owning
    <3>4. Where'  BY DEF Where, Bare
    <3>5. Listing'  BY DEF Listing, Holding, Where
    <3>6. QED BY <3>1, <3>2, <3>3, <3>4, <3>5 DEF Sound
  <2>9. Fits(heap, h.ptr)'
    BY <1>1, <2>3, <2>4, <2>5, <2>6, FitsSame
  <2>10. QED BY <2>7, <2>8, <2>9 DEF Inv
<1>4. CASE pc' = "cleanup"
  <2>2. /\ pc = "socket" /\ (\E e \in {-8, -1} : Fail(e))
        /\ UNCHANGED <<dev, h, kern, heap, onExit, gaveUp, failed>>
    BY <1>1, <1>4 DEF NewSocket, Goto, Rest, PCAP_ERROR_PERM_DENIED, PCAP_ERROR
  <2>3. SameHandle  BY <1>1, <2>2, Unchanged
  <2>4. Failing  BY <1>1, <2>2 DEF Fail, Shape, CallShape, NoCall
  <2>5. SameKernel  BY <1>1, <2>2, Unchanged
  <2>6. pc = "socket" /\ heap' = heap /\ SameWorld  BY <1>1, <2>2
  <2>7. Shape'
    <3>1. HandleShape'  BY <1>1, <2>3 DEF Shape, HandleShape
    <3>2. CallShape'  BY <1>1, <2>4 DEF Shape, CallShape
    <3>3. KernelShape'  BY <1>1, <2>5 DEF Shape, KernelShape
    <3>4. ExitShape'  BY <1>1, <2>6 DEF Shape, ExitShape
    <3>5. QED BY <1>1, <2>6, <3>1, <3>2, <3>3, <3>4 DEF Shape
  <2>8. Sound'
    <3> USE <1>1, <2>3, <2>4, <2>5, <2>6, SameKind, DeviceType DEF Shape, HandleShape, CallShape, KernelShape,
        ExitShape, Control
    <3>1. Control'  OBVIOUS
    <3>2. Undoing'  BY DEF Undoing, UpKept, ModeKept, PromiscKept, MonsKept, Kept, Holding
    <3>3. Owning'  BY DEF Owning
    <3>4. Where'  BY DEF Where, Bare
    <3>5. Listing'  BY DEF Listing, Holding, Where
    <3>6. QED BY <3>1, <3>2, <3>3, <3>4, <3>5 DEF Sound
  <2>9. Fits(heap, h.ptr)'
    BY <1>1, <2>3, <2>4, <2>5, <2>6, FitsSame
  <2>10. QED BY <2>7, <2>8, <2>9 DEF Inv
<1>5. QED BY <1>2, <1>3, <1>4 DEF NewSocket, Goto, Fail

\* the pseudo-device needs no binding
LEMMA AnyDeviceStep ==
    ASSUME Inv, AnyDevice
    PROVE  Inv'
<1>1. Shape /\ Control /\ Undoing /\ Owning /\ Where /\ Listing /\ Fits(heap, h.ptr)  BY InvFacts
<1>2. CASE pc' = "promisc"
  <2>2. /\ pc = "any" /\ pc' = "promisc" /\ h' = [h EXCEPT !.cooked = TRUE, !.linktype = "LINUX_SLL"]
        /\ UNCHANGED <<dev, act, kern, heap, onExit, gaveUp, failed>>
    BY <1>1, <1>2 DEF AnyDevice, Goto, NewFails, Fail, Rest
  <2>3. SameLife /\ SameUndo /\ SameFd /\ h'.cleanup = h.cleanup /\ h'.ptr = h.ptr
    BY <1>1, <2>2 DEF Shape, HandleShape, NoHandle
  <2>4. SameCall  BY <1>1, <2>2, Unchanged
  <2>5. SameKernel  BY <1>1, <2>2, Unchanged
  <2>6. pc' = "promisc" /\ pc = "any" /\ heap' = heap /\ SameWorld  BY <1>1, <2>2
  <2>7. Shape'
    <3>1. HandleShape'  BY <1>1, <2>3 DEF Shape, HandleShape
    <3>2. CallShape'  BY <1>1, <2>4 DEF Shape, CallShape
    <3>3. KernelShape'  BY <1>1, <2>5 DEF Shape, KernelShape
    <3>4. ExitShape'  BY <1>1, <2>6 DEF Shape, ExitShape
    <3>5. QED BY <1>1, <2>6, <3>1, <3>2, <3>3, <3>4 DEF Shape
  <2>8. Sound'
    <3> USE <1>1, <2>3, <2>4, <2>5, <2>6, SameKind, DeviceType DEF Shape, HandleShape, CallShape, KernelShape,
        ExitShape, Control
    <3>1. Control'  OBVIOUS
    <3>2. Undoing'  BY DEF Undoing, UpKept, ModeKept, PromiscKept, MonsKept, Kept, Holding
    <3>3. Owning'  BY DEF Owning
    <3>4. Where'  BY DEF Where, Bare
    <3>5. Listing'  BY DEF Listing, Holding, Where
    <3>6. QED BY <3>1, <3>2, <3>3, <3>4, <3>5 DEF Sound
  <2>9. Fits(heap, h.ptr)'
    BY <1>1, <2>3, <2>4, <2>5, <2>6, FitsSame
  <2>10. QED BY <2>7, <2>8, <2>9 DEF Inv
<1>3. CASE pc' = "cleanup"
  <2>2. /\ pc = "any" /\ (Fail(-6)) /\ kern' = Closed(kern)
        /\ UNCHANGED <<dev, h, heap, onExit, gaveUp, failed>>
    BY <1>1, <1>3 DEF AnyDevice, Goto, NewFails, Rest, PCAP_ERROR_RFMON_NOTSUP
  <2>3. SameHandle  BY <1>1, <2>2, Unchanged
  <2>4. Failing  BY <1>1, <2>2 DEF Fail, Shape, CallShape, NoCall
  <2>5. SocketClosed  BY <1>1, <2>2, ClosedFacts
  <2>6. pc = "any" /\ heap' = heap /\ SameWorld  BY <1>1, <2>2
  <2>7. QED BY <1>1, <2>3, <2>4, <2>5, <2>6, NewFailsStep
<1>4. QED BY <1>2, <1>3 DEF AnyDevice, Goto, NewFails, Fail

\* the type of the interface
LEMMA iface_get_arptypeStep ==
    ASSUME Inv, iface_get_arptype
    PROVE  Inv'
<1>1. Shape /\ Control /\ Undoing /\ Owning /\ Where /\ Listing /\ Fits(heap, h.ptr)  BY InvFacts
<1>2. CASE pc' = "dlt"
  <2>2. pc = "arptype" /\ pc' = "dlt" /\ UNCHANGED <<dev, h, act, kern, heap, onExit, gaveUp, failed>>
    BY <1>1, <1>2 DEF iface_get_arptype, Goto, NewFails, Fail, Rest
  <2>3. SameHandle  BY <1>1, <2>2, Unchanged
  <2>4. SameCall  BY <1>1, <2>2, Unchanged
  <2>5. SameKernel  BY <1>1, <2>2, Unchanged
  <2>6. pc' = "dlt" /\ pc = "arptype" /\ heap' = heap /\ SameWorld  BY <1>1, <2>2
  <2>7. Shape'
    <3>1. HandleShape'  BY <1>1, <2>3 DEF Shape, HandleShape
    <3>2. CallShape'  BY <1>1, <2>4 DEF Shape, CallShape
    <3>3. KernelShape'  BY <1>1, <2>5 DEF Shape, KernelShape
    <3>4. ExitShape'  BY <1>1, <2>6 DEF Shape, ExitShape
    <3>5. QED BY <1>1, <2>6, <3>1, <3>2, <3>3, <3>4 DEF Shape
  <2>8. Sound'
    <3> USE <1>1, <2>3, <2>4, <2>5, <2>6, SameKind, DeviceType DEF Shape, HandleShape, CallShape, KernelShape,
        ExitShape, Control
    <3>1. Control'  OBVIOUS
    <3>2. Undoing'  BY DEF Undoing, UpKept, ModeKept, PromiscKept, MonsKept, Kept, Holding
    <3>3. Owning'  BY DEF Owning
    <3>4. Where'  BY DEF Where, Bare
    <3>5. Listing'  BY DEF Listing, Holding, Where
    <3>6. QED BY <3>1, <3>2, <3>3, <3>4, <3>5 DEF Sound
  <2>9. Fits(heap, h.ptr)'
    BY <1>1, <2>3, <2>4, <2>5, <2>6, FitsSame
  <2>10. QED BY <2>7, <2>8, <2>9 DEF Inv
<1>3. CASE pc' = "cleanup"
  <2>2. /\ pc = "arptype" /\ (\E e \in {-5, -1} : Fail(e)) /\ kern' = Closed(kern)
        /\ UNCHANGED <<dev, h, heap, onExit, gaveUp, failed>>
    BY <1>1, <1>3 DEF iface_get_arptype, Goto, NewFails, Rest, PCAP_ERROR_NO_SUCH_DEVICE, PCAP_ERROR
  <2>3. SameHandle  BY <1>1, <2>2, Unchanged
  <2>4. Failing  BY <1>1, <2>2 DEF Fail, Shape, CallShape, NoCall
  <2>5. SocketClosed  BY <1>1, <2>2, ClosedFacts
  <2>6. pc = "arptype" /\ heap' = heap /\ SameWorld  BY <1>1, <2>2
  <2>7. QED BY <1>1, <2>3, <2>4, <2>5, <2>6, NewFailsStep
<1>4. QED BY <1>2, <1>3 DEF iface_get_arptype, Goto, NewFails, Fail

\* the interface is bound, or activate_old() is tried
LEMMA iface_bindStep ==
    ASSUME Inv, iface_bind
    PROVE  Inv'
<1>1. Shape /\ Control /\ Undoing /\ Owning /\ Where /\ Listing /\ Fits(heap, h.ptr)  BY InvFacts
<1>2. CASE pc' = "promisc"
  <2>2. pc = "bind" /\ pc' = "promisc" /\ UNCHANGED <<dev, h, act, kern, heap, onExit, gaveUp, failed>>
    BY <1>1, <1>2 DEF iface_bind, Goto, NewFails, Fail, Rest
  <2>3. SameHandle  BY <1>1, <2>2, Unchanged
  <2>4. SameCall  BY <1>1, <2>2, Unchanged
  <2>5. SameKernel  BY <1>1, <2>2, Unchanged
  <2>6. pc' = "promisc" /\ pc = "bind" /\ heap' = heap /\ SameWorld  BY <1>1, <2>2
  <2>7. Shape'
    <3>1. HandleShape'  BY <1>1, <2>3 DEF Shape, HandleShape
    <3>2. CallShape'  BY <1>1, <2>4 DEF Shape, CallShape
    <3>3. KernelShape'  BY <1>1, <2>5 DEF Shape, KernelShape
    <3>4. ExitShape'  BY <1>1, <2>6 DEF Shape, ExitShape
    <3>5. QED BY <1>1, <2>6, <3>1, <3>2, <3>3, <3>4 DEF Shape
  <2>8. Sound'
    <3> USE <1>1, <2>3, <2>4, <2>5, <2>6, SameKind, DeviceType DEF Shape, HandleShape, CallShape, KernelShape,
        ExitShape, Control
    <3>1. Control'  OBVIOUS
    <3>2. Undoing'  BY DEF Undoing, UpKept, ModeKept, PromiscKept, MonsKept, Kept, Holding
    <3>3. Owning'  BY DEF Owning
    <3>4. Where'  BY DEF Where, Bare
    <3>5. Listing'  BY DEF Listing, Holding, Where
    <3>6. QED BY <3>1, <3>2, <3>3, <3>4, <3>5 DEF Sound
  <2>9. Fits(heap, h.ptr)'
    BY <1>1, <2>3, <2>4, <2>5, <2>6, FitsSame
  <2>10. QED BY <2>7, <2>8, <2>9 DEF Inv
<1>3. CASE pc' = "cleanup"
  <2>2. /\ pc = "bind" /\ (\E e \in {-9, -1} : Fail(e)) /\ kern' = Closed(kern)
        /\ UNCHANGED <<dev, h, heap, onExit, gaveUp, failed>>
    BY <1>1, <1>3 DEF iface_bind, Goto, NewFails, Rest, PCAP_ERROR_IFACE_NOT_UP, PCAP_ERROR
  <2>3. SameHandle  BY <1>1, <2>2, Unchanged
  <2>4. Failing  BY <1>1, <2>2 DEF Fail, Shape, CallShape, NoCall
  <2>5. SocketClosed  BY <1>1, <2>2, ClosedFacts
  <2>6. pc = "bind" /\ heap' = heap /\ SameWorld  BY <1>1, <2>2
  <2>7. QED BY <1>1, <2>3, <2>4, <2>5, <2>6, NewFailsStep
<1>4. CASE pc' = "old"
  <2>2. /\ pc = "bind" /\ pc' = "old" /\ kern' = Closed(kern) /\ act' = [act EXCEPT !.sock = FALSE]
        /\ UNCHANGED <<dev, h, heap, onExit, gaveUp, failed>>
    BY <1>1, <1>4 DEF iface_bind, Goto, NewFails, Fail, Rest
  <2>3. SameHandle  BY <1>1, <2>2, Unchanged
  <2>4. /\ DOMAIN act' = DOMAIN NoCall /\ act'.sock = FALSE /\ act'.down = act.down /\ act'.ret = act.ret
        /\ act'.after = act.after /\ act'.n = act.n
    BY <1>1, <2>2 DEF Shape, CallShape, NoCall
  <2>5. SocketClosed  BY <1>1, <2>2, ClosedFacts
  <2>6. pc' = "old" /\ pc = "bind" /\ heap' = heap /\ SameWorld  BY <1>1, <2>2
  <2>7. Shape'
    <3>1. HandleShape'  BY <1>1, <2>3 DEF Shape, HandleShape
    <3>2. CallShape'  BY <1>1, <2>4 DEF Shape, CallShape
    <3>3. KernelShape'  BY <1>1, <2>5 DEF Shape, KernelShape
    <3>4. ExitShape'  BY <1>1, <2>6 DEF Shape, ExitShape
    <3>5. QED BY <1>1, <2>6, <3>1, <3>2, <3>3, <3>4 DEF Shape
  <2>8. Sound'
    <3> USE <1>1, <2>3, <2>4, <2>5, <2>6, SameKind, DeviceType DEF Shape, HandleShape, CallShape, KernelShape,
        ExitShape, Control
    <3>1. Control'  OBVIOUS
    <3>2. Undoing'  BY DEF Undoing, UpKept, ModeKept, PromiscKept, MonsKept, Kept, Holding
    <3>3. Owning'  BY DEF Owning
    <3>4. Where'  BY DEF Where, Bare
    <3>5. Listing'  BY DEF Listing, Holding, Where
    <3>6. QED BY <3>1, <3>2, <3>3, <3>4, <3>5 DEF Sound
  <2>9. Fits(heap, h.ptr)'
    BY <1>1, <2>3, <2>4, <2>5, <2>6, FitsSame
  <2>10. QED BY <2>7, <2>8, <2>9 DEF Inv
<1>5. QED BY <1>2, <1>3, <1>4 DEF iface_bind, Goto, NewFails, Fail

\* the handle gets the socket
LEMMA SetSocketOptionsStep ==
    ASSUME Inv, SetSocketOptions
    PROVE  Inv'
<1>1. Shape /\ Control /\ Undoing /\ Owning /\ Where /\ Listing /\ Fits(heap, h.ptr)  BY InvFacts
<1>2. CASE pc' = "mmap"
  <2>2. /\ pc = "promisc" /\ pc' = "mmap" /\ kern' = [kern EXCEPT !.member = h.opt.promisc]
        /\ act' = [act EXCEPT !.sock = FALSE]
        /\ h' = [h EXCEPT !.fd = TRUE, !.opt.snapshot = IF h.cooked /\ @ < SLL_HDR_LEN + 1
               THEN SLL_HDR_LEN + 1 ELSE @]
        /\ UNCHANGED <<dev, heap, onExit, gaveUp, failed>>
    BY <1>1, <1>2 DEF SetSocketOptions, Goto, NewFails, Fail, Rest
  <2>3. /\ SameLife /\ SameUndo /\ h'.fd = TRUE /\ h'.closed = h.closed /\ h'.cleanup = h.cleanup
        /\ h'.ptr = h.ptr
    BY <1>1, <2>2 DEF Shape, HandleShape, NoHandle
  <2>4. /\ DOMAIN act' = DOMAIN NoCall /\ act'.sock = FALSE /\ act'.down = act.down /\ act'.ret = act.ret
        /\ act'.after = act.after /\ act'.n = act.n
    BY <1>1, <2>2 DEF Shape, CallShape, NoCall
  <2>5. SameInterface /\ kern'.fds = kern.fds /\ kern'.nl = kern.nl /\ kern'.mapped = kern.mapped
    BY <1>1, <2>2 DEF Shape, KernelShape, KernelFields
  <2>6. pc' = "mmap" /\ pc = "promisc" /\ heap' = heap /\ SameWorld  BY <1>1, <2>2
  <2>7. Shape'
    <3>1. HandleShape'  BY <1>1, <2>3 DEF Shape, HandleShape
    <3>2. CallShape'  BY <1>1, <2>4 DEF Shape, CallShape
    <3>3. KernelShape'  BY <1>1, <2>5 DEF Shape, KernelShape
    <3>4. ExitShape'  BY <1>1, <2>6 DEF Shape, ExitShape
    <3>5. QED BY <1>1, <2>6, <3>1, <3>2, <3>3, <3>4 DEF Shape
  <2>8. Sound'
    <3> USE <1>1, <2>3, <2>4, <2>5, <2>6, SameKind, DeviceType DEF Shape, HandleShape, CallShape, KernelShape,
        ExitShape, Control
    <3>1. Control'  OBVIOUS
    <3>2. Undoing'  BY DEF Undoing, UpKept, ModeKept, PromiscKept, MonsKept, Kept, Holding
    <3>3. Owning'  BY DEF Owning
    <3>4. Where'  BY DEF Where, Bare
    <3>5. Listing'  BY DEF Listing, Holding, Where
    <3>6. QED BY <3>1, <3>2, <3>3, <3>4, <3>5 DEF Sound
  <2>9. Fits(heap, h.ptr)'
    BY <1>1, <2>3, <2>4, <2>5, <2>6, FitsSame
  <2>10. QED BY <2>7, <2>8, <2>9 DEF Inv
<1>3. CASE pc' = "cleanup"
  <2>2. /\ pc = "promisc" /\ (Fail(-1)) /\ kern' = Closed(kern)
        /\ UNCHANGED <<dev, h, heap, onExit, gaveUp, failed>>
    BY <1>1, <1>3 DEF SetSocketOptions, Goto, NewFails, Rest, PCAP_ERROR
  <2>3. SameHandle  BY <1>1, <2>2, Unchanged
  <2>4. Failing  BY <1>1, <2>2 DEF Fail, Shape, CallShape, NoCall
  <2>5. SocketClosed  BY <1>1, <2>2, ClosedFacts
  <2>6. pc = "promisc" /\ heap' = heap /\ SameWorld  BY <1>1, <2>2
  <2>7. QED BY <1>1, <2>3, <2>4, <2>5, <2>6, NewFailsStep
<1>4. QED BY <1>2, <1>3 DEF SetSocketOptions, Goto, NewFails, Fail

\* the list of link types that map_arphrd_to_dlt() allocates
DltList == IF HasDltList(Arptype) THEN {"dlt_list"} ELSE {}
LEMMA DltListType == DltList \subseteq {"dlt_list"} /\ DltList \subseteq Lossy /\ DltList \subseteq Pointers
BY DEF DltList, Lossy, Pointers

\* the link type, and the list of link types
LEMMA SetDltStep ==
    ASSUME Inv, SetDlt
    PROVE  Inv'
<1>1. Shape /\ Control /\ Undoing /\ Owning /\ Where /\ Listing /\ Fits(heap, h.ptr)  BY InvFacts
<1> DEFINE lt == map_arphrd_to_dlt(Arptype, TRUE)
           ct == IF lt \in {"LINUX_IRDA", "LINUX_LAPD", "NETLINK"} THEN lt ELSE "LINUX_SLL"
           hp == [p \in Pointers |-> IF p \in DltList THEN heap[p] + 1 ELSE heap[p]]
           pt == h.ptr \cup DltList
<1>2. pc = "dlt" /\ UNCHANGED <<dev, onExit, gaveUp, failed>>  BY DEF SetDlt
<1>3. \/ /\ pc' = "bind"
         /\ heap' = Freed(hp, pt \cap {"dlt_list"})
         /\ h' = [h EXCEPT !.sk = "dgram", !.cooked = TRUE, !.ptr = pt \ {"dlt_list"}, !.linktype = ct]
         /\ UNCHANGED <<act, kern>>
      \/ /\ (\E e \in {-8, -1} : Fail(e))
         /\ kern' = Closed(kern)
         /\ h' = [h EXCEPT !.linktype = lt, !.ptr = pt]
         /\ heap' = hp
      \/ /\ pc' = "bind"
         /\ h' = [h EXCEPT !.linktype = lt, !.ptr = pt]
         /\ heap' = hp
         /\ UNCHANGED <<act, kern>>
  BY DEF SetDlt, DltList, Goto, NewFails, PCAP_ERROR_PERM_DENIED, PCAP_ERROR
<1> HIDE DEF lt, ct, hp, pt
<1>4. pt = h.ptr \cup DltList /\ DltList \subseteq {"dlt_list"}  BY DltListType DEF pt
<1>5. CASE /\ pc' = "bind" /\ heap' = Freed(hp, pt \cap {"dlt_list"})
           /\ h' = [h EXCEPT !.sk = "dgram", !.cooked = TRUE, !.ptr = pt \ {"dlt_list"}, !.linktype = ct]
           /\ UNCHANGED <<act, kern>>
  <2>2. SameLife /\ SameUndo /\ SameFd /\ h'.cleanup = h.cleanup /\ h'.ptr = pt \ {"dlt_list"}
    BY <1>1, <1>5, <1>2, <1>4 DEF Shape, HandleShape, NoHandle
  <2>3. SameCall  BY <1>1, <1>5, <1>2, <1>4, Unchanged
  <2>4. SameKernel  BY <1>1, <1>5, <1>2, <1>4, Unchanged
  <2>5. pc' = "bind" /\ pc = "dlt" /\ pt = h.ptr \cup DltList /\ DltList \subseteq {"dlt_list"} /\ SameWorld
    BY <1>1, <1>5, <1>2, <1>4
  <2>6. Shape'
    <3>1. HandleShape'  BY <1>1, <2>2 DEF Shape, HandleShape
    <3>2. CallShape'  BY <1>1, <2>3 DEF Shape, CallShape
    <3>3. KernelShape'  BY <1>1, <2>4 DEF Shape, KernelShape
    <3>4. ExitShape'  BY <1>1, <2>5 DEF Shape, ExitShape
    <3>5. QED BY <1>1, <2>5, <3>1, <3>2, <3>3, <3>4 DEF Shape
  <2>7. Sound'
    <3> USE <1>1, <2>2, <2>3, <2>4, <2>5, SameKind, DeviceType DEF Shape, HandleShape, CallShape, KernelShape,
        ExitShape, Control
    <3>1. Control'  OBVIOUS
    <3>2. Undoing'  BY DEF Undoing, UpKept, ModeKept, PromiscKept, MonsKept, Kept, Holding
    <3>3. Owning'  BY DEF Owning
    <3>4. Where'  BY DEF Where, Bare
    <3>5. Listing'  BY DEF Listing, Holding, Where
    <3>6. QED BY <3>1, <3>2, <3>3, <3>4, <3>5 DEF Sound
  <2>8. Fits(heap, h.ptr)'
    <3>1. DltList \subseteq Pointers /\ DltList \cap h.ptr \subseteq Lossy  BY DltListType
    <3>2. Fits(hp, pt)  BY <1>1, <3>1, FitsAdd DEF hp, pt
    <3>3. Fits(Freed(hp, pt \cap {"dlt_list"}), pt \ (pt \cap {"dlt_list"}))  BY <3>2, FitsFreed
    <3>4. pt \ (pt \cap {"dlt_list"}) = pt \ {"dlt_list"}  OBVIOUS
    <3>5. QED BY <1>5, <2>2, <2>3, <2>4, <2>5, <3>3, <3>4
  <2>9. QED BY <2>6, <2>7, <2>8 DEF Inv
<1>6. CASE /\ (\E e \in {-8, -1} : Fail(e)) /\ kern' = Closed(kern)
           /\ h' = [h EXCEPT !.linktype = lt, !.ptr = pt] /\ heap' = hp
  <2>2. SameLife /\ SameUndo /\ SameFd /\ h'.cleanup = h.cleanup /\ h'.ptr = pt
    BY <1>1, <1>6, <1>2, <1>4 DEF Shape, HandleShape, NoHandle
  <2>3. Failing  BY <1>1, <1>6, <1>2, <1>4 DEF Fail, Shape, CallShape, NoCall
  <2>4. SocketClosed  BY <1>1, <1>6, <1>2, <1>4, ClosedFacts
  <2>5. pc = "dlt" /\ pt = h.ptr \cup DltList /\ DltList \subseteq {"dlt_list"} /\ SameWorld
    BY <1>1, <1>6, <1>2, <1>4
  <2>6. Shape'
    <3>1. HandleShape'  BY <1>1, <2>2 DEF Shape, HandleShape
    <3>2. CallShape'  BY <1>1, <2>3 DEF Shape, CallShape
    <3>3. KernelShape'  BY <1>1, <2>4 DEF Shape, KernelShape
    <3>4. ExitShape'  BY <1>1, <2>5 DEF Shape, ExitShape
    <3>5. QED BY <1>1, <2>5, <3>1, <3>2, <3>3, <3>4 DEF Shape
  <2>7. Sound'
    <3> USE <1>1, <2>2, <2>3, <2>4, <2>5, SameKind, DeviceType DEF Shape, HandleShape, CallShape, KernelShape,
        ExitShape, Control
    <3>1. Control'  OBVIOUS
    <3>2. Undoing'  BY DEF Undoing, UpKept, ModeKept, PromiscKept, MonsKept, Kept, Holding
    <3>3. Owning'  BY DEF Owning
    <3>4. Where'  BY DEF Where, Bare
    <3>5. Listing'  BY DEF Listing, Holding, Where
    <3>6. QED BY <3>1, <3>2, <3>3, <3>4, <3>5 DEF Sound
  <2>8. Fits(heap, h.ptr)'
    <3>1. DltList \subseteq Pointers /\ DltList \cap h.ptr \subseteq Lossy  BY DltListType
    <3>2. Fits(hp, pt)  BY <1>1, <3>1, FitsAdd DEF hp, pt
    <3>3. QED BY <1>6, <2>2, <2>3, <2>4, <2>5, <3>2
  <2>9. QED BY <2>6, <2>7, <2>8 DEF Inv
<1>7. CASE /\ pc' = "bind" /\ h' = [h EXCEPT !.linktype = lt, !.ptr = pt] /\ heap' = hp
           /\ UNCHANGED <<act, kern>>
  <2>2. SameLife /\ SameUndo /\ SameFd /\ h'.cleanup = h.cleanup /\ h'.ptr = pt
    BY <1>1, <1>7, <1>2, <1>4 DEF Shape, HandleShape, NoHandle
  <2>3. SameCall  BY <1>1, <1>7, <1>2, <1>4, Unchanged
  <2>4. SameKernel  BY <1>1, <1>7, <1>2, <1>4, Unchanged
  <2>5. pc' = "bind" /\ pc = "dlt" /\ pt = h.ptr \cup DltList /\ DltList \subseteq {"dlt_list"} /\ SameWorld
    BY <1>1, <1>7, <1>2, <1>4
  <2>6. Shape'
    <3>1. HandleShape'  BY <1>1, <2>2 DEF Shape, HandleShape
    <3>2. CallShape'  BY <1>1, <2>3 DEF Shape, CallShape
    <3>3. KernelShape'  BY <1>1, <2>4 DEF Shape, KernelShape
    <3>4. ExitShape'  BY <1>1, <2>5 DEF Shape, ExitShape
    <3>5. QED BY <1>1, <2>5, <3>1, <3>2, <3>3, <3>4 DEF Shape
  <2>7. Sound'
    <3> USE <1>1, <2>2, <2>3, <2>4, <2>5, SameKind, DeviceType DEF Shape, HandleShape, CallShape, KernelShape,
        ExitShape, Control
    <3>1. Control'  OBVIOUS
    <3>2. Undoing'  BY DEF Undoing, UpKept, ModeKept, PromiscKept, MonsKept, Kept, Holding
    <3>3. Owning'  BY DEF Owning
    <3>4. Where'  BY DEF Where, Bare
    <3>5. Listing'  BY DEF Listing, Holding, Where
    <3>6. QED BY <3>1, <3>2, <3>3, <3>4, <3>5 DEF Sound
  <2>8. Fits(heap, h.ptr)'
    <3>1. DltList \subseteq Pointers /\ DltList \cap h.ptr \subseteq Lossy  BY DltListType
    <3>2. Fits(hp, pt)  BY <1>1, <3>1, FitsAdd DEF hp, pt
    <3>3. QED BY <1>7, <2>2, <2>3, <2>4, <2>5, <3>2
  <2>9. QED BY <2>6, <2>7, <2>8 DEF Inv
<1>8. QED BY <1>2, <1>3, <1>4, <1>5, <1>6, <1>7

----------------------------------------------------------------------------
(* enter_rfmon_mode() *)

\* sysfs is asked for the radio
LEMMA get_mac80211_phydevStep ==
    ASSUME Inv, get_mac80211_phydev
    PROVE  Inv'
<1>1. Shape /\ Control /\ Undoing /\ Owning /\ Where /\ Listing /\ Fits(heap, h.ptr)  BY InvFacts
<1>2. CASE pc' \in {"nl80211", "wext"}
  <2>2. /\ pc = "phydev" /\ pc' \in {"nl80211", "wext"}
        /\ UNCHANGED <<dev, h, act, kern, heap, onExit, gaveUp, failed>>
    BY <1>1, <1>2 DEF get_mac80211_phydev, Goto, Exits, NewFails, Rest, Fail
  <2>3. SameHandle  BY <1>1, <2>2, Unchanged
  <2>4. SameCall  BY <1>1, <2>2, Unchanged
  <2>5. SameKernel  BY <1>1, <2>2, Unchanged
  <2>6. pc' \in {"nl80211", "wext"} /\ pc = "phydev" /\ heap' = heap /\ SameWorld  BY <1>1, <2>2
  <2>7. Shape'
    <3>1. HandleShape'  BY <1>1, <2>3 DEF Shape, HandleShape
    <3>2. CallShape'  BY <1>1, <2>4 DEF Shape, CallShape
    <3>3. KernelShape'  BY <1>1, <2>5 DEF Shape, KernelShape
    <3>4. ExitShape'  BY <1>1, <2>6 DEF Shape, ExitShape
    <3>5. QED BY <1>1, <2>6, <3>1, <3>2, <3>3, <3>4 DEF Shape
  <2>8. Sound'
    <3> USE <1>1, <2>3, <2>4, <2>5, <2>6, SameKind, DeviceType DEF Shape, HandleShape, CallShape, KernelShape,
        ExitShape, Control
    <3>1. Control'  OBVIOUS
    <3>2. Undoing'  BY DEF Undoing, UpKept, ModeKept, PromiscKept, MonsKept, Kept, Holding
    <3>3. Owning'  BY DEF Owning
    <3>4. Where'  BY DEF Where, Bare
    <3>5. Listing'  BY DEF Listing, Holding, Where
    <3>6. QED BY <3>1, <3>2, <3>3, <3>4, <3>5 DEF Sound
  <2>9. Fits(heap, h.ptr)'
    BY <1>1, <2>3, <2>4, <2>5, <2>6, FitsSame
  <2>10. QED BY <2>7, <2>8, <2>9 DEF Inv
<1>3. CASE pc' = "cleanup"
  <2>2. /\ pc = "phydev" /\ (Fail(-1)) /\ kern' = Closed(kern)
        /\ UNCHANGED <<dev, h, heap, onExit, gaveUp, failed>>
    BY <1>1, <1>3 DEF get_mac80211_phydev, PCAP_ERROR, Goto, Exits, NewFails, Rest
  <2>3. SameHandle  BY <1>1, <2>2, Unchanged
  <2>4. Failing  BY <1>1, <2>2 DEF Fail, Shape, CallShape, NoCall
  <2>5. SocketClosed  BY <1>1, <2>2, ClosedFacts
  <2>6. pc = "phydev" /\ heap' = heap /\ SameWorld  BY <1>1, <2>2
  <2>7. QED BY <1>1, <2>3, <2>4, <2>5, <2>6, NewFailsStep
<1>4. QED BY <1>2, <1>3 DEF get_mac80211_phydev, Goto, Exits, NewFails, Rest, Fail

\* a netlink socket
LEMMA nl80211_initStep ==
    ASSUME Inv, nl80211_init
    PROVE  Inv'
<1>1. Shape /\ Control /\ Undoing /\ Owning /\ Where /\ Listing /\ Fits(heap, h.ptr)  BY InvFacts
<1>2. CASE pc' = "add_mon_if"
  <2>2. /\ pc = "nl80211" /\ kern' = [kern EXCEPT !.nl = @ + 1]
        /\ UNCHANGED <<dev, h, act, heap, onExit, gaveUp, failed>>
    BY <1>1, <1>2 DEF nl80211_init, Goto, Exits, NewFails, Rest, Fail
  <2>3. SameHandle  BY <1>1, <2>2, Unchanged
  <2>4. SameCall  BY <1>1, <2>2, Unchanged
  <2>5. SameInterface /\ kern'.fds = kern.fds /\ kern'.nl = kern.nl + 1 /\ kern'.mapped = kern.mapped
    BY <1>1, <2>2 DEF Shape, KernelShape, KernelFields
  <2>6. pc' = "add_mon_if" /\ pc = "nl80211" /\ heap' = heap /\ SameWorld  BY <1>2, <2>2
  <2>7. Shape'
    <3>1. HandleShape'  BY <1>1, <2>3 DEF Shape, HandleShape
    <3>2. CallShape'  BY <1>1, <2>4 DEF Shape, CallShape
    <3>3. KernelShape'  BY <1>1, <2>5 DEF Shape, KernelShape
    <3>4. ExitShape'  BY <1>1, <2>6 DEF Shape, ExitShape
    <3>5. QED BY <1>1, <2>6, <3>1, <3>2, <3>3, <3>4 DEF Shape
  <2>8. Sound'
    <3> USE <1>1, <2>3, <2>4, <2>5, <2>6, SameKind, DeviceType DEF Shape, HandleShape, CallShape, KernelShape,
        ExitShape, Control
    <3>1. Control'  OBVIOUS
    <3>2. Undoing'  BY DEF Undoing, UpKept, ModeKept, PromiscKept, MonsKept, Kept, Holding
    <3>3. Owning'  BY DEF Owning
    <3>4. Where'  BY DEF Where, Bare
    <3>5. Listing'  BY DEF Listing, Holding, Where
    <3>6. QED BY <3>1, <3>2, <3>3, <3>4, <3>5 DEF Sound
  <2>9. Fits(heap, h.ptr)'
    BY <1>1, <2>3, <2>4, <2>5, <2>6, FitsSame
  <2>10. QED BY <2>7, <2>8, <2>9 DEF Inv
<1>3. CASE pc' = "cleanup"
  <2>2. /\ pc = "nl80211" /\ (Fail(-1)) /\ kern' = Closed(kern)
        /\ UNCHANGED <<dev, h, heap, onExit, gaveUp, failed>>
    BY <1>1, <1>3 DEF nl80211_init, PCAP_ERROR, Goto, Exits, NewFails, Rest
  <2>3. SameHandle  BY <1>1, <2>2, Unchanged
  <2>4. Failing  BY <1>1, <2>2 DEF Fail, Shape, CallShape, NoCall
  <2>5. SocketClosed  BY <1>1, <2>2, ClosedFacts
  <2>6. pc = "nl80211" /\ heap' = heap /\ SameWorld  BY <1>1, <2>2
  <2>7. QED BY <1>1, <2>3, <2>4, <2>5, <2>6, NewFailsStep
<1>4. QED BY <1>2, <1>3 DEF nl80211_init, Goto, Exits, NewFails, Rest, Fail

\* the search for a name
LEMMA add_mon_ifStep ==
    ASSUME Inv, add_mon_if
    PROVE  Inv'
<1>1. Shape /\ Control /\ Undoing /\ Owning /\ Where /\ Listing /\ Fits(heap, h.ptr)  BY InvFacts
<1>2. CASE pc' = "add_mon_if"
  <2>2. /\ pc = "add_mon_if" /\ act' = [act EXCEPT !.n = @ + 1]
        /\ UNCHANGED <<dev, h, kern, heap, onExit, gaveUp, failed>>
    BY <1>1, <1>2 DEF add_mon_if, Goto, Fail
  <2>3. SameHandle  BY <1>1, <2>2, Unchanged
  <2>4. /\ DOMAIN act' = DOMAIN NoCall /\ act'.sock = act.sock /\ act'.down = act.down /\ act'.ret = act.ret
        /\ act'.after = act.after /\ act'.n = act.n + 1
    BY <1>1, <2>2 DEF Shape, CallShape, NoCall
  <2>5. SameKernel  BY <1>1, <2>2, Unchanged
  <2>6. pc' = "add_mon_if" /\ pc = "add_mon_if" /\ heap' = heap /\ SameWorld  BY <1>2, <2>2
  <2>7. Shape'
    <3>1. HandleShape'  BY <1>1, <2>3 DEF Shape, HandleShape
    <3>2. CallShape'  BY <1>1, <2>4 DEF Shape, CallShape
    <3>3. KernelShape'  BY <1>1, <2>5 DEF Shape, KernelShape
    <3>4. ExitShape'  BY <1>1, <2>6 DEF Shape, ExitShape
    <3>5. QED BY <1>1, <2>6, <3>1, <3>2, <3>3, <3>4 DEF Shape
  <2>8. Sound'
    <3> USE <1>1, <2>3, <2>4, <2>5, <2>6, SameKind, DeviceType DEF Shape, HandleShape, CallShape, KernelShape,
        ExitShape, Control
    <3>1. Control'  OBVIOUS
    <3>2. Undoing'  BY DEF Undoing, UpKept, ModeKept, PromiscKept, MonsKept, Kept, Holding
    <3>3. Owning'  BY DEF Owning
    <3>4. Where'  BY DEF Where, Bare
    <3>5. Listing'  BY DEF Listing, Holding, Where
    <3>6. QED BY <3>1, <3>2, <3>3, <3>4, <3>5 DEF Sound
  <2>9. Fits(heap, h.ptr)'
    BY <1>1, <2>3, <2>4, <2>5, <2>6, FitsSame
  <2>10. QED BY <2>7, <2>8, <2>9 DEF Inv
<1>3. CASE pc' = "mon_up"
  <2>2. /\ pc = "add_mon_if" /\ act.n \notin kern.mons /\ kern' = [kern EXCEPT !.mons = @ \cup {act.n}]
        /\ h' = [h EXCEPT !.ptr = @ \cup {"mondevice"}, !.mondev = act.n] /\ Malloc("mondevice")
        /\ UNCHANGED <<dev, act, onExit, gaveUp, failed>>
    BY <1>1, <1>3 DEF add_mon_if, Goto, Fail
  <2>3. /\ SameLife /\ h'.must_do = h.must_do /\ h'.next = h.next /\ h'.oldmode = h.oldmode /\ h'.mondev = act.n
        /\ SameFd /\ h'.cleanup = h.cleanup /\ h'.ptr = h.ptr \cup {"mondevice"}
    BY <1>1, <2>2 DEF Shape, HandleShape, NoHandle
  <2>4. SameCall  BY <1>1, <2>2, Unchanged
  <2>5. /\ DOMAIN kern' = KernelFields /\ kern'.up = kern.up /\ kern'.promisc = kern.promisc
        /\ kern'.mode = kern.mode /\ kern'.mons = kern.mons \cup {act.n} /\ kern'.fds = kern.fds
        /\ kern'.nl = kern.nl /\ kern'.mapped = kern.mapped
    BY <1>1, <2>2 DEF Shape, KernelShape, KernelFields
  <2>6. pc' = "mon_up" /\ pc = "add_mon_if" /\ act.n \notin kern.mons /\ Malloc("mondevice") /\ SameWorld
    BY <1>3, <2>2
  <2>7. Shape'
    <3>1. HandleShape'  BY <1>1, <2>3 DEF Shape, HandleShape
    <3>2. CallShape'  BY <1>1, <2>4 DEF Shape, CallShape
    <3>3. KernelShape'  BY <1>1, <2>5 DEF Shape, KernelShape
    <3>4. ExitShape'  BY <1>1, <2>6 DEF Shape, ExitShape
    <3>5. QED BY <1>1, <2>6, <3>1, <3>2, <3>3, <3>4 DEF Shape
  <2>8. Sound'
    <3> USE <1>1, <2>3, <2>4, <2>5, <2>6, SameKind, DeviceType DEF Shape, HandleShape, CallShape, KernelShape,
        ExitShape, Control
    <3>1. Control'  OBVIOUS
    <3>2. Undoing'  BY DEF Undoing, UpKept, ModeKept, PromiscKept, MonsKept, Kept, Holding
    <3>3. Owning'  BY DEF Owning
    <3>4. Where'  BY DEF Where, Bare
    <3>5. Listing'  BY DEF Listing, Holding, Where
    <3>6. QED BY <3>1, <3>2, <3>3, <3>4, <3>5 DEF Sound
  <2>9. Fits(heap, h.ptr)'
    BY <1>1, <2>3, <2>4, <2>5, <2>6, FitsMalloc DEF Pointers, Lossy, Control, Where, Bare
  <2>10. QED BY <2>7, <2>8, <2>9 DEF Inv
<1>4. CASE pc' = "cleanup"
  <2>2. /\ pc = "add_mon_if" /\ Fail(-1) /\ kern' = [Closed(kern) EXCEPT !.nl = @ - 1]
        /\ UNCHANGED <<dev, h, heap, onExit, gaveUp, failed>>
    BY <1>1, <1>4 DEF add_mon_if, Goto, PCAP_ERROR
  <2>3. SameHandle  BY <1>1, <2>2, Unchanged
  <2>4. Failing  BY <1>1, <2>2 DEF Fail, Shape, CallShape, NoCall
  <2>5. SameInterface /\ kern'.fds = kern.fds - 1 /\ kern'.nl = kern.nl - 1 /\ kern'.mapped = kern.mapped
    BY <1>1, <2>2 DEF Shape, KernelShape, KernelFields, Closed
  <2>6. pc = "add_mon_if" /\ heap' = heap /\ SameWorld  BY <1>1, <2>2 DEF Closed
  <2>7. Shape'
    <3>1. HandleShape'  BY <1>1, <2>3 DEF Shape, HandleShape
    <3>2. CallShape'  BY <1>1, <2>4 DEF Shape, CallShape
    <3>3. KernelShape'  BY <1>1, <2>5 DEF Shape, KernelShape
    <3>4. ExitShape'  BY <1>1, <2>6 DEF Shape, ExitShape
    <3>5. QED BY <1>1, <2>6, <3>1, <3>2, <3>3, <3>4 DEF Shape
  <2>8. Sound'
    <3> USE <1>1, <2>3, <2>4, <2>5, <2>6, SameKind, DeviceType DEF Shape, HandleShape, CallShape, KernelShape,
        ExitShape, Control
    <3>1. Control'  OBVIOUS
    <3>2. Undoing'  BY DEF Undoing, UpKept, ModeKept, PromiscKept, MonsKept, Kept, Holding
    <3>3. Owning'  BY DEF Owning
    <3>4. Where'  BY DEF Where, Bare
    <3>5. Listing'  BY DEF Listing, Holding, Where
    <3>6. QED BY <3>1, <3>2, <3>3, <3>4, <3>5 DEF Sound
  <2>9. Fits(heap, h.ptr)'
    BY <1>1, <2>3, <2>4, <2>5, <2>6, FitsSame
  <2>10. QED BY <2>7, <2>8, <2>9 DEF Inv
<1>5. QED BY <1>2, <1>3, <1>4 DEF add_mon_if, Goto, Fail

\* the monitor interface is brought up
LEMMA enter_rfmon_mode_mac80211Step ==
    ASSUME Inv, enter_rfmon_mode_mac80211
    PROVE  Inv'
<1>1. Shape /\ Control /\ Undoing /\ Owning /\ Where /\ Listing /\ Fits(heap, h.ptr)  BY InvFacts
<1>2. CASE pc' = "arptype"
  <2>2. /\ pc = "mon_up"
        /\ onExit' = [registered |-> TRUE, head |-> TRUE, twice |-> onExit.twice \/ onExit.head]
        /\ h' = [h EXCEPT !.must_do = @ \cup {"DELETE_MONIF"}, !.next = onExit.head]
        /\ kern' = [kern EXCEPT !.nl = @ - 1] /\ act' = [act EXCEPT !.mon = TRUE]
        /\ UNCHANGED <<dev, heap, gaveUp, failed>>
    BY <1>1, <1>2 DEF enter_rfmon_mode_mac80211, AddedToClose, Exits, NewFails, Fail, Goto
  <2>3. /\ SameLife /\ h'.must_do = h.must_do \cup {"DELETE_MONIF"} /\ h'.next = onExit.head
        /\ h'.oldmode = h.oldmode /\ h'.mondev = h.mondev /\ SameFd /\ h'.cleanup = h.cleanup /\ h'.ptr = h.ptr
    BY <1>1, <2>2 DEF Shape, HandleShape, NoHandle
  <2>4. /\ DOMAIN act' = DOMAIN NoCall /\ act'.sock = act.sock /\ act'.down = act.down /\ act'.ret = act.ret
        /\ act'.after = act.after /\ act'.n = act.n
    BY <1>1, <2>2 DEF Shape, CallShape, NoCall
  <2>5. SameInterface /\ kern'.fds = kern.fds /\ kern'.nl = kern.nl - 1 /\ kern'.mapped = kern.mapped
    BY <1>1, <2>2 DEF Shape, KernelShape, KernelFields
  <2>6. /\ pc' = "arptype" /\ pc = "mon_up" /\ heap' = heap /\ dev' = dev /\ DOMAIN onExit' = ExitFields
        /\ onExit'.registered = TRUE /\ onExit'.head = TRUE /\ onExit'.twice = (onExit.twice \/ onExit.head)
        /\ gaveUp' = gaveUp /\ failed' = failed
    BY <1>2, <2>2 DEF ExitFields
  <2>7. Shape'
    <3>1. HandleShape'  BY <1>1, <2>3 DEF Shape, HandleShape, ExitShape
    <3>2. CallShape'  BY <1>1, <2>4 DEF Shape, CallShape
    <3>3. KernelShape'  BY <1>1, <2>5 DEF Shape, KernelShape
    <3>4. ExitShape'  BY <1>1, <2>6 DEF Shape, ExitShape
    <3>5. QED BY <1>1, <2>6, <3>1, <3>2, <3>3, <3>4 DEF Shape
  <2>8. Sound'
    <3> USE <1>1, <2>3, <2>4, <2>5, <2>6, SameKind, DeviceType DEF Shape, HandleShape, CallShape, KernelShape,
        ExitShape, Control
    <3>1. Control'  OBVIOUS
    <3>2. Undoing'  BY DEF Undoing, UpKept, ModeKept, PromiscKept, MonsKept, Kept, Holding
    <3>3. Owning'  BY DEF Owning
    <3>4. Where'  BY DEF Where, Bare
    <3>5. Listing'  BY DEF Listing, Holding, Where
    <3>6. QED BY <3>1, <3>2, <3>3, <3>4, <3>5 DEF Sound
  <2>9. Fits(heap, h.ptr)'
    BY <1>1, <2>3, <2>4, <2>5, <2>6, FitsSame
  <2>10. QED BY <2>7, <2>8, <2>9 DEF Inv
<1>3. CASE /\ Fail(-6) /\ kern' = Closed(kern) /\ gaveUp' = TRUE /\ pc = "mon_up"
           /\ UNCHANGED <<dev, h, heap, onExit, failed>>
  <2>2. SameHandle  BY <1>1, <1>3, Unchanged
  <2>3. Failing  BY <1>1, <1>3 DEF Fail, Shape, CallShape, NoCall
  <2>4. SocketClosed  BY <1>1, <1>3, ClosedFacts
  <2>5. pc = "mon_up" /\ heap' = heap /\ dev' = dev /\ onExit' = onExit /\ gaveUp' = TRUE /\ failed' = failed
    BY <1>1, <1>3
  <2>6. Shape'
    <3>1. HandleShape'  BY <1>1, <2>2 DEF Shape, HandleShape
    <3>2. CallShape'  BY <1>1, <2>3 DEF Shape, CallShape
    <3>3. KernelShape'  BY <1>1, <2>4 DEF Shape, KernelShape
    <3>4. ExitShape'  BY <1>1, <2>5 DEF Shape, ExitShape
    <3>5. QED BY <1>1, <2>5, <3>1, <3>2, <3>3, <3>4 DEF Shape
  <2>7. Sound'
    <3> USE <1>1, <2>2, <2>3, <2>4, <2>5, SameKind, DeviceType DEF Shape, HandleShape, CallShape, KernelShape,
        ExitShape, Control
    <3>1. Control'  OBVIOUS
    <3>2. Undoing'  BY DEF Undoing, UpKept, ModeKept, PromiscKept, MonsKept, Kept, Holding
    <3>3. Owning'  BY DEF Owning
    <3>4. Where'  BY DEF Where, Bare
    <3>5. Listing'  BY DEF Listing, Holding, Where
    <3>6. QED BY <3>1, <3>2, <3>3, <3>4, <3>5 DEF Sound
  <2>8. Fits(heap, h.ptr)'
    BY <1>1, <2>2, <2>3, <2>4, <2>5, FitsSame
  <2>9. QED BY <2>6, <2>7, <2>8 DEF Inv
<1>4. CASE /\ Fail(-1) /\ kern' = [Closed(kern) EXCEPT !.nl = @ - 1] /\ gaveUp' = TRUE /\ Registered
           /\ pc = "mon_up" /\ UNCHANGED <<dev, h, heap, failed>>
  <2>2. SameHandle  BY <1>1, <1>4, Unchanged
  <2>3. Failing  BY <1>1, <1>4 DEF Fail, Shape, CallShape, NoCall
  <2>4. SameInterface /\ kern'.fds = kern.fds - 1 /\ kern'.nl = kern.nl - 1 /\ kern'.mapped = kern.mapped
    BY <1>1, <1>4 DEF Shape, KernelShape, KernelFields, Closed, Registered
  <2>5. /\ pc = "mon_up" /\ heap' = heap /\ dev' = dev /\ DOMAIN onExit' = ExitFields
        /\ onExit'.registered = TRUE /\ onExit'.head = onExit.head /\ onExit'.twice = onExit.twice
        /\ gaveUp' = TRUE /\ failed' = failed
    BY <1>1, <1>4 DEF Shape, ExitShape, ExitFields, Closed, Registered
  <2>6. Shape'
    <3>1. HandleShape'  BY <1>1, <2>2 DEF Shape, HandleShape
    <3>2. CallShape'  BY <1>1, <2>3 DEF Shape, CallShape
    <3>3. KernelShape'  BY <1>1, <2>4 DEF Shape, KernelShape
    <3>4. ExitShape'  BY <1>1, <2>5 DEF Shape, ExitShape
    <3>5. QED BY <1>1, <2>5, <3>1, <3>2, <3>3, <3>4 DEF Shape
  <2>7. Sound'
    <3> USE <1>1, <2>2, <2>3, <2>4, <2>5, SameKind, DeviceType DEF Shape, HandleShape, CallShape, KernelShape,
        ExitShape, Control
    <3>1. Control'  OBVIOUS
    <3>2. Undoing'  BY DEF Undoing, UpKept, ModeKept, PromiscKept, MonsKept, Kept, Holding
    <3>3. Owning'  BY DEF Owning
    <3>4. Where'  BY DEF Where, Bare
    <3>5. Listing'  BY DEF Listing, Holding, Where
    <3>6. QED BY <3>1, <3>2, <3>3, <3>4, <3>5 DEF Sound
  <2>8. Fits(heap, h.ptr)'
    BY <1>1, <2>2, <2>3, <2>4, <2>5, FitsSame
  <2>9. QED BY <2>6, <2>7, <2>8 DEF Inv
<1>5. CASE /\ pc = "mon_up" /\ Fail(-1) /\ kern' = [del_mon_if(Closed(kern), act.n) EXCEPT !.nl = @ - 1]
           /\ Registered /\ UNCHANGED <<dev, h, heap, gaveUp, failed>>
  <2>2. SameHandle  BY <1>1, <1>5, Unchanged
  <2>3. Failing  BY <1>1, <1>5 DEF Fail, Shape, CallShape, NoCall
  <2>4. /\ DOMAIN kern' = KernelFields /\ kern'.up = kern.up /\ kern'.promisc = kern.promisc
        /\ kern'.mode = kern.mode /\ kern'.mons = kern.mons \ {act.n} /\ kern'.fds = kern.fds - 1
        /\ kern'.nl = kern.nl - 1 /\ kern'.mapped = kern.mapped
    BY <1>1, <1>5 DEF Shape, KernelShape, KernelFields, Closed, Registered, del_mon_if
  <2>5. /\ pc = "mon_up" /\ heap' = heap /\ dev' = dev /\ DOMAIN onExit' = ExitFields
        /\ onExit'.registered = TRUE /\ onExit'.head = onExit.head /\ onExit'.twice = onExit.twice
        /\ gaveUp' = gaveUp /\ failed' = failed
    BY <1>1, <1>5 DEF Shape, ExitShape, ExitFields, Closed, Registered, del_mon_if
  <2>6. gaveUp \/ kern.mons \ {act.n} = dev.mons  BY <1>1, <2>5 DEF Undoing, MonsKept, Kept, Holding
  <2>7. Shape'
    <3>1. HandleShape'  BY <1>1, <2>2 DEF Shape, HandleShape
    <3>2. CallShape'  BY <1>1, <2>3 DEF Shape, CallShape
    <3>3. KernelShape'  BY <1>1, <2>4 DEF Shape, KernelShape
    <3>4. ExitShape'  BY <1>1, <2>5 DEF Shape, ExitShape
    <3>5. QED BY <1>1, <2>5, <3>1, <3>2, <3>3, <3>4 DEF Shape
  <2>8. Sound'
    <3> USE <1>1, <2>2, <2>3, <2>4, <2>5, <2>6, SameKind, DeviceType DEF Shape, HandleShape, CallShape,
        KernelShape, ExitShape, Control
    <3>1. Control'  OBVIOUS
    <3>2. Undoing'  BY DEF Undoing, UpKept, ModeKept, PromiscKept, MonsKept, Kept, Holding
    <3>3. Owning'  BY DEF Owning
    <3>4. Where'  BY DEF Where, Bare
    <3>5. Listing'  BY DEF Listing, Holding, Where
    <3>6. QED BY <3>1, <3>2, <3>3, <3>4, <3>5 DEF Sound
  <2>9. Fits(heap, h.ptr)'
    BY <1>1, <2>2, <2>3, <2>4, <2>5, <2>6, FitsSame
  <2>10. QED BY <2>7, <2>8, <2>9 DEF Inv
<1>6. QED BY <1>2, <1>3, <1>4, <1>5 DEF enter_rfmon_mode_mac80211, Exits, NewFails, PCAP_ERROR,
    PCAP_ERROR_RFMON_NOTSUP, Goto

\* wireless extensions, and the kind of the driver
LEMMA has_wextStep ==
    ASSUME Inv, has_wext
    PROVE  Inv'
<1>1. Shape /\ Control /\ Undoing /\ Owning /\ Where /\ Listing /\ Fits(heap, h.ptr)  BY InvFacts
<1>2. CASE pc' = "mode"
  <2>2. /\ pc = "wext" /\ act' = [act EXCEPT !.montype = MonType(dev.priv)]
        /\ UNCHANGED <<dev, h, kern, heap, onExit, gaveUp, failed>>
    BY <1>1, <1>2 DEF has_wext, Goto, Exits, NewFails, Rest, Fail
  <2>3. SameHandle  BY <1>1, <2>2, Unchanged
  <2>4. /\ DOMAIN act' = DOMAIN NoCall /\ act'.sock = act.sock /\ act'.down = act.down /\ act'.ret = act.ret
        /\ act'.after = act.after /\ act'.n = act.n
    BY <1>1, <2>2 DEF Shape, CallShape, NoCall
  <2>5. SameKernel  BY <1>1, <2>2, Unchanged
  <2>6. pc' = "mode" /\ pc = "wext" /\ heap' = heap /\ SameWorld  BY <1>2, <2>2
  <2>7. Shape'
    <3>1. HandleShape'  BY <1>1, <2>3 DEF Shape, HandleShape
    <3>2. CallShape'  BY <1>1, <2>4 DEF Shape, CallShape
    <3>3. KernelShape'  BY <1>1, <2>5 DEF Shape, KernelShape
    <3>4. ExitShape'  BY <1>1, <2>6 DEF Shape, ExitShape
    <3>5. QED BY <1>1, <2>6, <3>1, <3>2, <3>3, <3>4 DEF Shape
  <2>8. Sound'
    <3> USE <1>1, <2>3, <2>4, <2>5, <2>6, SameKind, DeviceType DEF Shape, HandleShape, CallShape, KernelShape,
        ExitShape, Control
    <3>1. Control'  OBVIOUS
    <3>2. Undoing'  BY DEF Undoing, UpKept, ModeKept, PromiscKept, MonsKept, Kept, Holding
    <3>3. Owning'  BY DEF Owning
    <3>4. Where'  BY DEF Where, Bare
    <3>5. Listing'  BY DEF Listing, Holding, Where
    <3>6. QED BY <3>1, <3>2, <3>3, <3>4, <3>5 DEF Sound
  <2>9. Fits(heap, h.ptr)'
    BY <1>1, <2>3, <2>4, <2>5, <2>6, FitsSame
  <2>10. QED BY <2>7, <2>8, <2>9 DEF Inv
<1>3. CASE pc' = "cleanup"
  <2>2. /\ pc = "wext" /\ (\E e \in {-6, -5, -1} : Fail(e)) /\ kern' = Closed(kern)
        /\ UNCHANGED <<dev, h, heap, onExit, gaveUp, failed>>
    BY <1>1, <1>3 DEF has_wext, PCAP_ERROR, PCAP_ERROR_NO_SUCH_DEVICE, PCAP_ERROR_RFMON_NOTSUP, Goto, Exits,
        NewFails, Rest
  <2>3. SameHandle  BY <1>1, <2>2, Unchanged
  <2>4. Failing  BY <1>1, <2>2 DEF Fail, Shape, CallShape, NoCall
  <2>5. SocketClosed  BY <1>1, <2>2, ClosedFacts
  <2>6. pc = "wext" /\ heap' = heap /\ SameWorld  BY <1>1, <2>2
  <2>7. QED BY <1>1, <2>3, <2>4, <2>5, <2>6, NewFailsStep
<1>4. QED BY <1>2, <1>3 DEF has_wext, Goto, Exits, NewFails, Rest, Fail

\* the mode is remembered, or monitor mode entered at once
LEMMA GetModeStep ==
    ASSUME Inv, GetMode
    PROVE  Inv'
<1>1. Shape /\ Control /\ Undoing /\ Owning /\ Where /\ Listing /\ Fits(heap, h.ptr)  BY InvFacts
<1>2. CASE pc' = "arptype" /\ kern.mode = "monitor"
  <2>2. pc = "mode" /\ UNCHANGED <<dev, h, act, kern, heap, onExit, gaveUp, failed>>
    BY <1>1, <1>2 DEF GetMode, Entered, AddedToClose, Registered, Goto, Exits, NewFails, Fail
  <2>3. SameHandle  BY <1>1, <2>2, Unchanged
  <2>4. SameCall  BY <1>1, <2>2, Unchanged
  <2>5. SameKernel  BY <1>1, <2>2, Unchanged
  <2>6. pc' = "arptype" /\ pc = "mode" /\ heap' = heap /\ SameWorld  BY <1>2, <2>2
  <2>7. Shape'
    <3>1. HandleShape'  BY <1>1, <2>3 DEF Shape, HandleShape
    <3>2. CallShape'  BY <1>1, <2>4 DEF Shape, CallShape
    <3>3. KernelShape'  BY <1>1, <2>5 DEF Shape, KernelShape
    <3>4. ExitShape'  BY <1>1, <2>6 DEF Shape, ExitShape
    <3>5. QED BY <1>1, <2>6, <3>1, <3>2, <3>3, <3>4 DEF Shape
  <2>8. Sound'
    <3> USE <1>1, <2>3, <2>4, <2>5, <2>6, SameKind, DeviceType DEF Shape, HandleShape, CallShape, KernelShape,
        ExitShape, Control
    <3>1. Control'  OBVIOUS
    <3>2. Undoing'  BY DEF Undoing, UpKept, ModeKept, PromiscKept, MonsKept, Kept, Holding
    <3>3. Owning'  BY DEF Owning
    <3>4. Where'  BY DEF Where, Bare
    <3>5. Listing'  BY DEF Listing, Holding, Where
    <3>6. QED BY <3>1, <3>2, <3>3, <3>4, <3>5 DEF Sound
  <2>9. Fits(heap, h.ptr)'
    BY <1>1, <2>3, <2>4, <2>5, <2>6, FitsSame
  <2>10. QED BY <2>7, <2>8, <2>9 DEF Inv
<1>3. CASE pc' = "arptype" /\ kern.mode # "monitor"
  <2>2. /\ pc = "mode" /\ onExit' = [registered |-> TRUE, head |-> TRUE, twice |-> onExit.twice \/ onExit.head]
        /\ h' = [h EXCEPT !.must_do = @ \cup {"CLEAR_RFMON"}, !.next = onExit.head, !.oldmode = kern.mode]
        /\ kern' = [kern EXCEPT !.mode = "monitor"] /\ UNCHANGED <<dev, act, heap, gaveUp, failed>>
    BY <1>1, <1>3 DEF GetMode, Entered, AddedToClose, Registered, Goto, Exits, NewFails, Fail
  <2>3. /\ SameLife /\ h'.must_do = h.must_do \cup {"CLEAR_RFMON"} /\ h'.next = onExit.head
        /\ h'.oldmode = kern.mode /\ h'.mondev = h.mondev /\ SameFd /\ h'.cleanup = h.cleanup /\ h'.ptr = h.ptr
    BY <1>1, <2>2 DEF Shape, HandleShape, NoHandle
  <2>4. SameCall  BY <1>1, <2>2, Unchanged
  <2>5. /\ DOMAIN kern' = KernelFields /\ kern'.up = kern.up /\ kern'.promisc = kern.promisc
        /\ kern'.mode = "monitor" /\ kern'.mons = kern.mons /\ kern'.fds = kern.fds /\ kern'.nl = kern.nl
        /\ kern'.mapped = kern.mapped
    BY <1>1, <2>2 DEF Shape, KernelShape, KernelFields
  <2>6. /\ pc' = "arptype" /\ pc = "mode" /\ heap' = heap /\ dev' = dev /\ DOMAIN onExit' = ExitFields
        /\ onExit'.registered = TRUE /\ onExit'.head = TRUE /\ onExit'.twice = (onExit.twice \/ onExit.head)
        /\ gaveUp' = gaveUp /\ failed' = failed
    BY <1>3, <2>2 DEF ExitFields
  <2>7. Shape'
    <3>1. HandleShape'  BY <1>1, <2>3 DEF Shape, HandleShape, ExitShape
    <3>2. CallShape'  BY <1>1, <2>4 DEF Shape, CallShape
    <3>3. KernelShape'  BY <1>1, <2>5 DEF Shape, KernelShape
    <3>4. ExitShape'  BY <1>1, <2>6 DEF Shape, ExitShape
    <3>5. QED BY <1>1, <2>6, <3>1, <3>2, <3>3, <3>4 DEF Shape
  <2>8. Sound'
    <3> USE <1>1, <2>3, <2>4, <2>5, <2>6, SameKind, DeviceType DEF Shape, HandleShape, CallShape, KernelShape,
        ExitShape, Control
    <3>1. Control'  OBVIOUS
    <3>2. Undoing'  BY DEF Undoing, UpKept, ModeKept, PromiscKept, MonsKept, Kept, Holding
    <3>3. Owning'  BY DEF Owning
    <3>4. Where'  BY DEF Where, Bare
    <3>5. Listing'  BY DEF Listing, Holding, Where
    <3>6. QED BY <3>1, <3>2, <3>3, <3>4, <3>5 DEF Sound
  <2>9. Fits(heap, h.ptr)'
    BY <1>1, <2>3, <2>4, <2>5, <2>6, FitsSame
  <2>10. QED BY <2>7, <2>8, <2>9 DEF Inv
<1>4. CASE pc' = "down"
  <2>2. /\ pc = "mode" /\ Registered /\ h' = [h EXCEPT !.oldmode = kern.mode]
        /\ UNCHANGED <<dev, act, kern, heap, gaveUp, failed>>
    BY <1>1, <1>4 DEF GetMode, Entered, Goto, Exits, NewFails, Fail
  <2>3. /\ SameLife /\ h'.must_do = h.must_do /\ h'.next = h.next /\ h'.oldmode = kern.mode
        /\ h'.mondev = h.mondev /\ SameFd /\ h'.cleanup = h.cleanup /\ h'.ptr = h.ptr
    BY <1>1, <2>2 DEF Shape, HandleShape, NoHandle
  <2>4. SameCall  BY <1>1, <2>2, Unchanged
  <2>5. SameKernel  BY <1>1, <2>2, Unchanged
  <2>6. /\ pc' = "down" /\ pc = "mode" /\ heap' = heap /\ dev' = dev /\ DOMAIN onExit' = ExitFields
        /\ onExit'.registered = TRUE /\ onExit'.head = onExit.head /\ onExit'.twice = onExit.twice
        /\ gaveUp' = gaveUp /\ failed' = failed
    BY <1>1, <1>4, <2>2 DEF Registered, Shape, ExitShape, ExitFields
  <2>7. Shape'
    <3>1. HandleShape'  BY <1>1, <2>3 DEF Shape, HandleShape
    <3>2. CallShape'  BY <1>1, <2>4 DEF Shape, CallShape
    <3>3. KernelShape'  BY <1>1, <2>5 DEF Shape, KernelShape
    <3>4. ExitShape'  BY <1>1, <2>6 DEF Shape, ExitShape
    <3>5. QED BY <1>1, <2>6, <3>1, <3>2, <3>3, <3>4 DEF Shape
  <2>8. Sound'
    <3> USE <1>1, <2>3, <2>4, <2>5, <2>6, SameKind, DeviceType DEF Shape, HandleShape, CallShape, KernelShape,
        ExitShape, Control
    <3>1. Control'  OBVIOUS
    <3>2. Undoing'  BY DEF Undoing, UpKept, ModeKept, PromiscKept, MonsKept, Kept, Holding
    <3>3. Owning'  BY DEF Owning
    <3>4. Where'  BY DEF Where, Bare
    <3>5. Listing'  BY DEF Listing, Holding, Where
    <3>6. QED BY <3>1, <3>2, <3>3, <3>4, <3>5 DEF Sound
  <2>9. Fits(heap, h.ptr)'
    BY <1>1, <2>3, <2>4, <2>5, <2>6, FitsSame
  <2>10. QED BY <2>7, <2>8, <2>9 DEF Inv
<1>5. CASE pc' = "cleanup"
  <2>2. /\ pc = "mode" /\ (Fail(-6)) /\ kern' = Closed(kern)
        /\ UNCHANGED <<dev, h, heap, onExit, gaveUp, failed>>
    BY <1>1, <1>5 DEF GetMode, Entered, AddedToClose, Registered, Goto, Exits, NewFails, PCAP_ERROR_RFMON_NOTSUP
  <2>3. SameHandle  BY <1>1, <2>2, Unchanged
  <2>4. Failing  BY <1>1, <2>2 DEF Fail, Shape, CallShape, NoCall
  <2>5. SocketClosed  BY <1>1, <2>2, ClosedFacts
  <2>6. pc = "mode" /\ heap' = heap /\ SameWorld  BY <1>1, <2>2
  <2>7. QED BY <1>1, <2>3, <2>4, <2>5, <2>6, NewFailsStep
<1>6. QED BY <1>2, <1>3, <1>4, <1>5 DEF GetMode, Entered, AddedToClose, Registered, Goto, Exits, NewFails, Fail

\* the interface is taken down
LEMMA TakeDownStep ==
    ASSUME Inv, TakeDown
    PROVE  Inv'
<1>1. Shape /\ Control /\ Undoing /\ Owning /\ Where /\ Listing /\ Fits(heap, h.ptr)  BY InvFacts
<1>2. CASE pc' = "monitor"
  <2>2. /\ pc = "down" /\ act' = [act EXCEPT !.down = kern.up] /\ kern' = [kern EXCEPT !.up = FALSE]
        /\ UNCHANGED <<dev, h, heap, onExit, gaveUp, failed>>
    BY <1>1, <1>2 DEF TakeDown, Goto, Exits, NewFails, Rest, Fail
  <2>3. SameHandle  BY <1>1, <2>2, Unchanged
  <2>4. /\ DOMAIN act' = DOMAIN NoCall /\ act'.sock = act.sock /\ act'.down = kern.up /\ act'.ret = act.ret
        /\ act'.after = act.after /\ act'.n = act.n
    BY <1>1, <2>2 DEF Shape, CallShape, NoCall
  <2>5. /\ DOMAIN kern' = KernelFields /\ kern'.up = FALSE /\ kern'.promisc = kern.promisc
        /\ kern'.mode = kern.mode /\ kern'.mons = kern.mons /\ kern'.fds = kern.fds /\ kern'.nl = kern.nl
        /\ kern'.mapped = kern.mapped
    BY <1>1, <2>2 DEF Shape, KernelShape, KernelFields
  <2>6. pc' = "monitor" /\ pc = "down" /\ heap' = heap /\ SameWorld  BY <1>2, <2>2
  <2>7. Shape'
    <3>1. HandleShape'  BY <1>1, <2>3 DEF Shape, HandleShape
    <3>2. CallShape'  BY <1>1, <2>4 DEF Shape, CallShape, KernelShape
    <3>3. KernelShape'  BY <1>1, <2>5 DEF Shape, KernelShape
    <3>4. ExitShape'  BY <1>1, <2>6 DEF Shape, ExitShape
    <3>5. QED BY <1>1, <2>6, <3>1, <3>2, <3>3, <3>4 DEF Shape
  <2>8. Sound'
    <3> USE <1>1, <2>3, <2>4, <2>5, <2>6, SameKind, DeviceType DEF Shape, HandleShape, CallShape, KernelShape,
        ExitShape, Control
    <3>1. Control'  OBVIOUS
    <3>2. Undoing'  BY DEF Undoing, UpKept, ModeKept, PromiscKept, MonsKept, Kept, Holding
    <3>3. Owning'  BY DEF Owning
    <3>4. Where'  BY DEF Where, Bare
    <3>5. Listing'  BY DEF Listing, Holding, Where
    <3>6. QED BY <3>1, <3>2, <3>3, <3>4, <3>5 DEF Sound
  <2>9. Fits(heap, h.ptr)'
    BY <1>1, <2>3, <2>4, <2>5, <2>6, FitsSame
  <2>10. QED BY <2>7, <2>8, <2>9 DEF Inv
<1>3. CASE pc' = "cleanup"
  <2>2. /\ pc = "down" /\ (Fail(-1)) /\ kern' = Closed(kern)
        /\ UNCHANGED <<dev, h, heap, onExit, gaveUp, failed>>
    BY <1>1, <1>3 DEF TakeDown, PCAP_ERROR, Goto, Exits, NewFails, Rest
  <2>3. SameHandle  BY <1>1, <2>2, Unchanged
  <2>4. Failing  BY <1>1, <2>2 DEF Fail, Shape, CallShape, NoCall
  <2>5. SocketClosed  BY <1>1, <2>2, ClosedFacts
  <2>6. pc = "down" /\ heap' = heap /\ SameWorld  BY <1>1, <2>2
  <2>7. QED BY <1>1, <2>3, <2>4, <2>5, <2>6, NewFailsStep
<1>4. QED BY <1>2, <1>3 DEF TakeDown, Goto, Exits, NewFails, Rest, Fail

\* monitor mode is set, or the flags are put back
LEMMA SetMonitorStep ==
    ASSUME Inv, SetMonitor
    PROVE  Inv'
<1>1. Shape /\ Control /\ Undoing /\ Owning /\ Where /\ Listing /\ Fits(heap, h.ptr)  BY InvFacts
<1>2. CASE pc' = "montype"
  <2>2. /\ pc = "monitor" /\ kern' = [kern EXCEPT !.mode = "monitor"]
        /\ UNCHANGED <<dev, h, act, heap, onExit, gaveUp, failed>>
    BY <1>1, <1>2 DEF SetMonitor, Goto, Exits, NewFails, Rest, Fail
  <2>3. SameHandle  BY <1>1, <2>2, Unchanged
  <2>4. SameCall  BY <1>1, <2>2, Unchanged
  <2>5. /\ DOMAIN kern' = KernelFields /\ kern'.up = kern.up /\ kern'.promisc = kern.promisc
        /\ kern'.mode = "monitor" /\ kern'.mons = kern.mons /\ kern'.fds = kern.fds /\ kern'.nl = kern.nl
        /\ kern'.mapped = kern.mapped
    BY <1>1, <2>2 DEF Shape, KernelShape, KernelFields
  <2>6. pc' = "montype" /\ pc = "monitor" /\ heap' = heap /\ SameWorld  BY <1>2, <2>2
  <2>7. Shape'
    <3>1. HandleShape'  BY <1>1, <2>3 DEF Shape, HandleShape
    <3>2. CallShape'  BY <1>1, <2>4 DEF Shape, CallShape
    <3>3. KernelShape'  BY <1>1, <2>5 DEF Shape, KernelShape
    <3>4. ExitShape'  BY <1>1, <2>6 DEF Shape, ExitShape
    <3>5. QED BY <1>1, <2>6, <3>1, <3>2, <3>3, <3>4 DEF Shape
  <2>8. Sound'
    <3> USE <1>1, <2>3, <2>4, <2>5, <2>6, SameKind, DeviceType DEF Shape, HandleShape, CallShape, KernelShape,
        ExitShape, Control
    <3>1. Control'  OBVIOUS
    <3>2. Undoing'  BY DEF Undoing, UpKept, ModeKept, PromiscKept, MonsKept, Kept, Holding
    <3>3. Owning'  BY DEF Owning
    <3>4. Where'  BY DEF Where, Bare
    <3>5. Listing'  BY DEF Listing, Holding, Where
    <3>6. QED BY <3>1, <3>2, <3>3, <3>4, <3>5 DEF Sound
  <2>9. Fits(heap, h.ptr)'
    BY <1>1, <2>3, <2>4, <2>5, <2>6, FitsSame
  <2>10. QED BY <2>7, <2>8, <2>9 DEF Inv
<1>3. CASE /\ Fail(-6) /\ kern' = [Closed(kern) EXCEPT !.up = act.down, !.promisc = @ /\ act.down]
           /\ UNCHANGED <<h, gaveUp>> /\ pc = "monitor" /\ UNCHANGED <<dev, heap, onExit, failed>>
  <2>2. SameHandle  BY <1>1, <1>3, Unchanged
  <2>3. Failing  BY <1>1, <1>3 DEF Fail, Shape, CallShape, NoCall
  <2>4. /\ DOMAIN kern' = KernelFields /\ kern'.up = act.down /\ kern'.promisc = (kern.promisc /\ act.down)
        /\ kern'.mode = kern.mode /\ kern'.mons = kern.mons /\ kern'.fds = kern.fds - 1 /\ kern'.nl = kern.nl
        /\ kern'.mapped = kern.mapped
    BY <1>1, <1>3 DEF Shape, KernelShape, KernelFields, Closed
  <2>5. pc = "monitor" /\ heap' = heap /\ SameWorld  BY <1>1, <1>3 DEF Closed
  <2>6. Shape'
    <3>1. HandleShape'  BY <1>1, <2>2 DEF Shape, HandleShape
    <3>2. CallShape'  BY <1>1, <2>3 DEF Shape, CallShape
    <3>3. KernelShape'  BY <1>1, <2>4 DEF Shape, KernelShape, CallShape
    <3>4. ExitShape'  BY <1>1, <2>5 DEF Shape, ExitShape
    <3>5. QED BY <1>1, <2>5, <3>1, <3>2, <3>3, <3>4 DEF Shape
  <2>7. Sound'
    <3> USE <1>1, <2>2, <2>3, <2>4, <2>5, SameKind, DeviceType DEF Shape, HandleShape, CallShape, KernelShape,
        ExitShape, Control
    <3>1. Control'  OBVIOUS
    <3>2. Undoing'
      <4>1. SUFFICES ASSUME ~gaveUp' PROVE UpKept' /\ ModeKept' /\ PromiscKept' /\ MonsKept'  BY DEF Undoing
      <4>2. UpKept /\ ModeKept /\ PromiscKept /\ MonsKept  BY <1>1, <2>2, <2>3, <2>4, <2>5, <4>1 DEF Undoing
      <4>3. UpKept' /\ ModeKept' /\ MonsKept'
        BY <2>2, <2>3, <2>4, <2>5, <4>2 DEF UpKept, ModeKept, MonsKept, Kept, Holding
      <4>4. act.down = dev.up /\ (kern.promisc = dev.promisc \/ Exempt)
        BY <2>2, <2>3, <2>4, <2>5, <4>2 DEF UpKept, PromiscKept, Kept, Holding
      <4>5. act.down \in BOOLEAN /\ kern.promisc \in BOOLEAN /\ dev.up \in BOOLEAN /\ dev.promisc \in BOOLEAN
        BY <1>1, DeviceType DEF Shape, CallShape, KernelShape
      <4>6. kern'.promisc = dev.promisc \/ Exempt
        <5>1. CASE act.down  BY <2>2, <2>3, <2>4, <2>5, <4>4, <4>5, <5>1
        <5>2. CASE ~act.down  BY <2>2, <2>3, <2>4, <2>5, <4>4, <4>5, <5>2 DEF Exempt
        <5>3. QED BY <5>1, <5>2
      <4>7. PromiscKept'  BY <2>2, <2>3, <2>4, <2>5, <4>2, <4>6, SameKind DEF PromiscKept
      <4>8. QED BY <4>3, <4>7
    <3>3. Owning'  BY DEF Owning
    <3>4. Where'  BY DEF Where, Bare
    <3>5. Listing'  BY DEF Listing, Holding, Where
    <3>6. QED BY <3>1, <3>2, <3>3, <3>4, <3>5 DEF Sound
  <2>8. Fits(heap, h.ptr)'
    BY <1>1, <2>2, <2>3, <2>4, <2>5, FitsSame
  <2>9. QED BY <2>6, <2>7, <2>8 DEF Inv
<1>4. CASE /\ Fail(-1) /\ kern' = Closed(kern) /\ gaveUp' = (gaveUp \/ act.down) /\ pc = "monitor"
           /\ UNCHANGED <<dev, h, heap, onExit, failed>>
  <2>2. SameHandle  BY <1>1, <1>4, Unchanged
  <2>3. Failing  BY <1>1, <1>4 DEF Fail, Shape, CallShape, NoCall
  <2>4. SocketClosed  BY <1>1, <1>4, ClosedFacts
  <2>5. /\ pc = "monitor" /\ heap' = heap /\ dev' = dev /\ onExit' = onExit /\ gaveUp' = (gaveUp \/ act.down)
        /\ failed' = failed
    BY <1>1, <1>4
  <2>6. Shape'
    <3>1. HandleShape'  BY <1>1, <2>2 DEF Shape, HandleShape
    <3>2. CallShape'  BY <1>1, <2>3 DEF Shape, CallShape
    <3>3. KernelShape'  BY <1>1, <2>4 DEF Shape, KernelShape
    <3>4. ExitShape'  BY <1>1, <2>5 DEF Shape, ExitShape
    <3>5. QED BY <1>1, <2>5, <3>1, <3>2, <3>3, <3>4 DEF Shape
  <2>7. Sound'
    <3> USE <1>1, <2>2, <2>3, <2>4, <2>5, SameKind, DeviceType DEF Shape, HandleShape, CallShape, KernelShape,
        ExitShape, Control
    <3>1. Control'  OBVIOUS
    <3>2. Undoing'  BY DEF Undoing, UpKept, ModeKept, PromiscKept, MonsKept, Kept, Holding
    <3>3. Owning'  BY DEF Owning
    <3>4. Where'  BY DEF Where, Bare
    <3>5. Listing'  BY DEF Listing, Holding, Where
    <3>6. QED BY <3>1, <3>2, <3>3, <3>4, <3>5 DEF Sound
  <2>8. Fits(heap, h.ptr)'
    BY <1>1, <2>2, <2>3, <2>4, <2>5, FitsSame
  <2>9. QED BY <2>6, <2>7, <2>8 DEF Inv
<1>5. QED BY <1>2, <1>3, <1>4 DEF SetMonitor, Goto, Exits, NewFails, PCAP_ERROR, PCAP_ERROR_RFMON_NOTSUP

\* the headers of the driver, and the interface up again
LEMMA SetHeadersStep ==
    ASSUME Inv, SetHeaders
    PROVE  Inv'
<1>1. Shape /\ Control /\ Undoing /\ Owning /\ Where /\ Listing /\ Fits(heap, h.ptr)  BY InvFacts
<1>2. CASE pc' = "arptype"
  <2>2. /\ pc = "montype"
        /\ onExit' = [registered |-> TRUE, head |-> TRUE, twice |-> onExit.twice \/ onExit.head]
        /\ h' = [h EXCEPT !.must_do = @ \cup {"CLEAR_RFMON"}, !.next = onExit.head, !.oldmode = h.oldmode]
        /\ kern' = [kern EXCEPT !.up = @ \/ act.down] /\ UNCHANGED <<dev, act, heap, gaveUp, failed>>
    BY <1>1, <1>2 DEF SetHeaders, Entered, AddedToClose, Goto, Exits, NewFails, Fail
  <2>3. /\ SameLife /\ h'.must_do = h.must_do \cup {"CLEAR_RFMON"} /\ h'.next = onExit.head
        /\ h'.oldmode = h.oldmode /\ h'.mondev = h.mondev /\ SameFd /\ h'.cleanup = h.cleanup /\ h'.ptr = h.ptr
    BY <1>1, <2>2 DEF Shape, HandleShape, NoHandle
  <2>4. SameCall  BY <1>1, <2>2, Unchanged
  <2>5. /\ DOMAIN kern' = KernelFields /\ kern'.up = (kern.up \/ act.down) /\ kern'.promisc = kern.promisc
        /\ kern'.mode = kern.mode /\ kern'.mons = kern.mons /\ kern'.fds = kern.fds /\ kern'.nl = kern.nl
        /\ kern'.mapped = kern.mapped
    BY <1>1, <2>2 DEF Shape, KernelShape, KernelFields
  <2>6. /\ pc' = "arptype" /\ pc = "montype" /\ heap' = heap /\ dev' = dev /\ DOMAIN onExit' = ExitFields
        /\ onExit'.registered = TRUE /\ onExit'.head = TRUE /\ onExit'.twice = (onExit.twice \/ onExit.head)
        /\ gaveUp' = gaveUp /\ failed' = failed
    BY <1>2, <2>2 DEF ExitFields
  <2>7. Shape'
    <3>1. HandleShape'  BY <1>1, <2>3 DEF Shape, HandleShape, ExitShape
    <3>2. CallShape'  BY <1>1, <2>4 DEF Shape, CallShape
    <3>3. KernelShape'  BY <1>1, <2>5 DEF Shape, KernelShape
    <3>4. ExitShape'  BY <1>1, <2>6 DEF Shape, ExitShape
    <3>5. QED BY <1>1, <2>6, <3>1, <3>2, <3>3, <3>4 DEF Shape
  <2>8. Sound'
    <3> USE <1>1, <2>3, <2>4, <2>5, <2>6, SameKind, DeviceType DEF Shape, HandleShape, CallShape, KernelShape,
        ExitShape, Control
    <3>1. Control'  OBVIOUS
    <3>2. Undoing'  BY DEF Undoing, UpKept, ModeKept, PromiscKept, MonsKept, Kept, Holding
    <3>3. Owning'  BY DEF Owning
    <3>4. Where'  BY DEF Where, Bare
    <3>5. Listing'  BY DEF Listing, Holding, Where
    <3>6. QED BY <3>1, <3>2, <3>3, <3>4, <3>5 DEF Sound
  <2>9. Fits(heap, h.ptr)'
    BY <1>1, <2>3, <2>4, <2>5, <2>6, FitsSame
  <2>10. QED BY <2>7, <2>8, <2>9 DEF Inv
<1>3. CASE pc' = "cleanup"
  <2>2. /\ pc = "montype" /\ Fail(-1) /\ kern' = Closed(kern) /\ gaveUp' = TRUE
        /\ UNCHANGED <<dev, h, heap, onExit, failed>>
    BY <1>1, <1>3 DEF SetHeaders, Entered, AddedToClose, Goto, Exits, NewFails, PCAP_ERROR
  <2>3. SameHandle  BY <1>1, <2>2, Unchanged
  <2>4. Failing  BY <1>1, <2>2 DEF Fail, Shape, CallShape, NoCall
  <2>5. SocketClosed  BY <1>1, <2>2, ClosedFacts
  <2>6. /\ pc = "montype" /\ heap' = heap /\ dev' = dev /\ onExit' = onExit /\ gaveUp' = TRUE
        /\ failed' = failed
    BY <1>1, <2>2
  <2>7. Shape'
    <3>1. HandleShape'  BY <1>1, <2>3 DEF Shape, HandleShape
    <3>2. CallShape'  BY <1>1, <2>4 DEF Shape, CallShape
    <3>3. KernelShape'  BY <1>1, <2>5 DEF Shape, KernelShape
    <3>4. ExitShape'  BY <1>1, <2>6 DEF Shape, ExitShape
    <3>5. QED BY <1>1, <2>6, <3>1, <3>2, <3>3, <3>4 DEF Shape
  <2>8. Sound'
    <3> USE <1>1, <2>3, <2>4, <2>5, <2>6, SameKind, DeviceType DEF Shape, HandleShape, CallShape, KernelShape,
        ExitShape, Control
    <3>1. Control'  OBVIOUS
    <3>2. Undoing'  BY DEF Undoing, UpKept, ModeKept, PromiscKept, MonsKept, Kept, Holding
    <3>3. Owning'  BY DEF Owning
    <3>4. Where'  BY DEF Where, Bare
    <3>5. Listing'  BY DEF Listing, Holding, Where
    <3>6. QED BY <3>1, <3>2, <3>3, <3>4, <3>5 DEF Sound
  <2>9. Fits(heap, h.ptr)'
    BY <1>1, <2>3, <2>4, <2>5, <2>6, FitsSame
  <2>10. QED BY <2>7, <2>8, <2>9 DEF Inv
<1>4. QED BY <1>2, <1>3 DEF SetHeaders, Entered, AddedToClose, Goto, Exits, NewFails, Fail

----------------------------------------------------------------------------
(* activate_old() *)

\* the socket is the handle's at once
LEMMA OldSocketStep ==
    ASSUME Inv, OldSocket
    PROVE  Inv'
<1>1. Shape /\ Control /\ Undoing /\ Owning /\ Where /\ Listing /\ Fits(heap, h.ptr)  BY InvFacts
<1> DEFINE lt == map_arphrd_to_dlt(Arptype, FALSE)
<1>2. CASE /\ (\E e \in {-8, -1} : Fail(e)) /\ UNCHANGED <<h, kern, heap>> /\ pc = "old"
           /\ UNCHANGED <<dev, onExit, gaveUp, failed>>
  <2>2. SameHandle  BY <1>1, <1>2, Unchanged
  <2>3. Failing  BY <1>1, <1>2 DEF Fail, Shape, CallShape, NoCall
  <2>4. SameKernel  BY <1>1, <1>2, Unchanged
  <2>5. pc = "old" /\ heap' = heap /\ SameWorld  BY <1>1, <1>2
  <2>6. Shape'
    <3>1. HandleShape'  BY <1>1, <2>2 DEF Shape, HandleShape
    <3>2. CallShape'  BY <1>1, <2>3 DEF Shape, CallShape
    <3>3. KernelShape'  BY <1>1, <2>4 DEF Shape, KernelShape
    <3>4. ExitShape'  BY <1>1, <2>5 DEF Shape, ExitShape
    <3>5. QED BY <1>1, <2>5, <3>1, <3>2, <3>3, <3>4 DEF Shape
  <2>7. Sound'
    <3> USE <1>1, <2>2, <2>3, <2>4, <2>5, SameKind, DeviceType DEF Shape, HandleShape, CallShape, KernelShape,
        ExitShape, Control
    <3>1. Control'  OBVIOUS
    <3>2. Undoing'  BY DEF Undoing, UpKept, ModeKept, PromiscKept, MonsKept, Kept, Holding
    <3>3. Owning'  BY DEF Owning
    <3>4. Where'  BY DEF Where, Bare
    <3>5. Listing'  BY DEF Listing, Holding, Where
    <3>6. QED BY <3>1, <3>2, <3>3, <3>4, <3>5 DEF Sound
  <2>8. Fits(heap, h.ptr)'
    BY <1>1, <2>2, <2>3, <2>4, <2>5, FitsSame
  <2>9. QED BY <2>6, <2>7, <2>8 DEF Inv
<1>3. CASE /\ Fail(-1) /\ h' = [h EXCEPT !.fd = TRUE, !.sk = "packet", !.cooked = FALSE]
           /\ kern' = [kern EXCEPT !.fds = @ + 1] /\ UNCHANGED heap /\ pc = "old"
           /\ UNCHANGED <<dev, onExit, gaveUp, failed>>
  <2>2. /\ SameLife /\ SameUndo /\ h'.fd = TRUE /\ h'.closed = h.closed /\ h'.cleanup = h.cleanup
        /\ h'.ptr = h.ptr
    BY <1>1, <1>3 DEF Shape, HandleShape, NoHandle
  <2>3. Failing  BY <1>1, <1>3 DEF Fail, Shape, CallShape, NoCall
  <2>4. SameInterface /\ kern'.fds = kern.fds + 1 /\ kern'.nl = kern.nl /\ kern'.mapped = kern.mapped
    BY <1>1, <1>3 DEF Shape, KernelShape, KernelFields
  <2>5. pc = "old" /\ heap' = heap /\ SameWorld  BY <1>1, <1>3
  <2>6. Shape'
    <3>1. HandleShape'  BY <1>1, <2>2 DEF Shape, HandleShape
    <3>2. CallShape'  BY <1>1, <2>3 DEF Shape, CallShape
    <3>3. KernelShape'  BY <1>1, <2>4 DEF Shape, KernelShape
    <3>4. ExitShape'  BY <1>1, <2>5 DEF Shape, ExitShape
    <3>5. QED BY <1>1, <2>5, <3>1, <3>2, <3>3, <3>4 DEF Shape
  <2>7. Sound'
    <3> USE <1>1, <2>2, <2>3, <2>4, <2>5, SameKind, DeviceType DEF Shape, HandleShape, CallShape, KernelShape,
        ExitShape, Control
    <3>1. Control'  OBVIOUS
    <3>2. Undoing'  BY DEF Undoing, UpKept, ModeKept, PromiscKept, MonsKept, Kept, Holding
    <3>3. Owning'  BY DEF Owning
    <3>4. Where'  BY DEF Where, Bare
    <3>5. Listing'  BY DEF Listing, Holding, Where
    <3>6. QED BY <3>1, <3>2, <3>3, <3>4, <3>5 DEF Sound
  <2>8. Fits(heap, h.ptr)'
    BY <1>1, <2>2, <2>3, <2>4, <2>5, FitsSame
  <2>9. QED BY <2>6, <2>7, <2>8 DEF Inv
<1>4. CASE /\ Fail(-1)
           /\ h' = [[h EXCEPT !.fd = TRUE, !.sk = "packet", !.cooked = FALSE] EXCEPT !.linktype = lt,
                  !.ptr = @ \cup DltList]
           /\ kern' = [kern EXCEPT !.fds = @ + 1]
           /\ heap' = [p \in Pointers |-> IF p \in DltList THEN heap[p] + 1 ELSE heap[p]] /\ pc = "old"
           /\ UNCHANGED <<dev, onExit, gaveUp, failed>>
  <2>2. /\ SameLife /\ SameUndo /\ h'.fd = TRUE /\ h'.closed = h.closed /\ h'.cleanup = h.cleanup
        /\ h'.ptr = h.ptr \cup DltList
    BY <1>1, <1>4 DEF Shape, HandleShape, NoHandle
  <2>3. Failing  BY <1>1, <1>4 DEF Fail, Shape, CallShape, NoCall
  <2>4. SameInterface /\ kern'.fds = kern.fds + 1 /\ kern'.nl = kern.nl /\ kern'.mapped = kern.mapped
    BY <1>1, <1>4 DEF Shape, KernelShape, KernelFields
  <2>5. pc = "old" /\ DltList \subseteq {"dlt_list"} /\ SameWorld  BY <1>4, DltListType
  <2>6. Shape'
    <3>1. HandleShape'  BY <1>1, <2>2 DEF Shape, HandleShape
    <3>2. CallShape'  BY <1>1, <2>3 DEF Shape, CallShape
    <3>3. KernelShape'  BY <1>1, <2>4 DEF Shape, KernelShape
    <3>4. ExitShape'  BY <1>1, <2>5 DEF Shape, ExitShape
    <3>5. QED BY <1>1, <2>5, <3>1, <3>2, <3>3, <3>4 DEF Shape
  <2>7. Sound'
    <3> USE <1>1, <2>2, <2>3, <2>4, <2>5, SameKind, DeviceType DEF Shape, HandleShape, CallShape, KernelShape,
        ExitShape, Control
    <3>1. Control'  OBVIOUS
    <3>2. Undoing'  BY DEF Undoing, UpKept, ModeKept, PromiscKept, MonsKept, Kept, Holding
    <3>3. Owning'  BY DEF Owning
    <3>4. Where'  BY DEF Where, Bare
    <3>5. Listing'  BY DEF Listing, Holding, Where
    <3>6. QED BY <3>1, <3>2, <3>3, <3>4, <3>5 DEF Sound
  <2>8. Fits(heap, h.ptr)'
    <3>1. DltList \subseteq Pointers /\ DltList \cap h.ptr \subseteq Lossy  BY DltListType
    <3>2. Fits([p \in Pointers |-> IF p \in DltList THEN heap[p] + 1 ELSE heap[p]], h.ptr \cup DltList)
      BY <1>1, <3>1, FitsAdd
    <3>3. QED BY <1>4, <2>2, <2>3, <2>4, <2>5, <3>2
  <2>9. QED BY <2>6, <2>7, <2>8 DEF Inv
<1>5. CASE /\ pc' = "old_promisc" /\ UNCHANGED act
           /\ h' = [[h EXCEPT !.fd = TRUE, !.sk = "packet", !.cooked = FALSE] EXCEPT !.linktype = lt,
                  !.ptr = @ \cup DltList]
           /\ kern' = [kern EXCEPT !.fds = @ + 1]
           /\ heap' = [p \in Pointers |-> IF p \in DltList THEN heap[p] + 1 ELSE heap[p]] /\ pc = "old"
           /\ UNCHANGED <<dev, onExit, gaveUp, failed>>
  <2>2. /\ SameLife /\ SameUndo /\ h'.fd = TRUE /\ h'.closed = h.closed /\ h'.cleanup = h.cleanup
        /\ h'.ptr = h.ptr \cup DltList
    BY <1>1, <1>5 DEF Shape, HandleShape, NoHandle
  <2>3. SameCall  BY <1>1, <1>5, Unchanged
  <2>4. SameInterface /\ kern'.fds = kern.fds + 1 /\ kern'.nl = kern.nl /\ kern'.mapped = kern.mapped
    BY <1>1, <1>5 DEF Shape, KernelShape, KernelFields
  <2>5. pc' = "old_promisc" /\ pc = "old" /\ DltList \subseteq {"dlt_list"} /\ SameWorld  BY <1>5, DltListType
  <2>6. Shape'
    <3>1. HandleShape'  BY <1>1, <2>2 DEF Shape, HandleShape
    <3>2. CallShape'  BY <1>1, <2>3 DEF Shape, CallShape
    <3>3. KernelShape'  BY <1>1, <2>4 DEF Shape, KernelShape
    <3>4. ExitShape'  BY <1>1, <2>5 DEF Shape, ExitShape
    <3>5. QED BY <1>1, <2>5, <3>1, <3>2, <3>3, <3>4 DEF Shape
  <2>7. Sound'
    <3> USE <1>1, <2>2, <2>3, <2>4, <2>5, SameKind, DeviceType DEF Shape, HandleShape, CallShape, KernelShape,
        ExitShape, Control
    <3>1. Control'  OBVIOUS
    <3>2. Undoing'  BY DEF Undoing, UpKept, ModeKept, PromiscKept, MonsKept, Kept, Holding
    <3>3. Owning'  BY DEF Owning
    <3>4. Where'  BY DEF Where, Bare
    <3>5. Listing'  BY DEF Listing, Holding, Where
    <3>6. QED BY <3>1, <3>2, <3>3, <3>4, <3>5 DEF Sound
  <2>8. Fits(heap, h.ptr)'
    <3>1. DltList \subseteq Pointers /\ DltList \cap h.ptr \subseteq Lossy  BY DltListType
    <3>2. Fits([p \in Pointers |-> IF p \in DltList THEN heap[p] + 1 ELSE heap[p]], h.ptr \cup DltList)
      BY <1>1, <3>1, FitsAdd
    <3>3. QED BY <1>5, <2>2, <2>3, <2>4, <2>5, <3>2
  <2>9. QED BY <2>6, <2>7, <2>8 DEF Inv
<1>6. QED BY <1>2, <1>3, <1>4, <1>5 DEF OldSocket, DltList, Goto, PCAP_ERROR, PCAP_ERROR_PERM_DENIED

\* the flag of the interface
LEMMA OldPromiscStep ==
    ASSUME Inv, OldPromisc
    PROVE  Inv'
<1>1. Shape /\ Control /\ Undoing /\ Owning /\ Where /\ Listing /\ Fits(heap, h.ptr)  BY InvFacts
<1>2. CASE pc' = "old_size" /\ h.opt.promisc /\ ~kern.promisc
  <2>2. /\ pc = "old_promisc"
        /\ onExit' = [registered |-> TRUE, head |-> TRUE, twice |-> onExit.twice \/ onExit.head]
        /\ kern' = [kern EXCEPT !.promisc = TRUE]
        /\ h' = [h EXCEPT !.must_do = @ \cup {"CLEAR_PROMISC"}, !.next = onExit.head]
        /\ UNCHANGED <<dev, act, heap, gaveUp, failed>>
    BY <1>1, <1>2 DEF OldPromisc, AddedToClose, Goto, Fail
  <2>3. /\ SameLife /\ h'.must_do = h.must_do \cup {"CLEAR_PROMISC"} /\ h'.next = onExit.head
        /\ h'.oldmode = h.oldmode /\ h'.mondev = h.mondev /\ SameFd /\ h'.cleanup = h.cleanup /\ h'.ptr = h.ptr
    BY <1>1, <2>2 DEF Shape, HandleShape, NoHandle
  <2>4. SameCall  BY <1>1, <2>2, Unchanged
  <2>5. /\ DOMAIN kern' = KernelFields /\ kern'.up = kern.up /\ kern'.promisc = TRUE /\ kern'.mode = kern.mode
        /\ kern'.mons = kern.mons /\ kern'.fds = kern.fds /\ kern'.nl = kern.nl /\ kern'.mapped = kern.mapped
    BY <1>1, <2>2 DEF Shape, KernelShape, KernelFields
  <2>6. /\ pc' = "old_size" /\ pc = "old_promisc" /\ ~kern.promisc /\ heap' = heap /\ dev' = dev
        /\ DOMAIN onExit' = ExitFields /\ onExit'.registered = TRUE /\ onExit'.head = TRUE
        /\ onExit'.twice = (onExit.twice \/ onExit.head) /\ gaveUp' = gaveUp /\ failed' = failed
    BY <1>2, <2>2 DEF ExitFields
  <2>7. Shape'
    <3>1. HandleShape'  BY <1>1, <2>3 DEF Shape, HandleShape, ExitShape
    <3>2. CallShape'  BY <1>1, <2>4 DEF Shape, CallShape
    <3>3. KernelShape'  BY <1>1, <2>5 DEF Shape, KernelShape
    <3>4. ExitShape'  BY <1>1, <2>6 DEF Shape, ExitShape
    <3>5. QED BY <1>1, <2>6, <3>1, <3>2, <3>3, <3>4 DEF Shape
  <2>8. Sound'
    <3> USE <1>1, <2>3, <2>4, <2>5, <2>6, SameKind, DeviceType DEF Shape, HandleShape, CallShape, KernelShape,
        ExitShape, Control
    <3>1. Control'  OBVIOUS
    <3>2. Undoing'  BY DEF Undoing, UpKept, ModeKept, PromiscKept, MonsKept, Kept, Holding
    <3>3. Owning'  BY DEF Owning
    <3>4. Where'  BY DEF Where, Bare
    <3>5. Listing'  BY DEF Listing, Holding, Where
    <3>6. QED BY <3>1, <3>2, <3>3, <3>4, <3>5 DEF Sound
  <2>9. Fits(heap, h.ptr)'
    BY <1>1, <2>3, <2>4, <2>5, <2>6, FitsSame
  <2>10. QED BY <2>7, <2>8, <2>9 DEF Inv
<1>3. CASE pc' = "old_size" /\ ~(h.opt.promisc /\ ~kern.promisc)
  <2>2. pc = "old_promisc" /\ UNCHANGED <<dev, h, act, kern, heap, onExit, gaveUp, failed>>
    BY <1>1, <1>3 DEF OldPromisc, AddedToClose, Goto, Fail
  <2>3. SameHandle  BY <1>1, <2>2, Unchanged
  <2>4. SameCall  BY <1>1, <2>2, Unchanged
  <2>5. SameKernel  BY <1>1, <2>2, Unchanged
  <2>6. pc' = "old_size" /\ pc = "old_promisc" /\ heap' = heap /\ SameWorld  BY <1>3, <2>2
  <2>7. Shape'
    <3>1. HandleShape'  BY <1>1, <2>3 DEF Shape, HandleShape
    <3>2. CallShape'  BY <1>1, <2>4 DEF Shape, CallShape
    <3>3. KernelShape'  BY <1>1, <2>5 DEF Shape, KernelShape
    <3>4. ExitShape'  BY <1>1, <2>6 DEF Shape, ExitShape
    <3>5. QED BY <1>1, <2>6, <3>1, <3>2, <3>3, <3>4 DEF Shape
  <2>8. Sound'
    <3> USE <1>1, <2>3, <2>4, <2>5, <2>6, SameKind, DeviceType DEF Shape, HandleShape, CallShape, KernelShape,
        ExitShape, Control
    <3>1. Control'  OBVIOUS
    <3>2. Undoing'  BY DEF Undoing, UpKept, ModeKept, PromiscKept, MonsKept, Kept, Holding
    <3>3. Owning'  BY DEF Owning
    <3>4. Where'  BY DEF Where, Bare
    <3>5. Listing'  BY DEF Listing, Holding, Where
    <3>6. QED BY <3>1, <3>2, <3>3, <3>4, <3>5 DEF Sound
  <2>9. Fits(heap, h.ptr)'
    BY <1>1, <2>3, <2>4, <2>5, <2>6, FitsSame
  <2>10. QED BY <2>7, <2>8, <2>9 DEF Inv
<1>4. CASE pc' = "cleanup"
  <2>2. /\ pc = "old_promisc" /\ Fail(-1) /\ (UNCHANGED onExit \/ Registered)
        /\ UNCHANGED <<dev, h, kern, heap, gaveUp, failed>>
    BY <1>1, <1>4 DEF OldPromisc, AddedToClose, Goto, PCAP_ERROR
  <2>3. SameHandle  BY <1>1, <2>2, Unchanged
  <2>4. Failing  BY <1>1, <2>2 DEF Fail, Shape, CallShape, NoCall
  <2>5. SameKernel  BY <1>1, <2>2, Unchanged
  <2>6. /\ pc = "old_promisc" /\ heap' = heap /\ dev' = dev /\ DOMAIN onExit' = ExitFields
        /\ onExit'.registered \in {onExit.registered, TRUE} /\ onExit'.head = onExit.head
        /\ onExit'.twice = onExit.twice /\ gaveUp' = gaveUp /\ failed' = failed
    BY <1>1, <2>2 DEF Shape, ExitShape, ExitFields, Registered
  <2>7. Shape'
    <3>1. HandleShape'  BY <1>1, <2>3 DEF Shape, HandleShape
    <3>2. CallShape'  BY <1>1, <2>4 DEF Shape, CallShape
    <3>3. KernelShape'  BY <1>1, <2>5 DEF Shape, KernelShape
    <3>4. ExitShape'  BY <1>1, <2>6 DEF Shape, ExitShape
    <3>5. QED BY <1>1, <2>6, <3>1, <3>2, <3>3, <3>4 DEF Shape
  <2>8. Sound'
    <3> USE <1>1, <2>3, <2>4, <2>5, <2>6, SameKind, DeviceType DEF Shape, HandleShape, CallShape, KernelShape,
        ExitShape, Control
    <3>1. Control'  OBVIOUS
    <3>2. Undoing'  BY DEF Undoing, UpKept, ModeKept, PromiscKept, MonsKept, Kept, Holding
    <3>3. Owning'  BY DEF Owning
    <3>4. Where'  BY DEF Where, Bare
    <3>5. Listing'  BY DEF Listing, Holding, Where
    <3>6. QED BY <3>1, <3>2, <3>3, <3>4, <3>5 DEF Sound
  <2>9. Fits(heap, h.ptr)'
    BY <1>1, <2>3, <2>4, <2>5, <2>6, FitsSame
  <2>10. QED BY <2>7, <2>8, <2>9 DEF Inv
<1>5. QED BY <1>2, <1>3, <1>4 DEF OldPromisc, AddedToClose, Goto, Fail

\* the size of the buffer
LEMMA OldBufferSizeStep ==
    ASSUME Inv, OldBufferSize
    PROVE  Inv'
<1>1. Shape /\ Control /\ Undoing /\ Owning /\ Where /\ Listing /\ Fits(heap, h.ptr)  BY InvFacts
<1>2. CASE pc' = "rcvbuf"
  <2>2. /\ pc = "old_size" /\ (\E x : h' = [h EXCEPT !.bufsize = x])
        /\ UNCHANGED <<dev, act, kern, heap, onExit, gaveUp, failed>>
    BY <1>1, <1>2 DEF OldBufferSize, Rest, Goto, Fail
  <2>3. SameLife /\ SameUndo /\ SameFd /\ h'.cleanup = h.cleanup /\ h'.ptr = h.ptr
    BY <1>1, <2>2 DEF Shape, HandleShape, NoHandle
  <2>4. SameCall  BY <1>1, <2>2, Unchanged
  <2>5. SameKernel  BY <1>1, <2>2, Unchanged
  <2>6. pc' = "rcvbuf" /\ pc = "old_size" /\ heap' = heap /\ SameWorld  BY <1>2, <2>2
  <2>7. Shape'
    <3>1. HandleShape'  BY <1>1, <2>3 DEF Shape, HandleShape
    <3>2. CallShape'  BY <1>1, <2>4 DEF Shape, CallShape
    <3>3. KernelShape'  BY <1>1, <2>5 DEF Shape, KernelShape
    <3>4. ExitShape'  BY <1>1, <2>6 DEF Shape, ExitShape
    <3>5. QED BY <1>1, <2>6, <3>1, <3>2, <3>3, <3>4 DEF Shape
  <2>8. Sound'
    <3> USE <1>1, <2>3, <2>4, <2>5, <2>6, SameKind, DeviceType DEF Shape, HandleShape, CallShape, KernelShape,
        ExitShape, Control
    <3>1. Control'  OBVIOUS
    <3>2. Undoing'  BY DEF Undoing, UpKept, ModeKept, PromiscKept, MonsKept, Kept, Holding
    <3>3. Owning'  BY DEF Owning
    <3>4. Where'  BY DEF Where, Bare
    <3>5. Listing'  BY DEF Listing, Holding, Where
    <3>6. QED BY <3>1, <3>2, <3>3, <3>4, <3>5 DEF Sound
  <2>9. Fits(heap, h.ptr)'
    BY <1>1, <2>3, <2>4, <2>5, <2>6, FitsSame
  <2>10. QED BY <2>7, <2>8, <2>9 DEF Inv
<1>3. CASE pc' = "cleanup"
  <2>2. pc = "old_size" /\ Fail(-1) /\ UNCHANGED <<dev, h, kern, heap, onExit, gaveUp, failed>>
    BY <1>1, <1>3 DEF OldBufferSize, Rest, Goto, PCAP_ERROR
  <2>3. SameHandle  BY <1>1, <2>2, Unchanged
  <2>4. Failing  BY <1>1, <2>2 DEF Fail, Shape, CallShape, NoCall
  <2>5. SameKernel  BY <1>1, <2>2, Unchanged
  <2>6. pc = "old_size" /\ heap' = heap /\ SameWorld  BY <1>1, <2>2
  <2>7. Shape'
    <3>1. HandleShape'  BY <1>1, <2>3 DEF Shape, HandleShape
    <3>2. CallShape'  BY <1>1, <2>4 DEF Shape, CallShape
    <3>3. KernelShape'  BY <1>1, <2>5 DEF Shape, KernelShape
    <3>4. ExitShape'  BY <1>1, <2>6 DEF Shape, ExitShape
    <3>5. QED BY <1>1, <2>6, <3>1, <3>2, <3>3, <3>4 DEF Shape
  <2>8. Sound'
    <3> USE <1>1, <2>3, <2>4, <2>5, <2>6, SameKind, DeviceType DEF Shape, HandleShape, CallShape, KernelShape,
        ExitShape, Control
    <3>1. Control'  OBVIOUS
    <3>2. Undoing'  BY DEF Undoing, UpKept, ModeKept, PromiscKept, MonsKept, Kept, Holding
    <3>3. Owning'  BY DEF Owning
    <3>4. Where'  BY DEF Where, Bare
    <3>5. Listing'  BY DEF Listing, Holding, Where
    <3>6. QED BY <3>1, <3>2, <3>3, <3>4, <3>5 DEF Sound
  <2>9. Fits(heap, h.ptr)'
    BY <1>1, <2>3, <2>4, <2>5, <2>6, FitsSame
  <2>10. QED BY <2>7, <2>8, <2>9 DEF Inv
<1>4. QED BY <1>2, <1>3 DEF OldBufferSize, Goto, Fail

----------------------------------------------------------------------------
(* activate_mmap() *)

\* the ring cannot be used: the one-shot buffer is freed, and a warning is the status
LEMMA MmapFailsStep ==
    ASSUME Inv, pc \in Ringing, MmapFails, FreesOneshot, SameInterface, kern'.fds = kern.fds, kern'.nl = kern.nl,
           kern'.mapped = FALSE, SameWorld
    PROVE  Inv'
<1>1. Shape /\ Control /\ Undoing /\ Owning /\ Where /\ Listing /\ Fits(heap, h.ptr)  BY InvFacts
<1>2. SameLife /\ SameUndo /\ SameFd /\ h'.cleanup = h.cleanup /\ h'.ptr = h.ptr \ {"oneshot_buffer"}
  BY <1>1 DEF FreesOneshot, Shape, HandleShape, NoHandle
<1>3. Failing  BY <1>1 DEF MmapFails, Fail, PCAP_WARNING, Shape, CallShape, NoCall
<1>4. SameInterface /\ kern'.fds = kern.fds /\ kern'.nl = kern.nl /\ kern'.mapped = FALSE  OBVIOUS
<1>5. pc \in Ringing /\ SameWorld  OBVIOUS
<1>6. Shape'
  <2>1. HandleShape'  BY <1>1, <1>2 DEF Shape, HandleShape
  <2>2. CallShape'  BY <1>1, <1>3 DEF Shape, CallShape
  <2>3. KernelShape'  BY <1>1, <1>4 DEF Shape, KernelShape
  <2>4. ExitShape'  BY <1>1, <1>5 DEF Shape, ExitShape
  <2>5. QED BY <1>1, <1>5, <2>1, <2>2, <2>3, <2>4 DEF Shape
<1>7. Sound'
  <2> USE <1>1, <1>2, <1>3, <1>4, <1>5, SameKind, DeviceType DEF Shape, HandleShape, CallShape, KernelShape,
      ExitShape, Control
  <2>1. Control'  OBVIOUS
  <2>2. Undoing'  BY DEF Undoing, UpKept, ModeKept, PromiscKept, MonsKept, Kept, Holding
  <2>3. Owning'  BY DEF Owning
  <2>4. Where'  BY DEF Where, Bare
  <2>5. Listing'  BY DEF Listing, Holding, Where
  <2>6. QED BY <2>1, <2>2, <2>3, <2>4, <2>5 DEF Sound
<1>8. Fits(heap, h.ptr)'
  <2>1. {"oneshot_buffer"} \subseteq h.ptr  BY <1>1, <1>2, <1>3, <1>4, <1>5 DEF Where
  <2>2. Fits(Freed(heap, {"oneshot_buffer"}), h.ptr \ {"oneshot_buffer"})  BY <1>1, <2>1, FitsFreed
  <2>3. QED BY <1>2, <1>3, <1>4, <1>5, <2>2 DEF FreesOneshot
<1>9. QED BY <1>6, <1>7, <1>8 DEF Inv

\* the ring is being set up
LEMMA RingMovesStep ==
    ASSUME Inv, pc \in Ringing, pc' \in Ringing, SameHandle, SameKernel, SameWorld, UNCHANGED heap,
           DOMAIN act' = DOMAIN NoCall, act'.sock = act.sock, act'.down = act.down, act'.after = act.after,
           act'.ret \in Int, act'.ret >= 0
    PROVE  Inv'
<1>1. Shape /\ Control /\ Undoing /\ Owning /\ Where /\ Listing /\ Fits(heap, h.ptr)  BY InvFacts
<1>2. SameHandle  OBVIOUS
<1>3. /\ DOMAIN act' = DOMAIN NoCall /\ act'.sock = act.sock /\ act'.down = act.down
      /\ act'.ret \in Int /\ act'.ret >= 0 /\ act'.after = act.after
  OBVIOUS
<1>4. SameKernel  OBVIOUS
<1>5. pc \in Ringing /\ pc' \in Ringing /\ heap' = heap /\ SameWorld  OBVIOUS
<1>6. Shape'
  <2>1. HandleShape'  BY <1>1, <1>2 DEF Shape, HandleShape
  <2>2. CallShape'  BY <1>1, <1>3 DEF Shape, CallShape
  <2>3. KernelShape'  BY <1>1, <1>4 DEF Shape, KernelShape
  <2>4. ExitShape'  BY <1>1, <1>5 DEF Shape, ExitShape
  <2>5. QED BY <1>1, <1>5, <2>1, <2>2, <2>3, <2>4 DEF Shape
<1>7. Sound'
  <2> USE <1>1, <1>2, <1>3, <1>4, <1>5, SameKind, DeviceType DEF Shape, HandleShape, CallShape, KernelShape,
      ExitShape, Control
  <2>1. Control'  OBVIOUS
  <2>2. Undoing'  BY DEF Undoing, UpKept, ModeKept, PromiscKept, MonsKept, Kept, Holding
  <2>3. Owning'  BY DEF Owning
  <2>4. Where'  BY DEF Where, Bare
  <2>5. Listing'  BY DEF Listing, Holding, Where
  <2>6. QED BY <2>1, <2>2, <2>3, <2>4, <2>5 DEF Sound
<1>8. Fits(heap, h.ptr)'
  BY <1>1, <1>2, <1>3, <1>4, <1>5, FitsSame
<1>9. QED BY <1>6, <1>7, <1>8 DEF Inv

\* the one-shot buffer
LEMMA activate_mmapStep ==
    ASSUME Inv, activate_mmap
    PROVE  Inv'
<1>1. Shape /\ Control /\ Undoing /\ Owning /\ Where /\ Listing /\ Fits(heap, h.ptr)  BY InvFacts
<1>2. CASE pc' = "tpacket"
  <2>2. /\ pc = "mmap" /\ Malloc("oneshot_buffer")
        /\ h' = [h EXCEPT !.ptr = @ \cup {"oneshot_buffer"}, !.opt.buffer_size = IF @ = 0 THEN DefaultBuffer ELSE @]
        /\ UNCHANGED <<dev, act, kern, onExit, gaveUp, failed>>
    BY <1>1, <1>2 DEF activate_mmap, Goto, MmapFails, Fail
  <2>3. SameLife /\ SameUndo /\ SameFd /\ h'.cleanup = h.cleanup /\ h'.ptr = h.ptr \cup {"oneshot_buffer"}
    BY <1>1, <2>2 DEF Shape, HandleShape, NoHandle
  <2>4. SameCall  BY <1>1, <2>2, Unchanged
  <2>5. SameKernel  BY <1>1, <2>2, Unchanged
  <2>6. pc' = "tpacket" /\ pc = "mmap" /\ Malloc("oneshot_buffer") /\ SameWorld  BY <1>2, <2>2
  <2>7. Shape'
    <3>1. HandleShape'  BY <1>1, <2>3 DEF Shape, HandleShape
    <3>2. CallShape'  BY <1>1, <2>4 DEF Shape, CallShape
    <3>3. KernelShape'  BY <1>1, <2>5 DEF Shape, KernelShape
    <3>4. ExitShape'  BY <1>1, <2>6 DEF Shape, ExitShape
    <3>5. QED BY <1>1, <2>6, <3>1, <3>2, <3>3, <3>4 DEF Shape
  <2>8. Sound'
    <3> USE <1>1, <2>3, <2>4, <2>5, <2>6, SameKind, DeviceType DEF Shape, HandleShape, CallShape, KernelShape,
        ExitShape, Control
    <3>1. Control'  OBVIOUS
    <3>2. Undoing'  BY DEF Undoing, UpKept, ModeKept, PromiscKept, MonsKept, Kept, Holding
    <3>3. Owning'  BY DEF Owning
    <3>4. Where'  BY DEF Where, Bare
    <3>5. Listing'  BY DEF Listing, Holding, Where
    <3>6. QED BY <3>1, <3>2, <3>3, <3>4, <3>5 DEF Sound
  <2>9. Fits(heap, h.ptr)'
    BY <1>1, <2>3, <2>4, <2>5, <2>6, FitsMalloc DEF Pointers, Lossy, Control, Where, Bare
  <2>10. QED BY <2>7, <2>8, <2>9 DEF Inv
<1>3. CASE pc' = "cleanup"
  <2>2. pc = "mmap" /\ Fail(1) /\ UNCHANGED <<dev, h, kern, heap, onExit, gaveUp, failed>>
    BY <1>1, <1>3 DEF activate_mmap, Goto, MmapFails, PCAP_WARNING
  <2>3. SameHandle  BY <1>1, <2>2, Unchanged
  <2>4. Failing  BY <1>1, <2>2 DEF Fail, Shape, CallShape, NoCall
  <2>5. SameKernel  BY <1>1, <2>2, Unchanged
  <2>6. pc = "mmap" /\ heap' = heap /\ SameWorld  BY <1>1, <2>2
  <2>7. Shape'
    <3>1. HandleShape'  BY <1>1, <2>3 DEF Shape, HandleShape
    <3>2. CallShape'  BY <1>1, <2>4 DEF Shape, CallShape
    <3>3. KernelShape'  BY <1>1, <2>5 DEF Shape, KernelShape
    <3>4. ExitShape'  BY <1>1, <2>6 DEF Shape, ExitShape
    <3>5. QED BY <1>1, <2>6, <3>1, <3>2, <3>3, <3>4 DEF Shape
  <2>8. Sound'
    <3> USE <1>1, <2>3, <2>4, <2>5, <2>6, SameKind, DeviceType DEF Shape, HandleShape, CallShape, KernelShape,
        ExitShape, Control
    <3>1. Control'  OBVIOUS
    <3>2. Undoing'  BY DEF Undoing, UpKept, ModeKept, PromiscKept, MonsKept, Kept, Holding
    <3>3. Owning'  BY DEF Owning
    <3>4. Where'  BY DEF Where, Bare
    <3>5. Listing'  BY DEF Listing, Holding, Where
    <3>6. QED BY <3>1, <3>2, <3>3, <3>4, <3>5 DEF Sound
  <2>9. Fits(heap, h.ptr)'
    BY <1>1, <2>3, <2>4, <2>5, <2>6, FitsSame
  <2>10. QED BY <2>7, <2>8, <2>9 DEF Inv
<1>4. QED BY <1>2, <1>3 DEF activate_mmap, Goto, MmapFails, Fail

\* the version of the ring
LEMMA prepare_tpacket_socketStep ==
    ASSUME Inv, prepare_tpacket_socket
    PROVE  Inv'
<1>1. Shape /\ Control /\ Undoing /\ Owning /\ Where /\ Listing /\ Fits(heap, h.ptr)  BY InvFacts
<1>2. CASE pc' = "ring_size"
  <2>2. /\ pc = "tpacket" /\ pc' = "ring_size" /\ act' = [act EXCEPT !.n = TpVersion, !.ret = 0]
        /\ UNCHANGED <<dev, h, kern, heap, onExit, gaveUp, failed>>
    BY <1>1, <1>2 DEF prepare_tpacket_socket, Goto, MmapFails, Fail
  <2>3. SameHandle  BY <1>1, <2>2, Unchanged
  <2>4. /\ DOMAIN act' = DOMAIN NoCall /\ act'.sock = act.sock /\ act'.down = act.down
        /\ act'.ret \in Int /\ act'.ret >= 0 /\ act'.after = act.after
    BY <1>1, <2>2 DEF Shape, CallShape, NoCall
  <2>5. SameKernel  BY <1>1, <2>2, Unchanged
  <2>6. pc' = "ring_size" /\ pc = "tpacket" /\ heap' = heap /\ SameWorld  BY <1>1, <2>2
  <2>7. QED BY <1>1, <2>3, <2>4, <2>5, <2>6, RingMovesStep
<1>3. CASE pc' = "cleanup"
  <2>2. pc = "tpacket" /\ MmapFails /\ FreesOneshot /\ UNCHANGED <<dev, kern, onExit, gaveUp, failed>>
    BY <1>1, <1>3 DEF prepare_tpacket_socket, Goto
  <2>3. SameInterface /\ kern'.fds = kern.fds /\ kern'.nl = kern.nl /\ kern'.mapped = FALSE
    BY <1>1, <2>2, Unchanged DEF Owning, Shape, KernelShape
  <2>4. pc \in Ringing /\ SameWorld  BY <2>2
  <2>5. QED BY <2>2, <2>3, <2>4, MmapFailsStep
<1>4. QED BY <1>2, <1>3 DEF prepare_tpacket_socket, Goto, MmapFails, Fail

\* the size of the ring
LEMMA RingSizeStep ==
    ASSUME Inv, RingSize
    PROVE  Inv'
<1>1. Shape /\ Control /\ Undoing /\ Owning /\ Where /\ Listing /\ Fits(heap, h.ptr)  BY InvFacts
<1>2. CASE pc' = "hwtstamp"
  <2>2. /\ pc = "ring_size" /\ pc' = "hwtstamp" /\ (\E r : act' = [act EXCEPT !.req = r])
        /\ UNCHANGED <<dev, h, kern, heap, onExit, gaveUp, failed>>
    BY <1>1, <1>2 DEF RingSize, Goto, MmapFails, Fail
  <2>3. SameHandle  BY <1>1, <2>2, Unchanged
  <2>4. /\ DOMAIN act' = DOMAIN NoCall /\ act'.sock = act.sock /\ act'.down = act.down
        /\ act'.ret \in Int /\ act'.ret >= 0 /\ act'.after = act.after
    BY <1>1, <2>2 DEF Shape, CallShape, NoCall, Control
  <2>5. SameKernel  BY <1>1, <2>2, Unchanged
  <2>6. pc' = "hwtstamp" /\ pc = "ring_size" /\ heap' = heap /\ SameWorld  BY <1>1, <2>2 DEF Control
  <2>7. QED BY <1>1, <2>3, <2>4, <2>5, <2>6, RingMovesStep
<1>3. CASE pc' = "cleanup"
  <2>2. pc = "ring_size" /\ MmapFails /\ FreesOneshot /\ UNCHANGED <<dev, kern, onExit, gaveUp, failed>>
    BY <1>1, <1>3 DEF RingSize, Goto
  <2>3. SameInterface /\ kern'.fds = kern.fds /\ kern'.nl = kern.nl /\ kern'.mapped = FALSE
    BY <1>1, <2>2, Unchanged DEF Owning, Shape, KernelShape
  <2>4. pc \in Ringing /\ SameWorld  BY <2>2
  <2>5. QED BY <2>2, <2>3, <2>4, MmapFailsStep
<1>4. QED BY <1>2, <1>3 DEF RingSize, Goto, MmapFails, Fail

\* hardware time stamps
LEMMA SetHwTstampStep ==
    ASSUME Inv, SetHwTstamp
    PROVE  Inv'
<1>1. Shape /\ Control /\ Undoing /\ Owning /\ Where /\ Listing /\ Fits(heap, h.ptr)  BY InvFacts
<1>2. CASE pc' = "ring"
  <2>2. /\ pc = "hwtstamp" /\ pc' = "ring"
        /\ (act' = [act EXCEPT !.ret = 3] \/ act' = [act EXCEPT !.ret = act.ret])
        /\ UNCHANGED <<dev, h, kern, heap, onExit, gaveUp, failed>>
    BY <1>1, <1>2 DEF SetHwTstamp, Goto, MmapFails, Fail, PCAP_WARNING_TSTAMP_TYPE_NOTSUP
  <2>3. SameHandle  BY <1>1, <2>2, Unchanged
  <2>4. /\ DOMAIN act' = DOMAIN NoCall /\ act'.sock = act.sock /\ act'.down = act.down
        /\ act'.ret \in Int /\ act'.ret >= 0 /\ act'.after = act.after
    BY <1>1, <2>2 DEF Shape, CallShape, NoCall, Control
  <2>5. SameKernel  BY <1>1, <2>2, Unchanged
  <2>6. pc' = "ring" /\ pc = "hwtstamp" /\ heap' = heap /\ SameWorld  BY <1>1, <2>2 DEF Control
  <2>7. QED BY <1>1, <2>3, <2>4, <2>5, <2>6, RingMovesStep
<1>3. CASE pc' = "cleanup"
  <2>2. pc = "hwtstamp" /\ MmapFails /\ FreesOneshot /\ UNCHANGED <<dev, kern, onExit, gaveUp, failed>>
    BY <1>1, <1>3 DEF SetHwTstamp, Goto
  <2>3. SameInterface /\ kern'.fds = kern.fds /\ kern'.nl = kern.nl /\ kern'.mapped = FALSE
    BY <1>1, <2>2, Unchanged DEF Owning, Shape, KernelShape
  <2>4. pc \in Ringing /\ SameWorld  BY <2>2
  <2>5. QED BY <2>2, <2>3, <2>4, MmapFailsStep
<1>4. QED BY <1>2, <1>3 DEF SetHwTstamp, Goto, MmapFails, Fail

\* the ring is asked for, or a smaller one
LEMMA RequestRingStep ==
    ASSUME Inv, RequestRing
    PROVE  Inv'
<1>1. Shape /\ Control /\ Undoing /\ Owning /\ Where /\ Listing /\ Fits(heap, h.ptr)  BY InvFacts
<1>2. CASE pc' = "map_ring"
  <2>2. /\ pc = "ring" /\ (\E r : act' = [act EXCEPT !.req = r]) /\ (\E b : kern' = [kern EXCEPT !.ring = b])
        /\ UNCHANGED <<dev, h, heap, onExit, gaveUp, failed>>
    BY <1>1, <1>2 DEF RequestRing, Goto, MmapFails, Fail
  <2>3. SameHandle  BY <1>1, <2>2, Unchanged
  <2>4. /\ DOMAIN act' = DOMAIN NoCall /\ act'.sock = act.sock /\ act'.down = act.down
        /\ act'.ret \in Int /\ act'.ret >= 0 /\ act'.after = act.after
    BY <1>1, <2>2 DEF Shape, CallShape, NoCall, Control
  <2>5. SameInterface /\ kern'.fds = kern.fds /\ kern'.nl = kern.nl /\ kern'.mapped = kern.mapped
    BY <1>1, <2>2 DEF Shape, KernelShape, KernelFields, Control
  <2>6. pc' = "map_ring" /\ pc = "ring" /\ heap' = heap /\ SameWorld  BY <1>2, <2>2
  <2>7. QED BY <1>1, <2>3, <2>4, <2>5, <2>6, RingMovesStep
<1>3. CASE pc' = "ring"
  <2>2. /\ pc = "ring" /\ pc' = "ring" /\ (\E r : act' = [act EXCEPT !.req = r])
        /\ UNCHANGED <<dev, h, kern, heap, onExit, gaveUp, failed>>
    BY <1>1, <1>3 DEF RequestRing, Goto, MmapFails, Fail
  <2>3. SameHandle  BY <1>1, <2>2, Unchanged
  <2>4. /\ DOMAIN act' = DOMAIN NoCall /\ act'.sock = act.sock /\ act'.down = act.down
        /\ act'.ret \in Int /\ act'.ret >= 0 /\ act'.after = act.after
    BY <1>1, <2>2 DEF Shape, CallShape, NoCall, Control
  <2>5. SameKernel  BY <1>1, <2>2, Unchanged
  <2>6. pc' = "ring" /\ pc = "ring" /\ heap' = heap /\ SameWorld  BY <1>1, <2>2 DEF Control
  <2>7. QED BY <1>1, <2>3, <2>4, <2>5, <2>6, RingMovesStep
<1>4. CASE pc' = "cleanup"
  <2>2. pc = "ring" /\ MmapFails /\ FreesOneshot /\ UNCHANGED <<dev, kern, onExit, gaveUp, failed>>
    BY <1>1, <1>4 DEF RequestRing, Goto
  <2>3. SameInterface /\ kern'.fds = kern.fds /\ kern'.nl = kern.nl /\ kern'.mapped = FALSE
    BY <1>1, <2>2, Unchanged DEF Owning, Shape, KernelShape
  <2>4. pc \in Ringing /\ SameWorld  BY <2>2
  <2>5. QED BY <2>2, <2>3, <2>4, MmapFailsStep
<1>5. CASE pc' = "rcvbuf"
  <2>2. pc = "ring" /\ FreesOneshot /\ UNCHANGED <<dev, act, kern, onExit, gaveUp, failed>>
    BY <1>1, <1>5 DEF RequestRing, Goto, MmapFails, Fail
  <2>3. SameLife /\ SameUndo /\ SameFd /\ h'.cleanup = h.cleanup /\ h'.ptr = h.ptr \ {"oneshot_buffer"}
    BY <1>1, <2>2 DEF Shape, HandleShape, NoHandle, FreesOneshot
  <2>4. SameCall  BY <1>1, <2>2, Unchanged
  <2>5. SameKernel  BY <1>1, <2>2, Unchanged
  <2>6. pc' = "rcvbuf" /\ pc = "ring" /\ SameWorld  BY <1>5, <2>2
  <2>7. Shape'
    <3>1. HandleShape'  BY <1>1, <2>3 DEF Shape, HandleShape
    <3>2. CallShape'  BY <1>1, <2>4 DEF Shape, CallShape
    <3>3. KernelShape'  BY <1>1, <2>5 DEF Shape, KernelShape
    <3>4. ExitShape'  BY <1>1, <2>6 DEF Shape, ExitShape
    <3>5. QED BY <1>1, <2>6, <3>1, <3>2, <3>3, <3>4 DEF Shape
  <2>8. Sound'
    <3> USE <1>1, <2>3, <2>4, <2>5, <2>6, SameKind, DeviceType DEF Shape, HandleShape, CallShape, KernelShape,
        ExitShape, Control
    <3>1. Control'  OBVIOUS
    <3>2. Undoing'  BY DEF Undoing, UpKept, ModeKept, PromiscKept, MonsKept, Kept, Holding
    <3>3. Owning'  BY DEF Owning
    <3>4. Where'  BY DEF Where, Bare
    <3>5. Listing'  BY DEF Listing, Holding, Where
    <3>6. QED BY <3>1, <3>2, <3>3, <3>4, <3>5 DEF Sound
  <2>9. Fits(heap, h.ptr)'
    <3>1. {"oneshot_buffer"} \subseteq h.ptr  BY <1>1, <2>3, <2>4, <2>5, <2>6 DEF Where
    <3>2. Fits(Freed(heap, {"oneshot_buffer"}), h.ptr \ {"oneshot_buffer"})  BY <1>1, <3>1, FitsFreed
    <3>3. QED BY <2>2, <2>3, <2>4, <2>5, <2>6, <3>2 DEF FreesOneshot
  <2>10. QED BY <2>7, <2>8, <2>9 DEF Inv
<1>6. QED BY <1>2, <1>3, <1>4, <1>5 DEF RequestRing, Goto, MmapFails, Fail

\* the ring is mapped
LEMMA MapRingStep ==
    ASSUME Inv, MapRing
    PROVE  Inv'
<1>1. Shape /\ Control /\ Undoing /\ Owning /\ Where /\ Listing /\ Fits(heap, h.ptr)  BY InvFacts
<1> DEFINE ops == CASE act.n = 1 -> "v1" [] act.n = 2 -> "v2" [] act.n = 3 -> "v3"
<1>2. CASE pc' = "return"
  <2>2. /\ pc = "map_ring" /\ kern' = [kern EXCEPT !.mapped = TRUE] /\ Malloc("buffer")
        /\ h' = [h EXCEPT !.ptr = @ \cup {"buffer"}, !.cc = act.req.frame_nr, !.cleanup = "mmap",
               !.bufsize = act.req.frame_size, !.ops = ops]
        /\ UNCHANGED <<dev, act, onExit, gaveUp, failed>>
    BY <1>1, <1>2 DEF MapRing, Goto, MmapFails, Fail
  <2>3. SameLife /\ SameUndo /\ SameFd /\ h'.cleanup = "mmap" /\ h'.ptr = h.ptr \cup {"buffer"}
    BY <1>1, <2>2 DEF Shape, HandleShape, NoHandle
  <2>4. SameCall  BY <1>1, <2>2, Unchanged
  <2>5. SameInterface /\ kern'.fds = kern.fds /\ kern'.nl = kern.nl /\ kern'.mapped = TRUE
    BY <1>1, <2>2 DEF Shape, KernelShape, KernelFields
  <2>6. pc' = "return" /\ pc = "map_ring" /\ Malloc("buffer") /\ SameWorld  BY <1>2, <2>2
  <2>7. Shape'
    <3>1. HandleShape'  BY <1>1, <2>3 DEF Shape, HandleShape
    <3>2. CallShape'  BY <1>1, <2>4 DEF Shape, CallShape
    <3>3. KernelShape'  BY <1>1, <2>5 DEF Shape, KernelShape
    <3>4. ExitShape'  BY <1>1, <2>6 DEF Shape, ExitShape
    <3>5. QED BY <1>1, <2>6, <3>1, <3>2, <3>3, <3>4 DEF Shape
  <2>8. Sound'
    <3> USE <1>1, <2>3, <2>4, <2>5, <2>6, SameKind, DeviceType DEF Shape, HandleShape, CallShape, KernelShape,
        ExitShape, Control
    <3>1. Control'  OBVIOUS
    <3>2. Undoing'  BY DEF Undoing, UpKept, ModeKept, PromiscKept, MonsKept, Kept, Holding
    <3>3. Owning'  BY DEF Owning
    <3>4. Where'  BY DEF Where, Bare
    <3>5. Listing'  BY DEF Listing, Holding, Where
    <3>6. QED BY <3>1, <3>2, <3>3, <3>4, <3>5 DEF Sound
  <2>9. Fits(heap, h.ptr)'
    BY <1>1, <2>3, <2>4, <2>5, <2>6, FitsMalloc DEF Pointers, Lossy, Control, Where, Bare
  <2>10. QED BY <2>7, <2>8, <2>9 DEF Inv
<1>3. CASE pc' = "cleanup"
  <2>2. /\ pc = "map_ring" /\ MmapFails /\ FreesOneshot /\ kern' = destroy_ring(kern)
        /\ UNCHANGED <<dev, onExit, gaveUp, failed>>
    BY <1>1, <1>3 DEF MapRing, Goto
  <2>3. SameInterface /\ kern'.fds = kern.fds /\ kern'.nl = kern.nl /\ kern'.mapped = FALSE
    BY <1>1, <2>2, Unchanged DEF destroy_ring, Shape, KernelShape, KernelFields
  <2>4. pc \in Ringing /\ SameWorld  BY <2>2
  <2>5. QED BY <2>2, <2>3, <2>4, MmapFailsStep
<1>4. QED BY <1>2, <1>3 DEF MapRing, Goto, MmapFails, Fail

\* a buffer for one packet
LEMMA SetBufferStep ==
    ASSUME Inv, SetBuffer
    PROVE  Inv'
<1>1. Shape /\ Control /\ Undoing /\ Owning /\ Where /\ Listing /\ Fits(heap, h.ptr)  BY InvFacts
<1>2. CASE pc' = "return"
  <2>2. /\ pc = "rcvbuf" /\ Malloc("buffer") /\ h' = [h EXCEPT !.ptr = @ \cup {"buffer"}]
        /\ UNCHANGED <<dev, act, kern, onExit, gaveUp, failed>>
    BY <1>1, <1>2 DEF SetBuffer, Goto, Fail
  <2>3. SameLife /\ SameUndo /\ SameFd /\ h'.cleanup = h.cleanup /\ h'.ptr = h.ptr \cup {"buffer"}
    BY <1>1, <2>2 DEF Shape, HandleShape, NoHandle
  <2>4. SameCall  BY <1>1, <2>2, Unchanged
  <2>5. SameKernel  BY <1>1, <2>2, Unchanged
  <2>6. pc' = "return" /\ pc = "rcvbuf" /\ Malloc("buffer") /\ SameWorld  BY <1>2, <2>2
  <2>7. Shape'
    <3>1. HandleShape'  BY <1>1, <2>3 DEF Shape, HandleShape
    <3>2. CallShape'  BY <1>1, <2>4 DEF Shape, CallShape
    <3>3. KernelShape'  BY <1>1, <2>5 DEF Shape, KernelShape
    <3>4. ExitShape'  BY <1>1, <2>6 DEF Shape, ExitShape
    <3>5. QED BY <1>1, <2>6, <3>1, <3>2, <3>3, <3>4 DEF Shape
  <2>8. Sound'
    <3> USE <1>1, <2>3, <2>4, <2>5, <2>6, SameKind, DeviceType DEF Shape, HandleShape, CallShape, KernelShape,
        ExitShape, Control
    <3>1. Control'  OBVIOUS
    <3>2. Undoing'  BY DEF Undoing, UpKept, ModeKept, PromiscKept, MonsKept, Kept, Holding
    <3>3. Owning'  BY DEF Owning
    <3>4. Where'  BY DEF Where, Bare
    <3>5. Listing'  BY DEF Listing, Holding, Where
    <3>6. QED BY <3>1, <3>2, <3>3, <3>4, <3>5 DEF Sound
  <2>9. Fits(heap, h.ptr)'
    BY <1>1, <2>3, <2>4, <2>5, <2>6, FitsMalloc DEF Pointers, Lossy, Control, Where, Bare
  <2>10. QED BY <2>7, <2>8, <2>9 DEF Inv
<1>3. CASE pc' = "cleanup"
  <2>2. pc = "rcvbuf" /\ Fail(-1) /\ UNCHANGED <<dev, h, kern, heap, onExit, gaveUp, failed>>
    BY <1>1, <1>3 DEF SetBuffer, Goto, PCAP_ERROR
  <2>3. SameHandle  BY <1>1, <2>2, Unchanged
  <2>4. Failing  BY <1>1, <2>2 DEF Fail, Shape, CallShape, NoCall
  <2>5. SameKernel  BY <1>1, <2>2, Unchanged
  <2>6. pc = "rcvbuf" /\ heap' = heap /\ SameWorld  BY <1>1, <2>2
  <2>7. Shape'
    <3>1. HandleShape'  BY <1>1, <2>3 DEF Shape, HandleShape
    <3>2. CallShape'  BY <1>1, <2>4 DEF Shape, CallShape
    <3>3. KernelShape'  BY <1>1, <2>5 DEF Shape, KernelShape
    <3>4. ExitShape'  BY <1>1, <2>6 DEF Shape, ExitShape
    <3>5. QED BY <1>1, <2>6, <3>1, <3>2, <3>3, <3>4 DEF Shape
  <2>8. Sound'
    <3> USE <1>1, <2>3, <2>4, <2>5, <2>6, SameKind, DeviceType DEF Shape, HandleShape, CallShape, KernelShape,
        ExitShape, Control
    <3>1. Control'  OBVIOUS
    <3>2. Undoing'  BY DEF Undoing, UpKept, ModeKept, PromiscKept, MonsKept, Kept, Holding
    <3>3. Owning'  BY DEF Owning
    <3>4. Where'  BY DEF Where, Bare
    <3>5. Listing'  BY DEF Listing, Holding, Where
    <3>6. QED BY <3>1, <3>2, <3>3, <3>4, <3>5 DEF Sound
  <2>9. Fits(heap, h.ptr)'
    BY <1>1, <2>3, <2>4, <2>5, <2>6, FitsSame
  <2>10. QED BY <2>7, <2>8, <2>9 DEF Inv
<1>4. QED BY <1>2, <1>3 DEF SetBuffer, Goto, Fail

----------------------------------------------------------------------------
(* usb_activate(), can_activate() and netfilter_activate() *)

\* the list of link types of a log
LEMMA NfListType == NfList \subseteq {"dlt_list"} /\ NfList \subseteq Lossy /\ NfList \subseteq Pointers
BY DEF NfList, Lossy, Pointers

\* the binary interface of the bus monitor
LEMMA usb_activateStep ==
    ASSUME Inv, usb_activate
    PROVE  Inv'
<1>1. Shape /\ Control /\ Undoing /\ Owning /\ Where /\ Listing /\ Fits(heap, h.ptr)  BY InvFacts
<1>2. CASE pc' = "usb_mode"
  <2>2. pc = "usb" /\ (\E o, z : Opened(o, z)) /\ UNCHANGED <<dev, act, heap, onExit, gaveUp, failed>>
    BY <1>1, <1>2 DEF usb_activate, Goto, Back, Rest
  <2>3. SameLife /\ SameUndo /\ h'.fd = TRUE /\ h'.closed = FALSE /\ h'.cleanup = h.cleanup /\ h'.ptr = h.ptr
    BY <1>1, <2>2 DEF Shape, HandleShape, NoHandle, Opened
  <2>4. SameCall  BY <1>1, <2>2, Unchanged
  <2>5. SameInterface /\ kern'.fds = kern.fds + 1 /\ kern'.nl = kern.nl /\ kern'.mapped = kern.mapped
    BY <1>1, <2>2 DEF Shape, KernelShape, KernelFields, Opened
  <2>6. pc' = "usb_mode" /\ pc = "usb" /\ heap' = heap /\ SameWorld  BY <1>2, <2>2
  <2>7. Shape'
    <3>1. HandleShape'  BY <1>1, <2>3 DEF Shape, HandleShape
    <3>2. CallShape'  BY <1>1, <2>4 DEF Shape, CallShape
    <3>3. KernelShape'  BY <1>1, <2>5 DEF Shape, KernelShape
    <3>4. ExitShape'  BY <1>1, <2>6 DEF Shape, ExitShape
    <3>5. QED BY <1>1, <2>6, <3>1, <3>2, <3>3, <3>4 DEF Shape
  <2>8. Sound'
    <3> USE <1>1, <2>3, <2>4, <2>5, <2>6, SameKind, DeviceType DEF Shape, HandleShape, CallShape, KernelShape,
        ExitShape, Control
    <3>1. Control'  OBVIOUS
    <3>2. Undoing'  BY DEF Undoing, UpKept, ModeKept, PromiscKept, MonsKept, Kept, Holding
    <3>3. Owning'  BY DEF Owning
    <3>4. Where'  BY DEF Where, Bare
    <3>5. Listing'  BY DEF Listing, Holding, Where
    <3>6. QED BY <3>1, <3>2, <3>3, <3>4, <3>5 DEF Sound
  <2>9. Fits(heap, h.ptr)'
    BY <1>1, <2>3, <2>4, <2>5, <2>6, FitsSame
  <2>10. QED BY <2>7, <2>8, <2>9 DEF Inv
<1>3. CASE pc' = "usb_text"
  <2>2. pc = "usb" /\ NotOpened /\ UNCHANGED <<dev, act, heap, onExit, gaveUp, failed>>
    BY <1>1, <1>3 DEF usb_activate, Goto, Rest
  <2>3. /\ SameLife /\ SameUndo /\ h'.fd = FALSE /\ h'.closed = FALSE /\ h'.cleanup = h.cleanup
        /\ h'.ptr = h.ptr
    BY <1>1, <2>2 DEF Shape, HandleShape, NoHandle, NotOpened
  <2>4. SameCall  BY <1>1, <2>2, Unchanged
  <2>5. SameKernel  BY <1>1, <2>2, Unchanged DEF NotOpened
  <2>6. pc' = "usb_text" /\ pc = "usb" /\ heap' = heap /\ SameWorld  BY <1>3, <2>2
  <2>7. Shape'
    <3>1. HandleShape'  BY <1>1, <2>3 DEF Shape, HandleShape
    <3>2. CallShape'  BY <1>1, <2>4 DEF Shape, CallShape
    <3>3. KernelShape'  BY <1>1, <2>5 DEF Shape, KernelShape
    <3>4. ExitShape'  BY <1>1, <2>6 DEF Shape, ExitShape
    <3>5. QED BY <1>1, <2>6, <3>1, <3>2, <3>3, <3>4 DEF Shape
  <2>8. Sound'
    <3> USE <1>1, <2>3, <2>4, <2>5, <2>6, SameKind, DeviceType DEF Shape, HandleShape, CallShape, KernelShape,
        ExitShape, Control
    <3>1. Control'  OBVIOUS
    <3>2. Undoing'  BY DEF Undoing, UpKept, ModeKept, PromiscKept, MonsKept, Kept, Holding
    <3>3. Owning'  BY DEF Owning
    <3>4. Where'  BY DEF Where, Bare
    <3>5. Listing'  BY DEF Listing, Holding, Where
    <3>6. QED BY <3>1, <3>2, <3>3, <3>4, <3>5 DEF Sound
  <2>9. Fits(heap, h.ptr)'
    BY <1>1, <2>3, <2>4, <2>5, <2>6, FitsSame
  <2>10. QED BY <2>7, <2>8, <2>9 DEF Inv
<1>4. QED BY <1>2, <1>3 DEF usb_activate, Goto

\* the text interface
LEMMA UsbTextStep ==
    ASSUME Inv, UsbText
    PROVE  Inv'
<1>1. Shape /\ Control /\ Undoing /\ Owning /\ Where /\ Listing /\ Fits(heap, h.ptr)  BY InvFacts
<1>2. CASE pc' = "usb_mode"
  <2>2. pc = "usb_text" /\ (\E o, z : Opened(o, z)) /\ UNCHANGED <<dev, act, heap, onExit, gaveUp, failed>>
    BY <1>1, <1>2 DEF UsbText, Goto, Back, Rest
  <2>3. SameLife /\ SameUndo /\ h'.fd = TRUE /\ h'.closed = FALSE /\ h'.cleanup = h.cleanup /\ h'.ptr = h.ptr
    BY <1>1, <2>2 DEF Shape, HandleShape, NoHandle, Opened
  <2>4. SameCall  BY <1>1, <2>2, Unchanged
  <2>5. SameInterface /\ kern'.fds = kern.fds + 1 /\ kern'.nl = kern.nl /\ kern'.mapped = kern.mapped
    BY <1>1, <2>2 DEF Shape, KernelShape, KernelFields, Opened
  <2>6. pc' = "usb_mode" /\ pc = "usb_text" /\ heap' = heap /\ SameWorld  BY <1>2, <2>2
  <2>7. Shape'
    <3>1. HandleShape'  BY <1>1, <2>3 DEF Shape, HandleShape
    <3>2. CallShape'  BY <1>1, <2>4 DEF Shape, CallShape
    <3>3. KernelShape'  BY <1>1, <2>5 DEF Shape, KernelShape
    <3>4. ExitShape'  BY <1>1, <2>6 DEF Shape, ExitShape
    <3>5. QED BY <1>1, <2>6, <3>1, <3>2, <3>3, <3>4 DEF Shape
  <2>8. Sound'
    <3> USE <1>1, <2>3, <2>4, <2>5, <2>6, SameKind, DeviceType DEF Shape, HandleShape, CallShape, KernelShape,
        ExitShape, Control
    <3>1. Control'  OBVIOUS
    <3>2. Undoing'  BY DEF Undoing, UpKept, ModeKept, PromiscKept, MonsKept, Kept, Holding
    <3>3. Owning'  BY DEF Owning
    <3>4. Where'  BY DEF Where, Bare
    <3>5. Listing'  BY DEF Listing, Holding, Where
    <3>6. QED BY <3>1, <3>2, <3>3, <3>4, <3>5 DEF Sound
  <2>9. Fits(heap, h.ptr)'
    BY <1>1, <2>3, <2>4, <2>5, <2>6, FitsSame
  <2>10. QED BY <2>7, <2>8, <2>9 DEF Inv
<1>3. CASE pc' = "return"
  <2>2. /\ pc = "usb_text" /\ NotOpened /\ act' = [act EXCEPT !.ret = -1]
        /\ UNCHANGED <<dev, heap, onExit, gaveUp, failed>>
    BY <1>1, <1>3 DEF UsbText, Goto, Back, Rest, PCAP_ERROR
  <2>3. /\ SameLife /\ SameUndo /\ h'.fd = FALSE /\ h'.closed = FALSE /\ h'.cleanup = h.cleanup
        /\ h'.ptr = h.ptr
    BY <1>1, <2>2 DEF Shape, HandleShape, NoHandle, NotOpened
  <2>4. /\ DOMAIN act' = DOMAIN NoCall /\ act'.sock = act.sock /\ act'.down = act.down /\ act'.ret = -1
        /\ act'.after = act.after /\ act'.n = act.n
    BY <1>1, <2>2 DEF Shape, CallShape, NoCall, NotOpened
  <2>5. SameKernel  BY <1>1, <2>2, Unchanged DEF NotOpened
  <2>6. pc' = "return" /\ pc = "usb_text" /\ heap' = heap /\ SameWorld  BY <1>3, <2>2
  <2>7. Shape'
    <3>1. HandleShape'  BY <1>1, <2>3 DEF Shape, HandleShape
    <3>2. CallShape'  BY <1>1, <2>4 DEF Shape, CallShape
    <3>3. KernelShape'  BY <1>1, <2>5 DEF Shape, KernelShape
    <3>4. ExitShape'  BY <1>1, <2>6 DEF Shape, ExitShape
    <3>5. QED BY <1>1, <2>6, <3>1, <3>2, <3>3, <3>4 DEF Shape
  <2>8. Sound'
    <3> USE <1>1, <2>3, <2>4, <2>5, <2>6, SameKind, DeviceType DEF Shape, HandleShape, CallShape, KernelShape,
        ExitShape, Control
    <3>1. Control'  OBVIOUS
    <3>2. Undoing'  BY DEF Undoing, UpKept, ModeKept, PromiscKept, MonsKept, Kept, Holding
    <3>3. Owning'  BY DEF Owning
    <3>4. Where'  BY DEF Where, Bare
    <3>5. Listing'  BY DEF Listing, Holding, Where
    <3>6. QED BY <3>1, <3>2, <3>3, <3>4, <3>5 DEF Sound
  <2>9. Fits(heap, h.ptr)'
    BY <1>1, <2>3, <2>4, <2>5, <2>6, FitsSame
  <2>10. QED BY <2>7, <2>8, <2>9 DEF Inv
<1>4. QED BY <1>2, <1>3 DEF UsbText, Goto, Back

\* the ring of the bus monitor
LEMMA usb_mmapStep ==
    ASSUME Inv, usb_mmap
    PROVE  Inv'
<1>1. Shape /\ Control /\ Undoing /\ Owning /\ Where /\ Listing /\ Fits(heap, h.ptr)  BY InvFacts
<1>2. CASE /\ pc = "usb_mode" /\ Back(-6) /\ kern' = Closed(kern) /\ h' = [h EXCEPT !.closed = TRUE]
           /\ UNCHANGED <<dev, heap, onExit, gaveUp, failed>>
  <2>2. SameLife /\ SameUndo /\ h'.fd = h.fd /\ h'.closed = TRUE /\ h'.cleanup = h.cleanup /\ h'.ptr = h.ptr
    BY <1>1, <1>2 DEF Shape, HandleShape, NoHandle, Back, Goto
  <2>3. /\ DOMAIN act' = DOMAIN NoCall /\ act'.sock = act.sock /\ act'.down = act.down /\ act'.ret = -6
        /\ act'.after = act.after /\ act'.n = act.n
    BY <1>1, <1>2 DEF Shape, CallShape, NoCall, Back, Goto
  <2>4. SocketClosed  BY <1>1, <1>2, ClosedFacts
  <2>5. pc' = "return" /\ pc = "usb_mode" /\ heap' = heap /\ SameWorld  BY <1>1, <1>2 DEF Back, Goto
  <2>6. Shape'
    <3>1. HandleShape'  BY <1>1, <2>2 DEF Shape, HandleShape
    <3>2. CallShape'  BY <1>1, <2>3 DEF Shape, CallShape
    <3>3. KernelShape'  BY <1>1, <2>4 DEF Shape, KernelShape
    <3>4. ExitShape'  BY <1>1, <2>5 DEF Shape, ExitShape
    <3>5. QED BY <1>1, <2>5, <3>1, <3>2, <3>3, <3>4 DEF Shape
  <2>7. Sound'
    <3> USE <1>1, <2>2, <2>3, <2>4, <2>5, SameKind, DeviceType DEF Shape, HandleShape, CallShape, KernelShape,
        ExitShape, Control
    <3>1. Control'  OBVIOUS
    <3>2. Undoing'  BY DEF Undoing, UpKept, ModeKept, PromiscKept, MonsKept, Kept, Holding
    <3>3. Owning'  BY DEF Owning
    <3>4. Where'  BY DEF Where, Bare
    <3>5. Listing'  BY DEF Listing, Holding, Where
    <3>6. QED BY <3>1, <3>2, <3>3, <3>4, <3>5 DEF Sound
  <2>8. Fits(heap, h.ptr)'
    BY <1>1, <2>2, <2>3, <2>4, <2>5, FitsSame
  <2>9. QED BY <2>6, <2>7, <2>8 DEF Inv
<1>3. CASE /\ pc = "usb_mode" /\ Back(0) /\ h' = [h EXCEPT !.ops = "usb_mmap", !.cleanup = "usb"]
           /\ kern' = [kern EXCEPT !.mapped = TRUE] /\ UNCHANGED <<dev, heap, onExit, gaveUp, failed>>
  <2>2. SameLife /\ SameUndo /\ SameFd /\ h'.cleanup = "usb" /\ h'.ptr = h.ptr
    BY <1>1, <1>3 DEF Shape, HandleShape, NoHandle, Back, Goto
  <2>3. /\ DOMAIN act' = DOMAIN NoCall /\ act'.sock = act.sock /\ act'.down = act.down /\ act'.ret = 0
        /\ act'.after = act.after /\ act'.n = act.n
    BY <1>1, <1>3 DEF Shape, CallShape, NoCall, Back, Goto
  <2>4. SameInterface /\ kern'.fds = kern.fds /\ kern'.nl = kern.nl /\ kern'.mapped = TRUE
    BY <1>1, <1>3 DEF Shape, KernelShape, KernelFields, Back, Goto
  <2>5. pc' = "return" /\ pc = "usb_mode" /\ heap' = heap /\ SameWorld  BY <1>1, <1>3 DEF Back, Goto
  <2>6. Shape'
    <3>1. HandleShape'  BY <1>1, <2>2 DEF Shape, HandleShape
    <3>2. CallShape'  BY <1>1, <2>3 DEF Shape, CallShape
    <3>3. KernelShape'  BY <1>1, <2>4 DEF Shape, KernelShape
    <3>4. ExitShape'  BY <1>1, <2>5 DEF Shape, ExitShape
    <3>5. QED BY <1>1, <2>5, <3>1, <3>2, <3>3, <3>4 DEF Shape
  <2>7. Sound'
    <3> USE <1>1, <2>2, <2>3, <2>4, <2>5, SameKind, DeviceType DEF Shape, HandleShape, CallShape, KernelShape,
        ExitShape, Control
    <3>1. Control'  OBVIOUS
    <3>2. Undoing'  BY DEF Undoing, UpKept, ModeKept, PromiscKept, MonsKept, Kept, Holding
    <3>3. Owning'  BY DEF Owning
    <3>4. Where'  BY DEF Where, Bare
    <3>5. Listing'  BY DEF Listing, Holding, Where
    <3>6. QED BY <3>1, <3>2, <3>3, <3>4, <3>5 DEF Sound
  <2>8. Fits(heap, h.ptr)'
    BY <1>1, <2>2, <2>3, <2>4, <2>5, FitsSame
  <2>9. QED BY <2>6, <2>7, <2>8 DEF Inv
<1>4. CASE /\ pc = "usb_mode" /\ pc' = "usb_buffer"
           /\ UNCHANGED <<dev, h, act, kern, heap, onExit, gaveUp, failed>>
  <2>2. SameHandle  BY <1>1, <1>4, Unchanged
  <2>3. SameCall  BY <1>1, <1>4, Unchanged
  <2>4. SameKernel  BY <1>1, <1>4, Unchanged
  <2>5. pc' = "usb_buffer" /\ pc = "usb_mode" /\ heap' = heap /\ SameWorld  BY <1>1, <1>4
  <2>6. Shape'
    <3>1. HandleShape'  BY <1>1, <2>2 DEF Shape, HandleShape
    <3>2. CallShape'  BY <1>1, <2>3 DEF Shape, CallShape
    <3>3. KernelShape'  BY <1>1, <2>4 DEF Shape, KernelShape
    <3>4. ExitShape'  BY <1>1, <2>5 DEF Shape, ExitShape
    <3>5. QED BY <1>1, <2>5, <3>1, <3>2, <3>3, <3>4 DEF Shape
  <2>7. Sound'
    <3> USE <1>1, <2>2, <2>3, <2>4, <2>5, SameKind, DeviceType DEF Shape, HandleShape, CallShape, KernelShape,
        ExitShape, Control
    <3>1. Control'  OBVIOUS
    <3>2. Undoing'  BY DEF Undoing, UpKept, ModeKept, PromiscKept, MonsKept, Kept, Holding
    <3>3. Owning'  BY DEF Owning
    <3>4. Where'  BY DEF Where, Bare
    <3>5. Listing'  BY DEF Listing, Holding, Where
    <3>6. QED BY <3>1, <3>2, <3>3, <3>4, <3>5 DEF Sound
  <2>8. Fits(heap, h.ptr)'
    BY <1>1, <2>2, <2>3, <2>4, <2>5, FitsSame
  <2>9. QED BY <2>6, <2>7, <2>8 DEF Inv
<1>5. QED BY <1>2, <1>3, <1>4 DEF usb_mmap, UsbFails, Rest, Goto, PCAP_ERROR_RFMON_NOTSUP

\* a buffer instead of the ring
LEMMA UsbBufferStep ==
    ASSUME Inv, UsbBuffer
    PROVE  Inv'
<1>1. Shape /\ Control /\ Undoing /\ Owning /\ Where /\ Listing /\ Fits(heap, h.ptr)  BY InvFacts
<1>2. CASE /\ pc = "usb_buffer" /\ Allocated("buffer") /\ Back(0)
           /\ UNCHANGED <<dev, kern, onExit, gaveUp, failed>>
  <2>2. SameLife /\ SameUndo /\ SameFd /\ h'.cleanup = h.cleanup /\ h'.ptr = h.ptr \cup {"buffer"}
    BY <1>1, <1>2 DEF Shape, HandleShape, NoHandle, Back, OwnFails, Goto, Allocated
  <2>3. /\ DOMAIN act' = DOMAIN NoCall /\ act'.sock = act.sock /\ act'.down = act.down /\ act'.ret = 0
        /\ act'.after = act.after /\ act'.n = act.n
    BY <1>1, <1>2 DEF Shape, CallShape, NoCall, Back, OwnFails, Goto, Allocated
  <2>4. SameKernel  BY <1>1, <1>2, Unchanged
  <2>5. pc' = "return" /\ pc = "usb_buffer" /\ Malloc("buffer") /\ SameWorld
    BY <1>1, <1>2 DEF Back, OwnFails, Goto, Allocated
  <2>6. Shape'
    <3>1. HandleShape'  BY <1>1, <2>2 DEF Shape, HandleShape
    <3>2. CallShape'  BY <1>1, <2>3 DEF Shape, CallShape
    <3>3. KernelShape'  BY <1>1, <2>4 DEF Shape, KernelShape
    <3>4. ExitShape'  BY <1>1, <2>5 DEF Shape, ExitShape
    <3>5. QED BY <1>1, <2>5, <3>1, <3>2, <3>3, <3>4 DEF Shape
  <2>7. Sound'
    <3> USE <1>1, <2>2, <2>3, <2>4, <2>5, SameKind, DeviceType DEF Shape, HandleShape, CallShape, KernelShape,
        ExitShape, Control
    <3>1. Control'  OBVIOUS
    <3>2. Undoing'  BY DEF Undoing, UpKept, ModeKept, PromiscKept, MonsKept, Kept, Holding
    <3>3. Owning'  BY DEF Owning
    <3>4. Where'  BY DEF Where, Bare
    <3>5. Listing'  BY DEF Listing, Holding, Where
    <3>6. QED BY <3>1, <3>2, <3>3, <3>4, <3>5 DEF Sound
  <2>8. Fits(heap, h.ptr)'
    BY <1>1, <2>2, <2>3, <2>4, <2>5, FitsMalloc DEF Pointers, Lossy, Control, Where, Bare
  <2>9. QED BY <2>6, <2>7, <2>8 DEF Inv
<1>3. CASE /\ pc = "usb_buffer" /\ Back(-1) /\ kern' = Closed(kern) /\ h' = [h EXCEPT !.closed = TRUE]
           /\ UNCHANGED <<dev, heap, onExit, gaveUp, failed>>
  <2>2. SameLife /\ SameUndo /\ h'.fd = h.fd /\ h'.closed = TRUE /\ h'.cleanup = h.cleanup /\ h'.ptr = h.ptr
    BY <1>1, <1>3 DEF Shape, HandleShape, NoHandle, Back, Goto
  <2>3. /\ DOMAIN act' = DOMAIN NoCall /\ act'.sock = act.sock /\ act'.down = act.down /\ act'.ret = -1
        /\ act'.after = act.after /\ act'.n = act.n
    BY <1>1, <1>3 DEF Shape, CallShape, NoCall, Back, Goto
  <2>4. SocketClosed  BY <1>1, <1>3, ClosedFacts
  <2>5. pc' = "return" /\ pc = "usb_buffer" /\ heap' = heap /\ SameWorld  BY <1>1, <1>3 DEF Back, Goto
  <2>6. Shape'
    <3>1. HandleShape'  BY <1>1, <2>2 DEF Shape, HandleShape
    <3>2. CallShape'  BY <1>1, <2>3 DEF Shape, CallShape
    <3>3. KernelShape'  BY <1>1, <2>4 DEF Shape, KernelShape
    <3>4. ExitShape'  BY <1>1, <2>5 DEF Shape, ExitShape
    <3>5. QED BY <1>1, <2>5, <3>1, <3>2, <3>3, <3>4 DEF Shape
  <2>7. Sound'
    <3> USE <1>1, <2>2, <2>3, <2>4, <2>5, SameKind, DeviceType DEF Shape, HandleShape, CallShape, KernelShape,
        ExitShape, Control
    <3>1. Control'  OBVIOUS
    <3>2. Undoing'  BY DEF Undoing, UpKept, ModeKept, PromiscKept, MonsKept, Kept, Holding
    <3>3. Owning'  BY DEF Owning
    <3>4. Where'  BY DEF Where, Bare
    <3>5. Listing'  BY DEF Listing, Holding, Where
    <3>6. QED BY <3>1, <3>2, <3>3, <3>4, <3>5 DEF Sound
  <2>8. Fits(heap, h.ptr)'
    BY <1>1, <2>2, <2>3, <2>4, <2>5, FitsSame
  <2>9. QED BY <2>6, <2>7, <2>8 DEF Inv
<1>4. QED BY <1>2, <1>3 DEF UsbBuffer, UsbFails, PCAP_ERROR

\* the socket of a CAN bus
LEMMA can_activateStep ==
    ASSUME Inv, can_activate
    PROVE  Inv'
<1>1. Shape /\ Control /\ Undoing /\ Owning /\ Where /\ Listing /\ Fits(heap, h.ptr)  BY InvFacts
<1>2. CASE pc' = "can_bind"
  <2>2. pc = "can" /\ (\E o, z : Opened(o, z)) /\ UNCHANGED <<dev, act, heap, onExit, gaveUp, failed>>
    BY <1>1, <1>2 DEF can_activate, Goto, Back, Rest
  <2>3. SameLife /\ SameUndo /\ h'.fd = TRUE /\ h'.closed = FALSE /\ h'.cleanup = h.cleanup /\ h'.ptr = h.ptr
    BY <1>1, <2>2 DEF Shape, HandleShape, NoHandle, Opened
  <2>4. SameCall  BY <1>1, <2>2, Unchanged
  <2>5. SameInterface /\ kern'.fds = kern.fds + 1 /\ kern'.nl = kern.nl /\ kern'.mapped = kern.mapped
    BY <1>1, <2>2 DEF Shape, KernelShape, KernelFields, Opened
  <2>6. pc' = "can_bind" /\ pc = "can" /\ heap' = heap /\ SameWorld  BY <1>2, <2>2
  <2>7. Shape'
    <3>1. HandleShape'  BY <1>1, <2>3 DEF Shape, HandleShape
    <3>2. CallShape'  BY <1>1, <2>4 DEF Shape, CallShape
    <3>3. KernelShape'  BY <1>1, <2>5 DEF Shape, KernelShape
    <3>4. ExitShape'  BY <1>1, <2>6 DEF Shape, ExitShape
    <3>5. QED BY <1>1, <2>6, <3>1, <3>2, <3>3, <3>4 DEF Shape
  <2>8. Sound'
    <3> USE <1>1, <2>3, <2>4, <2>5, <2>6, SameKind, DeviceType DEF Shape, HandleShape, CallShape, KernelShape,
        ExitShape, Control
    <3>1. Control'  OBVIOUS
    <3>2. Undoing'  BY DEF Undoing, UpKept, ModeKept, PromiscKept, MonsKept, Kept, Holding
    <3>3. Owning'  BY DEF Owning
    <3>4. Where'  BY DEF Where, Bare
    <3>5. Listing'  BY DEF Listing, Holding, Where
    <3>6. QED BY <3>1, <3>2, <3>3, <3>4, <3>5 DEF Sound
  <2>9. Fits(heap, h.ptr)'
    BY <1>1, <2>3, <2>4, <2>5, <2>6, FitsSame
  <2>10. QED BY <2>7, <2>8, <2>9 DEF Inv
<1>3. CASE pc' = "return"
  <2>2. /\ pc = "can" /\ NotOpened /\ act' = [act EXCEPT !.ret = -1]
        /\ UNCHANGED <<dev, heap, onExit, gaveUp, failed>>
    BY <1>1, <1>3 DEF can_activate, Goto, Back, Rest, PCAP_ERROR
  <2>3. /\ SameLife /\ SameUndo /\ h'.fd = FALSE /\ h'.closed = FALSE /\ h'.cleanup = h.cleanup
        /\ h'.ptr = h.ptr
    BY <1>1, <2>2 DEF Shape, HandleShape, NoHandle, NotOpened
  <2>4. /\ DOMAIN act' = DOMAIN NoCall /\ act'.sock = act.sock /\ act'.down = act.down /\ act'.ret = -1
        /\ act'.after = act.after /\ act'.n = act.n
    BY <1>1, <2>2 DEF Shape, CallShape, NoCall, NotOpened
  <2>5. SameKernel  BY <1>1, <2>2, Unchanged DEF NotOpened
  <2>6. pc' = "return" /\ pc = "can" /\ heap' = heap /\ SameWorld  BY <1>3, <2>2
  <2>7. Shape'
    <3>1. HandleShape'  BY <1>1, <2>3 DEF Shape, HandleShape
    <3>2. CallShape'  BY <1>1, <2>4 DEF Shape, CallShape
    <3>3. KernelShape'  BY <1>1, <2>5 DEF Shape, KernelShape
    <3>4. ExitShape'  BY <1>1, <2>6 DEF Shape, ExitShape
    <3>5. QED BY <1>1, <2>6, <3>1, <3>2, <3>3, <3>4 DEF Shape
  <2>8. Sound'
    <3> USE <1>1, <2>3, <2>4, <2>5, <2>6, SameKind, DeviceType DEF Shape, HandleShape, CallShape, KernelShape,
        ExitShape, Control
    <3>1. Control'  OBVIOUS
    <3>2. Undoing'  BY DEF Undoing, UpKept, ModeKept, PromiscKept, MonsKept, Kept, Holding
    <3>3. Owning'  BY DEF Owning
    <3>4. Where'  BY DEF Where, Bare
    <3>5. Listing'  BY DEF Listing, Holding, Where
    <3>6. QED BY <3>1, <3>2, <3>3, <3>4, <3>5 DEF Sound
  <2>9. Fits(heap, h.ptr)'
    BY <1>1, <2>3, <2>4, <2>5, <2>6, FitsSame
  <2>10. QED BY <2>7, <2>8, <2>9 DEF Inv
<1>4. QED BY <1>2, <1>3 DEF can_activate, Goto, Back

\* its buffer, and the binding
LEMMA CanBindStep ==
    ASSUME Inv, CanBind
    PROVE  Inv'
<1>1. Shape /\ Control /\ Undoing /\ Owning /\ Where /\ Listing /\ Fits(heap, h.ptr)  BY InvFacts
<1>2. CASE /\ pc = "can_bind" /\ Allocated("buffer") /\ Back(0)
           /\ UNCHANGED <<dev, kern, onExit, gaveUp, failed>>
  <2>2. SameLife /\ SameUndo /\ SameFd /\ h'.cleanup = h.cleanup /\ h'.ptr = h.ptr \cup {"buffer"}
    BY <1>1, <1>2 DEF Shape, HandleShape, NoHandle, Back, OwnFails, Goto, Allocated
  <2>3. /\ DOMAIN act' = DOMAIN NoCall /\ act'.sock = act.sock /\ act'.down = act.down /\ act'.ret = 0
        /\ act'.after = act.after /\ act'.n = act.n
    BY <1>1, <1>2 DEF Shape, CallShape, NoCall, Back, OwnFails, Goto, Allocated
  <2>4. SameKernel  BY <1>1, <1>2, Unchanged
  <2>5. pc' = "return" /\ pc = "can_bind" /\ Malloc("buffer") /\ SameWorld
    BY <1>1, <1>2 DEF Back, OwnFails, Goto, Allocated
  <2>6. Shape'
    <3>1. HandleShape'  BY <1>1, <2>2 DEF Shape, HandleShape
    <3>2. CallShape'  BY <1>1, <2>3 DEF Shape, CallShape
    <3>3. KernelShape'  BY <1>1, <2>4 DEF Shape, KernelShape
    <3>4. ExitShape'  BY <1>1, <2>5 DEF Shape, ExitShape
    <3>5. QED BY <1>1, <2>5, <3>1, <3>2, <3>3, <3>4 DEF Shape
  <2>7. Sound'
    <3> USE <1>1, <2>2, <2>3, <2>4, <2>5, SameKind, DeviceType DEF Shape, HandleShape, CallShape, KernelShape,
        ExitShape, Control
    <3>1. Control'  OBVIOUS
    <3>2. Undoing'  BY DEF Undoing, UpKept, ModeKept, PromiscKept, MonsKept, Kept, Holding
    <3>3. Owning'  BY DEF Owning
    <3>4. Where'  BY DEF Where, Bare
    <3>5. Listing'  BY DEF Listing, Holding, Where
    <3>6. QED BY <3>1, <3>2, <3>3, <3>4, <3>5 DEF Sound
  <2>8. Fits(heap, h.ptr)'
    BY <1>1, <2>2, <2>3, <2>4, <2>5, FitsMalloc DEF Pointers, Lossy, Control, Where, Bare
  <2>9. QED BY <2>6, <2>7, <2>8 DEF Inv
<1>3. CASE /\ pc = "can_bind" /\ Allocated("buffer") /\ (\E e \in {-6, -1} : OwnFails(e))
           /\ UNCHANGED <<dev, kern, onExit, gaveUp, failed>>
  <2>2. SameLife /\ SameUndo /\ SameFd /\ h'.cleanup = h.cleanup /\ h'.ptr = h.ptr \cup {"buffer"}
    BY <1>1, <1>3 DEF Shape, HandleShape, NoHandle, Back, OwnFails, Goto, Allocated
  <2>3. /\ DOMAIN act' = DOMAIN NoCall /\ act'.sock = act.sock /\ act'.down = act.down /\ act'.ret \in Int
        /\ act'.after = "return" /\ act'.n = act.n
    BY <1>1, <1>3 DEF Shape, CallShape, NoCall, Back, OwnFails, Goto, Allocated
  <2>4. SameKernel  BY <1>1, <1>3, Unchanged
  <2>5. pc' = "free" /\ pc = "can_bind" /\ Malloc("buffer") /\ SameWorld
    BY <1>1, <1>3 DEF Back, OwnFails, Goto, Allocated
  <2>6. Shape'
    <3>1. HandleShape'  BY <1>1, <2>2 DEF Shape, HandleShape
    <3>2. CallShape'  BY <1>1, <2>3 DEF Shape, CallShape
    <3>3. KernelShape'  BY <1>1, <2>4 DEF Shape, KernelShape
    <3>4. ExitShape'  BY <1>1, <2>5 DEF Shape, ExitShape
    <3>5. QED BY <1>1, <2>5, <3>1, <3>2, <3>3, <3>4 DEF Shape
  <2>7. Sound'
    <3> USE <1>1, <2>2, <2>3, <2>4, <2>5, SameKind, DeviceType DEF Shape, HandleShape, CallShape, KernelShape,
        ExitShape, Control
    <3>1. Control'  OBVIOUS
    <3>2. Undoing'  BY DEF Undoing, UpKept, ModeKept, PromiscKept, MonsKept, Kept, Holding
    <3>3. Owning'  BY DEF Owning
    <3>4. Where'  BY DEF Where, Bare
    <3>5. Listing'  BY DEF Listing, Holding, Where
    <3>6. QED BY <3>1, <3>2, <3>3, <3>4, <3>5 DEF Sound
  <2>8. Fits(heap, h.ptr)'
    BY <1>1, <2>2, <2>3, <2>4, <2>5, FitsMalloc DEF Pointers, Lossy, Control, Where, Bare
  <2>9. QED BY <2>6, <2>7, <2>8 DEF Inv
<1>4. CASE pc = "can_bind" /\ OwnFails(-1) /\ UNCHANGED <<dev, h, kern, heap, onExit, gaveUp, failed>>
  <2>2. SameHandle  BY <1>1, <1>4, Unchanged
  <2>3. /\ DOMAIN act' = DOMAIN NoCall /\ act'.sock = act.sock /\ act'.down = act.down /\ act'.ret = -1
        /\ act'.after = "return" /\ act'.n = act.n
    BY <1>1, <1>4 DEF Shape, CallShape, NoCall, OwnFails, Goto
  <2>4. SameKernel  BY <1>1, <1>4, Unchanged
  <2>5. pc' = "free" /\ pc = "can_bind" /\ heap' = heap /\ SameWorld  BY <1>1, <1>4 DEF OwnFails, Goto
  <2>6. Shape'
    <3>1. HandleShape'  BY <1>1, <2>2 DEF Shape, HandleShape
    <3>2. CallShape'  BY <1>1, <2>3 DEF Shape, CallShape
    <3>3. KernelShape'  BY <1>1, <2>4 DEF Shape, KernelShape
    <3>4. ExitShape'  BY <1>1, <2>5 DEF Shape, ExitShape
    <3>5. QED BY <1>1, <2>5, <3>1, <3>2, <3>3, <3>4 DEF Shape
  <2>7. Sound'
    <3> USE <1>1, <2>2, <2>3, <2>4, <2>5, SameKind, DeviceType DEF Shape, HandleShape, CallShape, KernelShape,
        ExitShape, Control
    <3>1. Control'  OBVIOUS
    <3>2. Undoing'  BY DEF Undoing, UpKept, ModeKept, PromiscKept, MonsKept, Kept, Holding
    <3>3. Owning'  BY DEF Owning
    <3>4. Where'  BY DEF Where, Bare
    <3>5. Listing'  BY DEF Listing, Holding, Where
    <3>6. QED BY <3>1, <3>2, <3>3, <3>4, <3>5 DEF Sound
  <2>8. Fits(heap, h.ptr)'
    BY <1>1, <2>2, <2>3, <2>4, <2>5, FitsSame
  <2>9. QED BY <2>6, <2>7, <2>8 DEF Inv
<1>5. QED BY <1>2, <1>3, <1>4 DEF CanBind, PCAP_ERROR, PCAP_ERROR_RFMON_NOTSUP

\* the socket of netfilter
LEMMA netfilter_activateStep ==
    ASSUME Inv, netfilter_activate
    PROVE  Inv'
<1>1. Shape /\ Control /\ Undoing /\ Owning /\ Where /\ Listing /\ Fits(heap, h.ptr)  BY InvFacts
<1>2. CASE pc = "netfilter" /\ Back(-1) /\ UNCHANGED <<dev, h, kern, heap, onExit, gaveUp, failed>>
  <2>2. SameHandle  BY <1>1, <1>2, Unchanged
  <2>3. /\ DOMAIN act' = DOMAIN NoCall /\ act'.sock = act.sock /\ act'.down = act.down /\ act'.ret = -1
        /\ act'.after = act.after /\ act'.n = act.n
    BY <1>1, <1>2 DEF Shape, CallShape, NoCall, Back, Goto
  <2>4. SameKernel  BY <1>1, <1>2, Unchanged
  <2>5. pc' = "return" /\ pc = "netfilter" /\ heap' = heap /\ SameWorld  BY <1>1, <1>2 DEF Back, Goto
  <2>6. Shape'
    <3>1. HandleShape'  BY <1>1, <2>2 DEF Shape, HandleShape
    <3>2. CallShape'  BY <1>1, <2>3 DEF Shape, CallShape
    <3>3. KernelShape'  BY <1>1, <2>4 DEF Shape, KernelShape
    <3>4. ExitShape'  BY <1>1, <2>5 DEF Shape, ExitShape
    <3>5. QED BY <1>1, <2>5, <3>1, <3>2, <3>3, <3>4 DEF Shape
  <2>7. Sound'
    <3> USE <1>1, <2>2, <2>3, <2>4, <2>5, SameKind, DeviceType DEF Shape, HandleShape, CallShape, KernelShape,
        ExitShape, Control
    <3>1. Control'  OBVIOUS
    <3>2. Undoing'  BY DEF Undoing, UpKept, ModeKept, PromiscKept, MonsKept, Kept, Holding
    <3>3. Owning'  BY DEF Owning
    <3>4. Where'  BY DEF Where, Bare
    <3>5. Listing'  BY DEF Listing, Holding, Where
    <3>6. QED BY <3>1, <3>2, <3>3, <3>4, <3>5 DEF Sound
  <2>8. Fits(heap, h.ptr)'
    BY <1>1, <2>2, <2>3, <2>4, <2>5, FitsSame
  <2>9. QED BY <2>6, <2>7, <2>8 DEF Inv
<1>3. CASE pc' = "nf_buffer"
  <2>2. pc = "netfilter" /\ (\E o, z : Opened(o, z)) /\ UNCHANGED <<dev, act, heap, onExit, gaveUp, failed>>
    BY <1>1, <1>3 DEF netfilter_activate, Goto, Back, Rest
  <2>3. SameLife /\ SameUndo /\ h'.fd = TRUE /\ h'.closed = FALSE /\ h'.cleanup = h.cleanup /\ h'.ptr = h.ptr
    BY <1>1, <2>2 DEF Shape, HandleShape, NoHandle, Opened
  <2>4. SameCall  BY <1>1, <2>2, Unchanged
  <2>5. SameInterface /\ kern'.fds = kern.fds + 1 /\ kern'.nl = kern.nl /\ kern'.mapped = kern.mapped
    BY <1>1, <2>2 DEF Shape, KernelShape, KernelFields, Opened
  <2>6. pc' = "nf_buffer" /\ pc = "netfilter" /\ heap' = heap /\ SameWorld  BY <1>3, <2>2
  <2>7. Shape'
    <3>1. HandleShape'  BY <1>1, <2>3 DEF Shape, HandleShape
    <3>2. CallShape'  BY <1>1, <2>4 DEF Shape, CallShape
    <3>3. KernelShape'  BY <1>1, <2>5 DEF Shape, KernelShape
    <3>4. ExitShape'  BY <1>1, <2>6 DEF Shape, ExitShape
    <3>5. QED BY <1>1, <2>6, <3>1, <3>2, <3>3, <3>4 DEF Shape
  <2>8. Sound'
    <3> USE <1>1, <2>3, <2>4, <2>5, <2>6, SameKind, DeviceType DEF Shape, HandleShape, CallShape, KernelShape,
        ExitShape, Control
    <3>1. Control'  OBVIOUS
    <3>2. Undoing'  BY DEF Undoing, UpKept, ModeKept, PromiscKept, MonsKept, Kept, Holding
    <3>3. Owning'  BY DEF Owning
    <3>4. Where'  BY DEF Where, Bare
    <3>5. Listing'  BY DEF Listing, Holding, Where
    <3>6. QED BY <3>1, <3>2, <3>3, <3>4, <3>5 DEF Sound
  <2>9. Fits(heap, h.ptr)'
    BY <1>1, <2>3, <2>4, <2>5, <2>6, FitsSame
  <2>10. QED BY <2>7, <2>8, <2>9 DEF Inv
<1>4. CASE pc = "netfilter" /\ NotOpened /\ Back(-1) /\ UNCHANGED <<dev, heap, onExit, gaveUp, failed>>
  <2>2. /\ SameLife /\ SameUndo /\ h'.fd = FALSE /\ h'.closed = FALSE /\ h'.cleanup = h.cleanup
        /\ h'.ptr = h.ptr
    BY <1>1, <1>4 DEF Shape, HandleShape, NoHandle, NotOpened, Back, Goto
  <2>3. /\ DOMAIN act' = DOMAIN NoCall /\ act'.sock = act.sock /\ act'.down = act.down /\ act'.ret = -1
        /\ act'.after = act.after /\ act'.n = act.n
    BY <1>1, <1>4 DEF Shape, CallShape, NoCall, NotOpened, Back, Goto
  <2>4. SameKernel  BY <1>1, <1>4, Unchanged DEF NotOpened
  <2>5. pc' = "return" /\ pc = "netfilter" /\ heap' = heap /\ SameWorld  BY <1>1, <1>4 DEF NotOpened, Back, Goto
  <2>6. Shape'
    <3>1. HandleShape'  BY <1>1, <2>2 DEF Shape, HandleShape
    <3>2. CallShape'  BY <1>1, <2>3 DEF Shape, CallShape
    <3>3. KernelShape'  BY <1>1, <2>4 DEF Shape, KernelShape
    <3>4. ExitShape'  BY <1>1, <2>5 DEF Shape, ExitShape
    <3>5. QED BY <1>1, <2>5, <3>1, <3>2, <3>3, <3>4 DEF Shape
  <2>7. Sound'
    <3> USE <1>1, <2>2, <2>3, <2>4, <2>5, SameKind, DeviceType DEF Shape, HandleShape, CallShape, KernelShape,
        ExitShape, Control
    <3>1. Control'  OBVIOUS
    <3>2. Undoing'  BY DEF Undoing, UpKept, ModeKept, PromiscKept, MonsKept, Kept, Holding
    <3>3. Owning'  BY DEF Owning
    <3>4. Where'  BY DEF Where, Bare
    <3>5. Listing'  BY DEF Listing, Holding, Where
    <3>6. QED BY <3>1, <3>2, <3>3, <3>4, <3>5 DEF Sound
  <2>8. Fits(heap, h.ptr)'
    BY <1>1, <2>2, <2>3, <2>4, <2>5, FitsSame
  <2>9. QED BY <2>6, <2>7, <2>8 DEF Inv
<1>5. QED BY <1>2, <1>3, <1>4 DEF netfilter_activate, Goto, Rest, PCAP_ERROR

\* its buffers
LEMMA NfBufferStep ==
    ASSUME Inv, NfBuffer
    PROVE  Inv'
<1>1. Shape /\ Control /\ Undoing /\ Owning /\ Where /\ Listing /\ Fits(heap, h.ptr)  BY InvFacts
<1>2. CASE /\ pc = "nf_buffer" /\ Obtained(NfList \cup {"buffer"}) /\ pc' = "nf_config"
           /\ act' = [act EXCEPT !.n = 0] /\ UNCHANGED <<dev, kern, onExit, gaveUp, failed>>
  <2>2. /\ SameLife /\ SameUndo /\ SameFd /\ h'.cleanup = h.cleanup
        /\ h'.ptr = h.ptr \cup (NfList \cup {"buffer"})
    BY <1>1, <1>2 DEF Shape, HandleShape, NoHandle, Obtained, OwnFails, Goto
  <2>3. /\ DOMAIN act' = DOMAIN NoCall /\ act'.sock = act.sock /\ act'.down = act.down /\ act'.ret = act.ret
        /\ act'.after = act.after /\ act'.n = 0
    BY <1>1, <1>2 DEF Shape, CallShape, NoCall, Obtained, OwnFails, Goto
  <2>4. SameKernel  BY <1>1, <1>2, Unchanged
  <2>5. pc' = "nf_config" /\ pc = "nf_buffer" /\ NfList \subseteq {"dlt_list"} /\ SameWorld
    BY <1>2, NfListType DEF OwnFails, Goto
  <2>6. Shape'
    <3>1. HandleShape'  BY <1>1, <2>2 DEF Shape, HandleShape
    <3>2. CallShape'  BY <1>1, <2>3 DEF Shape, CallShape
    <3>3. KernelShape'  BY <1>1, <2>4 DEF Shape, KernelShape
    <3>4. ExitShape'  BY <1>1, <2>5 DEF Shape, ExitShape
    <3>5. QED BY <1>1, <2>5, <3>1, <3>2, <3>3, <3>4 DEF Shape
  <2>7. Sound'
    <3> USE <1>1, <2>2, <2>3, <2>4, <2>5, SameKind, DeviceType DEF Shape, HandleShape, CallShape, KernelShape,
        ExitShape, Control
    <3>1. Control'  OBVIOUS
    <3>2. Undoing'  BY DEF Undoing, UpKept, ModeKept, PromiscKept, MonsKept, Kept, Holding
    <3>3. Owning'  BY DEF Owning
    <3>4. Where'  BY DEF Where, Bare
    <3>5. Listing'  BY DEF Listing, Holding, Where
    <3>6. QED BY <3>1, <3>2, <3>3, <3>4, <3>5 DEF Sound
  <2>8. Fits(heap, h.ptr)'
    <3>1. (NfList \cup {"buffer"}) \subseteq Pointers /\ (NfList \cup {"buffer"}) \cap h.ptr \subseteq Lossy
      BY <1>1, <2>2, <2>3, <2>4, <2>5, NfListType DEF Where, Bare, Pointers, Lossy
    <3>2. Fits([p \in Pointers |-> IF p \in (NfList \cup {"buffer"}) THEN heap[p] + 1 ELSE heap[p]],
              h.ptr \cup (NfList \cup {"buffer"}))
      BY <1>1, <3>1, FitsAdd
    <3>3. QED BY <1>2, <2>2, <2>3, <2>4, <2>5, <3>2 DEF Obtained
  <2>9. QED BY <2>6, <2>7, <2>8 DEF Inv
<1>3. CASE /\ pc = "nf_buffer" /\ Obtained({"buffer"}) /\ pc' = "nf_config" /\ act' = [act EXCEPT !.n = 0]
           /\ UNCHANGED <<dev, kern, onExit, gaveUp, failed>>
  <2>2. SameLife /\ SameUndo /\ SameFd /\ h'.cleanup = h.cleanup /\ h'.ptr = h.ptr \cup ({"buffer"})
    BY <1>1, <1>3 DEF Shape, HandleShape, NoHandle, Obtained, OwnFails, Goto
  <2>3. /\ DOMAIN act' = DOMAIN NoCall /\ act'.sock = act.sock /\ act'.down = act.down /\ act'.ret = act.ret
        /\ act'.after = act.after /\ act'.n = 0
    BY <1>1, <1>3 DEF Shape, CallShape, NoCall, Obtained, OwnFails, Goto
  <2>4. SameKernel  BY <1>1, <1>3, Unchanged
  <2>5. pc' = "nf_config" /\ pc = "nf_buffer" /\ NfList \subseteq {"dlt_list"} /\ SameWorld
    BY <1>3, NfListType DEF OwnFails, Goto
  <2>6. Shape'
    <3>1. HandleShape'  BY <1>1, <2>2 DEF Shape, HandleShape
    <3>2. CallShape'  BY <1>1, <2>3 DEF Shape, CallShape
    <3>3. KernelShape'  BY <1>1, <2>4 DEF Shape, KernelShape
    <3>4. ExitShape'  BY <1>1, <2>5 DEF Shape, ExitShape
    <3>5. QED BY <1>1, <2>5, <3>1, <3>2, <3>3, <3>4 DEF Shape
  <2>7. Sound'
    <3> USE <1>1, <2>2, <2>3, <2>4, <2>5, SameKind, DeviceType DEF Shape, HandleShape, CallShape, KernelShape,
        ExitShape, Control
    <3>1. Control'  OBVIOUS
    <3>2. Undoing'  BY DEF Undoing, UpKept, ModeKept, PromiscKept, MonsKept, Kept, Holding
    <3>3. Owning'  BY DEF Owning
    <3>4. Where'  BY DEF Where, Bare
    <3>5. Listing'  BY DEF Listing, Holding, Where
    <3>6. QED BY <3>1, <3>2, <3>3, <3>4, <3>5 DEF Sound
  <2>8. Fits(heap, h.ptr)'
    <3>1. ({"buffer"}) \subseteq Pointers /\ ({"buffer"}) \cap h.ptr \subseteq Lossy
      BY <1>1, <2>2, <2>3, <2>4, <2>5, NfListType DEF Where, Bare, Pointers, Lossy
    <3>2. Fits([p \in Pointers |-> IF p \in ({"buffer"}) THEN heap[p] + 1 ELSE heap[p]], h.ptr \cup ({"buffer"}))
      BY <1>1, <3>1, FitsAdd
    <3>3. QED BY <1>3, <2>2, <2>3, <2>4, <2>5, <3>2 DEF Obtained
  <2>9. QED BY <2>6, <2>7, <2>8 DEF Inv
<1>4. CASE /\ pc = "nf_buffer" /\ Obtained(NfList) /\ OwnFails(-1)
           /\ UNCHANGED <<dev, kern, onExit, gaveUp, failed>>
  <2>2. SameLife /\ SameUndo /\ SameFd /\ h'.cleanup = h.cleanup /\ h'.ptr = h.ptr \cup (NfList)
    BY <1>1, <1>4 DEF Shape, HandleShape, NoHandle, Obtained, OwnFails, Goto
  <2>3. /\ DOMAIN act' = DOMAIN NoCall /\ act'.sock = act.sock /\ act'.down = act.down /\ act'.ret = -1
        /\ act'.after = "return" /\ act'.n = act.n
    BY <1>1, <1>4 DEF Shape, CallShape, NoCall, Obtained, OwnFails, Goto
  <2>4. SameKernel  BY <1>1, <1>4, Unchanged
  <2>5. pc' = "free" /\ pc = "nf_buffer" /\ NfList \subseteq {"dlt_list"} /\ SameWorld
    BY <1>4, NfListType DEF OwnFails, Goto
  <2>6. Shape'
    <3>1. HandleShape'  BY <1>1, <2>2 DEF Shape, HandleShape
    <3>2. CallShape'  BY <1>1, <2>3 DEF Shape, CallShape
    <3>3. KernelShape'  BY <1>1, <2>4 DEF Shape, KernelShape
    <3>4. ExitShape'  BY <1>1, <2>5 DEF Shape, ExitShape
    <3>5. QED BY <1>1, <2>5, <3>1, <3>2, <3>3, <3>4 DEF Shape
  <2>7. Sound'
    <3> USE <1>1, <2>2, <2>3, <2>4, <2>5, SameKind, DeviceType DEF Shape, HandleShape, CallShape, KernelShape,
        ExitShape, Control
    <3>1. Control'  OBVIOUS
    <3>2. Undoing'  BY DEF Undoing, UpKept, ModeKept, PromiscKept, MonsKept, Kept, Holding
    <3>3. Owning'  BY DEF Owning
    <3>4. Where'  BY DEF Where, Bare
    <3>5. Listing'  BY DEF Listing, Holding, Where
    <3>6. QED BY <3>1, <3>2, <3>3, <3>4, <3>5 DEF Sound
  <2>8. Fits(heap, h.ptr)'
    <3>1. (NfList) \subseteq Pointers /\ (NfList) \cap h.ptr \subseteq Lossy
      BY <1>1, <2>2, <2>3, <2>4, <2>5, NfListType DEF Where, Bare, Pointers, Lossy
    <3>2. Fits([p \in Pointers |-> IF p \in (NfList) THEN heap[p] + 1 ELSE heap[p]], h.ptr \cup (NfList))
      BY <1>1, <3>1, FitsAdd
    <3>3. QED BY <1>4, <2>2, <2>3, <2>4, <2>5, <3>2 DEF Obtained
  <2>9. QED BY <2>6, <2>7, <2>8 DEF Inv
<1>5. QED BY <1>2, <1>3, <1>4 DEF NfBuffer, Goto, PCAP_ERROR

\* the groups are bound
LEMMA netfilter_send_config_msgStep ==
    ASSUME Inv, netfilter_send_config_msg
    PROVE  Inv'
<1>1. Shape /\ Control /\ Undoing /\ Owning /\ Where /\ Listing /\ Fits(heap, h.ptr)  BY InvFacts
<1>2. CASE /\ pc = "nf_config" /\ pc' = pc /\ act' = [act EXCEPT !.n = @ + 1]
           /\ (kern' = [kern EXCEPT !.groups = @ + 1] \/ kern' = kern)
           /\ UNCHANGED <<dev, h, heap, onExit, gaveUp, failed>>
  <2>2. SameHandle  BY <1>1, <1>2, Unchanged
  <2>3. /\ DOMAIN act' = DOMAIN NoCall /\ act'.sock = act.sock /\ act'.down = act.down /\ act'.ret = act.ret
        /\ act'.after = act.after /\ act'.n = act.n + 1
    BY <1>1, <1>2 DEF Shape, CallShape, NoCall
  <2>4. SameInterface /\ kern'.fds = kern.fds /\ kern'.nl = kern.nl /\ kern'.mapped = kern.mapped
    BY <1>1, <1>2 DEF Shape, KernelShape, KernelFields
  <2>5. pc' = "nf_config" /\ pc = "nf_config" /\ heap' = heap /\ SameWorld  BY <1>1, <1>2
  <2>6. Shape'
    <3>1. HandleShape'  BY <1>1, <2>2 DEF Shape, HandleShape
    <3>2. CallShape'  BY <1>1, <2>3 DEF Shape, CallShape
    <3>3. KernelShape'  BY <1>1, <2>4 DEF Shape, KernelShape
    <3>4. ExitShape'  BY <1>1, <2>5 DEF Shape, ExitShape
    <3>5. QED BY <1>1, <2>5, <3>1, <3>2, <3>3, <3>4 DEF Shape
  <2>7. Sound'
    <3> USE <1>1, <2>2, <2>3, <2>4, <2>5, SameKind, DeviceType DEF Shape, HandleShape, CallShape, KernelShape,
        ExitShape, Control
    <3>1. Control'  OBVIOUS
    <3>2. Undoing'  BY DEF Undoing, UpKept, ModeKept, PromiscKept, MonsKept, Kept, Holding
    <3>3. Owning'  BY DEF Owning
    <3>4. Where'  BY DEF Where, Bare
    <3>5. Listing'  BY DEF Listing, Holding, Where
    <3>6. QED BY <3>1, <3>2, <3>3, <3>4, <3>5 DEF Sound
  <2>8. Fits(heap, h.ptr)'
    BY <1>1, <2>2, <2>3, <2>4, <2>5, FitsSame
  <2>9. QED BY <2>6, <2>7, <2>8 DEF Inv
<1>3. CASE /\ pc = "nf_config" /\ pc' = "nf_options"
           /\ UNCHANGED <<dev, h, act, kern, heap, onExit, gaveUp, failed>>
  <2>2. SameHandle  BY <1>1, <1>3, Unchanged
  <2>3. SameCall  BY <1>1, <1>3, Unchanged
  <2>4. SameKernel  BY <1>1, <1>3, Unchanged
  <2>5. pc' = "nf_options" /\ pc = "nf_config" /\ heap' = heap /\ SameWorld  BY <1>1, <1>3
  <2>6. Shape'
    <3>1. HandleShape'  BY <1>1, <2>2 DEF Shape, HandleShape
    <3>2. CallShape'  BY <1>1, <2>3 DEF Shape, CallShape
    <3>3. KernelShape'  BY <1>1, <2>4 DEF Shape, KernelShape
    <3>4. ExitShape'  BY <1>1, <2>5 DEF Shape, ExitShape
    <3>5. QED BY <1>1, <2>5, <3>1, <3>2, <3>3, <3>4 DEF Shape
  <2>7. Sound'
    <3> USE <1>1, <2>2, <2>3, <2>4, <2>5, SameKind, DeviceType DEF Shape, HandleShape, CallShape, KernelShape,
        ExitShape, Control
    <3>1. Control'  OBVIOUS
    <3>2. Undoing'  BY DEF Undoing, UpKept, ModeKept, PromiscKept, MonsKept, Kept, Holding
    <3>3. Owning'  BY DEF Owning
    <3>4. Where'  BY DEF Where, Bare
    <3>5. Listing'  BY DEF Listing, Holding, Where
    <3>6. QED BY <3>1, <3>2, <3>3, <3>4, <3>5 DEF Sound
  <2>8. Fits(heap, h.ptr)'
    BY <1>1, <2>2, <2>3, <2>4, <2>5, FitsSame
  <2>9. QED BY <2>6, <2>7, <2>8 DEF Inv
<1>4. CASE pc = "nf_config" /\ (OwnFails(-1)) /\ UNCHANGED <<dev, h, kern, heap, onExit, gaveUp, failed>>
  <2>2. SameHandle  BY <1>1, <1>4, Unchanged
  <2>3. /\ DOMAIN act' = DOMAIN NoCall /\ act'.sock = act.sock /\ act'.down = act.down /\ act'.ret \in Int
        /\ act'.after = "return" /\ act'.n = act.n
    BY <1>1, <1>4 DEF Shape, CallShape, NoCall, OwnFails, Goto
  <2>4. SameKernel  BY <1>1, <1>4, Unchanged
  <2>5. pc' = "free" /\ pc = "nf_config" /\ heap' = heap /\ SameWorld  BY <1>1, <1>4 DEF OwnFails, Goto
  <2>6. Shape'
    <3>1. HandleShape'  BY <1>1, <2>2 DEF Shape, HandleShape
    <3>2. CallShape'  BY <1>1, <2>3 DEF Shape, CallShape
    <3>3. KernelShape'  BY <1>1, <2>4 DEF Shape, KernelShape
    <3>4. ExitShape'  BY <1>1, <2>5 DEF Shape, ExitShape
    <3>5. QED BY <1>1, <2>5, <3>1, <3>2, <3>3, <3>4 DEF Shape
  <2>7. Sound'
    <3> USE <1>1, <2>2, <2>3, <2>4, <2>5, SameKind, DeviceType DEF Shape, HandleShape, CallShape, KernelShape,
        ExitShape, Control
    <3>1. Control'  OBVIOUS
    <3>2. Undoing'  BY DEF Undoing, UpKept, ModeKept, PromiscKept, MonsKept, Kept, Holding
    <3>3. Owning'  BY DEF Owning
    <3>4. Where'  BY DEF Where, Bare
    <3>5. Listing'  BY DEF Listing, Holding, Where
    <3>6. QED BY <3>1, <3>2, <3>3, <3>4, <3>5 DEF Sound
  <2>8. Fits(heap, h.ptr)'
    BY <1>1, <2>2, <2>3, <2>4, <2>5, FitsSame
  <2>9. QED BY <2>6, <2>7, <2>8 DEF Inv
<1>5. QED BY <1>2, <1>3, <1>4 DEF netfilter_send_config_msg, Goto, Rest, PCAP_ERROR

\* the last options
LEMMA NfOptionsStep ==
    ASSUME Inv, NfOptions
    PROVE  Inv'
<1>1. Shape /\ Control /\ Undoing /\ Owning /\ Where /\ Listing /\ Fits(heap, h.ptr)  BY InvFacts
<1>2. CASE /\ pc = "nf_options" /\ (\E e \in {-6, -1} : OwnFails(e))
           /\ UNCHANGED <<dev, h, kern, heap, onExit, gaveUp, failed>>
  <2>2. SameHandle  BY <1>1, <1>2, Unchanged
  <2>3. /\ DOMAIN act' = DOMAIN NoCall /\ act'.sock = act.sock /\ act'.down = act.down /\ act'.ret \in Int
        /\ act'.after = "return" /\ act'.n = act.n
    BY <1>1, <1>2 DEF Shape, CallShape, NoCall, OwnFails, Goto
  <2>4. SameKernel  BY <1>1, <1>2, Unchanged
  <2>5. pc' = "free" /\ pc = "nf_options" /\ heap' = heap /\ SameWorld  BY <1>1, <1>2 DEF OwnFails, Goto
  <2>6. Shape'
    <3>1. HandleShape'  BY <1>1, <2>2 DEF Shape, HandleShape
    <3>2. CallShape'  BY <1>1, <2>3 DEF Shape, CallShape
    <3>3. KernelShape'  BY <1>1, <2>4 DEF Shape, KernelShape
    <3>4. ExitShape'  BY <1>1, <2>5 DEF Shape, ExitShape
    <3>5. QED BY <1>1, <2>5, <3>1, <3>2, <3>3, <3>4 DEF Shape
  <2>7. Sound'
    <3> USE <1>1, <2>2, <2>3, <2>4, <2>5, SameKind, DeviceType DEF Shape, HandleShape, CallShape, KernelShape,
        ExitShape, Control
    <3>1. Control'  OBVIOUS
    <3>2. Undoing'  BY DEF Undoing, UpKept, ModeKept, PromiscKept, MonsKept, Kept, Holding
    <3>3. Owning'  BY DEF Owning
    <3>4. Where'  BY DEF Where, Bare
    <3>5. Listing'  BY DEF Listing, Holding, Where
    <3>6. QED BY <3>1, <3>2, <3>3, <3>4, <3>5 DEF Sound
  <2>8. Fits(heap, h.ptr)'
    BY <1>1, <2>2, <2>3, <2>4, <2>5, FitsSame
  <2>9. QED BY <2>6, <2>7, <2>8 DEF Inv
<1>3. CASE pc = "nf_options" /\ Back(0) /\ UNCHANGED <<dev, h, kern, heap, onExit, gaveUp, failed>>
  <2>2. SameHandle  BY <1>1, <1>3, Unchanged
  <2>3. /\ DOMAIN act' = DOMAIN NoCall /\ act'.sock = act.sock /\ act'.down = act.down /\ act'.ret = 0
        /\ act'.after = act.after /\ act'.n = act.n
    BY <1>1, <1>3 DEF Shape, CallShape, NoCall, Back, Goto
  <2>4. SameKernel  BY <1>1, <1>3, Unchanged
  <2>5. pc' = "return" /\ pc = "nf_options" /\ heap' = heap /\ SameWorld  BY <1>1, <1>3 DEF Back, Goto
  <2>6. Shape'
    <3>1. HandleShape'  BY <1>1, <2>2 DEF Shape, HandleShape
    <3>2. CallShape'  BY <1>1, <2>3 DEF Shape, CallShape
    <3>3. KernelShape'  BY <1>1, <2>4 DEF Shape, KernelShape
    <3>4. ExitShape'  BY <1>1, <2>5 DEF Shape, ExitShape
    <3>5. QED BY <1>1, <2>5, <3>1, <3>2, <3>3, <3>4 DEF Shape
  <2>7. Sound'
    <3> USE <1>1, <2>2, <2>3, <2>4, <2>5, SameKind, DeviceType DEF Shape, HandleShape, CallShape, KernelShape,
        ExitShape, Control
    <3>1. Control'  OBVIOUS
    <3>2. Undoing'  BY DEF Undoing, UpKept, ModeKept, PromiscKept, MonsKept, Kept, Holding
    <3>3. Owning'  BY DEF Owning
    <3>4. Where'  BY DEF Where, Bare
    <3>5. Listing'  BY DEF Listing, Holding, Where
    <3>6. QED BY <3>1, <3>2, <3>3, <3>4, <3>5 DEF Sound
  <2>8. Fits(heap, h.ptr)'
    BY <1>1, <2>2, <2>3, <2>4, <2>5, FitsSame
  <2>9. QED BY <2>6, <2>7, <2>8 DEF Inv
<1>4. QED BY <1>2, <1>3 DEF NfOptions, Rest, PCAP_ERROR, PCAP_ERROR_RFMON_NOTSUP

----------------------------------------------------------------------------
(* The calls of the program *)

\* the handle that pcap_create() makes
LEMMA CreatedFacts ==
    /\ DOMAIN Created = DOMAIN NoHandle /\ Created.alive = TRUE /\ Created.activated = FALSE
    /\ Created.oldstyle = FALSE /\ Created.must_do = {} /\ Created.next = FALSE /\ Created.oldmode = "none"
    /\ Created.mondev = 0 /\ Created.fd = FALSE /\ Created.closed = FALSE /\ Created.cleanup = "common"
    /\ Created.ptr \subseteq {"source", "tstamp_type_list", "tstamp_precision_list"}
BY DEF Created, pcap_create_common, NoHandle

\* a handle that does not exist
LEMMA NoHandleFacts ==
    /\ NoHandle.alive = FALSE /\ NoHandle.activated = FALSE /\ NoHandle.oldstyle = FALSE /\ NoHandle.must_do = {}
    /\ NoHandle.next = FALSE /\ NoHandle.oldmode = "none" /\ NoHandle.mondev = 0 /\ NoHandle.fd = FALSE
    /\ NoHandle.closed = FALSE /\ NoHandle.cleanup = "common" /\ NoHandle.ptr = {}
BY DEF NoHandle

\* where an activation begins
Begins == {"can", "usb", "netfilter", "activate"}
\* the activate operation of a device is the one of its kind
LEMMA ActivateOpFacts ==
    /\ ActivateOp \in Begins /\ (ActivateOp = "activate" <=> ~Special) /\ (ActivateOp = "usb" <=> usb_create)
<1>1. ~(can_create /\ usb_create) /\ ~(netfilter_create /\ usb_create) /\ ~(netfilter_create /\ can_create)
  BY DEF can_create, usb_create, netfilter_create
<1>2. QED BY <1>1 DEF ActivateOp, Begins, Special
USE DEF Begins

\* a call that only sets an option or returns a status
LEMMA IdleStep ==
    ASSUME Inv, pc = "idle", h.alive, UNCHANGED <<pc, heap>>, SameHandle, SameKernel, SameWorld,
           DOMAIN act' = DOMAIN NoCall, act'.sock = act.sock, act'.down = act.down, act'.after = act.after,
           act'.n = act.n, act'.ret \in Int
    PROVE  Inv'
<1>1. Shape /\ Control /\ Undoing /\ Owning /\ Where /\ Listing /\ Fits(heap, h.ptr)  BY InvFacts
<1>2. SameHandle  OBVIOUS
<1>3. /\ DOMAIN act' = DOMAIN NoCall /\ act'.sock = act.sock /\ act'.down = act.down /\ act'.ret \in Int
      /\ act'.after = act.after /\ act'.n = act.n
  OBVIOUS
<1>4. SameKernel  OBVIOUS
<1>5. pc' = "idle" /\ pc = "idle" /\ h.alive /\ heap' = heap /\ SameWorld  OBVIOUS
<1>6. Shape'
  <2>1. HandleShape'  BY <1>1, <1>2 DEF Shape, HandleShape
  <2>2. CallShape'  BY <1>1, <1>3 DEF Shape, CallShape
  <2>3. KernelShape'  BY <1>1, <1>4 DEF Shape, KernelShape
  <2>4. ExitShape'  BY <1>1, <1>5 DEF Shape, ExitShape
  <2>5. QED BY <1>1, <1>5, <2>1, <2>2, <2>3, <2>4 DEF Shape
<1>7. Sound'
  <2> USE <1>1, <1>2, <1>3, <1>4, <1>5, SameKind, DeviceType DEF Shape, HandleShape, CallShape, KernelShape,
      ExitShape, Control
  <2>1. Control'  OBVIOUS
  <2>2. Undoing'  BY DEF Undoing, UpKept, ModeKept, PromiscKept, MonsKept, Kept, Holding
  <2>3. Owning'  BY DEF Owning
  <2>4. Where'  BY DEF Where, Bare
  <2>5. Listing'  BY DEF Listing, Holding, Where
  <2>6. QED BY <2>1, <2>2, <2>3, <2>4, <2>5 DEF Sound
<1>8. Fits(heap, h.ptr)'
  BY <1>1, <1>2, <1>3, <1>4, <1>5, FitsSame
<1>9. QED BY <1>6, <1>7, <1>8 DEF Inv

\* pcap_set_snaplen() and the like
LEMMA pcap_setStep ==
    ASSUME Inv, NEW o, NEW v, pcap_set(o, v)
    PROVE  Inv'
<1>1. Shape  BY DEF Inv
<1>2. pc = "idle" /\ h.alive /\ UNCHANGED <<pc, heap, kern, dev, onExit, gaveUp, failed>>
  BY DEF pcap_set
<1>3. SameHandle  BY <1>1 DEF pcap_set, Shape, HandleShape, NoHandle
<1>4. \E r \in Int : act' = [act EXCEPT !.ret = r]
  BY DEF pcap_set, PCAP_ERROR_ACTIVATED
<1>5. /\ DOMAIN act' = DOMAIN NoCall /\ act'.sock = act.sock /\ act'.down = act.down /\ act'.after = act.after
      /\ act'.n = act.n /\ act'.ret \in Int
  BY <1>1, <1>4 DEF Shape, CallShape, NoCall
<1>6. SameKernel  BY <1>1, <1>2, Unchanged
<1>7. QED BY <1>2, <1>3, <1>5, <1>6, IdleStep

\* pcap_set_tstamp_type()
LEMMA pcap_set_tstamp_typeStep ==
    ASSUME Inv, NEW t, pcap_set_tstamp_type(t)
    PROVE  Inv'
<1>1. Shape  BY DEF Inv
<1>2. pc = "idle" /\ h.alive /\ UNCHANGED <<pc, heap, kern, dev, onExit, gaveUp, failed>>
  BY DEF pcap_set_tstamp_type
<1>3. SameHandle  BY <1>1 DEF pcap_set_tstamp_type, Shape, HandleShape, NoHandle
<1>4. \E r \in Int : act' = [act EXCEPT !.ret = r]
  BY DEF pcap_set_tstamp_type, PCAP_ERROR_ACTIVATED, PCAP_WARNING_TSTAMP_TYPE_NOTSUP
<1>5. /\ DOMAIN act' = DOMAIN NoCall /\ act'.sock = act.sock /\ act'.down = act.down /\ act'.after = act.after
      /\ act'.n = act.n /\ act'.ret \in Int
  BY <1>1, <1>4 DEF Shape, CallShape, NoCall
<1>6. SameKernel  BY <1>1, <1>2, Unchanged
<1>7. QED BY <1>2, <1>3, <1>5, <1>6, IdleStep

\* pcap_set_tstamp_precision()
LEMMA pcap_set_tstamp_precisionStep ==
    ASSUME Inv, NEW t, pcap_set_tstamp_precision(t)
    PROVE  Inv'
<1>1. Shape  BY DEF Inv
<1>2. pc = "idle" /\ h.alive /\ UNCHANGED <<pc, heap, kern, dev, onExit, gaveUp, failed>>
  BY DEF pcap_set_tstamp_precision
<1>3. SameHandle  BY <1>1 DEF pcap_set_tstamp_precision, Shape, HandleShape, NoHandle
<1>4. \E r \in Int : act' = [act EXCEPT !.ret = r]
  BY DEF pcap_set_tstamp_precision, PCAP_ERROR_ACTIVATED, PCAP_ERROR_TSTAMP_PRECISION_NOTSUP
<1>5. /\ DOMAIN act' = DOMAIN NoCall /\ act'.sock = act.sock /\ act'.down = act.down /\ act'.after = act.after
      /\ act'.n = act.n /\ act'.ret \in Int
  BY <1>1, <1>4 DEF Shape, CallShape, NoCall
<1>6. SameKernel  BY <1>1, <1>2, Unchanged
<1>7. QED BY <1>2, <1>3, <1>5, <1>6, IdleStep

\* pcap_can_set_rfmon()
LEMMA pcap_can_set_rfmon_linuxStep ==
    ASSUME Inv, pcap_can_set_rfmon_linux
    PROVE  Inv'
<1>1. Shape  BY DEF Inv
<1>2. pc = "idle" /\ h.alive /\ UNCHANGED <<pc, heap, kern, dev, onExit, gaveUp, failed>>
  BY DEF pcap_can_set_rfmon_linux
<1>3. SameHandle  BY <1>1 DEF pcap_can_set_rfmon_linux, Shape, HandleShape, NoHandle
<1>4. \E r \in Int : act' = [act EXCEPT !.ret = r]
  BY DEF pcap_can_set_rfmon_linux, PCAP_ERROR, PCAP_ERROR_NO_SUCH_DEVICE
<1>5. /\ DOMAIN act' = DOMAIN NoCall /\ act'.sock = act.sock /\ act'.down = act.down /\ act'.after = act.after
      /\ act'.n = act.n /\ act'.ret \in Int
  BY <1>1, <1>4 DEF Shape, CallShape, NoCall
<1>6. SameKernel  BY <1>1, <1>2, Unchanged
<1>7. QED BY <1>2, <1>3, <1>5, <1>6, IdleStep

\* pcap_create()
LEMMA pcap_createStep ==
    ASSUME Inv, pcap_create
    PROVE  Inv'
<1>1. Shape /\ Control /\ Undoing /\ Owning /\ Where /\ Listing /\ Fits(heap, h.ptr)  BY InvFacts
<1>2. CASE /\ pc = "idle" /\ ~h.alive /\ h' = Created
           /\ heap' = [p \in Pointers |-> IF p \in h'.ptr THEN heap[p] + 1 ELSE heap[p]]
           /\ act' = [act EXCEPT !.ret = 0] /\ UNCHANGED <<dev, pc, kern, onExit, gaveUp, failed>>
  <2>2. /\ DOMAIN h' = DOMAIN NoHandle /\ h'.alive = TRUE /\ h'.activated = FALSE /\ h'.oldstyle = FALSE
        /\ h'.must_do = {} /\ h'.next = FALSE /\ h'.oldmode = "none" /\ h'.mondev = 0 /\ h'.fd = FALSE
        /\ h'.closed = FALSE /\ h'.cleanup = "common" /\ h'.ptr = Created.ptr
    BY <1>2, CreatedFacts
  <2>3. /\ DOMAIN act' = DOMAIN NoCall /\ act'.sock = act.sock /\ act'.down = act.down /\ act'.ret = 0
        /\ act'.after = act.after /\ act'.n = act.n
    BY <1>1, <1>2 DEF Shape, CallShape, NoCall
  <2>4. SameKernel  BY <1>1, <1>2, Unchanged
  <2>5. /\ pc' = "idle" /\ pc = "idle" /\ ~h.alive
        /\ heap' = [p \in Pointers |-> IF p \in h'.ptr THEN heap[p] + 1 ELSE heap[p]] /\ SameWorld
    BY <1>1, <1>2
  <2>6. Shape'
    <3>1. HandleShape'  BY <1>1, <2>2 DEF Shape, HandleShape
    <3>2. CallShape'  BY <1>1, <2>3 DEF Shape, CallShape
    <3>3. KernelShape'  BY <1>1, <2>4 DEF Shape, KernelShape
    <3>4. ExitShape'  BY <1>1, <2>5 DEF Shape, ExitShape
    <3>5. QED BY <1>1, <2>5, <3>1, <3>2, <3>3, <3>4 DEF Shape
  <2>7. Sound'
    <3> USE <1>1, <2>2, <2>3, <2>4, <2>5, SameKind, DeviceType DEF Shape, HandleShape, CallShape, KernelShape,
        ExitShape, Control
    <3>1. Control'  OBVIOUS
    <3>2. Undoing'  BY DEF Undoing, UpKept, ModeKept, PromiscKept, MonsKept, Kept, Holding
    <3>3. Owning'  BY DEF Owning
    <3>4. Where'
      BY <1>1, <2>2, <2>3, <2>4, <2>5, SameKind, CreatedFacts DEF Where, Bare, Control, Shape
    <3>5. Listing'  BY DEF Listing, Holding, Where
    <3>6. QED BY <3>1, <3>2, <3>3, <3>4, <3>5 DEF Sound
  <2>8. Fits(heap, h.ptr)'
    <3>1. h.ptr = {}  BY <1>1, <2>2, <2>3, <2>4, <2>5 DEF Where
    <3>2. h'.ptr \subseteq Pointers  BY <2>2, <2>3, <2>4, <2>5, CreatedFacts DEF Pointers
    <3>3. Fits([p \in Pointers |-> IF p \in h'.ptr THEN heap[p] + 1 ELSE heap[p]], h.ptr \cup h'.ptr)
      <5>1. h'.ptr \cap h.ptr \subseteq Lossy  BY <3>1
      <5>2. QED BY <1>1, <3>2, <5>1, FitsAdd
    <3>4. h.ptr \cup h'.ptr = h'.ptr  BY <3>1
    <3>5. QED BY <2>2, <2>3, <2>4, <2>5, <3>3, <3>4
  <2>9. QED BY <2>6, <2>7, <2>8 DEF Inv
<1>3. CASE /\ pc = "idle" /\ ~h.alive /\ h' = NoHandle /\ UNCHANGED heap /\ act' = [act EXCEPT !.ret = 0]
           /\ UNCHANGED <<dev, pc, kern, onExit, gaveUp, failed>>
  <2>2. /\ DOMAIN h' = DOMAIN NoHandle /\ h'.alive = FALSE /\ h'.activated = FALSE /\ h'.oldstyle = FALSE
        /\ h'.must_do = {} /\ h'.next = FALSE /\ h'.oldmode = "none" /\ h'.mondev = 0 /\ h'.fd = FALSE
        /\ h'.closed = FALSE /\ h'.cleanup = "common" /\ h'.ptr = {}
    BY <1>3, NoHandleFacts
  <2>3. /\ DOMAIN act' = DOMAIN NoCall /\ act'.sock = act.sock /\ act'.down = act.down /\ act'.ret = 0
        /\ act'.after = act.after /\ act'.n = act.n
    BY <1>1, <1>3 DEF Shape, CallShape, NoCall
  <2>4. SameKernel  BY <1>1, <1>3, Unchanged
  <2>5. pc' = "idle" /\ pc = "idle" /\ ~h.alive /\ heap' = heap /\ SameWorld  BY <1>1, <1>3
  <2>6. Shape'
    <3>1. HandleShape'  BY <1>1, <2>2 DEF Shape, HandleShape
    <3>2. CallShape'  BY <1>1, <2>3 DEF Shape, CallShape
    <3>3. KernelShape'  BY <1>1, <2>4 DEF Shape, KernelShape
    <3>4. ExitShape'  BY <1>1, <2>5 DEF Shape, ExitShape
    <3>5. QED BY <1>1, <2>5, <3>1, <3>2, <3>3, <3>4 DEF Shape
  <2>7. Sound'
    <3> USE <1>1, <2>2, <2>3, <2>4, <2>5, SameKind, DeviceType DEF Shape, HandleShape, CallShape, KernelShape,
        ExitShape, Control
    <3>1. Control'  OBVIOUS
    <3>2. Undoing'  BY DEF Undoing, UpKept, ModeKept, PromiscKept, MonsKept, Kept, Holding
    <3>3. Owning'  BY DEF Owning
    <3>4. Where'  BY DEF Where, Bare
    <3>5. Listing'  BY DEF Listing, Holding, Where
    <3>6. QED BY <3>1, <3>2, <3>3, <3>4, <3>5 DEF Sound
  <2>8. Fits(heap, h.ptr)'
    BY <1>1, <2>2, <2>3, <2>4, <2>5 DEF Where
  <2>9. QED BY <2>6, <2>7, <2>8 DEF Inv
<1>4. CASE /\ pc = "idle" /\ ~h.alive /\ h' = NoHandle /\ Malloc("source") /\ act' = [act EXCEPT !.ret = 0]
           /\ UNCHANGED <<dev, pc, kern, onExit, gaveUp, failed>>
  <2>2. /\ DOMAIN h' = DOMAIN NoHandle /\ h'.alive = FALSE /\ h'.activated = FALSE /\ h'.oldstyle = FALSE
        /\ h'.must_do = {} /\ h'.next = FALSE /\ h'.oldmode = "none" /\ h'.mondev = 0 /\ h'.fd = FALSE
        /\ h'.closed = FALSE /\ h'.cleanup = "common" /\ h'.ptr = {}
    BY <1>4, NoHandleFacts
  <2>3. /\ DOMAIN act' = DOMAIN NoCall /\ act'.sock = act.sock /\ act'.down = act.down /\ act'.ret = 0
        /\ act'.after = act.after /\ act'.n = act.n
    BY <1>1, <1>4 DEF Shape, CallShape, NoCall
  <2>4. SameKernel  BY <1>1, <1>4, Unchanged
  <2>5. pc' = "idle" /\ pc = "idle" /\ ~h.alive /\ Malloc("source") /\ SameWorld  BY <1>1, <1>4
  <2>6. Shape'
    <3>1. HandleShape'  BY <1>1, <2>2 DEF Shape, HandleShape
    <3>2. CallShape'  BY <1>1, <2>3 DEF Shape, CallShape
    <3>3. KernelShape'  BY <1>1, <2>4 DEF Shape, KernelShape
    <3>4. ExitShape'  BY <1>1, <2>5 DEF Shape, ExitShape
    <3>5. QED BY <1>1, <2>5, <3>1, <3>2, <3>3, <3>4 DEF Shape
  <2>7. Sound'
    <3> USE <1>1, <2>2, <2>3, <2>4, <2>5, SameKind, DeviceType DEF Shape, HandleShape, CallShape, KernelShape,
        ExitShape, Control
    <3>1. Control'  OBVIOUS
    <3>2. Undoing'  BY DEF Undoing, UpKept, ModeKept, PromiscKept, MonsKept, Kept, Holding
    <3>3. Owning'  BY DEF Owning
    <3>4. Where'  BY DEF Where, Bare
    <3>5. Listing'  BY DEF Listing, Holding, Where
    <3>6. QED BY <3>1, <3>2, <3>3, <3>4, <3>5 DEF Sound
  <2>8. Fits(heap, h.ptr)'
    BY <1>1, <2>2, <2>3, <2>4, <2>5 DEF Where, Fits, Malloc, Lossy, Pointers
  <2>9. QED BY <2>6, <2>7, <2>8 DEF Inv
<1>5. QED BY <1>2, <1>3, <1>4 DEF pcap_create

\* pcap_activate()
LEMMA pcap_activateStep ==
    ASSUME Inv, pcap_activate
    PROVE  Inv'
<1>1. Shape /\ Control /\ Undoing /\ Owning /\ Where /\ Listing /\ Fits(heap, h.ptr)  BY InvFacts
<1>2. CASE h.activated
  <2>2. /\ pc = "idle" /\ h.alive /\ act' = [act EXCEPT !.ret = -4]
        /\ UNCHANGED <<dev, pc, h, kern, heap, onExit, gaveUp, failed>>
    BY <1>1, <1>2 DEF pcap_activate, PCAP_ERROR_ACTIVATED
  <2>3. SameHandle  BY <1>1, <2>2, Unchanged
  <2>4. /\ DOMAIN act' = DOMAIN NoCall /\ act'.sock = act.sock /\ act'.down = act.down /\ act'.ret = -4
        /\ act'.after = act.after /\ act'.n = act.n
    BY <1>1, <2>2 DEF Shape, CallShape, NoCall
  <2>5. SameKernel  BY <1>1, <2>2, Unchanged
  <2>6. pc' = "idle" /\ pc = "idle" /\ h.alive /\ heap' = heap /\ SameWorld  BY <1>1, <2>2
  <2>7. QED BY <1>1, <2>3, <2>4, <2>5, <2>6, IdleStep
<1>3. CASE ~h.activated
  <2>2. /\ pc = "idle" /\ h.alive /\ pc' = ActivateOp
        /\ UNCHANGED <<dev, h, act, kern, heap, onExit, gaveUp, failed>>
    BY <1>1, <1>3 DEF pcap_activate, Goto
  <2>3. SameHandle  BY <1>1, <2>2, Unchanged
  <2>4. SameCall  BY <1>1, <2>2, Unchanged
  <2>5. SameKernel  BY <1>1, <2>2, Unchanged
  <2>6. /\ pc' \in Begins /\ (pc' = "activate" <=> ~Special) /\ (pc' = "usb" <=> usb_create) /\ pc = "idle"
        /\ h.alive /\ ~h.activated /\ heap' = heap /\ SameWorld
    BY <1>3, <2>2, ActivateOpFacts
  <2>7. Shape'
    <3>1. HandleShape'  BY <1>1, <2>3 DEF Shape, HandleShape
    <3>2. CallShape'  BY <1>1, <2>4 DEF Shape, CallShape
    <3>3. KernelShape'  BY <1>1, <2>5 DEF Shape, KernelShape
    <3>4. ExitShape'  BY <1>1, <2>6 DEF Shape, ExitShape
    <3>5. QED BY <1>1, <2>6, <3>1, <3>2, <3>3, <3>4 DEF Shape
  <2>8. Sound'
    <3> USE <1>1, <2>3, <2>4, <2>5, <2>6, SameKind, DeviceType DEF Shape, HandleShape, CallShape, KernelShape,
        ExitShape, Control
    <3>1. Control'  OBVIOUS
    <3>2. Undoing'  BY DEF Undoing, UpKept, ModeKept, PromiscKept, MonsKept, Kept, Holding
    <3>3. Owning'  BY DEF Owning
    <3>4. Where'  BY DEF Where, Bare
    <3>5. Listing'  BY DEF Listing, Holding, Where
    <3>6. QED BY <3>1, <3>2, <3>3, <3>4, <3>5 DEF Sound
  <2>9. Fits(heap, h.ptr)'
    BY <1>1, <2>3, <2>4, <2>5, <2>6, FitsSame
  <2>10. QED BY <2>7, <2>8, <2>9 DEF Inv
<1>4. QED BY <1>2, <1>3

\* pcap_open_live() makes a handle and activates it
LEMMA pcap_open_liveStep ==
    ASSUME Inv, NEW n, NEW b, NEW t, pcap_open_live(n, b, t)
    PROVE  Inv'
<1>1. Shape /\ Control /\ Undoing /\ Owning /\ Where /\ Listing /\ Fits(heap, h.ptr)  BY InvFacts
<1>2. /\ pc = "idle" /\ ~h.alive
      /\ h' = [Created EXCEPT !.oldstyle = TRUE, !.opt.snapshot = n, !.opt.promisc = b, !.opt.timeout = t]
      /\ pc' = ActivateOp /\ heap' = [p \in Pointers |-> IF p \in h'.ptr THEN heap[p] + 1 ELSE heap[p]]
      /\ UNCHANGED <<dev, act, kern, onExit, gaveUp, failed>>
  BY <1>1 DEF pcap_open_live, Goto
<1>3. /\ DOMAIN h' = DOMAIN NoHandle /\ h'.alive = TRUE /\ h'.activated = FALSE /\ h'.oldstyle = TRUE
      /\ h'.must_do = {} /\ h'.next = FALSE /\ h'.oldmode = "none" /\ h'.mondev = 0 /\ h'.fd = FALSE
      /\ h'.closed = FALSE /\ h'.cleanup = "common" /\ h'.ptr = Created.ptr
  BY <1>2, CreatedFacts DEF NoHandle
<1>4. SameCall  BY <1>1, <1>2, Unchanged
<1>5. SameKernel  BY <1>1, <1>2, Unchanged
<1>6. /\ pc' \in Begins /\ (pc' = "activate" <=> ~Special) /\ (pc' = "usb" <=> usb_create) /\ pc = "idle"
      /\ ~h.alive /\ heap' = [p \in Pointers |-> IF p \in h'.ptr THEN heap[p] + 1 ELSE heap[p]] /\ SameWorld
  BY <1>2, ActivateOpFacts
<1>7. Shape'
  <2>1. HandleShape'  BY <1>1, <1>3 DEF Shape, HandleShape
  <2>2. CallShape'  BY <1>1, <1>4 DEF Shape, CallShape
  <2>3. KernelShape'  BY <1>1, <1>5 DEF Shape, KernelShape
  <2>4. ExitShape'  BY <1>1, <1>6 DEF Shape, ExitShape
  <2>5. QED BY <1>1, <1>6, <2>1, <2>2, <2>3, <2>4 DEF Shape
<1>8. Sound'
  <2> USE <1>1, <1>3, <1>4, <1>5, <1>6, SameKind, DeviceType DEF Shape, HandleShape, CallShape, KernelShape,
      ExitShape, Control
  <2>1. Control'  OBVIOUS
  <2>2. Undoing'  BY DEF Undoing, UpKept, ModeKept, PromiscKept, MonsKept, Kept, Holding
  <2>3. Owning'  BY DEF Owning
  <2>4. Where'
    BY <1>1, <1>3, <1>4, <1>5, <1>6, SameKind, CreatedFacts DEF Where, Bare, Control, Shape
  <2>5. Listing'  BY DEF Listing, Holding, Where
  <2>6. QED BY <2>1, <2>2, <2>3, <2>4, <2>5 DEF Sound
<1>9. Fits(heap, h.ptr)'
  <2>1. h.ptr = {}  BY <1>1, <1>3, <1>4, <1>5, <1>6 DEF Where
  <2>2. h'.ptr \subseteq Pointers  BY <1>3, <1>4, <1>5, <1>6, CreatedFacts DEF Pointers
  <2>3. Fits([p \in Pointers |-> IF p \in h'.ptr THEN heap[p] + 1 ELSE heap[p]], h.ptr \cup h'.ptr)
    <5>1. h'.ptr \cap h.ptr \subseteq Lossy  BY <2>1
    <5>2. QED BY <1>1, <2>2, <5>1, FitsAdd
  <2>4. h.ptr \cup h'.ptr = h'.ptr  BY <2>1
  <2>5. QED BY <1>3, <1>4, <1>5, <1>6, <2>3, <2>4
<1>10. QED BY <1>7, <1>8, <1>9 DEF Inv

\* pcap_close()
LEMMA pcap_closeStep ==
    ASSUME Inv, pcap_close
    PROVE  Inv'
<1>1. Shape /\ Control /\ Undoing /\ Owning /\ Where /\ Listing /\ Fits(heap, h.ptr)  BY InvFacts
<1>2. /\ pc = "idle" /\ h.alive /\ pc' = "close" /\ act' = [act EXCEPT !.after = "free"]
      /\ UNCHANGED <<dev, h, kern, heap, onExit, gaveUp, failed>>
  BY <1>1 DEF pcap_close, Goto
<1>3. SameHandle  BY <1>1, <1>2, Unchanged
<1>4. /\ DOMAIN act' = DOMAIN NoCall /\ act'.sock = act.sock /\ act'.down = act.down /\ act'.ret = act.ret
      /\ act'.after = "free" /\ act'.n = act.n
  BY <1>1, <1>2 DEF Shape, CallShape, NoCall
<1>5. SameKernel  BY <1>1, <1>2, Unchanged
<1>6. pc' = "close" /\ pc = "idle" /\ h.alive /\ heap' = heap /\ SameWorld  BY <1>1, <1>2
<1>7. Shape'
  <2>1. HandleShape'  BY <1>1, <1>3 DEF Shape, HandleShape
  <2>2. CallShape'  BY <1>1, <1>4 DEF Shape, CallShape
  <2>3. KernelShape'  BY <1>1, <1>5 DEF Shape, KernelShape
  <2>4. ExitShape'  BY <1>1, <1>6 DEF Shape, ExitShape
  <2>5. QED BY <1>1, <1>6, <2>1, <2>2, <2>3, <2>4 DEF Shape
<1>8. Sound'
  <2> USE <1>1, <1>3, <1>4, <1>5, <1>6, SameKind, DeviceType DEF Shape, HandleShape, CallShape, KernelShape,
      ExitShape, Control
  <2>1. Control'  OBVIOUS
  <2>2. Undoing'  BY DEF Undoing, UpKept, ModeKept, PromiscKept, MonsKept, Kept, Holding
  <2>3. Owning'  BY DEF Owning
  <2>4. Where'  BY DEF Where, Bare
  <2>5. Listing'  BY DEF Listing, Holding, Where
  <2>6. QED BY <2>1, <2>2, <2>3, <2>4, <2>5 DEF Sound
<1>9. Fits(heap, h.ptr)'
  BY <1>1, <1>3, <1>4, <1>5, <1>6, FitsSame
<1>10. QED BY <1>7, <1>8, <1>9 DEF Inv

\* pcap_close_all(), when the process exits
LEMMA pcap_close_allStep ==
    ASSUME Inv, pcap_close_all
    PROVE  Inv'
<1>1. Shape /\ Control /\ Undoing /\ Owning /\ Where /\ Listing /\ Fits(heap, h.ptr)  BY InvFacts
<1>2. CASE onExit.registered /\ onExit.head /\ h.alive
  <2>2. /\ pc = "idle" /\ pc' = "close" /\ act' = [act EXCEPT !.after = "exit"]
        /\ UNCHANGED <<dev, h, kern, heap, onExit, gaveUp, failed>>
    BY <1>1, <1>2 DEF pcap_close_all, Goto
  <2>3. SameHandle  BY <1>1, <2>2, Unchanged
  <2>4. /\ DOMAIN act' = DOMAIN NoCall /\ act'.sock = act.sock /\ act'.down = act.down /\ act'.ret = act.ret
        /\ act'.after = "exit" /\ act'.n = act.n
    BY <1>1, <2>2 DEF Shape, CallShape, NoCall
  <2>5. SameKernel  BY <1>1, <2>2, Unchanged
  <2>6. pc' = "close" /\ pc = "idle" /\ h.alive /\ heap' = heap /\ SameWorld  BY <1>2, <2>2
  <2>7. Shape'
    <3>1. HandleShape'  BY <1>1, <2>3 DEF Shape, HandleShape
    <3>2. CallShape'  BY <1>1, <2>4 DEF Shape, CallShape
    <3>3. KernelShape'  BY <1>1, <2>5 DEF Shape, KernelShape
    <3>4. ExitShape'  BY <1>1, <2>6 DEF Shape, ExitShape
    <3>5. QED BY <1>1, <2>6, <3>1, <3>2, <3>3, <3>4 DEF Shape
  <2>8. Sound'
    <3> USE <1>1, <2>3, <2>4, <2>5, <2>6, SameKind, DeviceType DEF Shape, HandleShape, CallShape, KernelShape,
        ExitShape, Control
    <3>1. Control'  OBVIOUS
    <3>2. Undoing'  BY DEF Undoing, UpKept, ModeKept, PromiscKept, MonsKept, Kept, Holding
    <3>3. Owning'  BY DEF Owning
    <3>4. Where'  BY DEF Where, Bare
    <3>5. Listing'  BY DEF Listing, Holding, Where
    <3>6. QED BY <3>1, <3>2, <3>3, <3>4, <3>5 DEF Sound
  <2>9. Fits(heap, h.ptr)'
    BY <1>1, <2>3, <2>4, <2>5, <2>6, FitsSame
  <2>10. QED BY <2>7, <2>8, <2>9 DEF Inv
<1>3. CASE onExit.registered /\ onExit.head /\ ~h.alive
  <2>2. /\ pc = "idle" /\ pc' = "crash" /\ act' = [act EXCEPT !.after = "exit"]
        /\ UNCHANGED <<dev, h, kern, heap, onExit, gaveUp, failed>>
    BY <1>1, <1>3 DEF pcap_close_all, Goto
  <2>3. SameHandle  BY <1>1, <2>2, Unchanged
  <2>4. /\ DOMAIN act' = DOMAIN NoCall /\ act'.sock = act.sock /\ act'.down = act.down /\ act'.ret = act.ret
        /\ act'.after = "exit" /\ act'.n = act.n
    BY <1>1, <2>2 DEF Shape, CallShape, NoCall
  <2>5. SameKernel  BY <1>1, <2>2, Unchanged
  <2>6. pc' = "crash" /\ pc = "idle" /\ onExit.head /\ ~h.alive /\ heap' = heap /\ SameWorld  BY <1>3, <2>2
  <2>7. Shape'
    <3>1. HandleShape'  BY <1>1, <2>3 DEF Shape, HandleShape
    <3>2. CallShape'  BY <1>1, <2>4 DEF Shape, CallShape
    <3>3. KernelShape'  BY <1>1, <2>5 DEF Shape, KernelShape
    <3>4. ExitShape'  BY <1>1, <2>6 DEF Shape, ExitShape
    <3>5. QED BY <1>1, <2>6, <3>1, <3>2, <3>3, <3>4 DEF Shape
  <2>8. Sound'
    <3> USE <1>1, <2>3, <2>4, <2>5, <2>6, SameKind, DeviceType DEF Shape, HandleShape, CallShape, KernelShape,
        ExitShape, Control
    <3>1. Control'  OBVIOUS
    <3>2. Undoing'  BY DEF Undoing, UpKept, ModeKept, PromiscKept, MonsKept, Kept, Holding
    <3>3. Owning'  BY DEF Owning
    <3>4. Where'  BY DEF Where, Bare
    <3>5. Listing'  BY DEF Listing, Holding, Where
    <3>6. QED BY <3>1, <3>2, <3>3, <3>4, <3>5 DEF Sound
  <2>9. Fits(heap, h.ptr)'
    BY <1>1, <2>3, <2>4, <2>5, <2>6, FitsSame
  <2>10. QED BY <2>7, <2>8, <2>9 DEF Inv
<1>4. CASE ~(onExit.registered /\ onExit.head)
  <2>2. /\ pc = "idle" /\ pc' = "exited" /\ UNCHANGED act
        /\ UNCHANGED <<dev, h, kern, heap, onExit, gaveUp, failed>>
    BY <1>1, <1>4 DEF pcap_close_all, Goto
  <2>3. SameHandle  BY <1>1, <2>2, Unchanged
  <2>4. SameCall  BY <1>1, <2>2, Unchanged
  <2>5. SameKernel  BY <1>1, <2>2, Unchanged
  <2>6. pc' = "exited" /\ pc = "idle" /\ ~(onExit.registered /\ onExit.head) /\ heap' = heap /\ SameWorld
    BY <1>4, <2>2
  <2>7. Shape'
    <3>1. HandleShape'  BY <1>1, <2>3 DEF Shape, HandleShape
    <3>2. CallShape'  BY <1>1, <2>4 DEF Shape, CallShape
    <3>3. KernelShape'  BY <1>1, <2>5 DEF Shape, KernelShape
    <3>4. ExitShape'  BY <1>1, <2>6 DEF Shape, ExitShape
    <3>5. QED BY <1>1, <2>6, <3>1, <3>2, <3>3, <3>4 DEF Shape
  <2>8. Sound'
    <3> USE <1>1, <2>3, <2>4, <2>5, <2>6, SameKind, DeviceType DEF Shape, HandleShape, CallShape, KernelShape,
        ExitShape, Control
    <3>1. Control'  OBVIOUS
    <3>2. Undoing'  BY DEF Undoing, UpKept, ModeKept, PromiscKept, MonsKept, Kept, Holding
    <3>3. Owning'  BY DEF Owning
    <3>4. Where'  BY DEF Where, Bare
    <3>5. Listing'  BY DEF Listing, Holding, Where
    <3>6. QED BY <3>1, <3>2, <3>3, <3>4, <3>5 DEF Sound
  <2>9. Fits(heap, h.ptr)'
    BY <1>1, <2>3, <2>4, <2>5, <2>6, FitsSame
  <2>10. QED BY <2>7, <2>8, <2>9 DEF Inv
<1>5. QED BY <1>2, <1>3, <1>4

----------------------------------------------------------------------------
(* Closing *)

\* pcap_close() frees the source and begins the clean-up
LEMMA CloseStep ==
    ASSUME Inv, Close
    PROVE  Inv'
<1>1. Shape /\ Control /\ Undoing /\ Owning /\ Where /\ Listing /\ Fits(heap, h.ptr)  BY InvFacts
<1>2. CASE h.cleanup = "mmap"
  <2>2. /\ pc = "close" /\ pc' = "cleanup" /\ heap' = Freed(heap, {"source", "oneshot_buffer"} \cap h.ptr)
        /\ h' = [h EXCEPT !.ptr = @ \ {"source", "oneshot_buffer"}] /\ kern' = CleanedUp(kern)
        /\ UNCHANGED <<dev, act, onExit, gaveUp, failed>>
    BY <1>1, <1>2 DEF Close, Goto
  <2>3. /\ SameLife /\ SameUndo /\ SameFd /\ h'.cleanup = h.cleanup
        /\ h'.ptr = h.ptr \ {"source", "oneshot_buffer"}
    BY <1>1, <2>2 DEF Shape, HandleShape, NoHandle
  <2>4. SameCall  BY <1>1, <2>2, Unchanged
  <2>5. SameInterface /\ kern'.fds = kern.fds /\ kern'.nl = kern.nl /\ kern'.mapped = FALSE
    BY <1>1, <1>2, <2>2 DEF CleanedUp, destroy_ring, Shape, KernelShape, KernelFields, Owning, Control
  <2>6. pc' = "cleanup" /\ pc = "close" /\ h.cleanup = "mmap" /\ SameWorld  BY <1>2, <2>2
  <2>7. Shape'
    <3>1. HandleShape'  BY <1>1, <2>3 DEF Shape, HandleShape
    <3>2. CallShape'  BY <1>1, <2>4 DEF Shape, CallShape
    <3>3. KernelShape'  BY <1>1, <2>5 DEF Shape, KernelShape
    <3>4. ExitShape'  BY <1>1, <2>6 DEF Shape, ExitShape
    <3>5. QED BY <1>1, <2>6, <3>1, <3>2, <3>3, <3>4 DEF Shape
  <2>8. Sound'
    <3> USE <1>1, <2>3, <2>4, <2>5, <2>6, SameKind, DeviceType DEF Shape, HandleShape, CallShape, KernelShape,
        ExitShape, Control
    <3>1. Control'  OBVIOUS
    <3>2. Undoing'  BY DEF Undoing, UpKept, ModeKept, PromiscKept, MonsKept, Kept, Holding
    <3>3. Owning'  BY DEF Owning
    <3>4. Where'  BY DEF Where, Bare
    <3>5. Listing'  BY DEF Listing, Holding, Where
    <3>6. QED BY <3>1, <3>2, <3>3, <3>4, <3>5 DEF Sound
  <2>9. Fits(heap, h.ptr)'
    <3>1. ({"source", "oneshot_buffer"} \cap h.ptr) \subseteq h.ptr  OBVIOUS
    <3>2. Fits(Freed(heap, {"source", "oneshot_buffer"} \cap h.ptr),
              h.ptr \ ({"source", "oneshot_buffer"} \cap h.ptr))
      BY <1>1, <3>1, FitsFreed
    <3>3. h.ptr \ ({"source", "oneshot_buffer"} \cap h.ptr) = h.ptr \ {"source", "oneshot_buffer"}  OBVIOUS
    <3>4. QED BY <2>2, <2>3, <2>4, <2>5, <2>6, <3>2, <3>3
  <2>10. QED BY <2>7, <2>8, <2>9 DEF Inv
<1>3. CASE h.cleanup = "linux"
  <2>2. /\ pc = "close" /\ pc' = "cleanup" /\ heap' = Freed(heap, {"source"} \cap h.ptr)
        /\ h' = [h EXCEPT !.ptr = @ \ {"source"}] /\ kern' = CleanedUp(kern)
        /\ UNCHANGED <<dev, act, onExit, gaveUp, failed>>
    BY <1>1, <1>3 DEF Close, Goto
  <2>3. SameLife /\ SameUndo /\ SameFd /\ h'.cleanup = h.cleanup /\ h'.ptr = h.ptr \ {"source"}
    BY <1>1, <2>2 DEF Shape, HandleShape, NoHandle
  <2>4. SameCall  BY <1>1, <2>2, Unchanged
  <2>5. SameInterface /\ kern'.fds = kern.fds /\ kern'.nl = kern.nl /\ kern'.mapped = FALSE
    BY <1>1, <1>3, <2>2 DEF CleanedUp, destroy_ring, Shape, KernelShape, KernelFields, Owning, Control
  <2>6. pc' = "cleanup" /\ pc = "close" /\ h.cleanup = "linux" /\ SameWorld  BY <1>3, <2>2
  <2>7. Shape'
    <3>1. HandleShape'  BY <1>1, <2>3 DEF Shape, HandleShape
    <3>2. CallShape'  BY <1>1, <2>4 DEF Shape, CallShape
    <3>3. KernelShape'  BY <1>1, <2>5 DEF Shape, KernelShape
    <3>4. ExitShape'  BY <1>1, <2>6 DEF Shape, ExitShape
    <3>5. QED BY <1>1, <2>6, <3>1, <3>2, <3>3, <3>4 DEF Shape
  <2>8. Sound'
    <3> USE <1>1, <2>3, <2>4, <2>5, <2>6, SameKind, DeviceType DEF Shape, HandleShape, CallShape, KernelShape,
        ExitShape, Control
    <3>1. Control'  OBVIOUS
    <3>2. Undoing'  BY DEF Undoing, UpKept, ModeKept, PromiscKept, MonsKept, Kept, Holding
    <3>3. Owning'  BY DEF Owning
    <3>4. Where'  BY DEF Where, Bare
    <3>5. Listing'  BY DEF Listing, Holding, Where
    <3>6. QED BY <3>1, <3>2, <3>3, <3>4, <3>5 DEF Sound
  <2>9. Fits(heap, h.ptr)'
    <3>1. ({"source"} \cap h.ptr) \subseteq h.ptr  OBVIOUS
    <3>2. Fits(Freed(heap, {"source"} \cap h.ptr), h.ptr \ ({"source"} \cap h.ptr))  BY <1>1, <3>1, FitsFreed
    <3>3. h.ptr \ ({"source"} \cap h.ptr) = h.ptr \ {"source"}  OBVIOUS
    <3>4. QED BY <2>2, <2>3, <2>4, <2>5, <2>6, <3>2, <3>3
  <2>10. QED BY <2>7, <2>8, <2>9 DEF Inv
<1>4. CASE h.cleanup \in {"common", "usb"}
  <2>2. /\ pc = "close" /\ pc' = "free" /\ heap' = Freed(heap, {"source"} \cap h.ptr)
        /\ h' = [h EXCEPT !.ptr = @ \ {"source"}] /\ kern' = CleanedUp(kern)
        /\ UNCHANGED <<dev, act, onExit, gaveUp, failed>>
    BY <1>1, <1>4 DEF Close, Goto
  <2>3. SameLife /\ SameUndo /\ SameFd /\ h'.cleanup = h.cleanup /\ h'.ptr = h.ptr \ {"source"}
    BY <1>1, <2>2 DEF Shape, HandleShape, NoHandle
  <2>4. SameCall  BY <1>1, <2>2, Unchanged
  <2>5. SameInterface /\ kern'.fds = kern.fds /\ kern'.nl = kern.nl /\ kern'.mapped = FALSE
    BY <1>1, <1>4, <2>2 DEF CleanedUp, destroy_ring, Shape, KernelShape, KernelFields, Owning, Control
  <2>6. pc' = "free" /\ pc = "close" /\ h.cleanup \in {"common", "usb"} /\ SameWorld  BY <1>4, <2>2
  <2>7. Shape'
    <3>1. HandleShape'  BY <1>1, <2>3 DEF Shape, HandleShape
    <3>2. CallShape'  BY <1>1, <2>4 DEF Shape, CallShape
    <3>3. KernelShape'  BY <1>1, <2>5 DEF Shape, KernelShape
    <3>4. ExitShape'  BY <1>1, <2>6 DEF Shape, ExitShape
    <3>5. QED BY <1>1, <2>6, <3>1, <3>2, <3>3, <3>4 DEF Shape
  <2>8. Sound'
    <3> USE <1>1, <2>3, <2>4, <2>5, <2>6, SameKind, DeviceType DEF Shape, HandleShape, CallShape, KernelShape,
        ExitShape, Control
    <3>1. Control'  OBVIOUS
    <3>2. Undoing'  BY DEF Undoing, UpKept, ModeKept, PromiscKept, MonsKept, Kept, Holding
    <3>3. Owning'  BY DEF Owning
    <3>4. Where'  BY DEF Where, Bare
    <3>5. Listing'  BY DEF Listing, Holding, Where
    <3>6. QED BY <3>1, <3>2, <3>3, <3>4, <3>5 DEF Sound
  <2>9. Fits(heap, h.ptr)'
    <3>1. ({"source"} \cap h.ptr) \subseteq h.ptr  OBVIOUS
    <3>2. Fits(Freed(heap, {"source"} \cap h.ptr), h.ptr \ ({"source"} \cap h.ptr))  BY <1>1, <3>1, FitsFreed
    <3>3. h.ptr \ ({"source"} \cap h.ptr) = h.ptr \ {"source"}  OBVIOUS
    <3>4. QED BY <2>2, <2>3, <2>4, <2>5, <2>6, <3>2, <3>3
  <2>10. QED BY <2>7, <2>8, <2>9 DEF Inv
<1>5. QED BY <1>1, <1>2, <1>3, <1>4 DEF Control

\* what the clean-up does to the kernel, and to the list of the exit handler
LEMMA UndoneFacts ==
    ASSUME Shape, NEW lost, NEW u \in BOOLEAN
    PROVE  /\ DOMAIN Undone(lost, u) = KernelFields
           /\ Undone(lost, u).up = (kern.up /\ u)
           /\ Undone(lost, u).promisc = (kern.promisc /\ "CLEAR_PROMISC" \notin h.must_do \ lost)
           /\ Undone(lost, u).mode = IF "CLEAR_RFMON" \in h.must_do \ lost THEN h.oldmode ELSE kern.mode
           /\ Undone(lost, u).mons =
                IF "DELETE_MONIF" \in h.must_do \ lost THEN kern.mons \ {h.mondev} ELSE kern.mons
           /\ Undone(lost, u).fds = kern.fds /\ Undone(lost, u).nl = kern.nl /\ Undone(lost, u).mapped = kern.mapped
<1> DEFINE k == IF "DELETE_MONIF" \in h.must_do \ lost THEN del_mon_if(kern, h.mondev) ELSE kern
<1>1. /\ DOMAIN k = KernelFields /\ k.up = kern.up /\ k.promisc = kern.promisc /\ k.mode = kern.mode
      /\ k.mons = IF "DELETE_MONIF" \in h.must_do \ lost THEN kern.mons \ {h.mondev} ELSE kern.mons
      /\ k.fds = kern.fds /\ k.nl = kern.nl /\ k.mapped = kern.mapped
  BY DEF del_mon_if, Shape, KernelShape, KernelFields
<1>2. Undone(lost, u) = [k EXCEPT !.promisc = @ /\ "CLEAR_PROMISC" \notin h.must_do \ lost,
                                  !.mode = IF "CLEAR_RFMON" \in h.must_do \ lost THEN h.oldmode ELSE @,
                                  !.up = @ /\ u]
  BY DEF Undone
<1> HIDE DEF k
<1>3. QED BY <1>1, <1>2 DEF KernelFields

\* pcap_cleanup_linux() undoes the changes of the interface
LEMMA pcap_cleanup_linuxStep ==
    ASSUME Inv, pcap_cleanup_linux
    PROVE  Inv'
<1>1. Shape /\ Control /\ Undoing /\ Owning /\ Where /\ Listing /\ Fits(heap, h.ptr)  BY InvFacts
<1>2. CASE /\ pc = "cleanup" /\ pc' = "crash"
           /\ ((h.must_do # {} /\ "device" \notin h.ptr)
                  \/ ("DELETE_MONIF" \in h.must_do /\ "mondevice" \notin h.ptr))
           /\ UNCHANGED <<dev, act, failed, h, kern, heap, onExit, gaveUp>>
  <2>2. SameHandle  BY <1>1, <1>2, Unchanged
  <2>3. SameCall  BY <1>1, <1>2, Unchanged
  <2>4. SameKernel  BY <1>1, <1>2, Unchanged
  <2>5. /\ pc' = "crash" /\ pc = "cleanup" /\ heap' = heap
        /\ ((h.must_do # {} /\ "device" \notin h.ptr) \/ ("DELETE_MONIF" \in h.must_do /\ "mondevice" \notin h.ptr))
        /\ SameWorld
    BY <1>1, <1>2
  <2>6. Shape'
    <3>1. HandleShape'  BY <1>1, <2>2 DEF Shape, HandleShape
    <3>2. CallShape'  BY <1>1, <2>3 DEF Shape, CallShape
    <3>3. KernelShape'  BY <1>1, <2>4 DEF Shape, KernelShape
    <3>4. ExitShape'  BY <1>1, <2>5 DEF Shape, ExitShape
    <3>5. QED BY <1>1, <2>5, <3>1, <3>2, <3>3, <3>4 DEF Shape
  <2>7. Sound'
    <3> USE <1>1, <2>2, <2>3, <2>4, <2>5, SameKind, DeviceType DEF Shape, HandleShape, CallShape, KernelShape,
        ExitShape, Control
    <3>1. Control'  OBVIOUS
    <3>2. Undoing'  BY DEF Undoing, UpKept, ModeKept, PromiscKept, MonsKept, Kept, Holding
    <3>3. Owning'  BY DEF Owning
    <3>4. Where'  BY DEF Where, Bare
    <3>5. Listing'  BY DEF Listing, Holding, Where
    <3>6. QED BY <3>1, <3>2, <3>3, <3>4, <3>5 DEF Sound
  <2>8. Fits(heap, h.ptr)'
    BY <1>1, <2>2, <2>3, <2>4, <2>5, FitsSame
  <2>9. QED BY <2>6, <2>7, <2>8 DEF Inv
<1>3. CASE /\ pc = "cleanup" /\ kern' = Undone({}, TRUE) /\ UNCHANGED gaveUp
           /\ onExit' = (IF h.must_do = {} THEN onExit ELSE Removed(onExit))
           /\ h' = [h EXCEPT !.ptr = @ \ {"mondevice", "device"}]
           /\ heap' = Freed(heap, h.ptr \cap {"mondevice", "device"}) /\ pc' = "free"
           /\ UNCHANGED <<dev, act, failed>>
  <2>2. SameLife /\ SameUndo /\ SameFd /\ h'.cleanup = h.cleanup /\ h'.ptr = h.ptr \ {"mondevice", "device"}
    BY <1>1, <1>3 DEF Shape, HandleShape, NoHandle, Removed
  <2>3. SameCall  BY <1>1, <1>3, Unchanged
  <2>4. /\ DOMAIN kern' = KernelFields /\ kern'.up = (kern.up /\ TRUE)
        /\ kern'.promisc = (kern.promisc /\ "CLEAR_PROMISC" \notin h.must_do)
        /\ kern'.mode = (IF "CLEAR_RFMON" \in h.must_do THEN h.oldmode ELSE kern.mode)
        /\ kern'.mons = (IF "DELETE_MONIF" \in h.must_do THEN kern.mons \ {h.mondev} ELSE kern.mons)
        /\ kern'.fds = kern.fds /\ kern'.nl = kern.nl /\ kern'.mapped = kern.mapped
    <3>1. h.must_do \ {} = h.must_do /\ TRUE \in BOOLEAN  OBVIOUS
    <3>2. /\ DOMAIN Undone({}, TRUE) = KernelFields /\ Undone({}, TRUE).up = (kern.up /\ TRUE)
          /\ Undone({}, TRUE).promisc = (kern.promisc /\ "CLEAR_PROMISC" \notin h.must_do \ {})
          /\ Undone({}, TRUE).mode = IF "CLEAR_RFMON" \in h.must_do \ {} THEN h.oldmode ELSE kern.mode
          /\ Undone({}, TRUE).mons =
               IF "DELETE_MONIF" \in h.must_do \ {} THEN kern.mons \ {h.mondev} ELSE kern.mons
          /\ Undone({}, TRUE).fds = kern.fds /\ Undone({}, TRUE).nl = kern.nl
          /\ Undone({}, TRUE).mapped = kern.mapped
      BY <1>1, <3>1, UndoneFacts
    <3>3. QED BY <1>3, <3>1, <3>2
  <2>5. /\ pc' = "free" /\ pc = "cleanup" /\ dev' = dev /\ DOMAIN onExit' = ExitFields
        /\ onExit'.registered = onExit.registered
        /\ onExit'.head = (IF h.must_do = {} THEN onExit.head ELSE onExit.head /\ h.next)
        /\ onExit'.twice = onExit.twice /\ gaveUp' = gaveUp /\ failed' = failed
    BY <1>1, <1>3 DEF Shape, ExitShape, ExitFields, Removed
  <2>6. Undoing'
    <3>1. SUFFICES ASSUME ~gaveUp' PROVE UpKept' /\ ModeKept' /\ PromiscKept' /\ MonsKept'  BY DEF Undoing
    <3>2. UpKept /\ ModeKept /\ PromiscKept /\ MonsKept  BY <1>1, <2>5, <3>1 DEF Undoing
    <3>3. UpKept'  BY <1>1, <2>4, <2>5, <3>2 DEF UpKept, Shape, KernelShape
    <3>4. ModeKept'  BY <2>2, <2>4, <2>5, <3>2 DEF ModeKept, Kept
    <3>5. PromiscKept'
      <4>1. kern.promisc \in BOOLEAN /\ dev.promisc \in BOOLEAN  BY <1>1, DeviceType DEF Shape, KernelShape
      <4>2. QED BY <2>2, <2>4, <2>5, <3>2, <4>1, SameKind DEF PromiscKept, Kept, Exempt
    <3>6. MonsKept'
      <4>1. CASE "DELETE_MONIF" \in h.must_do
        <5>1. h.mondev \notin dev.mons /\ (kern.mons = dev.mons \/ kern.mons = dev.mons \cup {h.mondev})
          BY <3>2, <4>1 DEF MonsKept
        <5>2. kern.mons \ {h.mondev} = dev.mons  BY <5>1
        <5>3. QED BY <2>2, <2>4, <2>5, <4>1, <5>1, <5>2 DEF MonsKept
      <4>2. CASE "DELETE_MONIF" \notin h.must_do
        BY <2>2, <2>4, <2>5, <3>2, <4>2 DEF MonsKept, Kept
      <4>3. QED BY <4>1, <4>2
    <3>7. QED BY <3>3, <3>4, <3>5, <3>6
  <2>7. Shape'
    <3>1. HandleShape'  BY <1>1, <2>2 DEF Shape, HandleShape
    <3>2. CallShape'  BY <1>1, <2>3 DEF Shape, CallShape
    <3>3. KernelShape'  BY <1>1, <2>4 DEF Shape, KernelShape
    <3>4. ExitShape'  BY <1>1, <2>5 DEF Shape, ExitShape
    <3>5. QED BY <1>1, <2>5, <3>1, <3>2, <3>3, <3>4 DEF Shape
  <2>8. Sound'
    <3> USE <1>1, <2>2, <2>3, <2>4, <2>5, <2>6, SameKind, DeviceType DEF Shape, HandleShape, CallShape,
        KernelShape, ExitShape, Control
    <3>1. Control'  OBVIOUS
    <3>2. Undoing'  BY <2>6
    <3>3. Owning'  BY DEF Owning
    <3>4. Where'  BY DEF Where, Bare
    <3>5. Listing'  BY DEF Listing, Holding, Where
    <3>6. QED BY <3>1, <3>2, <3>3, <3>4, <3>5 DEF Sound
  <2>9. Fits(heap, h.ptr)'
    <3>1. Fits(Freed(heap, h.ptr \cap {"mondevice", "device"}), h.ptr \ (h.ptr \cap {"mondevice", "device"}))
      BY <1>1, FitsFreed
    <3>2. h.ptr \ (h.ptr \cap {"mondevice", "device"}) = h.ptr \ {"mondevice", "device"}  OBVIOUS
    <3>3. QED BY <1>3, <2>2, <2>3, <2>4, <2>5, <2>6, <3>1, <3>2
  <2>10. QED BY <2>7, <2>8, <2>9 DEF Inv
<1>4. CASE /\ pc = "cleanup" /\ (\E lost, u : u \in BOOLEAN /\ kern' = Undone(lost, u)) /\ gaveUp' = TRUE
           /\ onExit' = (IF h.must_do = {} THEN onExit ELSE Removed(onExit))
           /\ h' = [h EXCEPT !.ptr = @ \ {"mondevice", "device"}]
           /\ heap' = Freed(heap, h.ptr \cap {"mondevice", "device"}) /\ pc' = "free"
           /\ UNCHANGED <<dev, act, failed>>
  <2>2. SameLife /\ SameUndo /\ SameFd /\ h'.cleanup = h.cleanup /\ h'.ptr = h.ptr \ {"mondevice", "device"}
    BY <1>1, <1>4 DEF Shape, HandleShape, NoHandle, Removed
  <2>3. SameCall  BY <1>1, <1>4, Unchanged
  <2>4. /\ DOMAIN kern' = KernelFields /\ kern'.up \in BOOLEAN /\ kern'.promisc \in BOOLEAN
        /\ kern'.fds = kern.fds /\ kern'.nl = kern.nl /\ kern'.mapped = kern.mapped
    <3>1. PICK lost, u : u \in BOOLEAN /\ kern' = Undone(lost, u)  BY <1>4
    <3>2. /\ DOMAIN Undone(lost, u) = KernelFields /\ Undone(lost, u).up = (kern.up /\ u)
          /\ Undone(lost, u).promisc = (kern.promisc /\ "CLEAR_PROMISC" \notin h.must_do \ lost)
          /\ Undone(lost, u).fds = kern.fds /\ Undone(lost, u).nl = kern.nl
          /\ Undone(lost, u).mapped = kern.mapped
      BY <1>1, <3>1, UndoneFacts
    <3>3. QED BY <1>1, <3>1, <3>2 DEF Shape, KernelShape
  <2>5. /\ pc' = "free" /\ pc = "cleanup" /\ dev' = dev /\ DOMAIN onExit' = ExitFields
        /\ onExit'.registered = onExit.registered
        /\ onExit'.head = (IF h.must_do = {} THEN onExit.head ELSE onExit.head /\ h.next)
        /\ onExit'.twice = onExit.twice /\ gaveUp' = TRUE /\ failed' = failed
    BY <1>1, <1>4 DEF Shape, ExitShape, ExitFields, Removed
  <2>6. Shape'
    <3>1. HandleShape'  BY <1>1, <2>2 DEF Shape, HandleShape
    <3>2. CallShape'  BY <1>1, <2>3 DEF Shape, CallShape
    <3>3. KernelShape'  BY <1>1, <2>4 DEF Shape, KernelShape
    <3>4. ExitShape'  BY <1>1, <2>5 DEF Shape, ExitShape
    <3>5. QED BY <1>1, <2>5, <3>1, <3>2, <3>3, <3>4 DEF Shape
  <2>7. Sound'
    <3> USE <1>1, <2>2, <2>3, <2>4, <2>5, SameKind, DeviceType DEF Shape, HandleShape, CallShape, KernelShape,
        ExitShape, Control
    <3>1. Control'  OBVIOUS
    <3>2. Undoing'  BY DEF Undoing, UpKept, ModeKept, PromiscKept, MonsKept, Kept, Holding
    <3>3. Owning'  BY DEF Owning
    <3>4. Where'  BY DEF Where, Bare
    <3>5. Listing'  BY DEF Listing, Holding, Where
    <3>6. QED BY <3>1, <3>2, <3>3, <3>4, <3>5 DEF Sound
  <2>8. Fits(heap, h.ptr)'
    <3>1. Fits(Freed(heap, h.ptr \cap {"mondevice", "device"}), h.ptr \ (h.ptr \cap {"mondevice", "device"}))
      BY <1>1, FitsFreed
    <3>2. h.ptr \ (h.ptr \cap {"mondevice", "device"}) = h.ptr \ {"mondevice", "device"}  OBVIOUS
    <3>3. QED BY <1>4, <2>2, <2>3, <2>4, <2>5, <3>1, <3>2
  <2>9. QED BY <2>6, <2>7, <2>8 DEF Inv
<1>5. CASE /\ pc = "cleanup" /\ gaveUp' = TRUE /\ UNCHANGED kern
           /\ onExit' = (IF h.must_do = {} THEN onExit ELSE Removed(onExit))
           /\ h' = [h EXCEPT !.ptr = @ \ {"mondevice", "device"}]
           /\ heap' = Freed(heap, h.ptr \cap {"mondevice", "device"}) /\ pc' = "free"
           /\ UNCHANGED <<dev, act, failed>>
  <2>2. SameLife /\ SameUndo /\ SameFd /\ h'.cleanup = h.cleanup /\ h'.ptr = h.ptr \ {"mondevice", "device"}
    BY <1>1, <1>5 DEF Shape, HandleShape, NoHandle, Removed
  <2>3. SameCall  BY <1>1, <1>5, Unchanged
  <2>4. SameKernel  BY <1>1, <1>5, Unchanged
  <2>5. /\ pc' = "free" /\ pc = "cleanup" /\ dev' = dev /\ DOMAIN onExit' = ExitFields
        /\ onExit'.registered = onExit.registered
        /\ onExit'.head = (IF h.must_do = {} THEN onExit.head ELSE onExit.head /\ h.next)
        /\ onExit'.twice = onExit.twice /\ gaveUp' = TRUE /\ failed' = failed
    BY <1>1, <1>5 DEF Shape, ExitShape, ExitFields, Removed
  <2>6. Shape'
    <3>1. HandleShape'  BY <1>1, <2>2 DEF Shape, HandleShape
    <3>2. CallShape'  BY <1>1, <2>3 DEF Shape, CallShape
    <3>3. KernelShape'  BY <1>1, <2>4 DEF Shape, KernelShape
    <3>4. ExitShape'  BY <1>1, <2>5 DEF Shape, ExitShape
    <3>5. QED BY <1>1, <2>5, <3>1, <3>2, <3>3, <3>4 DEF Shape
  <2>7. Sound'
    <3> USE <1>1, <2>2, <2>3, <2>4, <2>5, SameKind, DeviceType DEF Shape, HandleShape, CallShape, KernelShape,
        ExitShape, Control
    <3>1. Control'  OBVIOUS
    <3>2. Undoing'  BY DEF Undoing, UpKept, ModeKept, PromiscKept, MonsKept, Kept, Holding
    <3>3. Owning'  BY DEF Owning
    <3>4. Where'  BY DEF Where, Bare
    <3>5. Listing'  BY DEF Listing, Holding, Where
    <3>6. QED BY <3>1, <3>2, <3>3, <3>4, <3>5 DEF Sound
  <2>8. Fits(heap, h.ptr)'
    <3>1. Fits(Freed(heap, h.ptr \cap {"mondevice", "device"}), h.ptr \ (h.ptr \cap {"mondevice", "device"}))
      BY <1>1, FitsFreed
    <3>2. h.ptr \ (h.ptr \cap {"mondevice", "device"}) = h.ptr \ {"mondevice", "device"}  OBVIOUS
    <3>3. QED BY <1>5, <2>2, <2>3, <2>4, <2>5, <3>1, <3>2
  <2>9. QED BY <2>6, <2>7, <2>8 DEF Inv
<1>6. QED BY <1>2, <1>3, <1>4, <1>5 DEF pcap_cleanup_linux, Goto

\* the blocks that pcap_cleanup_live_common() frees
LiveBlocks == {"buffer", "dlt_list", "tstamp_type_list", "tstamp_precision_list"}
USE DEF LiveBlocks

\* pcap_cleanup_live_common() frees the rest
LEMMA pcap_cleanup_live_commonStep ==
    ASSUME Inv, pcap_cleanup_live_common
    PROVE  Inv'
<1>1. Shape /\ Control /\ Undoing /\ Owning /\ Where /\ Listing /\ Fits(heap, h.ptr)  BY InvFacts
<1>2. CASE act.after = "return"
  <2>2. /\ pc = "free" /\ pc' = "return" /\ heap' = Freed(heap, h.ptr \cap LiveBlocks)
        /\ h' = [h EXCEPT !.ptr = @ \ (h.ptr \cap LiveBlocks), !.fd = FALSE, !.closed = FALSE, !.alive = TRUE]
        /\ kern' = (IF h.fd /\ ~h.closed THEN Closed(kern) ELSE kern) /\ failed' = TRUE
        /\ UNCHANGED <<dev, act, onExit, gaveUp>>
    BY <1>1, <1>2 DEF pcap_cleanup_live_common, Goto, Shape
  <2>3. /\ DOMAIN h' = DOMAIN NoHandle /\ h'.alive = TRUE /\ h'.activated = h.activated
        /\ h'.oldstyle = h.oldstyle /\ SameUndo /\ h'.fd = FALSE /\ h'.closed = FALSE /\ h'.cleanup = h.cleanup
        /\ h'.ptr = h.ptr \ LiveBlocks
    BY <1>1, <1>2, <2>2 DEF Shape, HandleShape, NoHandle, Where, Fits, Pointers
  <2>4. SameCall  BY <1>1, <2>2, Unchanged
  <2>5. /\ SameInterface /\ kern'.fds = kern.fds - (IF h.fd /\ ~h.closed THEN 1 ELSE 0) /\ kern'.nl = kern.nl
        /\ kern'.mapped = kern.mapped
    BY <1>1, <2>2 DEF Shape, KernelShape, KernelFields, Closed
  <2>6. /\ pc' = "return" /\ pc = "free" /\ act.after = "return" /\ dev' = dev /\ onExit' = onExit
        /\ gaveUp' = gaveUp /\ failed' = TRUE
    BY <1>2, <2>2
  <2>7. Shape'
    <3>1. HandleShape'  BY <1>1, <2>3 DEF Shape, HandleShape
    <3>2. CallShape'  BY <1>1, <2>4 DEF Shape, CallShape
    <3>3. KernelShape'  BY <1>1, <2>5 DEF Shape, KernelShape
    <3>4. ExitShape'  BY <1>1, <2>6 DEF Shape, ExitShape
    <3>5. QED BY <1>1, <2>6, <3>1, <3>2, <3>3, <3>4 DEF Shape
  <2>8. Sound'
    <3> USE <1>1, <2>3, <2>4, <2>5, <2>6, SameKind, DeviceType DEF Shape, HandleShape, CallShape, KernelShape,
        ExitShape, Control
    <3>1. Control'  OBVIOUS
    <3>2. Undoing'  BY DEF Undoing, UpKept, ModeKept, PromiscKept, MonsKept, Kept, Holding
    <3>3. Owning'  BY DEF Owning
    <3>4. Where'  BY DEF Where, Bare
    <3>5. Listing'  BY DEF Listing, Holding, Where
    <3>6. QED BY <3>1, <3>2, <3>3, <3>4, <3>5 DEF Sound
  <2>9. Fits(heap, h.ptr)'
    <3>1. Fits(Freed(heap, h.ptr \cap LiveBlocks), h.ptr \ (h.ptr \cap LiveBlocks))
      BY <1>1, FitsFreed
    <3>2. h'.ptr = h.ptr \ (h.ptr \cap LiveBlocks)  BY <1>1, <2>2 DEF Shape, HandleShape, NoHandle
    <3>3. QED BY <2>2, <2>3, <2>4, <2>5, <2>6, <3>1, <3>2
  <2>10. QED BY <2>7, <2>8, <2>9 DEF Inv
<1>3. CASE act.after = "free"
  <2>2. /\ pc = "free" /\ pc' = "idle" /\ heap' = Freed(heap, h.ptr \cap LiveBlocks)
        /\ h' = [h EXCEPT !.ptr = @ \ (h.ptr \cap LiveBlocks), !.fd = FALSE, !.closed = FALSE, !.alive = FALSE]
        /\ kern' = (IF h.fd /\ ~h.closed THEN Closed(kern) ELSE kern) /\ failed' = failed
        /\ UNCHANGED <<dev, act, onExit, gaveUp>>
    BY <1>1, <1>3 DEF pcap_cleanup_live_common, Goto, Shape
  <2>3. /\ DOMAIN h' = DOMAIN NoHandle /\ h'.alive = FALSE /\ h'.activated = h.activated
        /\ h'.oldstyle = h.oldstyle /\ SameUndo /\ h'.fd = FALSE /\ h'.closed = FALSE /\ h'.cleanup = h.cleanup
        /\ h'.ptr = {}
    BY <1>1, <1>3, <2>2 DEF Shape, HandleShape, NoHandle, Where, Fits, Pointers
  <2>4. SameCall  BY <1>1, <2>2, Unchanged
  <2>5. /\ SameInterface /\ kern'.fds = kern.fds - (IF h.fd /\ ~h.closed THEN 1 ELSE 0) /\ kern'.nl = kern.nl
        /\ kern'.mapped = kern.mapped
    BY <1>1, <2>2 DEF Shape, KernelShape, KernelFields, Closed
  <2>6. /\ pc' = "idle" /\ pc = "free" /\ act.after = "free" /\ dev' = dev /\ onExit' = onExit
        /\ gaveUp' = gaveUp /\ failed' = failed
    BY <1>3, <2>2
  <2>7. Shape'
    <3>1. HandleShape'  BY <1>1, <2>3 DEF Shape, HandleShape
    <3>2. CallShape'  BY <1>1, <2>4 DEF Shape, CallShape
    <3>3. KernelShape'  BY <1>1, <2>5 DEF Shape, KernelShape
    <3>4. ExitShape'  BY <1>1, <2>6 DEF Shape, ExitShape
    <3>5. QED BY <1>1, <2>6, <3>1, <3>2, <3>3, <3>4 DEF Shape
  <2>8. Sound'
    <3> USE <1>1, <2>3, <2>4, <2>5, <2>6, SameKind, DeviceType DEF Shape, HandleShape, CallShape, KernelShape,
        ExitShape, Control
    <3>1. Control'  OBVIOUS
    <3>2. Undoing'  BY DEF Undoing, UpKept, ModeKept, PromiscKept, MonsKept, Kept, Holding
    <3>3. Owning'  BY DEF Owning
    <3>4. Where'  BY DEF Where, Bare
    <3>5. Listing'  BY DEF Listing, Holding, Where
    <3>6. QED BY <3>1, <3>2, <3>3, <3>4, <3>5 DEF Sound
  <2>9. Fits(heap, h.ptr)'
    <3>1. Fits(Freed(heap, h.ptr \cap LiveBlocks), h.ptr \ (h.ptr \cap LiveBlocks))
      BY <1>1, FitsFreed
    <3>2. h'.ptr = h.ptr \ (h.ptr \cap LiveBlocks)  BY <1>1, <2>2 DEF Shape, HandleShape, NoHandle
    <3>3. QED BY <2>2, <2>3, <2>4, <2>5, <2>6, <3>1, <3>2
  <2>10. QED BY <2>7, <2>8, <2>9 DEF Inv
<1>4. CASE act.after = "exit"
  <2>2. /\ pc = "free" /\ pc' = "exited" /\ heap' = Freed(heap, h.ptr \cap LiveBlocks)
        /\ h' = [h EXCEPT !.ptr = @ \ (h.ptr \cap LiveBlocks), !.fd = FALSE, !.closed = FALSE, !.alive = FALSE]
        /\ kern' = (IF h.fd /\ ~h.closed THEN Closed(kern) ELSE kern) /\ failed' = failed
        /\ UNCHANGED <<dev, act, onExit, gaveUp>>
    BY <1>1, <1>4 DEF pcap_cleanup_live_common, Goto, Shape
  <2>3. /\ DOMAIN h' = DOMAIN NoHandle /\ h'.alive = FALSE /\ h'.activated = h.activated
        /\ h'.oldstyle = h.oldstyle /\ SameUndo /\ h'.fd = FALSE /\ h'.closed = FALSE /\ h'.cleanup = h.cleanup
        /\ h'.ptr = {}
    BY <1>1, <1>4, <2>2 DEF Shape, HandleShape, NoHandle, Where, Fits, Pointers
  <2>4. SameCall  BY <1>1, <2>2, Unchanged
  <2>5. /\ SameInterface /\ kern'.fds = kern.fds - (IF h.fd /\ ~h.closed THEN 1 ELSE 0) /\ kern'.nl = kern.nl
        /\ kern'.mapped = kern.mapped
    BY <1>1, <2>2 DEF Shape, KernelShape, KernelFields, Closed
  <2>6. /\ pc' = "exited" /\ pc = "free" /\ act.after = "exit" /\ dev' = dev /\ onExit' = onExit
        /\ gaveUp' = gaveUp /\ failed' = failed
    BY <1>4, <2>2
  <2>7. Shape'
    <3>1. HandleShape'  BY <1>1, <2>3 DEF Shape, HandleShape
    <3>2. CallShape'  BY <1>1, <2>4 DEF Shape, CallShape
    <3>3. KernelShape'  BY <1>1, <2>5 DEF Shape, KernelShape
    <3>4. ExitShape'  BY <1>1, <2>6 DEF Shape, ExitShape
    <3>5. QED BY <1>1, <2>6, <3>1, <3>2, <3>3, <3>4 DEF Shape
  <2>8. Sound'
    <3> USE <1>1, <2>3, <2>4, <2>5, <2>6, SameKind, DeviceType DEF Shape, HandleShape, CallShape, KernelShape,
        ExitShape, Control
    <3>1. Control'  OBVIOUS
    <3>2. Undoing'  BY DEF Undoing, UpKept, ModeKept, PromiscKept, MonsKept, Kept, Holding
    <3>3. Owning'  BY DEF Owning
    <3>4. Where'  BY DEF Where, Bare
    <3>5. Listing'  BY DEF Listing, Holding, Where
    <3>6. QED BY <3>1, <3>2, <3>3, <3>4, <3>5 DEF Sound
  <2>9. Fits(heap, h.ptr)'
    <3>1. Fits(Freed(heap, h.ptr \cap LiveBlocks), h.ptr \ (h.ptr \cap LiveBlocks))
      BY <1>1, FitsFreed
    <3>2. h'.ptr = h.ptr \ (h.ptr \cap LiveBlocks)  BY <1>1, <2>2 DEF Shape, HandleShape, NoHandle
    <3>3. QED BY <2>2, <2>3, <2>4, <2>5, <2>6, <3>1, <3>2
  <2>10. QED BY <2>7, <2>8, <2>9 DEF Inv
<1>5. QED BY <1>1, <1>2, <1>3, <1>4 DEF Control, pcap_cleanup_live_common

----------------------------------------------------------------------------
(* The theorems *)

\* every device is found with nothing changed, nothing open and nothing allocated
LEMMA InitInv == Init => Inv
<1> SUFFICES ASSUME Init PROVE Inv  OBVIOUS
<1>1. /\ dev \in Devices /\ pc = "idle" /\ h = NoHandle /\ act = NoCall /\ gaveUp = FALSE /\ failed = FALSE
      /\ heap = [p \in Pointers |-> 0]
  BY DEF Init
<1>2. /\ DOMAIN kern = KernelFields /\ kern.up = dev.up /\ kern.promisc = dev.promisc /\ kern.mode = dev.mode
      /\ kern.mons = dev.mons /\ kern.fds = 0 /\ kern.nl = 0 /\ kern.mapped = FALSE
  BY DEF Init, KernelFields
<1>3. /\ DOMAIN onExit = ExitFields /\ onExit.registered = FALSE /\ onExit.head = FALSE /\ onExit.twice = FALSE
  BY DEF Init, ExitFields
<1>4. DOMAIN act = DOMAIN NoCall /\ act.sock = FALSE /\ act.down = FALSE /\ act.ret = 0  BY <1>1 DEF NoCall
<1>5. dev.up \in BOOLEAN /\ dev.promisc \in BOOLEAN  BY <1>1, DeviceAssumption
<1>6. Shape
  <2>1. HandleShape  BY <1>1, NoHandleFacts DEF HandleShape
  <2>2. CallShape  BY <1>1 DEF CallShape, NoCall
  <2>3. KernelShape  BY <1>5 DEF Init, KernelShape, KernelFields
  <2>4. ExitShape  BY <1>3 DEF ExitShape
  <2>5. QED BY <1>1, <2>1, <2>2, <2>3, <2>4 DEF Shape
<1>7. Control  BY <1>1, NoHandleFacts, <1>4 DEF Control
<1>8. Undoing
  BY <1>1, <1>2, NoHandleFacts DEF Undoing, UpKept, ModeKept, PromiscKept, MonsKept
<1>9. Owning  BY <1>1, <1>2, <1>4, NoHandleFacts DEF Owning
<1>10. Where  BY <1>1, NoHandleFacts DEF Where, Bare
<1>11. Listing  BY <1>1, <1>3, NoHandleFacts DEF Listing
<1>12. Fits(heap, h.ptr)  BY <1>1, NoHandleFacts DEF Fits
<1>13. QED BY <1>6, <1>7, <1>8, <1>9, <1>10, <1>11, <1>12 DEF Inv, Sound

\* every step of a call under way keeps the invariant
LEMMA StepKeeps ==
    ASSUME Inv, Step
    PROVE  Inv'
BY pcap_activate_linuxStep, SetDeviceStep, ReturnStep, NewSocketStep, AnyDeviceStep, iface_get_arptypeStep,
   SetDltStep, iface_bindStep, SetSocketOptionsStep, get_mac80211_phydevStep, nl80211_initStep, add_mon_ifStep,
   enter_rfmon_mode_mac80211Step, has_wextStep, GetModeStep, TakeDownStep, SetMonitorStep, SetHeadersStep,
   OldSocketStep, OldPromiscStep, OldBufferSizeStep, activate_mmapStep, prepare_tpacket_socketStep, RingSizeStep,
   SetHwTstampStep, RequestRingStep, MapRingStep, SetBufferStep, usb_activateStep, UsbTextStep, usb_mmapStep,
   UsbBufferStep, can_activateStep, CanBindStep, netfilter_activateStep, NfBufferStep,
   netfilter_send_config_msgStep, NfOptionsStep, CloseStep, pcap_cleanup_linuxStep, pcap_cleanup_live_commonStep
   DEF Step

\* so does every call of the program
LEMMA CallKeeps ==
    ASSUME Inv, Call
    PROVE  Inv'
BY pcap_createStep, pcap_activateStep, pcap_closeStep, pcap_close_allStep, pcap_can_set_rfmon_linuxStep,
   pcap_setStep, pcap_set_tstamp_typeStep, pcap_set_tstamp_precisionStep, pcap_open_liveStep
   DEF Call

\* and a step of something else
LEMMA StutterKeeps ==
    ASSUME Inv, UNCHANGED vars
    PROVE  Inv'
<1>1. UNCHANGED <<dev, pc, h, act, kern, heap, onExit, gaveUp, failed>>  BY DEF vars
<1>2. Shape'  BY <1>1 DEF Inv, Shape, HandleShape, CallShape, KernelShape, ExitShape
<1>3. Control'  BY <1>1, SameKind DEF Inv, Sound, Control
<1>4. Undoing'  BY <1>1, SameKind DEF Inv, Sound, Undoing, UpKept, ModeKept, PromiscKept, MonsKept, Kept, Holding
<1>5. Owning'  BY <1>1, SameKind DEF Inv, Sound, Owning
<1>6. Where'  BY <1>1 DEF Inv, Sound, Where, Bare
<1>7. Listing'  BY <1>1 DEF Inv, Sound, Listing, Holding
<1>8. Fits(heap, h.ptr)'  BY <1>1 DEF Inv
<1>9. QED BY <1>2, <1>3, <1>4, <1>5, <1>6, <1>7, <1>8 DEF Inv, Sound

\* The inductive invariant: at every step of a call the interface, the descriptors, the blocks, the
\* exit list and the pointers of the handle are what that step of the code relies on.
THEOREM InvHolds == Spec => []Inv
<1>1. Inv /\ [Next]_vars => Inv'
  BY StepKeeps, CallKeeps, StutterKeeps DEF Next
<1>2. QED BY InitInv, <1>1, PTL DEF Spec

\* When a handle is closed or the process has exited, the mode, the flags and the monitor interfaces
\* are as pcap_activate() found them, unless the code gave up undoing them (pcap_cleanup_linux,
\* pcap_close_all): for every device, every setting of the options and any number of failing calls.
\* Each change is still being made, or is undone, or is in must_do_on_close of a handle in the list.
THEOREM InterfaceIsRestored == Spec => []ChangesAreUndone
<1>1. Inv => ChangesAreUndone
  <2> SUFFICES ASSUME Inv, pc = "exited" \/ (pc = "idle" /\ ~h.alive), ~gaveUp PROVE Restored
    BY DEF ChangesAreUndone
  <2>1. UpKept /\ ModeKept /\ PromiscKept /\ MonsKept  BY DEF Inv, Sound, Undoing
  <2>2. ~Holding  BY DEF Holding
  <2>3. QED BY <2>1, <2>2 DEF Restored, UpKept, ModeKept, PromiscKept, MonsKept, Kept, Exempt
<1>2. QED BY InvHolds, <1>1, PTL

\* Between calls every descriptor, mapping and block belongs to the handle, none is freed twice, the
\* exit list refers to a live handle and the clean-up uses names that are allocated, apart from the
\* cases the property names (pcap_cleanup_linux, pcap_cleanup_live_common, activate_new, create_ring).
THEOREM HandleOwnsItsMemory == Spec => []MemoryIsSound
<1>1. Inv => NothingLeaks
  <2> SUFFICES ASSUME Inv, pc = "idle"
               PROVE  /\ kern.fds = IF h.fd /\ ~h.closed THEN 1 ELSE 0
                      /\ h.closed => dev.name = "usbmon" /\ ~h.activated
                      /\ kern.nl = 0 \/ gaveUp
                      /\ kern.mapped <=> h.alive /\ h.cleanup \in {"mmap", "usb"}
                      /\ \A p \in Pointers :
                           /\ heap[p] >= IF p \in h.ptr THEN 1 ELSE 0
                           /\ p \notin {"source", "dlt_list"} => heap[p] <= IF p \in h.ptr THEN 1 ELSE 0
    BY DEF NothingLeaks
  <2>1. Owning /\ Shape /\ Fits(heap, h.ptr)  BY DEF Inv, Sound
  <2>2. kern.fds = IF h.fd /\ ~h.closed THEN 1 ELSE 0  BY <2>1 DEF Owning, Shape, KernelShape
  <2>3. h.closed => dev.name = "usbmon" /\ ~h.activated  BY <2>1 DEF Owning, usb_create
  <2>4. kern.nl = 0 \/ gaveUp  BY <2>1 DEF Owning
  <2>5. kern.mapped <=> h.alive /\ h.cleanup \in {"mmap", "usb"}  BY <2>1 DEF Owning
  <2>6. \A p \in Pointers :
          /\ heap[p] >= IF p \in h.ptr THEN 1 ELSE 0
          /\ p \notin {"source", "dlt_list"} => heap[p] <= IF p \in h.ptr THEN 1 ELSE 0
    BY <2>1 DEF Fits, Lossy
  <2>7. QED BY <2>2, <2>3, <2>4, <2>5, <2>6
<1>2. Inv => ExitListIsLive  BY DEF Inv, Sound, Listing, ExitListIsLive
<1>3. Inv => NamesOutliveUse  BY DEF Inv, Sound, Listing, NamesOutliveUse
<1>4. QED BY InvHolds, <1>1, <1>2, <1>3, PTL DEF MemoryIsSound

----------------------------------------------------------------------------
(* A status that is not negative means a handle that can be read.  The argument needs, on top of  *)
(* Inv, what each step of an activation has achieved so far.                                      *)

\* the steps of pcap_activate_linux()
Linuxing == Before \cup Entering \cup Ringing \cup Inside \cup {"device"}
\* the operations that read a ring
Rings == {"v1", "v2", "v3"}
\* the snapshot length is one whose frames fit into a block
OptionsOk ==
    /\ DOMAIN h.opt = Options /\ h.opt.snapshot \in Nat /\ h.opt.buffer_size \in Nat
    /\ h.opt.snapshot + 512 <= PageSize * 4096
\* which operations go with which clean-up
Paired == (h.ops \in Rings => h.cleanup = "mmap") /\ (h.ops = "usb_mmap" => h.cleanup = "usb")
\* what pcap_activate_linux() has set
Operating ==
    /\ Paired
    /\ pc \in Linuxing => h.ops = "linux"
    /\ pc \in Ringing \cup {"mmap", "rcvbuf", "old_promisc", "old_size"} => h.fd
\* what the activations of other devices have set: after n messages of netfilter the kernel has
\* (n - 2) div 2 groups
Joining ==
    /\ kern.groups = 0 \/ (h.fd /\ ~h.closed)
    /\ pc = "can_bind" => h.ops = "can" /\ h.fd
    /\ pc \in {"usb_mode", "usb_buffer"} => h.ops \in {"usb_bin", "usb_text"}
    /\ pc \in {"nf_buffer", "nf_config", "nf_options"} => h.ops = "netfilter" /\ h.fd /\ dev.groups \in 0 .. 32
    /\ pc \in {"nf_config", "nf_options"} => "buffer" \in h.ptr
    /\ pc = "nf_buffer" => kern.groups = 0
    /\ pc = "nf_config" =>
         /\ act.n \in Nat /\ kern.groups \in Nat
         /\ IF act.n < 2 THEN kern.groups = 0 ELSE act.n - 2 \in {2 * kern.groups, 2 * kern.groups + 1}
    /\ pc = "nf_options" => kern.groups = Groups
\* the sizes of the ring fit together, and a mapped ring has the frames that create_ring() computed
RingFields == {"frame_size", "block_size", "frame_nr", "block_nr"}
Sizing ==
    /\ pc \in Ringing \ {"tpacket"} => act.n \in 1 .. 3
    /\ pc \in {"hwtstamp", "ring", "map_ring"} =>
         /\ DOMAIN act.req = RingFields
         /\ act.req.frame_size = FrameSize(act.n) /\ act.req.frame_size \in Nat \ {0}
         /\ act.req.block_size \in Nat /\ act.req.block_size >= act.req.frame_size
         /\ act.req.frame_nr \in Int
    /\ pc = "map_ring" /\ kern.ring => act.req.frame_nr > 0
    /\ pc \in {"return", "idle"} /\ h.alive /\ h.ops \in {"v1", "v2"} =>
         h.bufsize = FrameSize(IF h.ops = "v1" THEN 1 ELSE 2)
\* a clean-up is followed by an error or PCAP_WARNING, and any other status by a handle that can be read
Succeeding ==
    /\ pc \in {"cleanup", "free"} /\ act.after = "return" => act.ret < 0 \/ act.ret = PCAP_WARNING
    /\ pc = "return" /\ act.ret >= 0 /\ act.ret # PCAP_WARNING => Usable
    /\ pc = "idle" /\ h.alive /\ h.activated /\ h.status # PCAP_WARNING => Usable
Ready == OptionsOk /\ Operating /\ Joining /\ Sizing /\ Succeeding

\* a step that starts inside pcap_activate_linux() and has nothing to do with the ring
Early == Before \cup Entering \cup {"device", "arptype", "dlt", "bind", "promisc", "old"}
Buffered == {"mmap", "tpacket", "rcvbuf", "old_promisc", "old_size"}
USE DEF Linuxing, Rings, Paired, Early, Buffered

\* the options of a handle stay what they are
LEMMA SameOptions ==
    ASSUME OptionsOk, h'.opt = h.opt
    PROVE  OptionsOk'
BY DEF OptionsOk

\* the number of groups does not depend on the step
LEMMA SameGroups ==
    ASSUME dev' = dev
    PROVE  Groups' = Groups
BY DEF Groups

\* the names of Ready are spelled out together
LEMMA ReadyFacts ==
    ASSUME Ready
    PROVE  OptionsOk /\ Operating /\ Joining /\ Sizing /\ Succeeding
BY DEF Ready

\* a step of pcap_activate_linux() before the ring, or one that gives up
LEMMA LinuxKeeps ==
    ASSUME Inv, Ready, pc \in Linuxing, dev' = dev, h'.ops = h.ops, h'.cleanup = h.cleanup, OptionsOk',
           h.fd => h'.fd, h'.closed = h.closed, kern'.groups \in {kern.groups, 0},
           pc' \in Early \cup Buffered \cup {"cleanup"}, pc' \in Buffered => h'.fd,
           pc' = "cleanup" => act'.ret < 0 \/ act'.ret = 1
    PROVE  Ready'
<1>1. Operating /\ Joining /\ Sizing /\ Succeeding /\ Control  BY ReadyFacts, InvFacts
<1>2. Operating'  BY <1>1 DEF Operating
<1>3. Joining'  BY <1>1 DEF Joining
<1>4. Sizing'  BY <1>1 DEF Sizing
<1>5. Succeeding'  BY <1>1 DEF Succeeding, PCAP_WARNING
<1>6. QED BY <1>2, <1>3, <1>4, <1>5 DEF Ready

\* Fail() sets the status
LEMMA FailStatus ==
    ASSUME Shape, NEW e, Fail(e)
    PROVE  act'.ret = e /\ act'.after = "return"
BY DEF Fail, Shape, CallShape, NoCall

\* the status of an activation that cleans up
Failures == {1, -1, -5, -6, -8, -9}
LEMMA FailsWith ==
    ASSUME Shape, \E e \in Failures : Fail(e)
    PROVE  act'.ret < 0 \/ act'.ret = 1
<1>1. PICK e \in Failures : Fail(e)  OBVIOUS
<1>2. act'.ret = e  BY <1>1, FailStatus
<1>3. QED BY <1>2 DEF Failures

\* a packet socket, or the old interface
LEMMA NewSocketReady ==
    ASSUME Inv, Ready, NewSocket
    PROVE  Ready'
<1>1. Shape /\ Control /\ OptionsOk /\ Operating  BY InvFacts, ReadyFacts
<1>2. pc = "socket" /\ dev' = dev /\ pc' \in {"any", "phydev", "arptype", "old", "cleanup"}
  BY DEF NewSocket, Goto, Fail, Rest
<1>3. pc' = "cleanup" => act'.ret < 0 \/ act'.ret = 1
  <2>1. pc' = "cleanup" => \E e \in Failures : Fail(e)
    BY <1>2 DEF NewSocket, Goto, Rest, Failures, PCAP_ERROR_PERM_DENIED, PCAP_ERROR
  <2>2. QED BY <1>1, <2>1, FailsWith
<1>4. h'.ops = h.ops /\ h'.cleanup = h.cleanup /\ h'.fd = h.fd /\ h'.closed = h.closed /\ h'.opt = h.opt
  BY <1>1, <1>2 DEF NewSocket, Goto, Fail, Rest, Shape, HandleShape, NoHandle
<1>5. kern'.groups \in {kern.groups, 0}
  BY <1>1, <1>2 DEF NewSocket, Goto, Fail, Rest, Closed, Shape, KernelShape, KernelFields
<1>6. OptionsOk'  BY <1>1, <1>4, SameOptions
<1>7. QED BY <1>1, <1>2, <1>3, <1>4, <1>5, <1>6, LinuxKeeps DEF Operating

\* "any" is cooked
LEMMA AnyDeviceReady ==
    ASSUME Inv, Ready, AnyDevice
    PROVE  Ready'
<1>1. Shape /\ Control /\ OptionsOk /\ Operating  BY InvFacts, ReadyFacts
<1>2. pc = "any" /\ dev' = dev /\ pc' \in {"promisc", "cleanup"}
  BY DEF AnyDevice, Goto, Fail, NewFails, Rest
<1>3. pc' = "cleanup" => act'.ret < 0 \/ act'.ret = 1
  <2>1. pc' = "cleanup" => \E e \in Failures : Fail(e)
    BY <1>2 DEF AnyDevice, Goto, NewFails, Rest, Failures, PCAP_ERROR_RFMON_NOTSUP
  <2>2. QED BY <1>1, <2>1, FailsWith
<1>4. h'.ops = h.ops /\ h'.cleanup = h.cleanup /\ h'.fd = h.fd /\ h'.closed = h.closed /\ h'.opt = h.opt
  BY <1>1, <1>2 DEF AnyDevice, Goto, Fail, NewFails, Rest, Shape, HandleShape, NoHandle
<1>5. kern'.groups \in {kern.groups, 0}
  BY <1>1, <1>2 DEF AnyDevice, Goto, Fail, NewFails, Rest, Closed, Shape, KernelShape, KernelFields
<1>6. OptionsOk'  BY <1>1, <1>4, SameOptions
<1>7. QED BY <1>1, <1>2, <1>3, <1>4, <1>5, <1>6, LinuxKeeps DEF Operating

\* the type of the interface
LEMMA iface_get_arptypeReady ==
    ASSUME Inv, Ready, iface_get_arptype
    PROVE  Ready'
<1>1. Shape /\ Control /\ OptionsOk /\ Operating  BY InvFacts, ReadyFacts
<1>2. pc = "arptype" /\ dev' = dev /\ pc' \in {"dlt", "cleanup"}
  BY DEF iface_get_arptype, Goto, Fail, NewFails, Rest
<1>3. pc' = "cleanup" => act'.ret < 0 \/ act'.ret = 1
  <2>1. pc' = "cleanup" => \E e \in Failures : Fail(e)
    BY <1>2 DEF iface_get_arptype, Goto, NewFails, Rest, Failures, PCAP_ERROR_NO_SUCH_DEVICE, PCAP_ERROR
  <2>2. QED BY <1>1, <2>1, FailsWith
<1>4. h'.ops = h.ops /\ h'.cleanup = h.cleanup /\ h'.fd = h.fd /\ h'.closed = h.closed /\ h'.opt = h.opt
  BY <1>1, <1>2 DEF iface_get_arptype, Goto, Fail, NewFails, Rest, Shape, HandleShape, NoHandle
<1>5. kern'.groups \in {kern.groups, 0}
  BY <1>1, <1>2 DEF iface_get_arptype, Goto, Fail, NewFails, Rest, Closed, Shape, KernelShape, KernelFields
<1>6. OptionsOk'  BY <1>1, <1>4, SameOptions
<1>7. QED BY <1>1, <1>2, <1>3, <1>4, <1>5, <1>6, LinuxKeeps DEF Operating

\* the link type and perhaps a cooked socket
LEMMA SetDltReady ==
    ASSUME Inv, Ready, SetDlt
    PROVE  Ready'
<1>1. Shape /\ Control /\ OptionsOk /\ Operating  BY InvFacts, ReadyFacts
<1>2. pc = "dlt" /\ dev' = dev /\ pc' \in {"bind", "cleanup"}
  BY DEF SetDlt, Goto, Fail, NewFails
<1>3. pc' = "cleanup" => act'.ret < 0 \/ act'.ret = 1
  <2>1. pc' = "cleanup" => \E e \in Failures : Fail(e)
    BY <1>2 DEF SetDlt, Goto, NewFails, Failures, PCAP_ERROR_PERM_DENIED, PCAP_ERROR
  <2>2. QED BY <1>1, <2>1, FailsWith
<1>4. h'.ops = h.ops /\ h'.cleanup = h.cleanup /\ h'.fd = h.fd /\ h'.closed = h.closed /\ h'.opt = h.opt
  BY <1>1, <1>2 DEF SetDlt, Goto, Fail, NewFails, Shape, HandleShape, NoHandle
<1>5. kern'.groups \in {kern.groups, 0}
  BY <1>1, <1>2 DEF SetDlt, Goto, Fail, NewFails, Closed, Shape, KernelShape, KernelFields
<1>6. OptionsOk'  BY <1>1, <1>4, SameOptions
<1>7. QED BY <1>1, <1>2, <1>3, <1>4, <1>5, <1>6, LinuxKeeps DEF Operating

\* the socket is bound, or the old interface is tried
LEMMA iface_bindReady ==
    ASSUME Inv, Ready, iface_bind
    PROVE  Ready'
<1>1. Shape /\ Control /\ OptionsOk /\ Operating  BY InvFacts, ReadyFacts
<1>2. pc = "bind" /\ dev' = dev /\ pc' \in {"promisc", "old", "cleanup"}
  BY DEF iface_bind, Goto, Fail, NewFails, Rest
<1>3. pc' = "cleanup" => act'.ret < 0 \/ act'.ret = 1
  <2>1. pc' = "cleanup" => \E e \in Failures : Fail(e)
    BY <1>2 DEF iface_bind, Goto, NewFails, Rest, Failures, PCAP_ERROR_IFACE_NOT_UP, PCAP_ERROR
  <2>2. QED BY <1>1, <2>1, FailsWith
<1>4. h'.ops = h.ops /\ h'.cleanup = h.cleanup /\ h'.fd = h.fd /\ h'.closed = h.closed /\ h'.opt = h.opt
  BY <1>1, <1>2 DEF iface_bind, Goto, Fail, NewFails, Rest, Shape, HandleShape, NoHandle
<1>5. kern'.groups \in {kern.groups, 0}
  BY <1>1, <1>2 DEF iface_bind, Goto, Fail, NewFails, Rest, Closed, Shape, KernelShape, KernelFields
<1>6. OptionsOk'  BY <1>1, <1>4, SameOptions
<1>7. QED BY <1>1, <1>2, <1>3, <1>4, <1>5, <1>6, LinuxKeeps DEF Operating

\* the directory of sysfs
LEMMA get_mac80211_phydevReady ==
    ASSUME Inv, Ready, get_mac80211_phydev
    PROVE  Ready'
<1>1. Shape /\ Control /\ OptionsOk /\ Operating  BY InvFacts, ReadyFacts
<1>2. pc = "phydev" /\ dev' = dev /\ pc' \in {"nl80211", "wext", "cleanup"}
  BY DEF get_mac80211_phydev, Goto, Fail, NewFails, Exits, Rest
<1>3. pc' = "cleanup" => act'.ret < 0 \/ act'.ret = 1
  <2>1. pc' = "cleanup" => \E e \in Failures : Fail(e)
    BY <1>2 DEF get_mac80211_phydev, Goto, NewFails, Exits, Rest, Failures, PCAP_ERROR
  <2>2. QED BY <1>1, <2>1, FailsWith
<1>4. h'.ops = h.ops /\ h'.cleanup = h.cleanup /\ h'.fd = h.fd /\ h'.closed = h.closed /\ h'.opt = h.opt
  BY <1>1, <1>2 DEF get_mac80211_phydev, Goto, Fail, NewFails, Exits, Rest, Shape, HandleShape, NoHandle
<1>5. kern'.groups \in {kern.groups, 0}
  BY <1>1, <1>2 DEF get_mac80211_phydev, Goto, Fail, NewFails, Exits, Rest, Closed, Shape, KernelShape,
      KernelFields
<1>6. OptionsOk'  BY <1>1, <1>4, SameOptions
<1>7. QED BY <1>1, <1>2, <1>3, <1>4, <1>5, <1>6, LinuxKeeps DEF Operating

\* a netlink socket
LEMMA nl80211_initReady ==
    ASSUME Inv, Ready, nl80211_init
    PROVE  Ready'
<1>1. Shape /\ Control /\ OptionsOk /\ Operating  BY InvFacts, ReadyFacts
<1>2. pc = "nl80211" /\ dev' = dev /\ pc' \in {"add_mon_if", "cleanup"}
  BY DEF nl80211_init, Goto, Fail, NewFails, Exits, Rest
<1>3. pc' = "cleanup" => act'.ret < 0 \/ act'.ret = 1
  <2>1. pc' = "cleanup" => \E e \in Failures : Fail(e)
    BY <1>2 DEF nl80211_init, Goto, NewFails, Exits, Rest, Failures, PCAP_ERROR
  <2>2. QED BY <1>1, <2>1, FailsWith
<1>4. h'.ops = h.ops /\ h'.cleanup = h.cleanup /\ h'.fd = h.fd /\ h'.closed = h.closed /\ h'.opt = h.opt
  BY <1>1, <1>2 DEF nl80211_init, Goto, Fail, NewFails, Exits, Rest, Shape, HandleShape, NoHandle
<1>5. kern'.groups \in {kern.groups, 0}
  BY <1>1, <1>2 DEF nl80211_init, Goto, Fail, NewFails, Exits, Rest, Closed, Shape, KernelShape, KernelFields
<1>6. OptionsOk'  BY <1>1, <1>4, SameOptions
<1>7. QED BY <1>1, <1>2, <1>3, <1>4, <1>5, <1>6, LinuxKeeps DEF Operating

\* a monitor interface
LEMMA add_mon_ifReady ==
    ASSUME Inv, Ready, add_mon_if
    PROVE  Ready'
<1>1. Shape /\ Control /\ OptionsOk /\ Operating  BY InvFacts, ReadyFacts
<1>2. pc = "add_mon_if" /\ dev' = dev /\ pc' \in {"add_mon_if", "mon_up", "cleanup"}
  BY DEF add_mon_if, Goto, Fail
<1>3. pc' = "cleanup" => act'.ret < 0 \/ act'.ret = 1
  <2>1. pc' = "cleanup" => \E e \in Failures : Fail(e)
    BY <1>2 DEF add_mon_if, Goto, Failures, PCAP_ERROR
  <2>2. QED BY <1>1, <2>1, FailsWith
<1>4. h'.ops = h.ops /\ h'.cleanup = h.cleanup /\ h'.fd = h.fd /\ h'.closed = h.closed /\ h'.opt = h.opt
  BY <1>1, <1>2 DEF add_mon_if, Goto, Fail, Shape, HandleShape, NoHandle
<1>5. kern'.groups \in {kern.groups, 0}
  BY <1>1, <1>2 DEF add_mon_if, Goto, Fail, Closed, Shape, KernelShape, KernelFields
<1>6. OptionsOk'  BY <1>1, <1>4, SameOptions
<1>7. QED BY <1>1, <1>2, <1>3, <1>4, <1>5, <1>6, LinuxKeeps DEF Operating

\* the monitor interface is brought up
LEMMA enter_rfmon_mode_mac80211Ready ==
    ASSUME Inv, Ready, enter_rfmon_mode_mac80211
    PROVE  Ready'
<1>1. Shape /\ Control /\ OptionsOk /\ Operating  BY InvFacts, ReadyFacts
<1>2. pc = "mon_up" /\ dev' = dev /\ pc' \in {"arptype", "cleanup"}
  BY DEF enter_rfmon_mode_mac80211, Goto, Fail, NewFails, Exits, del_mon_if
<1>3. pc' = "cleanup" => act'.ret < 0 \/ act'.ret = 1
  <2>1. pc' = "cleanup" => \E e \in Failures : Fail(e)
    BY <1>2 DEF enter_rfmon_mode_mac80211, Goto, NewFails, Exits, del_mon_if, Failures,
        PCAP_ERROR_RFMON_NOTSUP, PCAP_ERROR
  <2>2. QED BY <1>1, <2>1, FailsWith
<1>4. h'.ops = h.ops /\ h'.cleanup = h.cleanup /\ h'.fd = h.fd /\ h'.closed = h.closed /\ h'.opt = h.opt
  BY <1>1, <1>2 DEF enter_rfmon_mode_mac80211, Goto, Fail, NewFails, Exits, del_mon_if, Shape, HandleShape,
      NoHandle
<1>5. kern'.groups \in {kern.groups, 0}
  BY <1>1, <1>2 DEF enter_rfmon_mode_mac80211, Goto, Fail, NewFails, Exits, del_mon_if, Closed, Shape,
      KernelShape, KernelFields
<1>6. OptionsOk'  BY <1>1, <1>4, SameOptions
<1>7. QED BY <1>1, <1>2, <1>3, <1>4, <1>5, <1>6, LinuxKeeps DEF Operating

\* the private ioctls
LEMMA has_wextReady ==
    ASSUME Inv, Ready, has_wext
    PROVE  Ready'
<1>1. Shape /\ Control /\ OptionsOk /\ Operating  BY InvFacts, ReadyFacts
<1>2. pc = "wext" /\ dev' = dev /\ pc' \in {"mode", "cleanup"}
  BY DEF has_wext, Goto, Fail, NewFails, Exits, Rest
<1>3. pc' = "cleanup" => act'.ret < 0 \/ act'.ret = 1
  <2>1. pc' = "cleanup" => \E e \in Failures : Fail(e)
    BY <1>2 DEF has_wext, Goto, NewFails, Exits, Rest, Failures, PCAP_ERROR_RFMON_NOTSUP,
        PCAP_ERROR_NO_SUCH_DEVICE, PCAP_ERROR
  <2>2. QED BY <1>1, <2>1, FailsWith
<1>4. h'.ops = h.ops /\ h'.cleanup = h.cleanup /\ h'.fd = h.fd /\ h'.closed = h.closed /\ h'.opt = h.opt
  BY <1>1, <1>2 DEF has_wext, Goto, Fail, NewFails, Exits, Rest, Shape, HandleShape, NoHandle
<1>5. kern'.groups \in {kern.groups, 0}
  BY <1>1, <1>2 DEF has_wext, Goto, Fail, NewFails, Exits, Rest, Closed, Shape, KernelShape, KernelFields
<1>6. OptionsOk'  BY <1>1, <1>4, SameOptions
<1>7. QED BY <1>1, <1>2, <1>3, <1>4, <1>5, <1>6, LinuxKeeps DEF Operating

\* the mode of the interface
LEMMA GetModeReady ==
    ASSUME Inv, Ready, GetMode
    PROVE  Ready'
<1>1. Shape /\ Control /\ OptionsOk /\ Operating  BY InvFacts, ReadyFacts
<1>2. pc = "mode" /\ dev' = dev /\ pc' \in {"arptype", "down", "cleanup"}
  BY DEF GetMode, Goto, Fail, NewFails, Exits, Entered
<1>3. pc' = "cleanup" => act'.ret < 0 \/ act'.ret = 1
  <2>1. pc' = "cleanup" => \E e \in Failures : Fail(e)
    BY <1>2 DEF GetMode, Goto, NewFails, Exits, Entered, Failures, PCAP_ERROR_RFMON_NOTSUP
  <2>2. QED BY <1>1, <2>1, FailsWith
<1>4. h'.ops = h.ops /\ h'.cleanup = h.cleanup /\ h'.fd = h.fd /\ h'.closed = h.closed /\ h'.opt = h.opt
  BY <1>1, <1>2 DEF GetMode, Goto, Fail, NewFails, Exits, Entered, Shape, HandleShape, NoHandle
<1>5. kern'.groups \in {kern.groups, 0}
  BY <1>1, <1>2 DEF GetMode, Goto, Fail, NewFails, Exits, Entered, Closed, Shape, KernelShape, KernelFields
<1>6. OptionsOk'  BY <1>1, <1>4, SameOptions
<1>7. QED BY <1>1, <1>2, <1>3, <1>4, <1>5, <1>6, LinuxKeeps DEF Operating

\* the interface is taken down
LEMMA TakeDownReady ==
    ASSUME Inv, Ready, TakeDown
    PROVE  Ready'
<1>1. Shape /\ Control /\ OptionsOk /\ Operating  BY InvFacts, ReadyFacts
<1>2. pc = "down" /\ dev' = dev /\ pc' \in {"monitor", "cleanup"}
  BY DEF TakeDown, Goto, Fail, NewFails, Exits, Rest
<1>3. pc' = "cleanup" => act'.ret < 0 \/ act'.ret = 1
  <2>1. pc' = "cleanup" => \E e \in Failures : Fail(e)
    BY <1>2 DEF TakeDown, Goto, NewFails, Exits, Rest, Failures, PCAP_ERROR
  <2>2. QED BY <1>1, <2>1, FailsWith
<1>4. h'.ops = h.ops /\ h'.cleanup = h.cleanup /\ h'.fd = h.fd /\ h'.closed = h.closed /\ h'.opt = h.opt
  BY <1>1, <1>2 DEF TakeDown, Goto, Fail, NewFails, Exits, Rest, Shape, HandleShape, NoHandle
<1>5. kern'.groups \in {kern.groups, 0}
  BY <1>1, <1>2 DEF TakeDown, Goto, Fail, NewFails, Exits, Rest, Closed, Shape, KernelShape, KernelFields
<1>6. OptionsOk'  BY <1>1, <1>4, SameOptions
<1>7. QED BY <1>1, <1>2, <1>3, <1>4, <1>5, <1>6, LinuxKeeps DEF Operating

\* monitor mode
LEMMA SetMonitorReady ==
    ASSUME Inv, Ready, SetMonitor
    PROVE  Ready'
<1>1. Shape /\ Control /\ OptionsOk /\ Operating  BY InvFacts, ReadyFacts
<1>2. pc = "monitor" /\ dev' = dev /\ pc' \in {"montype", "cleanup"}
  BY DEF SetMonitor, Goto, Fail, NewFails, Exits
<1>3. pc' = "cleanup" => act'.ret < 0 \/ act'.ret = 1
  <2>1. pc' = "cleanup" => \E e \in Failures : Fail(e)
    BY <1>2 DEF SetMonitor, Goto, NewFails, Exits, Failures, PCAP_ERROR_RFMON_NOTSUP, PCAP_ERROR
  <2>2. QED BY <1>1, <2>1, FailsWith
<1>4. h'.ops = h.ops /\ h'.cleanup = h.cleanup /\ h'.fd = h.fd /\ h'.closed = h.closed /\ h'.opt = h.opt
  BY <1>1, <1>2 DEF SetMonitor, Goto, Fail, NewFails, Exits, Shape, HandleShape, NoHandle
<1>5. kern'.groups \in {kern.groups, 0}
  BY <1>1, <1>2 DEF SetMonitor, Goto, Fail, NewFails, Exits, Closed, Shape, KernelShape, KernelFields
<1>6. OptionsOk'  BY <1>1, <1>4, SameOptions
<1>7. QED BY <1>1, <1>2, <1>3, <1>4, <1>5, <1>6, LinuxKeeps DEF Operating

\* the headers of monitor mode
LEMMA SetHeadersReady ==
    ASSUME Inv, Ready, SetHeaders
    PROVE  Ready'
<1>1. Shape /\ Control /\ OptionsOk /\ Operating  BY InvFacts, ReadyFacts
<1>2. pc = "montype" /\ dev' = dev /\ pc' \in {"arptype", "cleanup"}
  BY DEF SetHeaders, Goto, Fail, NewFails, Exits, Entered
<1>3. pc' = "cleanup" => act'.ret < 0 \/ act'.ret = 1
  <2>1. pc' = "cleanup" => \E e \in Failures : Fail(e)
    BY <1>2 DEF SetHeaders, Goto, NewFails, Exits, Entered, Failures, PCAP_ERROR
  <2>2. QED BY <1>1, <2>1, FailsWith
<1>4. h'.ops = h.ops /\ h'.cleanup = h.cleanup /\ h'.fd = h.fd /\ h'.closed = h.closed /\ h'.opt = h.opt
  BY <1>1, <1>2 DEF SetHeaders, Goto, Fail, NewFails, Exits, Entered, Shape, HandleShape, NoHandle
<1>5. kern'.groups \in {kern.groups, 0}
  BY <1>1, <1>2 DEF SetHeaders, Goto, Fail, NewFails, Exits, Entered, Closed, Shape, KernelShape, KernelFields
<1>6. OptionsOk'  BY <1>1, <1>4, SameOptions
<1>7. QED BY <1>1, <1>2, <1>3, <1>4, <1>5, <1>6, LinuxKeeps DEF Operating

\* the flag of the interface
LEMMA OldPromiscReady ==
    ASSUME Inv, Ready, OldPromisc
    PROVE  Ready'
<1>1. Shape /\ Control /\ OptionsOk /\ Operating  BY InvFacts, ReadyFacts
<1>2. pc = "old_promisc" /\ dev' = dev /\ pc' \in {"old_size", "cleanup"}
  BY DEF OldPromisc, Goto, Fail
<1>3. pc' = "cleanup" => act'.ret < 0 \/ act'.ret = 1
  <2>1. pc' = "cleanup" => \E e \in Failures : Fail(e)
    BY <1>2 DEF OldPromisc, Goto, Failures, PCAP_ERROR
  <2>2. QED BY <1>1, <2>1, FailsWith
<1>4. h'.ops = h.ops /\ h'.cleanup = h.cleanup /\ h'.fd = h.fd /\ h'.closed = h.closed /\ h'.opt = h.opt
  BY <1>1, <1>2 DEF OldPromisc, Goto, Fail, Shape, HandleShape, NoHandle
<1>5. kern'.groups \in {kern.groups, 0}
  BY <1>1, <1>2 DEF OldPromisc, Goto, Fail, Closed, Shape, KernelShape, KernelFields
<1>6. OptionsOk'  BY <1>1, <1>4, SameOptions
<1>7. QED BY <1>1, <1>2, <1>3, <1>4, <1>5, <1>6, LinuxKeeps DEF Operating

\* the size of the buffer
LEMMA OldBufferSizeReady ==
    ASSUME Inv, Ready, OldBufferSize
    PROVE  Ready'
<1>1. Shape /\ Control /\ OptionsOk /\ Operating  BY InvFacts, ReadyFacts
<1>2. pc = "old_size" /\ dev' = dev /\ pc' \in {"rcvbuf", "cleanup"}
  BY DEF OldBufferSize, Goto, Fail, Rest
<1>3. pc' = "cleanup" => act'.ret < 0 \/ act'.ret = 1
  <2>1. pc' = "cleanup" => \E e \in Failures : Fail(e)
    BY <1>2 DEF OldBufferSize, Goto, Rest, Failures, PCAP_ERROR
  <2>2. QED BY <1>1, <2>1, FailsWith
<1>4. h'.ops = h.ops /\ h'.cleanup = h.cleanup /\ h'.fd = h.fd /\ h'.closed = h.closed /\ h'.opt = h.opt
  BY <1>1, <1>2 DEF OldBufferSize, Goto, Fail, Rest, Shape, HandleShape, NoHandle
<1>5. kern'.groups \in {kern.groups, 0}
  BY <1>1, <1>2 DEF OldBufferSize, Goto, Fail, Rest, Closed, Shape, KernelShape, KernelFields
<1>6. OptionsOk'  BY <1>1, <1>4, SameOptions
<1>7. QED BY <1>1, <1>2, <1>3, <1>4, <1>5, <1>6, LinuxKeeps DEF Operating

----------------------------------------------------------------------------
(* The sizes of the ring *)

\* an aligned number of bytes is not smaller, by less than 16
LEMMA Aligned ==
    ASSUME NEW x \in Int
    PROVE  TPACKET_ALIGN(x) \in Int /\ TPACKET_ALIGN(x) >= x /\ TPACKET_ALIGN(x) < x + 16
BY DEF TPACKET_ALIGN

\* where a packet starts in a frame of versions 1 and 2
LEMMA Offsets ==
    /\ MacOffset(1, 0) = 80 /\ MacOffset(1, 14) = 66 /\ MacOffset(1, 256) = 64
    /\ MacOffset(2, 0) = 84 /\ MacOffset(2, 14) = 70 /\ MacOffset(2, 256) = 68
<1>1. SizeofHeader[1] = 28 /\ SizeofHeader[2] = 32  BY DEF SizeofHeader
<1>2. TPACKET_ALIGN(28) = 32 /\ TPACKET_ALIGN(32) = 32 /\ TPACKET_ALIGN(68) = 80 /\ TPACKET_ALIGN(308) = 320
  BY DEF TPACKET_ALIGN
<1>3. Larger(0, 16) = 16 /\ Larger(14, 16) = 16 /\ Larger(256, 16) = 256  BY DEF Larger
<1>4. QED BY <1>1, <1>2, <1>3 DEF MacOffset, SockaddrLl, VLAN_TAG_LEN

\* a frame takes the packet it is made for, and is not much larger than the snapshot length
LEMMA Frames ==
    ASSUME Shape, OptionsOk, NEW v \in 1 .. 3
    PROVE  /\ PacketSize \in Nat /\ FrameSize(v) \in Nat \ {0} /\ FrameSize(v) <= PageSize * 4096
           /\ v # 3 => FrameSize(v) - MacOffset(v, IF h.sk = "dgram" THEN 0 ELSE 14) >= PacketSize - 2
<1>1. dev.mtu \in Nat  BY DeviceAssumption DEF Shape
<1>2. h.opt.snapshot \in Nat /\ h.opt.snapshot + 512 <= PageSize * 4096  BY DEF OptionsOk
<1>3. PacketSize \in Nat /\ PacketSize <= h.opt.snapshot  BY <1>1, <1>2 DEF PacketSize, Smaller
<1>4. PageSize * 4096 \in Nat /\ MAXIMUM_SNAPLEN \in Nat \ {0} /\ MAXIMUM_SNAPLEN <= PageSize * 4096
  <2>1. MAXIMUM_SNAPLEN \in Nat /\ MAXIMUM_SNAPLEN + 512 <= PageSize * 4096  BY ValuesAssumption
  <2>2. PageSize * 4096 \in Nat /\ MAXIMUM_SNAPLEN > 0  BY ActivateAssumption
  <2>3. QED BY <2>1, <2>2
<1> DEFINE first == MacOffset(v, IF h.sk = "dgram" THEN 0 ELSE 256)
<1>5. CASE v = 3
  <2>1. FrameSize(v) = MAXIMUM_SNAPLEN  BY <1>5 DEF FrameSize
  <2>2. QED BY <1>3, <1>4, <1>5, <2>1
<1>6. CASE v # 3
  <2>1. v = 1 \/ v = 2  BY <1>6
  <2>2. FrameSize(v) = TPACKET_ALIGN(first + PacketSize)  BY <1>6 DEF FrameSize, MAX_LINKHEADER_SIZE
  <2>3. first \in Nat /\ first <= 84 /\ first > 0  BY <2>1, Offsets
  <2>4. first - MacOffset(v, IF h.sk = "dgram" THEN 0 ELSE 14) >= -2  BY <2>1, Offsets
  <2>5. MacOffset(v, IF h.sk = "dgram" THEN 0 ELSE 14) \in Int  BY <2>1, Offsets
  <2> HIDE DEF first
  <2>6. FrameSize(v) \in Int /\ FrameSize(v) >= first + PacketSize /\ FrameSize(v) < first + PacketSize + 16
    BY <1>3, <2>2, <2>3, Aligned
  <2>7. QED BY <1>2, <1>3, <1>4, <2>3, <2>4, <2>5, <2>6
<1>7. QED BY <1>5, <1>6

\* a page is doubled until a frame fits
LEMMA BlockFits ==
    ASSUME NEW f \in Nat, f <= PageSize * 4096
    PROVE  BlockSize(f) \in Nat /\ BlockSize(f) >= f
<1> DEFINE Least(b) == b \in BlockSizes /\ b >= f /\ \A c \in BlockSizes : c >= f => b <= c
<1>1. PageSize \in Nat \ {0}  BY ActivateAssumption
<1>2. \E b : Least(b)
  <2>1. CASE f <= PageSize * 1
    <3>1. Least(PageSize * 1)  BY <1>1, <2>1 DEF BlockSizes
    <3>2. QED BY <3>1
  <2>2. CASE PageSize * 1 < f /\ f <= PageSize * 2
    <3>1. Least(PageSize * 2)  BY <1>1, <2>2 DEF BlockSizes
    <3>2. QED BY <3>1
  <2>3. CASE PageSize * 2 < f /\ f <= PageSize * 4
    <3>1. Least(PageSize * 4)  BY <1>1, <2>3 DEF BlockSizes
    <3>2. QED BY <3>1
  <2>4. CASE PageSize * 4 < f /\ f <= PageSize * 8
    <3>1. Least(PageSize * 8)  BY <1>1, <2>4 DEF BlockSizes
    <3>2. QED BY <3>1
  <2>5. CASE PageSize * 8 < f /\ f <= PageSize * 16
    <3>1. Least(PageSize * 16)  BY <1>1, <2>5 DEF BlockSizes
    <3>2. QED BY <3>1
  <2>6. CASE PageSize * 16 < f /\ f <= PageSize * 32
    <3>1. Least(PageSize * 32)  BY <1>1, <2>6 DEF BlockSizes
    <3>2. QED BY <3>1
  <2>7. CASE PageSize * 32 < f /\ f <= PageSize * 64
    <3>1. Least(PageSize * 64)  BY <1>1, <2>7 DEF BlockSizes
    <3>2. QED BY <3>1
  <2>8. CASE PageSize * 64 < f /\ f <= PageSize * 128
    <3>1. Least(PageSize * 128)  BY <1>1, <2>8 DEF BlockSizes
    <3>2. QED BY <3>1
  <2>9. CASE PageSize * 128 < f /\ f <= PageSize * 256
    <3>1. Least(PageSize * 256)  BY <1>1, <2>9 DEF BlockSizes
    <3>2. QED BY <3>1
  <2>10. CASE PageSize * 256 < f /\ f <= PageSize * 512
    <3>1. Least(PageSize * 512)  BY <1>1, <2>10 DEF BlockSizes
    <3>2. QED BY <3>1
  <2>11. CASE PageSize * 512 < f /\ f <= PageSize * 1024
    <3>1. Least(PageSize * 1024)  BY <1>1, <2>11 DEF BlockSizes
    <3>2. QED BY <3>1
  <2>12. CASE PageSize * 1024 < f /\ f <= PageSize * 2048
    <3>1. Least(PageSize * 2048)  BY <1>1, <2>12 DEF BlockSizes
    <3>2. QED BY <3>1
  <2>13. CASE PageSize * 2048 < f /\ f <= PageSize * 4096
    <3>1. Least(PageSize * 4096)  BY <1>1, <2>13 DEF BlockSizes
    <3>2. QED BY <3>1
  <2>14. QED BY <1>1, <2>1, <2>2, <2>3, <2>4, <2>5, <2>6, <2>7, <2>8, <2>9, <2>10, <2>11, <2>12, <2>13
<1>3. BlockSize(f) \in BlockSizes /\ BlockSize(f) >= f  BY <1>2 DEF BlockSize
<1>4. \A b \in BlockSizes : b \in Nat  BY <1>1 DEF BlockSizes
<1>5. QED BY <1>3, <1>4

----------------------------------------------------------------------------
(* The steps of the ring *)

\* the name of the device
LEMMA SetDeviceReady ==
    ASSUME Inv, Ready, SetDevice
    PROVE  Ready'
<1>1. Shape /\ Control /\ OptionsOk /\ Operating /\ Joining /\ Succeeding  BY InvFacts, ReadyFacts
<1>2. pc = "device" /\ dev' = dev /\ kern' = kern  BY DEF SetDevice
<1>3. h'.ops = h.ops /\ h'.cleanup = h.cleanup /\ h'.fd = h.fd /\ h'.closed = h.closed /\ h'.opt = h.opt
  BY <1>1 DEF SetDevice, Shape, HandleShape, NoHandle
<1>4. OptionsOk'  BY <1>1, <1>3, SameOptions
<1>5. CASE pc' = "socket"  BY <1>1, <1>2, <1>3, <1>4, <1>5, LinuxKeeps
<1>6. CASE pc' = "return"
  <2>1. act'.ret = -1  BY <1>1, <1>6 DEF SetDevice, Goto, PCAP_ERROR, Shape, CallShape, NoCall
  <2>2. h.ops = "linux"  BY <1>1, <1>2 DEF Operating
  <2>3. Operating'  BY <1>1, <1>3, <1>6 DEF Operating
  <2>4. Joining'  BY <1>1, <1>2, <1>3, <1>6 DEF Joining
  <2>5. Sizing'  BY <1>3, <1>6, <2>2 DEF Sizing
  <2>6. Succeeding'  BY <1>6, <2>1 DEF Succeeding
  <2>7. QED BY <1>4, <2>3, <2>4, <2>5, <2>6 DEF Ready
<1>7. QED BY <1>5, <1>6 DEF SetDevice, Goto

\* the handle gets the socket, and a snapshot length that leaves room for the cooked header
LEMMA SetSocketOptionsReady ==
    ASSUME Inv, Ready, SetSocketOptions
    PROVE  Ready'
<1>1. Shape /\ Control /\ OptionsOk /\ Operating  BY InvFacts, ReadyFacts
<1>2. pc = "promisc" /\ dev' = dev /\ pc' \in {"mmap", "cleanup"}
  BY DEF SetSocketOptions, Goto, Fail, NewFails, Rest
<1>3. pc' = "cleanup" => act'.ret < 0 \/ act'.ret = 1
  <2>1. pc' = "cleanup" => \E e \in Failures : Fail(e)
    BY DEF SetSocketOptions, Goto, NewFails, Failures, PCAP_ERROR
  <2>2. QED BY <1>1, <2>1, FailsWith
<1>4. h'.ops = h.ops /\ h'.cleanup = h.cleanup /\ h'.closed = h.closed
  BY <1>1 DEF SetSocketOptions, Shape, HandleShape, NoHandle
<1>5. (h.fd => h'.fd) /\ (pc' = "mmap" => h'.fd)
  BY <1>1 DEF SetSocketOptions, Shape, HandleShape, NoHandle, NewFails, Fail
<1>6. kern'.groups \in {kern.groups, 0}
  BY <1>1 DEF SetSocketOptions, NewFails, Closed, Shape, KernelShape, KernelFields
<1>7. OptionsOk'
  <2> DEFINE n == IF h.cooked /\ h.opt.snapshot < 17 THEN 17 ELSE h.opt.snapshot
  <2>1. h'.opt = h.opt \/ h'.opt = [h.opt EXCEPT !.snapshot = n]
    <3>1. h' = h \/ h' = [h EXCEPT !.fd = TRUE, !.opt.snapshot = n]
      BY DEF SetSocketOptions, SLL_HDR_LEN
    <3> HIDE DEF n
    <3>2. QED BY <1>1, <3>1 DEF Shape, HandleShape, NoHandle
  <2>2. n \in Nat /\ n + 512 <= PageSize * 4096  BY <1>1, <2>1, ActivateAssumption DEF OptionsOk
  <2>3. QED BY <1>1, <2>1, <2>2 DEF OptionsOk, Options
<1>8. QED BY <1>1, <1>2, <1>3, <1>4, <1>5, <1>6, <1>7, LinuxKeeps

\* the old socket belongs to the handle at once
LEMMA OldSocketReady ==
    ASSUME Inv, Ready, OldSocket
    PROVE  Ready'
<1>1. Shape /\ Control /\ OptionsOk /\ Operating  BY InvFacts, ReadyFacts
<1>2. pc = "old" /\ dev' = dev /\ pc' \in {"old_promisc", "cleanup"}  BY DEF OldSocket, Goto, Fail
<1>3. pc' = "cleanup" => act'.ret < 0 \/ act'.ret = 1
  <2>1. pc' = "cleanup" => \E e \in Failures : Fail(e)
    BY DEF OldSocket, Goto, Failures, PCAP_ERROR, PCAP_ERROR_PERM_DENIED
  <2>2. QED BY <1>1, <2>1, FailsWith
<1>4. h'.ops = h.ops /\ h'.cleanup = h.cleanup /\ h'.closed = h.closed /\ h'.opt = h.opt
  BY <1>1 DEF OldSocket, Shape, HandleShape, NoHandle
<1>5. (h.fd => h'.fd) /\ (pc' = "old_promisc" => h'.fd)
  BY <1>1 DEF OldSocket, Shape, HandleShape, NoHandle, Fail
<1>6. kern'.groups \in {kern.groups, 0}  BY <1>1 DEF OldSocket, Shape, KernelShape, KernelFields
<1>7. OptionsOk'  BY <1>1, <1>4, SameOptions
<1>8. QED BY <1>1, <1>2, <1>3, <1>4, <1>5, <1>6, <1>7, LinuxKeeps

\* the one-shot buffer, and the size of the ring
LEMMA activate_mmapReady ==
    ASSUME Inv, Ready, activate_mmap
    PROVE  Ready'
<1>1. Shape /\ Control /\ OptionsOk /\ Operating  BY InvFacts, ReadyFacts
<1>2. pc = "mmap" /\ dev' = dev /\ kern' = kern /\ pc' \in {"tpacket", "cleanup"}
  BY DEF activate_mmap, Goto, MmapFails, Fail
<1>3. pc' = "cleanup" => act'.ret < 0 \/ act'.ret = 1
  <2>1. pc' = "cleanup" => \E e \in Failures : Fail(e)
    BY DEF activate_mmap, Goto, MmapFails, Failures, PCAP_WARNING
  <2>2. QED BY <1>1, <2>1, FailsWith
<1>4. h'.ops = h.ops /\ h'.cleanup = h.cleanup /\ h'.fd = h.fd /\ h'.closed = h.closed
  BY <1>1 DEF activate_mmap, Shape, HandleShape, NoHandle
<1>5. OptionsOk'
  <2>1. PICK n : n \in {h.opt.buffer_size, DefaultBuffer} /\ h'.opt \in {h.opt, [h.opt EXCEPT !.buffer_size = n]}
    BY <1>1 DEF activate_mmap, Shape, HandleShape, NoHandle
  <2>2. n \in Nat  BY <1>1, <2>1, ValuesAssumption DEF OptionsOk
  <2>3. QED BY <1>1, <2>1, <2>2 DEF OptionsOk, Options
<1>6. QED BY <1>1, <1>2, <1>3, <1>4, <1>5, LinuxKeeps DEF Operating

\* the version of the ring
LEMMA prepare_tpacket_socketReady ==
    ASSUME Inv, Ready, prepare_tpacket_socket
    PROVE  Ready'
<1>1. Shape /\ Control /\ OptionsOk /\ Operating /\ Joining  BY InvFacts, ReadyFacts
<1>2. pc = "tpacket" /\ dev' = dev /\ kern' = kern  BY DEF prepare_tpacket_socket
<1>3. h'.ops = h.ops /\ h'.cleanup = h.cleanup /\ h'.fd = h.fd /\ h'.closed = h.closed /\ h'.opt = h.opt
  BY <1>1 DEF prepare_tpacket_socket, FreesOneshot, Shape, HandleShape, NoHandle
<1>4. OptionsOk'  BY <1>1, <1>3, SameOptions
<1>5. CASE pc' = "cleanup"
  <2>1. \E e \in Failures : Fail(e)  BY <1>5 DEF prepare_tpacket_socket, Goto, MmapFails, Failures, PCAP_WARNING
  <2>2. QED BY <1>1, <1>2, <1>3, <1>4, <1>5, <2>1, FailsWith, LinuxKeeps
<1>6. CASE pc' = "ring_size"
  <2>1. act'.n \in 1 .. 3
    <3>1. TpVersion \in 1 .. 3  BY DEF TpVersion
    <3>2. act' = [act EXCEPT !.n = TpVersion, !.ret = 0]  BY <1>6 DEF prepare_tpacket_socket, MmapFails, Fail
    <3>3. act'.n = TpVersion  BY <1>1, <3>2 DEF Shape, CallShape, NoCall
    <3>4. QED BY <3>1, <3>3
  <2>2. Operating'  BY <1>1, <1>2, <1>3, <1>6 DEF Operating
  <2>3. Joining'  BY <1>1, <1>2, <1>3, <1>6 DEF Joining
  <2>4. Sizing'  BY <1>6, <2>1 DEF Sizing
  <2>5. Succeeding'  BY <1>6 DEF Succeeding
  <2>6. QED BY <1>4, <2>2, <2>3, <2>4, <2>5 DEF Ready
<1>7. QED BY <1>5, <1>6 DEF prepare_tpacket_socket, Goto, MmapFails, Fail

\* what a frame is made for does not change while the ring is set up
LEMMA SameFrame ==
    ASSUME dev' = dev, h'.opt = h.opt, h'.linktype = h.linktype, h'.sk = h.sk
    PROVE  /\ PacketSize' = PacketSize
           /\ \A v : FrameSize(v)' = FrameSize(v)
<1>1. PacketSize' = PacketSize  BY DEF PacketSize
<1>2. QED BY <1>1 DEF FrameSize

\* the sizes of frames and blocks
LEMMA RingSizeReady ==
    ASSUME Inv, Ready, RingSize
    PROVE  Ready'
<1>1. Shape /\ Control /\ OptionsOk /\ Operating /\ Joining /\ Sizing  BY InvFacts, ReadyFacts
<1>2. pc = "ring_size" /\ dev' = dev /\ kern' = kern  BY DEF RingSize
<1>3. h'.ops = h.ops /\ h'.cleanup = h.cleanup /\ h'.fd = h.fd /\ h'.closed = h.closed /\ h'.opt = h.opt
  BY <1>1 DEF RingSize, FreesOneshot, Shape, HandleShape, NoHandle
<1>4. OptionsOk'  BY <1>1, <1>3, SameOptions
<1>5. CASE pc' = "cleanup"
  <2>1. \E e \in Failures : Fail(e)  BY <1>5 DEF RingSize, Goto, MmapFails, Failures, PCAP_WARNING
  <2>2. QED BY <1>1, <1>2, <1>3, <1>4, <1>5, <2>1, FailsWith, LinuxKeeps
<1>6. CASE pc' = "hwtstamp"
  <2> DEFINE frame == FrameSize(act.n)
             req == [frame_size |-> frame, block_size |-> BlockSize(frame),
                     frame_nr |-> h.opt.buffer_size \div frame, block_nr |-> 0]
  <2>1. UNCHANGED h /\ act' = [act EXCEPT !.req = req]  BY <1>6 DEF RingSize, MmapFails, Fail
  <2>2. act.n \in 1 .. 3  BY <1>1, <1>2 DEF Sizing
  <2>3. act'.n = act.n /\ act'.req = req  BY <1>1, <2>1 DEF Shape, CallShape, NoCall
  <2>4. frame \in Nat \ {0} /\ frame <= PageSize * 4096  BY <1>1, <2>2, Frames
  <2>5. BlockSize(frame) \in Nat /\ BlockSize(frame) >= frame  BY <2>4, BlockFits
  <2>6. h.opt.buffer_size \div frame \in Int  BY <1>1, <2>4 DEF OptionsOk
  <2>7. FrameSize(act.n)' = frame
    <3>1. \A v : FrameSize(v)' = FrameSize(v)  BY <1>2, <2>1, SameFrame
    <3>2. QED BY <2>3, <3>1 DEF FrameSize
  <2>8. DOMAIN req = RingFields  BY DEF RingFields
  <2>9. Operating'  BY <1>1, <1>2, <1>3, <1>6 DEF Operating
  <2>10. Joining'  BY <1>1, <1>2, <1>3, <1>6 DEF Joining
  <2>11. Sizing'
    <3> HIDE DEF frame
    <3>1. req.frame_size = frame /\ req.block_size = BlockSize(frame) /\ req.frame_nr \in Int  BY <2>6
    <3> HIDE DEF req
    <3>2. QED BY <1>6, <2>2, <2>3, <2>4, <2>5, <2>7, <2>8, <3>1 DEF Sizing
  <2>12. Succeeding'  BY <1>6 DEF Succeeding
  <2>13. QED BY <1>4, <2>9, <2>10, <2>11, <2>12 DEF Ready
<1>7. QED BY <1>5, <1>6 DEF RingSize, Goto, MmapFails, Fail

\* what a step of the ring needs of the sizes it works with
Sizes(r) ==
    /\ DOMAIN r = RingFields /\ r.frame_size \in Nat \ {0} /\ r.block_size \in Nat
    /\ r.block_size >= r.frame_size /\ r.frame_nr \in Int

\* whole blocks of frames: a ring with a block has a frame
LEMMA RoundedSizes ==
    ASSUME NEW r, Sizes(r)
    PROVE  /\ Sizes(Rounded(r)) /\ Rounded(r).frame_size = r.frame_size
           /\ Rounded(r).block_nr \in Int
           /\ Rounded(r).block_nr > 0 => Rounded(r).frame_nr > 0
<1> DEFINE k == FramesPerBlock(r)
           b == r.frame_nr \div k
<1>1. k \in Nat /\ k >= 1
  <2> DEFINE x == r.block_size
             y == r.frame_size
  <2>1. x \in Nat /\ y \in Nat /\ y > 0 /\ x >= y  BY DEF Sizes
  <2>2. k = x \div y  BY DEF FramesPerBlock
  <2> HIDE DEF x, y, k
  <2>3. x \div y \in Int /\ x = y * (x \div y) + (x % y) /\ x % y < y  BY <2>1
  <2>4. x \div y > 0
    <3>1. SUFFICES ASSUME x \div y <= 0 PROVE FALSE  BY <2>3
    <3>2. y * (x \div y) <= 0  BY <2>1, <2>3, <3>1
    <3>3. QED BY <2>1, <2>3, <3>2
  <2>5. QED BY <2>2, <2>3, <2>4
<1> HIDE DEF k
<1>2. b \in Int  BY <1>1 DEF Sizes
<1> HIDE DEF b
<1>3. b * k \in Int /\ (b > 0 => b * k > 0)  BY <1>1, <1>2
<1>4. Rounded(r) = [r EXCEPT !.block_nr = b, !.frame_nr = b * k]  BY DEF Rounded, k, b
<1>5. /\ DOMAIN Rounded(r) = RingFields /\ Rounded(r).frame_size = r.frame_size
      /\ Rounded(r).block_size = r.block_size /\ Rounded(r).block_nr = b /\ Rounded(r).frame_nr = b * k
  BY <1>4 DEF Sizes, RingFields
<1>6. QED BY <1>2, <1>3, <1>5 DEF Sizes

\* fewer frames are still a number of frames
LEMMA FewerSizes ==
    ASSUME NEW r, Sizes(r)
    PROVE  Sizes([r EXCEPT !.frame_nr = Fewer(@)])
<1>1. Fewer(r.frame_nr) \in Int  BY DEF Fewer, Sizes
<1>2. QED BY <1>1 DEF Sizes, RingFields

\* the sizes that Sizing speaks of
LEMMA SizingFacts ==
    ASSUME Sizing, pc \in {"hwtstamp", "ring", "map_ring"}
    PROVE  Sizes(act.req) /\ act.n \in 1 .. 3 /\ act.req.frame_size = FrameSize(act.n)
BY DEF Sizing, Sizes

\* one step of the ring to the next, with the handle as it is
LEMMA RingKeeps ==
    ASSUME Inv, Ready, pc \in {"hwtstamp", "ring"}, UNCHANGED <<dev, h>>, kern'.groups = kern.groups,
           pc' \in {"ring", "map_ring"}, act'.n = act.n, Sizes(act'.req),
           act'.req.frame_size = act.req.frame_size, pc' = "map_ring" /\ kern'.ring => act'.req.frame_nr > 0
    PROVE  Ready'
<1>1. OptionsOk /\ Operating /\ Joining /\ Sizing /\ Succeeding  BY ReadyFacts
<1>2. act.n \in 1 .. 3 /\ act.req.frame_size = FrameSize(act.n)  BY <1>1, SizingFacts
<1>3. FrameSize(act.n)' = FrameSize(act.n)
  <2>1. \A v : FrameSize(v)' = FrameSize(v)  BY SameFrame
  <2>2. QED BY <2>1 DEF FrameSize
<1>4. OptionsOk'  BY <1>1, SameOptions
<1>5. Operating'  BY <1>1 DEF Operating
<1>6. Joining'  BY <1>1 DEF Joining
<1>7. Sizing'  BY <1>2, <1>3 DEF Sizing, Sizes
<1>8. Succeeding'  BY DEF Succeeding
<1>9. QED BY <1>4, <1>5, <1>6, <1>7, <1>8 DEF Ready

\* adapter time stamps
LEMMA SetHwTstampReady ==
    ASSUME Inv, Ready, SetHwTstamp
    PROVE  Ready'
<1>1. Shape /\ Control /\ OptionsOk /\ Operating /\ Sizing  BY InvFacts, ReadyFacts
<1>2. pc = "hwtstamp" /\ dev' = dev /\ kern' = kern  BY DEF SetHwTstamp
<1>3. CASE pc' = "cleanup"
  <2>1. \E e \in Failures : Fail(e)  BY <1>3 DEF SetHwTstamp, Goto, MmapFails, Failures, PCAP_WARNING
  <2>2. h'.ops = h.ops /\ h'.cleanup = h.cleanup /\ h'.fd = h.fd /\ h'.closed = h.closed /\ h'.opt = h.opt
    BY <1>1 DEF SetHwTstamp, FreesOneshot, Shape, HandleShape, NoHandle
  <2>3. OptionsOk'  BY <1>1, <2>2, SameOptions
  <2>4. QED BY <1>1, <1>2, <1>3, <2>1, <2>2, <2>3, FailsWith, LinuxKeeps
<1>4. CASE pc' = "ring"
  <2>1. h' = h  BY <1>4 DEF SetHwTstamp, MmapFails, Fail
  <2>2. PICK n : act' = [act EXCEPT !.ret = n]  BY <1>4 DEF SetHwTstamp, MmapFails, Fail
  <2>3. act'.n = act.n /\ act'.req = act.req  BY <1>1, <2>2 DEF Shape, CallShape, NoCall
  <2>4. QED BY <1>1, <1>2, <1>4, <2>1, <2>3, SizingFacts, RingKeeps
<1>5. QED BY <1>3, <1>4 DEF SetHwTstamp, Goto, MmapFails, Fail

\* the ring is asked for, and asked for again with fewer frames
LEMMA RequestRingReady ==
    ASSUME Inv, Ready, RequestRing
    PROVE  Ready'
<1>1. Shape /\ Control /\ OptionsOk /\ Operating /\ Sizing  BY InvFacts, ReadyFacts
<1> DEFINE req == Rounded(act.req)
<1>2. pc = "ring" /\ dev' = dev  BY DEF RequestRing
<1>3. Sizes(act.req)  BY <1>1, <1>2, SizingFacts
<1>4. Sizes(req) /\ req.frame_size = act.req.frame_size /\ (req.block_nr > 0 => req.frame_nr > 0)
  BY <1>3, RoundedSizes
<1>5. \/ MmapFails /\ FreesOneshot /\ kern' = kern
      \/ pc' = "rcvbuf" /\ FreesOneshot /\ kern' = kern
      \/ pc' = "ring" /\ act' = [act EXCEPT !.req = [req EXCEPT !.frame_nr = Fewer(@)]] /\ UNCHANGED <<h, kern>>
      \/ /\ pc' = "map_ring" /\ act' = [act EXCEPT !.req = req] /\ h' = h
         /\ kern' = [kern EXCEPT !.ring = req.block_nr > 0]
  BY <1>2 DEF RequestRing, Goto
<1> HIDE DEF req
<1>6. ASSUME FreesOneshot
      PROVE  /\ h'.ops = h.ops /\ h'.cleanup = h.cleanup /\ h'.fd = h.fd /\ h'.closed = h.closed
             /\ OptionsOk'
  <2>1. h'.ops = h.ops /\ h'.cleanup = h.cleanup /\ h'.fd = h.fd /\ h'.closed = h.closed /\ h'.opt = h.opt
    BY <1>1, <1>6 DEF FreesOneshot, Shape, HandleShape, NoHandle
  <2>2. QED BY <1>1, <2>1, SameOptions
<1>7. CASE MmapFails /\ FreesOneshot /\ kern' = kern
  <2>1. \E e \in Failures : Fail(e)  BY <1>7 DEF MmapFails, Failures, PCAP_WARNING
  <2>2. pc' = "cleanup"  BY <1>7 DEF MmapFails, Fail
  <2>3. QED BY <1>1, <1>2, <1>6, <1>7, <2>1, <2>2, FailsWith, LinuxKeeps
<1>8. CASE pc' = "rcvbuf" /\ FreesOneshot /\ kern' = kern
  BY <1>1, <1>2, <1>6, <1>8, LinuxKeeps DEF Operating
<1>9. CASE /\ pc' = "ring" /\ act' = [act EXCEPT !.req = [req EXCEPT !.frame_nr = Fewer(@)]]
           /\ UNCHANGED <<h, kern>>
  <2>1. act'.n = act.n /\ act'.req = [req EXCEPT !.frame_nr = Fewer(@)]
    BY <1>1, <1>9 DEF Shape, CallShape, NoCall
  <2>2. Sizes(act'.req) /\ act'.req.frame_size = act.req.frame_size
    <3>1. Sizes([req EXCEPT !.frame_nr = Fewer(@)])  BY <1>4, FewerSizes
    <3>2. [req EXCEPT !.frame_nr = Fewer(@)].frame_size = req.frame_size  BY <1>4 DEF Sizes, RingFields
    <3>3. QED BY <1>4, <2>1, <3>1, <3>2
  <2>3. QED BY <1>2, <1>9, <2>1, <2>2, RingKeeps
<1>10. CASE /\ pc' = "map_ring" /\ act' = [act EXCEPT !.req = req] /\ h' = h
            /\ kern' = [kern EXCEPT !.ring = req.block_nr > 0]
  <2>1. act'.n = act.n /\ act'.req = req  BY <1>1, <1>10 DEF Shape, CallShape, NoCall
  <2>2. kern'.groups = kern.groups /\ (kern'.ring <=> req.block_nr > 0)
    BY <1>1, <1>10 DEF Shape, KernelShape, KernelFields
  <2>3. QED BY <1>2, <1>4, <1>10, <2>1, <2>2, RingKeeps
<1>11. QED BY <1>5, <1>7, <1>8, <1>9, <1>10

\* a handle of pcap_activate_linux() that is not closed has a descriptor that is not closed
LEMMA LinuxHandle ==
    ASSUME Inv, pc \in Linuxing
    PROVE  ~h.closed /\ ~Special /\ (pc # "device" => "device" \in h.ptr) /\ h.cleanup = "linux" /\ act.ret >= 0
<1>1. Control /\ Owning /\ Where  BY InvFacts
<1>2. ~Special /\ h.cleanup = "linux" /\ act.ret >= 0  BY <1>1 DEF Control
<1>3. ~h.closed  BY <1>1, <1>2 DEF Owning, Special
<1>4. QED BY <1>1, <1>2, <1>3 DEF Where

\* the ring is mapped: the handle can be read
LEMMA MapRingReady ==
    ASSUME Inv, Ready, MapRing
    PROVE  Ready'
<1>1. Shape /\ Control /\ OptionsOk /\ Operating /\ Joining /\ Sizing  BY InvFacts, ReadyFacts
<1>2. pc = "map_ring" /\ dev' = dev  BY DEF MapRing
<1>3. Sizes(act.req) /\ act.n \in 1 .. 3 /\ act.req.frame_size = FrameSize(act.n)  BY <1>1, <1>2, SizingFacts
<1>4. CASE pc' = "cleanup"
  <2>1. \E e \in Failures : Fail(e)  BY <1>4 DEF MapRing, Goto, MmapFails, Failures, PCAP_WARNING
  <2>2. h'.ops = h.ops /\ h'.cleanup = h.cleanup /\ h'.fd = h.fd /\ h'.closed = h.closed /\ h'.opt = h.opt
    BY <1>1, <1>4 DEF MapRing, Goto, FreesOneshot, Shape, HandleShape, NoHandle
  <2>3. OptionsOk'  BY <1>1, <2>2, SameOptions
  <2>4. kern'.groups = kern.groups
    BY <1>1, <1>4 DEF MapRing, Goto, destroy_ring, Shape, KernelShape, KernelFields
  <2>5. QED BY <1>1, <1>2, <1>4, <2>1, <2>2, <2>3, <2>4, FailsWith, LinuxKeeps
<1>5. CASE pc' = "return"
  <2> DEFINE ops == CASE act.n = 1 -> "v1" [] act.n = 2 -> "v2" [] act.n = 3 -> "v3"
  <2>1. /\ kern.ring /\ kern' = [kern EXCEPT !.mapped = TRUE]
        /\ h' = [h EXCEPT !.ptr = @ \cup {"buffer"}, !.cc = act.req.frame_nr, !.cleanup = "mmap",
                   !.bufsize = act.req.frame_size, !.ops = ops]
    BY <1>5 DEF MapRing, MmapFails, Fail
  <2>2. ops = IF act.n = 1 THEN "v1" ELSE IF act.n = 2 THEN "v2" ELSE "v3"  BY <1>3
  <2> HIDE DEF ops
  <2>3. /\ h'.ptr = h.ptr \cup {"buffer"} /\ h'.cc = act.req.frame_nr /\ h'.cleanup = "mmap"
        /\ h'.bufsize = act.req.frame_size /\ h'.ops = ops /\ h'.fd = h.fd /\ h'.closed = h.closed
        /\ h'.opt = h.opt /\ h'.linktype = h.linktype /\ h'.sk = h.sk
    BY <1>1, <2>1 DEF Shape, HandleShape, NoHandle
  <2>4. kern'.mapped = TRUE /\ kern'.groups = kern.groups
    BY <1>1, <2>1 DEF Shape, KernelShape, KernelFields
  <2>5. OptionsOk'  BY <1>1, <2>3, SameOptions
  <2>6. Operating'  BY <1>5, <2>2, <2>3 DEF Operating
  <2>7. Joining'  BY <1>1, <1>5, <2>3, <2>4 DEF Joining
  <2>8. Sizing'
    <3>1. \A v : FrameSize(v)' = FrameSize(v)  BY <1>2, <2>3, SameFrame
    <3>2. ops = "v1" => act.req.frame_size = FrameSize(1)  BY <1>3, <2>2
    <3>3. ops = "v2" => act.req.frame_size = FrameSize(2)  BY <1>3, <2>2
    <3>4. h'.ops \in {"v1", "v2"} => h'.bufsize = FrameSize(IF h.ops = "v1" THEN 1 ELSE 2)'
      BY <2>3, <3>1, <3>2, <3>3
    <3>5. QED BY <1>5, <3>4 DEF Sizing
  <2>9. Usable'
    <3>1. act.req.frame_nr > 0  BY <1>1, <1>2, <2>1 DEF Sizing
    <3>2. h.fd  BY <1>1, <1>2 DEF Operating
    <3>3. ~h.closed /\ "device" \in h.ptr  BY <1>2, LinuxHandle
    <3>4. QED BY <2>2, <2>3, <2>4, <3>1, <3>2, <3>3 DEF Usable
  <2>10. Succeeding'  BY <1>5, <2>9 DEF Succeeding
  <2>11. QED BY <2>5, <2>6, <2>7, <2>8, <2>10 DEF Ready
<1>6. QED BY <1>4, <1>5 DEF MapRing, Goto, MmapFails, Fail

\* a buffer for one packet: the handle can be read
LEMMA SetBufferReady ==
    ASSUME Inv, Ready, SetBuffer
    PROVE  Ready'
<1>1. Shape /\ Control /\ OptionsOk /\ Operating /\ Joining  BY InvFacts, ReadyFacts
<1>2. pc = "rcvbuf" /\ dev' = dev /\ kern' = kern  BY DEF SetBuffer
<1>3. h'.ops = h.ops /\ h'.cleanup = h.cleanup /\ h'.fd = h.fd /\ h'.closed = h.closed /\ h'.opt = h.opt
  BY <1>1 DEF SetBuffer, Shape, HandleShape, NoHandle
<1>4. OptionsOk'  BY <1>1, <1>3, SameOptions
<1>5. CASE pc' = "cleanup"
  <2>1. \E e \in Failures : Fail(e)  BY <1>5 DEF SetBuffer, Goto, Failures, PCAP_ERROR
  <2>2. QED BY <1>1, <1>2, <1>3, <1>4, <1>5, <2>1, FailsWith, LinuxKeeps
<1>6. CASE pc' = "return"
  <2>1. h' = [h EXCEPT !.ptr = @ \cup {"buffer"}]  BY <1>6 DEF SetBuffer, Fail
  <2>2. h'.ptr = h.ptr \cup {"buffer"}  BY <1>1, <2>1 DEF Shape, HandleShape, NoHandle
  <2>3. h.ops = "linux" /\ h.fd  BY <1>1, <1>2 DEF Operating
  <2>4. ~h.closed /\ "device" \in h.ptr  BY <1>2, LinuxHandle
  <2>5. Usable'  BY <1>3, <2>2, <2>3, <2>4 DEF Usable
  <2>6. Operating'  BY <1>3, <1>6, <2>3 DEF Operating
  <2>7. Joining'  BY <1>1, <1>2, <1>3, <1>6 DEF Joining
  <2>8. Sizing'  BY <1>3, <1>6, <2>3 DEF Sizing
  <2>9. Succeeding'  BY <1>6, <2>5 DEF Succeeding
  <2>10. QED BY <1>4, <2>6, <2>7, <2>8, <2>9 DEF Ready
<1>7. QED BY <1>5, <1>6 DEF SetBuffer, Goto, Fail

----------------------------------------------------------------------------
(* The other devices, and the end of a call *)

\* a step that closes, cleans up, or returns an error
LEMMA EndKeeps ==
    ASSUME Ready, OptionsOk', Paired', kern'.groups = 0 \/ (h'.fd /\ ~h'.closed),
           \/ pc' \in {"close", "cleanup", "free", "crash", "exited"}
           \/ pc' = "return" /\ act'.ret \in Int /\ (act'.ret < 0 \/ act'.ret = 1) /\ h'.ops \notin Rings
           \/ pc' = "idle" /\ ~h'.alive,
           pc' \in {"cleanup", "free"} /\ act'.after = "return" => act'.ret < 0 \/ act'.ret = 1
    PROVE  Ready'
<1>1. Operating'  BY DEF Operating
<1>2. Joining'  BY DEF Joining
<1>3. Sizing'  BY DEF Sizing
<1>4. Succeeding'  BY DEF Succeeding, PCAP_WARNING
<1>5. QED BY <1>1, <1>2, <1>3, <1>4 DEF Ready

\* a step of another kind of device to the next
LEMMA OwnKeeps ==
    ASSUME Ready, Joining', OptionsOk', Paired', pc' \in Own \cup {"activate"}
    PROVE  Ready'
<1>1. Operating'  BY DEF Operating
<1>2. Sizing'  BY DEF Sizing
<1>3. Succeeding'  BY DEF Succeeding
<1>4. QED BY <1>1, <1>2, <1>3 DEF Ready

\* another kind of device is activated
LEMMA OwnReturns ==
    ASSUME Ready, Usable', Joining', OptionsOk', Paired', h'.ops \notin Rings, pc' = "return"
    PROVE  Ready'
<1>1. Operating'  BY DEF Operating
<1>2. Sizing'  BY DEF Sizing
<1>3. Succeeding'  BY DEF Succeeding
<1>4. QED BY <1>1, <1>2, <1>3 DEF Ready

\* what is known of a handle at such a step
LEMMA OwnHandle ==
    ASSUME Inv, Ready, pc \in Own
    PROVE  /\ Shape /\ OptionsOk /\ Joining /\ Special /\ h.cleanup = "common"
           /\ h.ops \notin Rings /\ h.ops # "usb_mmap"
           /\ pc \in {"can", "usb", "usb_text", "netfilter"} => kern.groups = 0
           /\ pc \notin {"usb", "usb_text"} => ~h.closed \/ pc \in {"can", "netfilter"}
           /\ pc \in {"usb_mode", "usb_buffer"} => h.fd
<1>1. Shape /\ Control /\ Owning /\ OptionsOk /\ Operating /\ Joining  BY InvFacts, ReadyFacts
<1>2. Special /\ h.cleanup = "common"  BY <1>1 DEF Control
<1>3. h.ops \notin Rings /\ h.ops # "usb_mmap"  BY <1>1, <1>2 DEF Operating
<1>4. pc \in {"can", "usb", "usb_text", "netfilter"} => kern.groups = 0  BY <1>1 DEF Owning, Joining
<1>5. pc \notin {"usb", "usb_text"} => ~h.closed \/ pc \in {"can", "netfilter"}
  BY <1>1 DEF Owning, Control
<1>6. pc \in {"usb_mode", "usb_buffer"} => h.fd  BY <1>1 DEF Owning
<1>7. QED BY <1>1, <1>2, <1>3, <1>4, <1>5, <1>6

\* a device is opened
LEMMA OpenedHandle ==
    ASSUME Shape, NEW ops, NEW size, Opened(ops, size)
    PROVE  /\ h'.fd = TRUE /\ h'.closed = FALSE /\ h'.ops = ops /\ h'.cleanup = h.cleanup /\ h'.opt = h.opt
           /\ kern'.groups = kern.groups
BY DEF Opened, Shape, HandleShape, KernelShape, NoHandle, KernelFields

\* it cannot be opened
LEMMA NotOpenedHandle ==
    ASSUME Shape, NotOpened
    PROVE  h'.ops = h.ops /\ h'.cleanup = h.cleanup /\ h'.opt = h.opt /\ kern'.groups = kern.groups
BY DEF NotOpened, Shape, HandleShape, NoHandle

\* the activation returns a status
LEMMA BackStatus ==
    ASSUME Shape, NEW e, Back(e)
    PROVE  pc' = "return" /\ act'.ret = e
BY DEF Back, Goto, Shape, CallShape, NoCall

\* or after the clean-up that is common to all handles
LEMMA OwnFailsStatus ==
    ASSUME Shape, NEW e, OwnFails(e)
    PROVE  pc' = "free" /\ act'.ret = e
BY DEF OwnFails, Goto, Shape, CallShape, NoCall

\* a pointer is allocated
LEMMA AllocatedHandle ==
    ASSUME Shape, NEW p, Allocated(p)
    PROVE  /\ h'.ptr = h.ptr \cup {p} /\ h'.ops = h.ops /\ h'.cleanup = h.cleanup /\ h'.opt = h.opt
           /\ h'.fd = h.fd /\ h'.closed = h.closed
BY DEF Allocated, Shape, HandleShape, NoHandle

\* the binary interface of the bus
LEMMA usb_activateReady ==
    ASSUME Inv, Ready, usb_activate
    PROVE  Ready'
<1>1. pc = "usb" /\ dev' = dev  BY DEF usb_activate, Rest
<1>2. Shape /\ OptionsOk /\ h.cleanup = "common" /\ h.ops \notin Rings /\ h.ops # "usb_mmap" /\ kern.groups = 0
  BY <1>1, OwnHandle
<1>3. CASE Opened("usb_bin", h.opt.snapshot) /\ pc' = "usb_mode"
  <2>1. /\ h'.fd = TRUE /\ h'.closed = FALSE /\ h'.ops = "usb_bin" /\ h'.cleanup = h.cleanup /\ h'.opt = h.opt
        /\ kern'.groups = kern.groups
    BY <1>2, <1>3, OpenedHandle
  <2>2. OptionsOk'  BY <1>2, <2>1, SameOptions
  <2>3. Joining'  BY <1>3, <2>1 DEF Joining
  <2>4. QED BY <1>3, <2>1, <2>2, <2>3, OwnKeeps
<1>4. CASE NotOpened /\ pc' = "usb_text"
  <2>1. h'.ops = h.ops /\ h'.cleanup = h.cleanup /\ h'.opt = h.opt /\ kern'.groups = kern.groups
    BY <1>2, <1>4, NotOpenedHandle
  <2>2. OptionsOk'  BY <1>2, <2>1, SameOptions
  <2>3. Joining'  BY <1>2, <1>4, <2>1 DEF Joining
  <2>4. QED BY <1>2, <1>4, <2>1, <2>2, <2>3, OwnKeeps
<1>5. QED BY <1>3, <1>4 DEF usb_activate, Goto

\* the text of debugfs
LEMMA UsbTextReady ==
    ASSUME Inv, Ready, UsbText
    PROVE  Ready'
<1>1. pc = "usb_text" /\ dev' = dev  BY DEF UsbText, Rest
<1>2. Shape /\ OptionsOk /\ h.cleanup = "common" /\ h.ops \notin Rings /\ h.ops # "usb_mmap" /\ kern.groups = 0
  BY <1>1, OwnHandle
<1>3. CASE Opened("usb_text", h.opt.snapshot) /\ pc' = "usb_mode"
  <2>1. /\ h'.fd = TRUE /\ h'.closed = FALSE /\ h'.ops = "usb_text" /\ h'.cleanup = h.cleanup /\ h'.opt = h.opt
        /\ kern'.groups = kern.groups
    BY <1>2, <1>3, OpenedHandle
  <2>2. OptionsOk'  BY <1>2, <2>1, SameOptions
  <2>3. Joining'  BY <1>3, <2>1 DEF Joining
  <2>4. QED BY <1>3, <2>1, <2>2, <2>3, OwnKeeps
<1>4. CASE NotOpened /\ Back(-1)
  <2>1. h'.ops = h.ops /\ h'.cleanup = h.cleanup /\ h'.opt = h.opt /\ kern'.groups = kern.groups
    BY <1>2, <1>4, NotOpenedHandle
  <2>2. OptionsOk'  BY <1>2, <2>1, SameOptions
  <2>3. pc' = "return" /\ act'.ret = -1  BY <1>2, <1>4, BackStatus
  <2>4. QED BY <1>2, <2>1, <2>2, <2>3, EndKeeps
<1>5. QED BY <1>3, <1>4 DEF UsbText, Goto, PCAP_ERROR

\* the activation of a USB bus fails with its descriptor closed
LEMMA UsbFailsReady ==
    ASSUME Inv, Ready, pc \in {"usb_mode", "usb_buffer"}, NEW e \in {-1, -6}, UsbFails(e)
    PROVE  Ready'
<1>1. Shape /\ OptionsOk /\ h.cleanup = "common" /\ h.ops \notin Rings /\ h.ops # "usb_mmap"  BY OwnHandle
<1>2. pc' = "return" /\ act'.ret = e  BY <1>1, BackStatus DEF UsbFails
<1>3. h'.ops = h.ops /\ h'.cleanup = h.cleanup /\ h'.opt = h.opt
  BY <1>1 DEF UsbFails, Shape, HandleShape, NoHandle
<1>4. kern'.groups = 0  BY <1>1 DEF UsbFails, Closed, Shape, KernelShape, KernelFields
<1>5. OptionsOk'  BY <1>1, <1>3, SameOptions
<1>6. QED BY <1>1, <1>2, <1>3, <1>4, <1>5, EndKeeps

\* the ring of the bus
LEMMA usb_mmapReady ==
    ASSUME Inv, Ready, usb_mmap
    PROVE  Ready'
<1>1. pc = "usb_mode" /\ dev' = dev  BY DEF usb_mmap, Rest
<1>2. /\ Shape /\ OptionsOk /\ Joining /\ Special /\ h.cleanup = "common" /\ h.ops \notin Rings
      /\ h.ops # "usb_mmap" /\ ~h.closed /\ h.fd
  BY <1>1, OwnHandle
<1>3. CASE UsbFails(-6)  BY <1>1, <1>3, UsbFailsReady
<1>4. CASE pc' = "usb_buffer" /\ UNCHANGED <<h, kern>>
  <2>1. OptionsOk'  BY <1>2, <1>4, SameOptions
  <2>2. Joining'  BY <1>1, <1>2, <1>4 DEF Joining
  <2>3. QED BY <1>2, <1>4, <2>1, <2>2, OwnKeeps
<1>5. CASE /\ Back(0) /\ h' = [h EXCEPT !.ops = "usb_mmap", !.cleanup = "usb"]
           /\ kern' = [kern EXCEPT !.mapped = TRUE]
  <2>1. /\ h'.ops = "usb_mmap" /\ h'.cleanup = "usb" /\ h'.opt = h.opt /\ h'.fd = h.fd
        /\ h'.closed = h.closed
    BY <1>2, <1>5 DEF Shape, HandleShape, NoHandle
  <2>2. kern'.mapped = TRUE /\ kern'.groups = kern.groups  BY <1>2, <1>5 DEF Shape, KernelShape, KernelFields
  <2>3. pc' = "return"  BY <1>5 DEF Back, Goto
  <2>4. OptionsOk'  BY <1>2, <2>1, SameOptions
  <2>5. Joining'  BY <1>2, <2>1, <2>2, <2>3 DEF Joining
  <2>6. Usable'  BY <1>1, <1>2, <2>1, <2>2, SameKind DEF Usable
  <2>7. QED BY <2>1, <2>3, <2>4, <2>5, <2>6, OwnReturns
<1>6. QED BY <1>3, <1>4, <1>5 DEF usb_mmap, Goto, PCAP_ERROR_RFMON_NOTSUP

\* a buffer for one event of the bus
LEMMA UsbBufferReady ==
    ASSUME Inv, Ready, UsbBuffer
    PROVE  Ready'
<1>1. pc = "usb_buffer" /\ dev' = dev  BY DEF UsbBuffer
<1>2. /\ Shape /\ OptionsOk /\ Joining /\ Special /\ h.cleanup = "common" /\ h.ops \notin Rings
      /\ h.ops # "usb_mmap" /\ ~h.closed /\ h.fd
  BY <1>1, OwnHandle
<1>3. CASE UsbFails(-1)  BY <1>1, <1>3, UsbFailsReady
<1>4. CASE Allocated("buffer") /\ Back(0) /\ UNCHANGED kern
  <2>1. /\ h'.ptr = h.ptr \cup {"buffer"} /\ h'.ops = h.ops /\ h'.cleanup = h.cleanup /\ h'.opt = h.opt
        /\ h'.fd = h.fd /\ h'.closed = h.closed
    BY <1>2, <1>4, AllocatedHandle
  <2>2. pc' = "return"  BY <1>4 DEF Back, Goto
  <2>3. h.ops \in {"usb_bin", "usb_text"}  BY <1>1, <1>2 DEF Joining
  <2>4. OptionsOk'  BY <1>2, <2>1, SameOptions
  <2>5. Joining'  BY <1>2, <1>4, <2>1, <2>2 DEF Joining
  <2>6. Usable'  BY <1>1, <1>2, <2>1, <2>3, SameKind DEF Usable
  <2>7. QED BY <1>2, <2>1, <2>2, <2>4, <2>5, <2>6, OwnReturns
<1>5. QED BY <1>3, <1>4 DEF UsbBuffer, PCAP_ERROR

\* a socket of the CAN bus
LEMMA can_activateReady ==
    ASSUME Inv, Ready, can_activate
    PROVE  Ready'
<1>1. pc = "can" /\ dev' = dev  BY DEF can_activate, Rest
<1>2. Shape /\ OptionsOk /\ h.cleanup = "common" /\ h.ops \notin Rings /\ h.ops # "usb_mmap" /\ kern.groups = 0
  BY <1>1, OwnHandle
<1>3. CASE Opened("can", 24) /\ pc' = "can_bind"
  <2>1. /\ h'.fd = TRUE /\ h'.closed = FALSE /\ h'.ops = "can" /\ h'.cleanup = h.cleanup /\ h'.opt = h.opt
        /\ kern'.groups = kern.groups
    BY <1>2, <1>3, OpenedHandle
  <2>2. OptionsOk'  BY <1>2, <2>1, SameOptions
  <2>3. Joining'  BY <1>3, <2>1 DEF Joining
  <2>4. QED BY <1>3, <2>1, <2>2, <2>3, OwnKeeps
<1>4. CASE NotOpened /\ Back(-1)
  <2>1. h'.ops = h.ops /\ h'.cleanup = h.cleanup /\ h'.opt = h.opt /\ kern'.groups = kern.groups
    BY <1>2, <1>4, NotOpenedHandle
  <2>2. OptionsOk'  BY <1>2, <2>1, SameOptions
  <2>3. pc' = "return" /\ act'.ret = -1  BY <1>2, <1>4, BackStatus
  <2>4. QED BY <1>2, <2>1, <2>2, <2>3, EndKeeps
<1>5. QED BY <1>3, <1>4 DEF can_activate, Goto, PCAP_ERROR

\* the socket is bound
LEMMA CanBindReady ==
    ASSUME Inv, Ready, CanBind
    PROVE  Ready'
<1>1. pc = "can_bind" /\ dev' = dev /\ kern' = kern  BY DEF CanBind
<1>2. /\ Shape /\ OptionsOk /\ Joining /\ Special /\ h.cleanup = "common" /\ h.ops \notin Rings
      /\ h.ops # "usb_mmap" /\ ~h.closed
  BY <1>1, OwnHandle
<1>3. h.ops = "can" /\ h.fd  BY <1>1, <1>2 DEF Joining
<1>4. ASSUME Allocated("buffer") \/ UNCHANGED h
      PROVE  /\ h'.ops = h.ops /\ h'.cleanup = h.cleanup /\ h'.opt = h.opt /\ h'.fd = h.fd /\ h'.closed = h.closed
             /\ OptionsOk'
  <2>1. /\ h'.ops = h.ops /\ h'.cleanup = h.cleanup /\ h'.opt = h.opt /\ h'.fd = h.fd /\ h'.closed = h.closed
    BY <1>2, <1>4, AllocatedHandle
  <2>2. QED BY <1>2, <2>1, SameOptions
<1>5. ASSUME NEW e \in {-1, -6}, OwnFails(e), Allocated("buffer") \/ UNCHANGED h PROVE Ready'
  <2>1. pc' = "free" /\ act'.ret = e  BY <1>2, <1>5, OwnFailsStatus
  <2>2. act'.ret < 0  BY <1>5, <2>1
  <2>3. h'.ops = h.ops /\ h'.cleanup = h.cleanup /\ h'.fd = h.fd /\ h'.closed = h.closed /\ OptionsOk'
    BY <1>4, <1>5
  <2>4. QED BY <1>2, <1>3, <2>1, <2>2, <2>3, EndKeeps
<1>6. CASE Allocated("buffer") /\ Back(0)
  <2>1. pc' = "return"  BY <1>6 DEF Back, Goto
  <2>2. h'.ptr = h.ptr \cup {"buffer"}  BY <1>2, <1>6, AllocatedHandle
  <2>3. Joining'  BY <1>1, <1>2, <1>3, <1>4, <1>6, <2>1 DEF Joining
  <2>4. Usable'  BY <1>1, <1>2, <1>3, <1>4, <1>6, <2>2, SameKind DEF Usable
  <2>5. QED BY <1>2, <1>3, <1>4, <1>6, <2>1, <2>3, <2>4, OwnReturns
<1>7. \/ \E e \in {-1, -6} : OwnFails(e) /\ (Allocated("buffer") \/ UNCHANGED h)
      \/ Allocated("buffer") /\ Back(0)
  BY DEF CanBind, PCAP_ERROR, PCAP_ERROR_RFMON_NOTSUP
<1>8. QED BY <1>5, <1>6, <1>7

\* a netlink socket for the groups
LEMMA netfilter_activateReady ==
    ASSUME Inv, Ready, netfilter_activate
    PROVE  Ready'
<1>1. pc = "netfilter" /\ dev' = dev  BY DEF netfilter_activate, Rest
<1>2. Shape /\ OptionsOk /\ h.cleanup = "common" /\ h.ops \notin Rings /\ h.ops # "usb_mmap" /\ kern.groups = 0
  BY <1>1, OwnHandle
<1>3. CASE dev.groups \in 0 .. 32 /\ Opened("netfilter", 128 + h.opt.snapshot) /\ pc' = "nf_buffer"
  <2>1. /\ h'.fd = TRUE /\ h'.closed = FALSE /\ h'.ops = "netfilter" /\ h'.cleanup = h.cleanup
        /\ h'.opt = h.opt /\ kern'.groups = kern.groups
    BY <1>2, <1>3, OpenedHandle
  <2>2. OptionsOk'  BY <1>2, <2>1, SameOptions
  <2>3. Joining'  BY <1>1, <1>2, <1>3, <2>1 DEF Joining
  <2>4. QED BY <1>3, <2>1, <2>2, <2>3, OwnKeeps
<1>4. CASE (NotOpened \/ UNCHANGED <<h, kern>>) /\ Back(-1)
  <2>1. h'.ops = h.ops /\ h'.cleanup = h.cleanup /\ h'.opt = h.opt /\ kern'.groups = kern.groups
    BY <1>2, <1>4, NotOpenedHandle
  <2>2. OptionsOk'  BY <1>2, <2>1, SameOptions
  <2>3. pc' = "return" /\ act'.ret = -1  BY <1>2, <1>4, BackStatus
  <2>4. QED BY <1>2, <2>1, <2>2, <2>3, EndKeeps
<1>5. QED BY <1>3, <1>4 DEF netfilter_activate, Goto, PCAP_ERROR

\* what the steps of netfilter know
LEMMA NfHandle ==
    ASSUME Inv, Ready, pc \in {"nf_buffer", "nf_config", "nf_options"}
    PROVE  /\ Shape /\ OptionsOk /\ Joining /\ Special /\ h.cleanup = "common" /\ h.ops = "netfilter"
           /\ h.fd /\ ~h.closed /\ dev.groups \in 0 .. 32
<1>1. Shape /\ OptionsOk /\ Joining /\ Special /\ h.cleanup = "common" /\ ~h.closed  BY OwnHandle
<1>2. QED BY <1>1 DEF Joining

\* pointers are allocated
LEMMA ObtainedHandle ==
    ASSUME Shape, NEW ps, Obtained(ps)
    PROVE  /\ h'.ptr = h.ptr \cup ps /\ h'.ops = h.ops /\ h'.cleanup = h.cleanup /\ h'.opt = h.opt
           /\ h'.fd = h.fd /\ h'.closed = h.closed
BY DEF Obtained, Shape, HandleShape, NoHandle

\* a buffer, and the list of a log
LEMMA NfBufferReady ==
    ASSUME Inv, Ready, NfBuffer
    PROVE  Ready'
<1>1. pc = "nf_buffer" /\ dev' = dev /\ kern' = kern  BY DEF NfBuffer
<1>2. /\ Shape /\ OptionsOk /\ Joining /\ Special /\ h.cleanup = "common" /\ h.ops = "netfilter"
      /\ h.fd /\ ~h.closed /\ dev.groups \in 0 .. 32
  BY <1>1, NfHandle
<1>3. kern.groups = 0  BY <1>1, <1>2 DEF Joining
<1>4. ASSUME NEW ps, Obtained(ps)
      PROVE  /\ h'.ptr = h.ptr \cup ps /\ h'.ops = h.ops /\ h'.cleanup = h.cleanup /\ h'.fd = h.fd
             /\ h'.closed = h.closed /\ OptionsOk'
  <2>1. /\ h'.ptr = h.ptr \cup ps /\ h'.ops = h.ops /\ h'.cleanup = h.cleanup /\ h'.opt = h.opt
        /\ h'.fd = h.fd /\ h'.closed = h.closed
    BY <1>2, <1>4, ObtainedHandle
  <2>2. QED BY <1>2, <2>1, SameOptions
<1>5. CASE OwnFails(-1) /\ Obtained(NfList)
  <2>1. pc' = "free" /\ act'.ret = -1  BY <1>2, <1>5, OwnFailsStatus
  <2>2. h'.ops = h.ops /\ h'.cleanup = h.cleanup /\ h'.fd = h.fd /\ h'.closed = h.closed /\ OptionsOk'
    BY <1>4, <1>5
  <2>3. QED BY <1>2, <2>1, <2>2, EndKeeps
<1>6. CASE /\ pc' = "nf_config" /\ act' = [act EXCEPT !.n = 0]
           /\ (Obtained(NfList \cup {"buffer"}) \/ Obtained({"buffer"}))
  <2>1. act'.n = 0  BY <1>2, <1>6 DEF Shape, CallShape, NoCall
  <2>2. "buffer" \in h'.ptr  BY <1>4, <1>6
  <2>3. h'.ops = h.ops /\ h'.cleanup = h.cleanup /\ h'.fd = h.fd /\ h'.closed = h.closed /\ OptionsOk'
    BY <1>4, <1>6
  <2>4. Joining'  BY <1>1, <1>2, <1>3, <1>6, <2>1, <2>2, <2>3 DEF Joining
  <2>5. QED BY <1>2, <1>6, <2>3, <2>4, OwnKeeps
<1>7. QED BY <1>5, <1>6 DEF NfBuffer, Goto, PCAP_ERROR

\* the groups are bound one after the other
LEMMA netfilter_send_config_msgReady ==
    ASSUME Inv, Ready, netfilter_send_config_msg
    PROVE  Ready'
<1>1. pc = "nf_config" /\ dev' = dev /\ h' = h  BY DEF netfilter_send_config_msg, Rest
<1>2. /\ Shape /\ OptionsOk /\ Joining /\ Special /\ h.cleanup = "common" /\ h.ops = "netfilter"
      /\ h.fd /\ ~h.closed /\ dev.groups \in 0 .. 32
  BY <1>1, NfHandle
<1>3. /\ act.n \in Nat /\ kern.groups \in Nat /\ "buffer" \in h.ptr
      /\ IF act.n < 2 THEN kern.groups = 0 ELSE act.n - 2 \in {2 * kern.groups, 2 * kern.groups + 1}
  BY <1>1, <1>2 DEF Joining
<1>4. OptionsOk' /\ Paired'  BY <1>1, <1>2, SameOptions
<1>5. CASE /\ pc' = pc /\ act' = [act EXCEPT !.n = @ + 1]
           /\ kern' = IF act.n >= 2 /\ act.n % 2 = 1 THEN [kern EXCEPT !.groups = @ + 1] ELSE kern
  <2>1. act'.n = act.n + 1  BY <1>2, <1>5 DEF Shape, CallShape, NoCall
  <2>2. kern'.groups = IF act.n >= 2 /\ act.n % 2 = 1 THEN kern.groups + 1 ELSE kern.groups
    BY <1>2, <1>5 DEF Shape, KernelShape, KernelFields
  <2>3. /\ act'.n \in Nat /\ kern'.groups \in Nat
        /\ IF act'.n < 2 THEN kern'.groups = 0 ELSE act'.n - 2 \in {2 * kern'.groups, 2 * kern'.groups + 1}
    <3>1. CASE act.n < 2  BY <1>3, <2>1, <2>2, <3>1
    <3>2. CASE act.n - 2 = 2 * kern.groups
      <4>1. act.n % 2 # 1  BY <1>3, <3>2
      <4>2. QED BY <1>3, <2>1, <2>2, <3>2, <4>1
    <3>3. CASE act.n - 2 = 2 * kern.groups + 1
      <4>1. act.n % 2 = 1 /\ act.n >= 2  BY <1>3, <3>3
      <4>2. QED BY <1>3, <2>1, <2>2, <3>3, <4>1
    <3>4. QED BY <1>3, <3>1, <3>2, <3>3
  <2>4. Joining'  BY <1>1, <1>2, <1>3, <1>5, <2>3 DEF Joining
  <2>5. QED BY <1>1, <1>4, <1>5, <2>4, OwnKeeps
<1>6. CASE act.n = 2 + 2 * Groups /\ pc' = "nf_options" /\ kern' = kern
  <2>1. Groups \in Nat  BY <1>2 DEF Groups
  <2>2. kern.groups = Groups  BY <1>3, <1>6, <2>1
  <2>3. Joining'  BY <1>1, <1>2, <1>3, <1>6, <2>2, SameGroups DEF Joining
  <2>4. QED BY <1>4, <1>6, <2>3, OwnKeeps
<1>7. CASE OwnFails(-1) /\ kern' = kern
  <2>1. pc' = "free" /\ act'.ret = -1  BY <1>2, <1>7, OwnFailsStatus
  <2>2. QED BY <1>1, <1>2, <1>4, <1>7, <2>1, EndKeeps
<1>8. QED BY <1>5, <1>6, <1>7 DEF netfilter_send_config_msg, Goto, PCAP_ERROR

\* monitor mode is refused, or the handle can be read
LEMMA NfOptionsReady ==
    ASSUME Inv, Ready, NfOptions
    PROVE  Ready'
<1>1. pc = "nf_options" /\ dev' = dev /\ h' = h /\ kern' = kern  BY DEF NfOptions, Rest
<1>2. /\ Shape /\ OptionsOk /\ Joining /\ Special /\ h.cleanup = "common" /\ h.ops = "netfilter"
      /\ h.fd /\ ~h.closed /\ dev.groups \in 0 .. 32
  BY <1>1, NfHandle
<1>3. OptionsOk' /\ Paired'  BY <1>1, <1>2, SameOptions
<1>4. ASSUME NEW e \in {-1, -6}, OwnFails(e) PROVE Ready'
  <2>1. pc' = "free" /\ act'.ret = e  BY <1>2, <1>4, OwnFailsStatus
  <2>2. QED BY <1>1, <1>2, <1>3, <2>1, EndKeeps
<1>5. CASE Back(0)
  <2>1. pc' = "return"  BY <1>5 DEF Back, Goto
  <2>2. kern.groups = Groups /\ "buffer" \in h.ptr  BY <1>1, <1>2 DEF Joining
  <2>3. Joining'  BY <1>1, <1>2, <2>1 DEF Joining
  <2>4. Usable'  BY <1>1, <1>2, <2>2, SameKind, SameGroups DEF Usable
  <2>5. QED BY <1>1, <1>2, <1>3, <2>1, <2>3, <2>4, OwnReturns
<1>6. (\E e \in {-1, -6} : OwnFails(e)) \/ Back(0)
  BY DEF NfOptions, PCAP_ERROR, PCAP_ERROR_RFMON_NOTSUP
<1>7. QED BY <1>4, <1>5, <1>6

----------------------------------------------------------------------------
(* Calls, their beginning and their end *)

\* an option is set, or nothing is done to the handle
LEMMA IdleKeeps ==
    ASSUME Inv, Ready, pc = "idle", pc' = "idle", UNCHANGED <<dev, kern>>, h.alive,
           \/ h' = h
           \/ /\ ~h.activated /\ ~h'.activated /\ h'.ops = h.ops /\ h'.cleanup = h.cleanup
              /\ h'.fd = h.fd /\ h'.closed = h.closed /\ OptionsOk'
    PROVE  Ready'
<1>1. Control /\ OptionsOk /\ Operating /\ Joining /\ Sizing /\ Succeeding  BY InvFacts, ReadyFacts
<1>2. h'.ops = h.ops /\ h'.cleanup = h.cleanup /\ h'.fd = h.fd /\ h'.closed = h.closed  OBVIOUS
<1>3. OptionsOk'  BY <1>1, SameOptions
<1>4. Operating'  BY <1>1, <1>2 DEF Operating
<1>5. Joining'  BY <1>1, <1>2 DEF Joining
<1>6. CASE h' = h
  <2>1. \A v : FrameSize(v)' = FrameSize(v)  BY <1>6, SameFrame
  <2>2. FrameSize(IF h.ops = "v1" THEN 1 ELSE 2)' = FrameSize(IF h.ops = "v1" THEN 1 ELSE 2)  BY <1>2, <2>1
  <2>3. Sizing'  BY <1>1, <1>6, <2>2 DEF Sizing
  <2>4. Usable' <=> Usable  BY <1>6, SameKind, SameGroups DEF Usable
  <2>5. Succeeding'  BY <1>1, <1>6, <2>4 DEF Succeeding
  <2>6. QED BY <1>3, <1>4, <1>5, <2>3, <2>5 DEF Ready
<1>7. CASE ~h.activated /\ ~h'.activated
  <2>1. h.ops \notin Rings  BY <1>1, <1>7 DEF Operating, Control
  <2>2. Sizing'  BY <1>2, <2>1 DEF Sizing
  <2>3. Succeeding'  BY <1>7 DEF Succeeding
  <2>4. QED BY <1>3, <1>4, <1>5, <2>2, <2>3 DEF Ready
<1>8. QED BY <1>6, <1>7

\* the options of a new handle
LEMMA NewOptions ==
    /\ DOMAIN NoHandle.opt = Options /\ NoHandle.opt.snapshot = MAXIMUM_SNAPLEN /\ NoHandle.opt.buffer_size = 0
    /\ NoHandle.ops = "none" /\ Created.opt = NoHandle.opt /\ Created.ops = "none"
    /\ MAXIMUM_SNAPLEN \in Nat /\ MAXIMUM_SNAPLEN + 512 <= PageSize * 4096
<1>1. MAXIMUM_SNAPLEN \in Nat /\ MAXIMUM_SNAPLEN + 512 <= PageSize * 4096  BY ValuesAssumption
<1>2. QED BY <1>1 DEF NoHandle, Created, pcap_create_common, Options

\* a handle that is new, and not there
LEMMA pcap_createReady ==
    ASSUME Inv, Ready, pcap_create
    PROVE  Ready'
<1>1. Owning /\ Joining  BY InvFacts, ReadyFacts
<1>2. pc = "idle" /\ pc' = "idle" /\ ~h.alive /\ UNCHANGED <<dev, kern>>  BY DEF pcap_create
<1>3. h' = Created \/ h' = NoHandle  BY DEF pcap_create
<1>4. h'.ops = "none" /\ h'.opt = NoHandle.opt /\ h'.activated = FALSE
  BY <1>3, NewOptions, CreatedFacts, NoHandleFacts
<1>5. kern.groups = 0  BY <1>1, <1>2 DEF Owning, Joining
<1>6. OptionsOk'  BY <1>4, NewOptions DEF OptionsOk
<1>7. Operating'  BY <1>2, <1>4 DEF Operating
<1>8. Joining'  BY <1>2, <1>5 DEF Joining
<1>9. Sizing'  BY <1>2, <1>4 DEF Sizing
<1>10. Succeeding'  BY <1>2, <1>4 DEF Succeeding
<1>11. QED BY <1>6, <1>7, <1>8, <1>9, <1>10 DEF Ready

\* an option
LEMMA pcap_setReady ==
    ASSUME Inv, Ready, NEW o \in Options, NEW v \in Values[o], pcap_set(o, v)
    PROVE  Ready'
<1>1. Shape /\ OptionsOk  BY InvFacts, ReadyFacts
<1>2. pc = "idle" /\ pc' = "idle" /\ h.alive /\ UNCHANGED <<dev, kern>>  BY DEF pcap_set
<1>3. CASE h' = h  BY <1>2, <1>3, IdleKeeps
<1>4. CASE ~h.activated /\ h' = [h EXCEPT !.opt[o] = v]
  <2>1. /\ h'.activated = h.activated /\ h'.ops = h.ops /\ h'.cleanup = h.cleanup /\ h'.fd = h.fd
        /\ h'.closed = h.closed /\ h'.opt = [h.opt EXCEPT ![o] = v]
    BY <1>1, <1>4 DEF Shape, HandleShape, NoHandle
  <2>2. o = "snapshot" => v \in Nat /\ v + 512 <= PageSize * 4096  BY ValuesAssumption
  <2>3. o = "buffer_size" => v \in Nat  BY ValuesAssumption
  <2>4. OptionsOk'  BY <1>1, <2>1, <2>2, <2>3 DEF OptionsOk, Options
  <2>5. QED BY <1>2, <1>4, <2>1, <2>4, IdleKeeps
<1>5. QED BY <1>3, <1>4 DEF pcap_set

\* the kind of time stamps
LEMMA pcap_set_tstamp_typeReady ==
    ASSUME Inv, Ready, NEW t, pcap_set_tstamp_type(t)
    PROVE  Ready'
<1>1. Shape /\ OptionsOk  BY InvFacts, ReadyFacts
<1>2. pc = "idle" /\ pc' = "idle" /\ h.alive /\ UNCHANGED <<dev, kern>>  BY DEF pcap_set_tstamp_type
<1>3. CASE h' = h  BY <1>2, <1>3, IdleKeeps
<1>4. CASE ~h.activated /\ h' = [h EXCEPT !.tstamp_type = t]
  <2>1. /\ h'.activated = h.activated /\ h'.ops = h.ops /\ h'.cleanup = h.cleanup /\ h'.fd = h.fd
        /\ h'.closed = h.closed /\ h'.opt = h.opt
    BY <1>1, <1>4 DEF Shape, HandleShape, NoHandle
  <2>2. OptionsOk'  BY <1>1, <2>1, SameOptions
  <2>3. QED BY <1>2, <1>4, <2>1, <2>2, IdleKeeps
<1>5. QED BY <1>3, <1>4 DEF pcap_set_tstamp_type

\* their precision
LEMMA pcap_set_tstamp_precisionReady ==
    ASSUME Inv, Ready, NEW t, pcap_set_tstamp_precision(t)
    PROVE  Ready'
<1>1. Shape /\ OptionsOk  BY InvFacts, ReadyFacts
<1>2. pc = "idle" /\ pc' = "idle" /\ h.alive /\ UNCHANGED <<dev, kern>>  BY DEF pcap_set_tstamp_precision
<1>3. CASE h' = h  BY <1>2, <1>3, IdleKeeps
<1>4. CASE ~h.activated /\ h' = [h EXCEPT !.precision = t]
  <2>1. /\ h'.activated = h.activated /\ h'.ops = h.ops /\ h'.cleanup = h.cleanup /\ h'.fd = h.fd
        /\ h'.closed = h.closed /\ h'.opt = h.opt
    BY <1>1, <1>4 DEF Shape, HandleShape, NoHandle
  <2>2. OptionsOk'  BY <1>1, <2>1, SameOptions
  <2>3. QED BY <1>2, <1>4, <2>1, <2>2, IdleKeeps
<1>5. QED BY <1>3, <1>4 DEF pcap_set_tstamp_precision

\* a question about monitor mode
LEMMA pcap_can_set_rfmon_linuxReady ==
    ASSUME Inv, Ready, pcap_can_set_rfmon_linux
    PROVE  Ready'
<1>1. pc = "idle" /\ pc' = "idle" /\ h.alive /\ UNCHANGED <<dev, h, kern>>  BY DEF pcap_can_set_rfmon_linux
<1>2. QED BY <1>1, IdleKeeps

\* the first step of an activation
LEMMA BeginKeeps ==
    ASSUME Ready, pc' = ActivateOp, kern'.groups = 0 \/ (h'.fd /\ ~h'.closed), OptionsOk', Paired'
    PROVE  Ready'
<1>1. pc' \in Begins  BY ActivateOpFacts
<1>2. Joining'  BY <1>1 DEF Joining
<1>3. QED BY <1>1, <1>2, OwnKeeps

\* pcap_activate() refuses, or begins
LEMMA pcap_activateReady ==
    ASSUME Inv, Ready, pcap_activate
    PROVE  Ready'
<1>1. OptionsOk /\ Operating /\ Joining  BY ReadyFacts
<1>2. pc = "idle" /\ h.alive /\ UNCHANGED <<dev, h, kern>>  BY DEF pcap_activate
<1>3. CASE pc' = pc  BY <1>2, <1>3, IdleKeeps
<1>4. CASE pc' = ActivateOp
  <2>1. OptionsOk'  BY <1>1, <1>2, SameOptions
  <2>2. QED BY <1>1, <1>2, <1>4, <2>1, BeginKeeps DEF Operating, Joining
<1>5. QED BY <1>3, <1>4 DEF pcap_activate, Goto

\* pcap_open_live() begins with a handle of its own
LEMMA pcap_open_liveReady ==
    ASSUME Inv, Ready, NEW n \in Values["snapshot"], NEW b, NEW t, pcap_open_live(n, b, t)
    PROVE  Ready'
<1>1. Owning /\ Joining  BY InvFacts, ReadyFacts
<1>2. /\ pc = "idle" /\ ~h.alive /\ pc' = ActivateOp /\ kern' = kern
      /\ h' = [Created EXCEPT !.oldstyle = TRUE, !.opt.snapshot = n, !.opt.promisc = b, !.opt.timeout = t]
  BY DEF pcap_open_live, Goto
<1>3. h'.ops = "none" /\ DOMAIN h'.opt = Options /\ h'.opt.snapshot = n /\ h'.opt.buffer_size = 0
  <2> DEFINE c == Created
             h1 == [c EXCEPT !.oldstyle = TRUE]
             h2 == [h1 EXCEPT !.opt.snapshot = n]
             h3 == [h2 EXCEPT !.opt.promisc = b]
             h4 == [h3 EXCEPT !.opt.timeout = t]
  <2>1. h' = h4  BY <1>2
  <2>2. /\ "opt" \in DOMAIN c /\ "ops" \in DOMAIN c /\ c.ops = "none"
        /\ DOMAIN c.opt = Options /\ c.opt.buffer_size = 0
    BY NewOptions, CreatedFacts DEF NoHandle
  <2> HIDE DEF c
  <2>3. /\ "opt" \in DOMAIN h1 /\ "ops" \in DOMAIN h1 /\ h1.ops = "none" /\ h1.opt = c.opt
    BY <2>2
  <2> HIDE DEF h1
  <2>4. /\ "opt" \in DOMAIN h2 /\ "ops" \in DOMAIN h2 /\ h2.ops = "none"
        /\ h2.opt = [c.opt EXCEPT !.snapshot = n]
    BY <2>3
  <2> HIDE DEF h2
  <2>5. /\ "opt" \in DOMAIN h3 /\ "ops" \in DOMAIN h3 /\ h3.ops = "none"
        /\ h3.opt = [h2.opt EXCEPT !.promisc = b]
    BY <2>4
  <2> HIDE DEF h3
  <2>6. h4.ops = "none" /\ h4.opt = [h3.opt EXCEPT !.timeout = t]  BY <2>5
  <2> HIDE DEF h4
  <2>7. QED BY <2>1, <2>2, <2>4, <2>5, <2>6 DEF Options
<1>4. n \in Nat /\ n + 512 <= PageSize * 4096  BY ValuesAssumption
<1>5. OptionsOk'  BY <1>3, <1>4, NewOptions DEF OptionsOk, Options
<1>6. kern.groups = 0  BY <1>1, <1>2 DEF Owning, Joining
<1>7. QED BY <1>2, <1>3, <1>5, <1>6, BeginKeeps

\* the operations of Linux, or a name that is too long
LEMMA pcap_activate_linuxReady ==
    ASSUME Inv, Ready, pcap_activate_linux
    PROVE  Ready'
<1>1. Shape /\ Control /\ OptionsOk /\ Operating /\ Joining  BY InvFacts, ReadyFacts
<1>2. pc = "activate" /\ dev' = dev /\ kern' = kern  BY DEF pcap_activate_linux
<1>3. CASE Fail(-5) /\ h' = h
  <2>1. act'.ret = -5  BY <1>1, <1>3, FailStatus
  <2>2. pc' = "cleanup"  BY <1>3 DEF Fail
  <2>3. OptionsOk'  BY <1>1, <1>3, SameOptions
  <2>4. QED BY <1>1, <1>2, <1>3, <2>1, <2>2, <2>3, EndKeeps DEF Operating, Joining
<1>4. CASE /\ h' = [h EXCEPT !.ops = "linux", !.cleanup = "linux", !.opt.promisc = @ /\ ~any]
           /\ pc' = "device"
  <2> DEFINE b == h.opt.promisc /\ ~any
  <2>1. h' = [h EXCEPT !.ops = "linux", !.cleanup = "linux", !.opt.promisc = b]  BY <1>4
  <2> HIDE DEF b
  <2>2. /\ h'.ops = "linux" /\ h'.cleanup = "linux" /\ h'.fd = h.fd /\ h'.closed = h.closed
        /\ h'.opt = [h.opt EXCEPT !.promisc = b]
    BY <1>1, <2>1 DEF Shape, HandleShape, NoHandle
  <2>3. OptionsOk'  BY <1>1, <2>2 DEF OptionsOk, Options
  <2>4. Operating'  BY <1>4, <2>2 DEF Operating
  <2>5. Joining'  BY <1>1, <1>2, <1>4, <2>2 DEF Joining
  <2>6. Sizing'  BY <1>4 DEF Sizing
  <2>7. Succeeding'  BY <1>4 DEF Succeeding
  <2>8. QED BY <2>3, <2>4, <2>5, <2>6, <2>7 DEF Ready
<1>5. QED BY <1>3, <1>4 DEF pcap_activate_linux, Goto, PCAP_ERROR_NO_SUCH_DEVICE

\* pcap_activate() passes the status on: what it reports as success is what the activation left
LEMMA ReturnReady ==
    ASSUME Inv, Ready, Return
    PROVE  Ready'
<1>1. Shape /\ Control /\ OptionsOk /\ Operating /\ Joining /\ Sizing /\ Succeeding  BY InvFacts, ReadyFacts
<1>2. pc = "return" /\ dev' = dev /\ kern' = kern  BY DEF Return
<1>3. CASE act.ret >= 0
  <2>1. h' = [h EXCEPT !.activated = TRUE, !.status = act.ret] /\ pc' = "idle"  BY <1>3 DEF Return, Goto
  <2>2. /\ h'.status = act.ret /\ h'.ops = h.ops /\ h'.cleanup = h.cleanup /\ h'.opt = h.opt /\ h'.fd = h.fd
        /\ h'.closed = h.closed /\ h'.alive = h.alive /\ h'.bufsize = h.bufsize /\ h'.cc = h.cc
        /\ h'.linktype = h.linktype /\ h'.sk = h.sk /\ h'.ptr = h.ptr
    BY <1>1, <2>1 DEF Shape, HandleShape, NoHandle
  <2>3. OptionsOk'  BY <1>1, <2>2, SameOptions
  <2>4. Operating'  BY <1>1, <2>1, <2>2 DEF Operating
  <2>5. Joining'  BY <1>1, <1>2, <2>1, <2>2 DEF Joining
  <2>6. Sizing'
    <3>1. \A v : FrameSize(v)' = FrameSize(v)  BY <1>2, <2>2, SameFrame
    <3>2. FrameSize(IF h.ops = "v1" THEN 1 ELSE 2)' = FrameSize(IF h.ops = "v1" THEN 1 ELSE 2)  BY <2>2, <3>1
    <3>3. QED BY <1>1, <1>2, <2>1, <2>2, <3>2 DEF Sizing
  <2>7. Usable' <=> Usable  BY <1>2, <2>2, SameKind, SameGroups DEF Usable
  <2>8. Succeeding'  BY <1>1, <1>2, <1>3, <2>1, <2>2, <2>7 DEF Succeeding
  <2>9. QED BY <2>3, <2>4, <2>5, <2>6, <2>8 DEF Ready
<1>4. CASE ~(act.ret >= 0)
  <2>1. /\ h' = [h EXCEPT !.ops = "none", !.cleanup = "common", !.status = act.ret]
        /\ pc' \in {"idle", "close"}
    BY <1>4 DEF Return, Goto
  <2>2. /\ h'.ops = "none" /\ h'.cleanup = "common" /\ h'.opt = h.opt /\ h'.fd = h.fd /\ h'.closed = h.closed
        /\ h'.activated = h.activated
    BY <1>1, <2>1 DEF Shape, HandleShape, NoHandle
  <2>3. OptionsOk'  BY <1>1, <2>2, SameOptions
  <2>4. ~h.activated  BY <1>1, <1>2 DEF Control
  <2>5. Operating'  BY <2>1, <2>2 DEF Operating
  <2>6. Joining'  BY <1>1, <1>2, <2>1, <2>2 DEF Joining
  <2>7. Sizing'  BY <2>1, <2>2 DEF Sizing
  <2>8. Succeeding'  BY <2>1, <2>2, <2>4 DEF Succeeding
  <2>9. QED BY <2>3, <2>5, <2>6, <2>7, <2>8 DEF Ready
<1>5. QED BY <1>3, <1>4

\* a handle is closed, by the program or by the exit handler
LEMMA pcap_closeReady ==
    ASSUME Inv, Ready, pcap_close \/ pcap_close_all
    PROVE  Ready'
<1>1. OptionsOk /\ Operating /\ Joining  BY ReadyFacts
<1>2. UNCHANGED <<dev, h, kern>> /\ pc' \in {"close", "crash", "exited"}
  BY DEF pcap_close, pcap_close_all, Goto
<1>3. OptionsOk'  BY <1>1, <1>2, SameOptions
<1>4. QED BY <1>1, <1>2, <1>3, EndKeeps DEF Operating, Joining

\* the source is freed, and what is mapped
LEMMA CloseReady ==
    ASSUME Inv, Ready, Close
    PROVE  Ready'
<1>1. Shape /\ Control /\ OptionsOk /\ Operating /\ Joining  BY InvFacts, ReadyFacts
<1>2. pc = "close" /\ act' = act /\ pc' \in {"free", "cleanup"} /\ kern' = CleanedUp(kern)  BY DEF Close, Goto
<1>3. h'.ops = h.ops /\ h'.cleanup = h.cleanup /\ h'.opt = h.opt /\ h'.fd = h.fd /\ h'.closed = h.closed
  BY <1>1 DEF Close, Shape, HandleShape, NoHandle
<1>4. kern'.groups = kern.groups
  BY <1>1, <1>2 DEF CleanedUp, destroy_ring, Shape, KernelShape, KernelFields
<1>5. act.after # "return"  BY <1>1, <1>2 DEF Control
<1>6. OptionsOk'  BY <1>1, <1>3, SameOptions
<1>7. QED BY <1>1, <1>2, <1>3, <1>4, <1>5, <1>6, EndKeeps DEF Operating, Joining

\* what must be undone is undone
LEMMA pcap_cleanup_linuxReady ==
    ASSUME Inv, Ready, pcap_cleanup_linux
    PROVE  Ready'
<1>1. Shape /\ OptionsOk /\ Operating /\ Joining /\ Succeeding  BY InvFacts, ReadyFacts
<1>2. pc = "cleanup" /\ act' = act /\ pc' \in {"free", "crash"}  BY DEF pcap_cleanup_linux, Goto
<1>3. h'.ops = h.ops /\ h'.cleanup = h.cleanup /\ h'.opt = h.opt /\ h'.fd = h.fd /\ h'.closed = h.closed
  BY <1>1 DEF pcap_cleanup_linux, Shape, HandleShape, NoHandle
<1>4. kern' = kern \/ \E lost, up : kern' = Undone(lost, up)  BY DEF pcap_cleanup_linux
<1>5. kern'.groups = kern.groups
  <2>1. ASSUME NEW lost, NEW up, kern' = Undone(lost, up) PROVE kern'.groups = kern.groups
    BY <1>1, <2>1 DEF Undone, del_mon_if, Shape, KernelShape, KernelFields
  <2>2. QED BY <1>4, <2>1
<1>6. OptionsOk'  BY <1>1, <1>3, SameOptions
<1>7. act.after = "return" => act.ret < 0 \/ act.ret = 1  BY <1>1, <1>2 DEF Succeeding, PCAP_WARNING
<1>8. QED BY <1>1, <1>2, <1>3, <1>5, <1>6, <1>7, EndKeeps DEF Operating, Joining

\* the rest is freed, and the descriptor closed
LEMMA pcap_cleanup_live_commonReady ==
    ASSUME Inv, Ready, pcap_cleanup_live_common
    PROVE  Ready'
<1>1. Shape /\ Control /\ OptionsOk /\ Operating /\ Joining /\ Succeeding  BY InvFacts, ReadyFacts
<1>2. /\ pc = "free" /\ act' = act
      /\ kern' = IF h.fd /\ ~h.closed THEN Closed(kern) ELSE kern
  BY DEF pcap_cleanup_live_common
<1>3. h'.ops = h.ops /\ h'.cleanup = h.cleanup /\ h'.opt = h.opt /\ h'.alive = (act.after = "return")
  BY <1>1 DEF pcap_cleanup_live_common, Shape, HandleShape, NoHandle
<1>4. kern'.groups = 0
  <2>1. CASE h.fd /\ ~h.closed  BY <1>1, <1>2, <2>1 DEF Closed, Shape, KernelShape, KernelFields
  <2>2. CASE ~(h.fd /\ ~h.closed)  BY <1>1, <1>2, <2>2 DEF Joining
  <2>3. QED BY <2>1, <2>2
<1>5. OptionsOk'  BY <1>1, <1>3, SameOptions
<1>6. act.ret \in Int /\ act.after \in {"return", "free", "exit"}  BY <1>1, <1>2 DEF Shape, CallShape, Control
<1>7. CASE act.after = "return"
  <2>1. pc' = "return"  BY <1>7 DEF pcap_cleanup_live_common, Goto
  <2>2. act.ret < 0 \/ act.ret = 1  BY <1>1, <1>2, <1>7 DEF Succeeding, PCAP_WARNING
  <2>3. h.ops \notin Rings  BY <1>1, <1>2, <1>7 DEF Operating, Control
  <2>4. QED BY <1>1, <1>2, <1>3, <1>4, <1>5, <1>6, <2>1, <2>2, <2>3, EndKeeps DEF Operating
<1>8. CASE act.after \in {"free", "exit"}
  <2>1. pc' \in {"idle", "exited"}  BY <1>8 DEF pcap_cleanup_live_common, Goto
  <2>2. QED BY <1>1, <1>2, <1>3, <1>4, <1>5, <1>8, <2>1, EndKeeps DEF Operating
<1>9. QED BY <1>6, <1>7, <1>8

\* nothing is open at first
LEMMA InitReady == Init => Ready
<1> SUFFICES ASSUME Init PROVE Ready  OBVIOUS
<1>1. pc = "idle" /\ h = NoHandle  BY DEF Init
<1>2. kern.groups = 0  BY DEF Init
<1>3. OptionsOk  BY <1>1, NewOptions DEF OptionsOk
<1>4. Operating  BY <1>1, NewOptions DEF Operating
<1>5. Joining  BY <1>1, <1>2 DEF Joining
<1>6. Sizing  BY <1>1, NewOptions DEF Sizing
<1>7. Succeeding  BY <1>1, NoHandleFacts DEF Succeeding
<1>8. QED BY <1>3, <1>4, <1>5, <1>6, <1>7 DEF Ready

\* every step of a call under way leaves a handle that is ready for the next
LEMMA StepReady ==
    ASSUME Inv, Ready, Step
    PROVE  Ready'
BY pcap_activate_linuxReady, SetDeviceReady, ReturnReady, NewSocketReady, AnyDeviceReady,
    iface_get_arptypeReady,
   SetDltReady, iface_bindReady, SetSocketOptionsReady, get_mac80211_phydevReady, nl80211_initReady,
       add_mon_ifReady,
   enter_rfmon_mode_mac80211Ready, has_wextReady, GetModeReady, TakeDownReady, SetMonitorReady, SetHeadersReady,
   OldSocketReady, OldPromiscReady, OldBufferSizeReady, activate_mmapReady, prepare_tpacket_socketReady,
       RingSizeReady,
   SetHwTstampReady, RequestRingReady, MapRingReady, SetBufferReady, usb_activateReady, UsbTextReady,
       usb_mmapReady,
   UsbBufferReady, can_activateReady, CanBindReady, netfilter_activateReady, NfBufferReady,
   netfilter_send_config_msgReady, NfOptionsReady, CloseReady, pcap_cleanup_linuxReady,
       pcap_cleanup_live_commonReady
   DEF Step

\* so does every call of the program
LEMMA CallReady ==
    ASSUME Inv, Ready, Call
    PROVE  Ready'
BY pcap_createReady, pcap_activateReady, pcap_closeReady, pcap_can_set_rfmon_linuxReady,
   pcap_setReady, pcap_set_tstamp_typeReady, pcap_set_tstamp_precisionReady, pcap_open_liveReady
   DEF Call

\* and a step of something else
LEMMA StutterReady ==
    ASSUME Ready, UNCHANGED vars
    PROVE  Ready'
<1>1. UNCHANGED <<dev, pc, h, act, kern>>  BY DEF vars
<1>2. OptionsOk /\ Operating /\ Joining /\ Sizing /\ Succeeding  BY ReadyFacts
<1>3. OptionsOk'  BY <1>1, <1>2, SameOptions
<1>4. Operating'  BY <1>1, <1>2 DEF Operating
<1>5. Joining'  BY <1>1, <1>2, SameGroups DEF Joining
<1>6. Sizing'
  <2>1. \A v : FrameSize(v)' = FrameSize(v)  BY <1>1, SameFrame
  <2>2. FrameSize(act.n)' = FrameSize(act.n)  BY <1>1, <2>1
  <2>3. FrameSize(IF h.ops = "v1" THEN 1 ELSE 2)' = FrameSize(IF h.ops = "v1" THEN 1 ELSE 2)  BY <1>1, <2>1
  <2>4. QED BY <1>1, <1>2, <2>2, <2>3 DEF Sizing
<1>7. Succeeding'
  <2>1. Usable' <=> Usable  BY <1>1, SameKind, SameGroups DEF Usable
  <2>2. QED BY <1>1, <1>2, <2>1 DEF Succeeding
<1>8. QED BY <1>3, <1>4, <1>5, <1>6, <1>7 DEF Ready

\* Whatever pcap_activate() reports as success, for every device, every setting of the options and
\* any number of failing calls, is a handle that can be read: an open descriptor, a buffer or a mapped
\* ring with at least one frame, the name of its interface, all its netfilter groups; and a frame of
\* a ring takes a packet of the snapshot length, but for two bytes (activate_new, activate_old,
\* create_ring, usb_activate, can_activate, netfilter_activate).  The exception is the status
\* PCAP_WARNING, which the code also returns when it has cleaned up.
THEOREM SuccessIsUsable == Spec => []HandleIsUsable
<1>1. Inv /\ Ready /\ [Next]_vars => Ready'
  BY StepReady, CallReady, StutterReady DEF Next
<1>2. Inv /\ Ready => HandleIsUsable
  <2> SUFFICES ASSUME Inv, Ready PROVE UsableUnlessRingFails /\ RingHoldsPackets  BY DEF HandleIsUsable
  <2>1. Shape /\ OptionsOk /\ Sizing /\ Succeeding  BY InvFacts, ReadyFacts
  <2>2. UsableUnlessRingFails  BY <2>1 DEF UsableUnlessRingFails, Succeeding
  <2>3. RingHoldsPackets
    <3> DEFINE v == IF h.ops = "v1" THEN 1 ELSE 2
               m == IF h.sk = "dgram" THEN 0 ELSE 14
    <3> SUFFICES ASSUME pc = "idle", h.alive, h.ops \in {"v1", "v2"}
                 PROVE  h.bufsize - MacOffset(v, m) >= PacketSize - 2
      BY DEF RingHoldsPackets
    <3>1. h.bufsize = FrameSize(v)  BY <2>1 DEF Sizing
    <3>2. v \in 1 .. 3 /\ v # 3  OBVIOUS
    <3> HIDE DEF v
    <3>3. FrameSize(v) - MacOffset(v, m) >= PacketSize - 2  BY <2>1, <3>2, Frames
    <3>4. QED BY <3>1, <3>3
  <2>4. QED BY <2>2, <2>3
<1>3. QED BY InitInv, InitReady, InvHolds, <1>1, <1>2, PTL DEF Spec
=============================================================================
