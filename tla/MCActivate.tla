----------------------------- MODULE MCActivate -----------------------------
(* Interfaces and option values for the checks of Activate. *)
EXTENDS Activate

Eth == [name |-> "eth", arptype |-> "ETHER", up |-> TRUE, promisc |-> FALSE, mode |-> "none",
        phy |-> FALSE, mons |-> {}, priv |-> <<>>, offload |-> FALSE, mtu |-> 60, vers |-> {1, 2},
        blocks |-> 2, hwts |-> FALSE, old |-> FALSE, groups |-> 0,
        usb |-> [bin |-> FALSE, ring |-> FALSE, text |-> FALSE]]
Arg(name, type, fixed, size) == [name |-> name, type |-> type, fixed |-> fixed, size |-> size]

\* memory for two blocks of the ring; a buffer of 512 asks for more
MCDevices == {
    Eth,
    [Eth EXCEPT !.name = "any", !.vers = {1, 2, 3}, !.blocks = 1],
    [Eth EXCEPT !.name = "long"],
    [Eth EXCEPT !.name = "isdn", !.vers = {}],
    [Eth EXCEPT !.old = TRUE], [Eth EXCEPT !.name = "any", !.old = TRUE],
    [Eth EXCEPT !.arptype = "ATM", !.old = TRUE],
    [Eth EXCEPT !.arptype = "PPP", !.vers = {1}, !.blocks = 0],
    \* a mac80211 device with mon0 in use
    [Eth EXCEPT !.arptype = "IEEE80211", !.mode = "managed", !.phy = TRUE, !.mons = {0},
                !.vers = {1, 2, 3}, !.hwts = TRUE],
    \* devices with wireless extensions: plain, Prism, ACX100, and one that is down
    [Eth EXCEPT !.arptype = "IEEE80211", !.mode = "managed", !.priv = <<Arg("rfmontx", "int", TRUE, 1)>>],
    [Eth EXCEPT !.arptype = "IEEE80211", !.mode = "managed", !.priv = <<Arg("monitor", "int", TRUE, 1)>>],
    [Eth EXCEPT !.mode = "managed", !.priv = <<Arg("x", "int", TRUE, 1), Arg("monitor", "int", TRUE, 2)>>],
    [Eth EXCEPT !.mode = "managed", !.up = FALSE],
    [Eth EXCEPT !.mode = "managed", !.up = FALSE, !.promisc = TRUE],
    [Eth EXCEPT !.arptype = "IEEE80211", !.mode = "monitor"],
    \* a CAN bus, USB buses with and without the binary interface, and netfilter groups
    [Eth EXCEPT !.name = "can"],
    [Eth EXCEPT !.name = "usbmon", !.usb = [bin |-> TRUE, ring |-> TRUE, text |-> FALSE]],
    [Eth EXCEPT !.name = "usbmon", !.usb = [bin |-> FALSE, ring |-> FALSE, text |-> TRUE]],
    [Eth EXCEPT !.name = "nflog", !.groups = 2], [Eth EXCEPT !.name = "nfqueue"],
    [Eth EXCEPT !.name = "nfqueue", !.groups = 33] }

MCValues == [snapshot |-> {12, 512}, promisc |-> {TRUE}, rfmon |-> {TRUE}, timeout |-> {0},
             immediate |-> {TRUE}, buffer_size |-> {64, 2048}]
=============================================================================
