----------------------------- MODULE MCDiscovery -----------------------------
(* Instances of InterfaceDiscovery for TLC. *)
EXTENDS InterfaceDiscovery

Adapter(port) == [virtual |-> FALSE, en |-> TRUE, mac |-> TRUE, port |-> port]

USB == Adapter("USB_LAN")
BuiltIn == Adapter("Ethernet")
WiFi == Adapter("Wi_Fi")
Bridge == [Adapter("Thunderbolt") EXCEPT !.virtual = TRUE, !.en = FALSE]

AllHosts == {<<USB, BuiltIn>>, <<BuiltIn, USB>>, <<WiFi, USB>>, <<USB, USB>>,
             <<Bridge, BuiltIn>>}
=============================================================================
