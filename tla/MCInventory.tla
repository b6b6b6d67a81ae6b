---------------------------- MODULE MCInventory ----------------------------
(* Inventory on two or three things and devices. *)
EXTENDS Inventory, TLC

\* One MAC address and its lower-case spelling
MCMacs == {"AA", "aa"}
MCUpper == "AA" :> "AA" @@ "aa" :> "AA"

\* A device seen under two addresses, and a host whose MAC address is unknown
MCHosts == {[mac |-> "AA", ip |-> "ip1"], [mac |-> "none", ip |-> "ip2"]}

\* An empty form, the device's address, and its lower-case spelling
FormsExact == {Nothing, [mac |-> "AA", ip |-> "none"]}
FormsLower == {Nothing, [mac |-> "aa", ip |-> "none"]}

Symmetry == Permutations(Things) \cup Permutations(Scans) \cup Permutations(Checks)
=============================================================================
