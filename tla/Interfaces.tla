----------------------------- MODULE Interfaces -----------------------------
(***************************************************************************)
(* Which addresses of a coordinator reach a joiner: the interfaces chosen  *)
(* for mDNS (internal/discovery/ifaces.go, parseIfaces of cmd/meshd), the  *)
(* address that `meshctl pair` prints (lanIPv4) and the one that a joiner  *)
(* dials when it discovers the coordinator (hostPort of                    *)
(* internal/discovery/peer.go).                                            *)
(*                                                                         *)
(* The state is the host's table of interfaces; every table up to a bound  *)
(* is reached.  An address is [host, v4].                                  *)
(***************************************************************************)
EXTENDS Slices, SequencesExt

CONSTANTS Flags,       \* the sets of flags that an interface may have
          Addrs,       \* the sequences of addresses that one may have
          MaxIfaces    \* bound: how many interfaces the host has

ASSUME InterfacesAssumption == MaxIfaces \in Nat

VARIABLE table

\* usable: up and multicast, neither loopback nor a tunnel.
usable(ifi) ==
    /\ {"up", "multicast"} \subseteq ifi.flags
    /\ {"loopback", "pointToPoint"} \cap ifi.flags = {}

\* Mutant: interfaces without an address are kept.
DefaultInterfacesAll(all) == Filter(all, {ifi \in Range(all) : usable(ifi)})

DefaultInterfaces(all) ==
    Filter(all, {ifi \in Range(all) : usable(ifi) /\ ifi.addrs # <<>>})

NoNames == <<>>

\* Mutant: a list of commas only is taken for a list.
parseIfacesErrorLax(names, all) ==
    IF \E i \in DOMAIN names : names[i] \notin DOMAIN all \cup {0}
    THEN "unknown" ELSE "none"

\* parseIfaces on what is between the commas: an interface is named by its place in
\* the table, and 0 stands for an empty name, which is skipped.
parseIfacesError(names, all) ==
    IF \E i \in DOMAIN names : names[i] \notin DOMAIN all \cup {0} THEN "unknown"
    ELSE IF names # NoNames /\ \A i \in DOMAIN names : names[i] = 0 THEN "empty"
    ELSE "none"

parseIfaces(names, all) ==
    LET given == Filter(names, Range(names) \ {0})
    IN  [i \in DOMAIN given |-> all[given[i]]]

\* Start: without --ifaces the default ones; none at all is an error.
StartError(ifaces) == IF ifaces = <<>> THEN "ErrNoInterface" ELSE "none"

Chosen(names, all) ==
    IF names = NoNames THEN DefaultInterfaces(all) ELSE parseIfaces(names, all)

V4(addrs) == Filter(addrs, {a \in Range(addrs) : a.v4})

V6(addrs) == Filter(addrs, {a \in Range(addrs) : ~a.v4})

AddressesOf(ifaces) ==
    LET addrs[n \in 0 .. Len(ifaces)] ==
            IF n = 0 THEN <<>> ELSE addrs[n - 1] \o ifaces[n].addrs
    IN  addrs[Len(ifaces)]

Fallback == [host |-> "127.0.0.1", v4 |-> TRUE]

\* Mutant: the first interface has to have the address.
lanIPv4First(all) ==
    LET v4 == IF DefaultInterfaces(all) = <<>> THEN <<>>
              ELSE V4(DefaultInterfaces(all)[1].addrs)
    IN  IF v4 = <<>> THEN Fallback ELSE v4[1]

\* lanIPv4, whatever --ifaces says.
lanIPv4(all) ==
    LET v4 == V4(AddressesOf(DefaultInterfaces(all)))
    IN  IF v4 = <<>> THEN Fallback ELSE v4[1]

\* hostPort: the first IPv4 address, failing that the first, failing that none.
hostPort(addrs) ==
    IF addrs = <<>> THEN <<>> ELSE <<Head(V4(addrs) \o addrs)>>

\* zeroconf announces the addresses of the interfaces it was given, IPv4 first; it
\* delivers no entry without an address.
AddressesAnnounced(ifaces) == V4(AddressesOf(ifaces)) \o V6(AddressesOf(ifaces))

InterfacesInit == table = <<>>

InterfacesExtend ==
    /\ Len(table) < MaxIfaces
    /\ \E f \in Flags, a \in Addrs : table' = Append(table, [flags |-> f, addrs |-> a])

-----------------------------------------------------------------------------
(***************************************************************************)
(* Properties.                                                             *)
(***************************************************************************)

\* The two ways to a coordinator agree: without --ifaces, the host that meshctl pair
\* prints is the one that a joiner dials after discovery, as soon as the coordinator
\* has an IPv4 address on an interface that discovery uses (lanIPv4 in cmd/meshd,
\* hostPort in discovery).
PrintedHostIsDiscovered ==
    LET known == AddressesAnnounced(Chosen(NoNames, table))
    IN  V4(known) # <<>> => hostPort(known) = <<lanIPv4(table)>>

\* A meshd without --ifaces that gets past Start can be dialled: the interfaces it
\* announces on have an address, none of a tunnel or of the loopback.
StartedIsReachable ==
    LET ifaces == Chosen(NoNames, table)
    IN  StartError(ifaces) = "none" =>
            /\ hostPort(AddressesAnnounced(ifaces)) # <<>>
            /\ \A i \in DOMAIN ifaces :
                  {"loopback", "pointToPoint"} \cap ifaces[i].flags = {}

\* An --ifaces that parseIfaces accepts never falls back to other interfaces and
\* never leaves Start without one.
GivenIfacesAreUsed ==
    \A names \in [1 .. 2 -> 0 .. MaxIfaces] :
        parseIfacesError(names, table) = "none" =>
            /\ StartError(Chosen(names, table)) = "none"
            /\ \A ifi \in Range(Chosen(names, table)) :
                  \E i \in DOMAIN names : names[i] # 0 /\ ifi = table[names[i]]
=============================================================================
