------------------------------- MODULE Meshd -------------------------------
(***************************************************************************)
(* meshd (cmd/meshd/main.go) from start to exit, over a data directory     *)
(* that meshctl init and join may be writing to (module DataDir).          *)
(*                                                                         *)
(* The credential files are read one by one, ca.crt twice; then the        *)
(* listeners are opened and the servers and the advertisement started.     *)
(* Any step may fail, and run then returns through its deferred calls; a   *)
(* signal does the same once NotifyContext has been called, and kills      *)
(* before.  A server that stops serving is only logged.                    *)
(***************************************************************************)
EXTENDS DataDir

CONSTANTS MeshOf,    \* MeshOf[ca]: the mesh id in the CA of a run, or of MeshCA
          GRPCPort,  \* --grpc-port
          PairPort,  \* --pair-port
          FreePort,  \* the port that listening on port 0 gives
          MaxServeErrors \* bound: how many servers stop serving by themselves

ASSUME MeshdAssumption ==
    /\ GRPCPort \in Nat /\ PairPort \in Nat
    /\ FreePort \in 1 .. 65535
    /\ MaxServeErrors \in Nat

VARIABLES pc,          \* where run is
          coordinator, \* --coordinator
          read,        \* read[f]: what was read of file f, at the first and second time
          ports,       \* ports[s]: the port that listener s is bound to, 0 if none
          up,          \* what is running: servers and the advertisement
          dead,        \* the servers whose Serve returned
          signalled,   \* the context of NotifyContext is done
          disturbed    \* history: since the start, a run was active that may overwrite

meshdVars == <<pc, coordinator, read, ports, up, dead, signalled, disturbed>>

allVars == <<vars, meshdVars>>

\* What LoadIdentity reads, one after the other, and what follows.
Reads == <<"ca.crt", "node.crt", "node.key", "identify">>

NothingRead == [f \in {"ca.crt", "node.crt", "node.key", "signing.crt", "ca.key"} |-> Absent]

NoPorts == [s \in {"grpc", "pair"} |-> 0]

MeshdInit ==
    /\ Init
    /\ pc = "off" /\ coordinator = FALSE /\ read = NothingRead /\ ports = NoPorts
    /\ up = {} /\ dead = {} /\ signalled = FALSE /\ disturbed = FALSE

\* The process is gone: the operating system closes what it had open.
Off ==
    /\ pc' = "off" /\ coordinator' = FALSE /\ read' = NothingRead /\ ports' = NoPorts
    /\ up' = {} /\ dead' = {} /\ signalled' = FALSE /\ disturbed' = FALSE

\* run returns: the deferred calls that were registered run, last one first.
Return == pc' = CASE "advert" \in up -> "stopAdvert"
                  [] "advert" \notin up /\ "server" \in up \cup dead -> "stopServer"
                  [] {"advert", "server"} \cap (up \cup dead) = {} -> "stopPairing"

-----------------------------------------------------------------------------
(***************************************************************************)
(* Loading the identity.                                                   *)
(***************************************************************************)

\* A run is active that may write to a file that was complete: a forced one, or one
\* that had the file open when a forced one replaced it.
MayOverwrite == \E r \in Active : run[r].force \/ (forced /\ r \in overlap)

Launch(c) ==
    /\ pc = "off"
    /\ pc' = "ca.crt" /\ coordinator' = c /\ disturbed' = MayOverwrite
    /\ UNCHANGED <<vars, read, ports, up, dead, signalled>>

\* ParseCertPEM and ParseKeyPEM make something of the file.
Parses(f) == file[f] \in Runs

\* The three reads of LoadIdentity; a file that is missing or does not parse ends it.
ReadFile(f, next) ==
    /\ pc = f
    /\ Parses(f)
    /\ read' = [read EXCEPT ![f] = file[f]]
    /\ pc' = next
    /\ UNCHANGED <<vars, coordinator, ports, up, dead, signalled, disturbed>>

\* NewIdentity on what was read.
IdentityLoads ==
    /\ read["node.key"] = read["node.crt"]
    /\ CAOf(read["ca.crt"]) = CAOf(read["node.crt"])

\* NewIdentity and NotifyContext; parseIfaces may fail as well.
Identify ==
    /\ pc = "identify"
    /\ IdentityLoads
    /\ pc' = "listen"
    /\ UNCHANGED <<vars, coordinator, read, ports, up, dead, signalled, disturbed>>

-----------------------------------------------------------------------------
(***************************************************************************)
(* Listeners, servers and advertisement.                                   *)
(***************************************************************************)

BoundPort(p) == IF p = 0 THEN FreePort ELSE p

Listen ==
    /\ pc = "listen"
    /\ GRPCPort <= 65535
    /\ ports' = [ports EXCEPT !["grpc"] = BoundPort(GRPCPort)]
    /\ pc' = IF coordinator THEN "signing.crt" ELSE "serve"
    /\ UNCHANGED <<vars, coordinator, read, up, dead, signalled, disturbed>>

\* ReadCA reads ca.crt again, ...
ReadCACert ==
    /\ pc = "signing.crt"
    /\ Parses("ca.crt")
    /\ read' = [read EXCEPT !["signing.crt"] = file["ca.crt"]]
    /\ pc' = "ca.key"
    /\ UNCHANGED <<vars, coordinator, ports, up, dead, signalled, disturbed>>

\* Mutant: LoadCA does not compare certificate and key.
ReadCAKeyUnmatched ==
    /\ pc = "ca.key"
    /\ Parses("ca.key")
    /\ MeshOf[CAOf(read["signing.crt"])] = MeshOf[CAOf(read["ca.crt"])]
    /\ read' = [read EXCEPT !["ca.key"] = file["ca.key"]]
    /\ pc' = "listenPair"
    /\ UNCHANGED <<vars, coordinator, ports, up, dead, signalled, disturbed>>

\* ... and ca.key; LoadCA matches the two, and pairing.NewServer compares the name of
\* the mesh with the identity's.
ReadCAKey ==
    /\ pc = "ca.key"
    /\ Parses("ca.key") /\ file["ca.key"] = read["signing.crt"]
    /\ MeshOf[CAOf(read["signing.crt"])] = MeshOf[CAOf(read["ca.crt"])]
    /\ read' = [read EXCEPT !["ca.key"] = file["ca.key"]]
    /\ pc' = "listenPair"
    /\ UNCHANGED <<vars, coordinator, ports, up, dead, signalled, disturbed>>

\* The pairing listener, the admin service, and the goroutine that serves.
ListenPair ==
    /\ pc = "listenPair"
    /\ PairPort <= 65535 /\ BoundPort(PairPort) # ports["grpc"]
    /\ ports' = [ports EXCEPT !["pair"] = BoundPort(PairPort)]
    /\ up' = up \cup {"pairing"}
    /\ pc' = "serve"
    /\ UNCHANGED <<vars, coordinator, read, dead, signalled, disturbed>>

Serve ==
    /\ pc = "serve"
    /\ up' = up \cup {"server"}
    /\ pc' = "advertise"
    /\ UNCHANGED <<vars, coordinator, read, ports, dead, signalled, disturbed>>

\* NewMDNS and Start: the port must be one that can be announced.
Advertise ==
    /\ pc = "advertise"
    /\ GRPCPort > 0 /\ GRPCPort <= 65535
    /\ up' = up \cup {"advert"}
    /\ pc' = "running"
    /\ UNCHANGED <<vars, coordinator, read, ports, dead, signalled, disturbed>>

\* Any of these steps may return an error.
FailStart ==
    /\ pc \in {"ca.crt", "node.crt", "node.key", "identify", "listen", "signing.crt",
               "ca.key", "listenPair", "advertise"}
    /\ Return
    /\ UNCHANGED <<vars, coordinator, read, ports, up, dead, signalled, disturbed>>

-----------------------------------------------------------------------------
(***************************************************************************)
(* Running and stopping.                                                   *)
(***************************************************************************)

\* SIGINT or SIGTERM: before NotifyContext it kills.
Signal ==
    /\ pc # "off" /\ ~signalled
    /\ IF pc \in {"ca.crt", "node.crt", "node.key", "identify"}
       THEN Off
       ELSE signalled' = TRUE /\ UNCHANGED <<pc, coordinator, read, ports, up, dead, disturbed>>
    /\ UNCHANGED vars

\* Serve of one of the two gRPC servers returns; the error is logged.
ServeFails(s) ==
    /\ s \in up \ {"advert"} /\ Cardinality(dead) < MaxServeErrors
    /\ up' = up \ {s} /\ dead' = dead \cup {s}
    /\ UNCHANGED <<vars, pc, coordinator, read, ports, signalled, disturbed>>

\* Mutant: the event loop does not look at the context.
ShutDownDeaf == FALSE /\ UNCHANGED allVars

\* The event loop sees the context end; what else it does is in the module MDNS.
ShutDown ==
    /\ pc = "running" /\ signalled
    /\ Return
    /\ UNCHANGED <<vars, coordinator, read, ports, up, dead, signalled, disturbed>>

\* Mutant: the deferred calls run in the order in which they were registered.
DeferredInOrder(at) ==
    CASE at = "stopAdvert"  -> {"pairing", "server"}
      [] at = "stopServer"  -> {"advert"}
      [] at = "stopPairing" -> {}

\* md.Stop, srv.Stop, pairSrv.Stop: what each of the deferred calls ends.
Deferred(at) ==
    CASE at = "stopAdvert"  -> {"advert"}
      [] at = "stopServer"  -> {"server"}
      [] at = "stopPairing" -> {"pairing"}

StopNext ==
    /\ pc \in {"stopAdvert", "stopServer"}
    /\ up' = up \ Deferred(pc)
    /\ pc' = IF pc = "stopAdvert" THEN "stopServer" ELSE "stopPairing"
    /\ UNCHANGED <<vars, coordinator, read, ports, dead, signalled, disturbed>>

Exit == pc = "stopPairing" /\ Off /\ UNCHANGED vars

\* The process is killed.
Kill == pc # "off" /\ Off /\ UNCHANGED vars

\* A step of meshctl init or join on the same directory.
Meshctl ==
    /\ Next
    /\ disturbed' = (pc # "off" /\ (disturbed \/ MayOverwrite'))
    /\ UNCHANGED <<pc, coordinator, read, ports, up, dead, signalled>>

Startup ==
    \/ \E i \in 1 .. 3 : ReadFile(Reads[i], Reads[i + 1])
    \/ Identify \/ Listen \/ ReadCACert \/ ReadCAKey \/ ListenPair \/ Serve \/ Advertise
    \/ FailStart

Shutdown == ShutDown \/ StopNext \/ Exit

MeshdNext ==
    \/ \E c \in BOOLEAN : Launch(c)
    \/ Startup \/ Shutdown \/ Signal \/ Kill
    \/ \E s \in up : ServeFails(s)
    \/ Meshctl

\* The main goroutine runs.
MeshdSpec ==
    MeshdInit /\ [][MeshdNext]_allVars /\ WF_allVars(Startup) /\ WF_allVars(Shutdown)

-----------------------------------------------------------------------------
(***************************************************************************)
(* Properties.                                                             *)
(***************************************************************************)

\* Unless a forced run interferes, what meshd runs with is what is on the disk and
\* stays there, so that a restart gives the same node again: the files are read one
\* by one (LoadIdentity) while init and join may be writing them, and whatever
\* earlier runs, forced or crashed, left behind.
RunsWithWhatIsThere ==
    (~disturbed /\ pc \in {"running", "stopAdvert"}) =>
        /\ Loadable
        /\ \A f \in {"ca.crt", "node.crt", "node.key"} : read[f] = file[f]

\* Unless a forced run interferes, a coordinator signs with the CA that its own
\* certificate chains to, although ca.crt is read twice (LoadIdentity, ReadCA) and
\* NewServer compares only the names of the meshes.
SignsWithItsOwnCA ==
    (~disturbed /\ "pairing" \in up) => CAOf(read["ca.key"]) = CAOf(read["node.crt"])

\* What is advertised is served: while the advertisement is out, the servers whose
\* ports it names are up, unless Serve itself gave up, during start, an early return
\* and the deferred calls of a shutdown alike.
AdvertisedIsServed ==
    "advert" \in up =>
        /\ "server" \in up \cup dead
        /\ coordinator => "pairing" \in up \cup dead

\* A signal ends meshd, wherever in its start it comes.
SignalEnds == signalled ~> (pc = "off")
=============================================================================
